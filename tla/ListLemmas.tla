------------------------------ MODULE ListLemmas ------------------------------
(***************************************************************************)
(* What the proofs need to know of natural numbers, of loops, of orders of *)
(* a set and of lists that lose an element; and the theorems about the     *)
(* heaps of EvHeap: each operation makes a heap that is right of one that  *)
(* is, and changes the watchers in it as it should.                        *)
(***************************************************************************)
EXTENDS EvHeap, FiniteSetTheorems, SequenceTheorems, WellFoundedInduction, TLAPS

-------------------------------------------------------------------------------
(* Natural numbers *)

\* A set of numbers that is not empty has a least element.
LEMMA LeastNat ==
    ASSUME NEW S \in SUBSET Nat, S # {}
    PROVE  \E m \in S : \A n \in S : m <= n
<1> DEFINE R == OpToRel(<, Nat)
<1>1. IsWellFoundedOn(R, Nat)
  BY NatLessThanWellFounded
<1> HIDE DEF R
<1>2. \E m \in S : \A n \in S : ~(<<n, m>> \in R)
  BY <1>1, WFMin
<1>3. PICK m \in S : \A n \in S : ~(<<n, m>> \in R)
  BY <1>2
<1>4. ASSUME NEW n \in S
      PROVE  m <= n
  <2>1. ~(<<n, m>> \in R) /\ m \in Nat /\ n \in Nat
    BY <1>3
  <2>2. ~(n < m)
    BY <2>1 DEF R, OpToRel
  <2> QED
    BY <2>1, <2>2
<1> QED
  BY <1>3, <1>4

\* Induction, for a set of numbers.
LEMMA InductionOnSet ==
    ASSUME NEW S, 0 \in S, \A n \in Nat : n \in S => n + 1 \in S
    PROVE  Nat \subseteq S
<1> SUFFICES ASSUME Nat \ S # {} PROVE FALSE
  OBVIOUS
<1>1. PICK m \in Nat \ S : \A n \in Nat \ S : m <= n
  BY LeastNat
<1>2. m # 0 /\ m \in Nat
  BY <1>1
<1>3. m - 1 \in Nat /\ m = (m - 1) + 1 /\ ~(m <= m - 1)
  BY <1>2
<1>4. m - 1 \in S
  BY <1>1, <1>3
<1> QED
  BY <1>1, <1>3, <1>4

\* Min of a set of numbers is one of them, and no other is less.
LEMMA MinNat ==
    ASSUME NEW S \in SUBSET Nat, S # {}
    PROVE  Min(S) \in S /\ \A n \in S : Min(S) <= n
BY LeastNat, Zenon DEF Min

-------------------------------------------------------------------------------
(* Lists *)

\* RemoveFirst takes out one place i that holds e, if there is one: the
\* elements before it stay where they are and those after it move up.
LEMMA RemoveFirstPlaces ==
    ASSUME NEW S, NEW s \in Seq(S), NEW e, Contains(s, e)
    PROVE  \E i \in 1 .. Len(s) :
             /\ s[i] = e
             /\ RemoveFirst(s, e) \in Seq(S)
             /\ Len(RemoveFirst(s, e)) = Len(s) - 1
             /\ \A k \in 1 .. Len(s) - 1 :
                  RemoveFirst(s, e)[k] = IF k < i THEN s[k] ELSE s[k + 1]
<1> DEFINE I == {j \in 1 .. Len(s) : s[j] = e}
           i == Min(I)
<1>1. Len(s) \in Nat
  OBVIOUS
<1>2. I \in SUBSET Nat /\ I # {}
  BY <1>1 DEF Contains
<1>3. i \in I
  BY <1>2, MinNat
<1>4. i \in 1 .. Len(s) /\ s[i] = e
  BY <1>3
<1>5. RemoveFirst(s, e) = SubSeq(s, 1, i - 1) \o SubSeq(s, i + 1, Len(s))
  BY <1>2, Zenon DEF RemoveFirst, RemoveAt, SelectInSeq, Contains
<1> HIDE DEF i, I
<1> DEFINE a == SubSeq(s, 1, i - 1)  b == SubSeq(s, i + 1, Len(s))
<1>6. /\ a \in Seq(S) /\ Len(a) = i - 1
      /\ \A k \in 1 .. i - 1 : a[k] = s[k]
  BY <1>1, <1>4
<1>7. /\ b \in Seq(S) /\ Len(b) = Len(s) - i
      /\ \A k \in 1 .. Len(s) - i : b[k] = s[k + i]
  BY <1>1, <1>4
<1> HIDE DEF a, b
<1>8. a \o b \in Seq(S) /\ Len(a \o b) = Len(s) - 1
  <2>1. a \in Seq(S) /\ b \in Seq(S)
    BY <1>6, <1>7
  <2>2. a \o b \in Seq(S) /\ Len(a \o b) = Len(a) + Len(b)
    BY <2>1
  <2>3. (i - 1) + (Len(s) - i) = Len(s) - 1
    BY <1>1, <1>4
  <2>4. Len(a) + Len(b) = Len(s) - 1
    BY <1>6, <1>7, <2>3, Zenon
  <2> QED
    BY <2>2, <2>4, Zenon
<1>9. ASSUME NEW k \in 1 .. Len(s) - 1
      PROVE  (a \o b)[k] = IF k < i THEN s[k] ELSE s[k + 1]
  <2>1. CASE k < i
    <3>1. k \in 1 .. Len(a)
      BY <1>4, <1>6, <2>1
    <3> QED
      BY <1>6, <1>7, <2>1, <3>1
  <2>2. CASE ~(k < i)
    <3>1. k \in Len(a) + 1 .. Len(a) + Len(b) /\ k - Len(a) \in 1 .. Len(s) - i
      BY <1>1, <1>4, <1>6, <1>7, <2>2
    <3>2. (a \o b)[k] = b[k - Len(a)]
      BY <1>6, <1>7, <3>1
    <3>3. b[k - Len(a)] = s[(k - Len(a)) + i]
      BY <1>7, <3>1
    <3>4. (k - Len(a)) + i = k + 1
      BY <1>1, <1>4, <1>6
    <3> QED
      BY <2>2, <3>2, <3>3, <3>4
  <2> QED
    BY <2>1, <2>2
<1> QED
  BY <1>4, <1>5, <1>8, <1>9 DEF a, b

\* Removing what is not in the list does nothing.
LEMMA RemoveFirstAbsent ==
    ASSUME NEW s, NEW e, ~Contains(s, e)
    PROVE  RemoveFirst(s, e) = s
BY Zenon DEF RemoveFirst, Contains

\* Every element of t is one of s, and they come in the same order.
Sublist(t, s) ==
    /\ \A k \in DOMAIN t : \E i \in DOMAIN s : t[k] = s[i]
    /\ \A k, l \in DOMAIN t : k < l =>
         \E i, j \in DOMAIN s : i < j /\ t[k] = s[i] /\ t[l] = s[j]

\* No element of s is there twice.
Distinct(s) == \A i, j \in DOMAIN s : i < j => s[i] # s[j]

\* RemoveFirst keeps the others, in their order, and takes e out of a list
\* without duplicates.
LEMMA RemoveFirstKeeps ==
    ASSUME NEW S, NEW s \in Seq(S), NEW e
    PROVE  /\ RemoveFirst(s, e) \in Seq(S)
           /\ Sublist(RemoveFirst(s, e), s)
           /\ \A x : Contains(s, x) /\ x # e => Contains(RemoveFirst(s, e), x)
           /\ Distinct(s) => ~Contains(RemoveFirst(s, e), e)
<1> DEFINE t == RemoveFirst(s, e)
<1>0. Len(s) \in Nat /\ DOMAIN s = 1 .. Len(s)
  OBVIOUS
<1>1. CASE ~Contains(s, e)
  <2>1. t = s
    BY <1>1, RemoveFirstAbsent, Zenon
  <2> HIDE DEF t
  <2> QED
    BY <1>0, <1>1, <2>1 DEF Sublist, t
<1>2. CASE Contains(s, e)
  <2>1. PICK p \in 1 .. Len(s) :
            /\ s[p] = e
            /\ t \in Seq(S)
            /\ Len(t) = Len(s) - 1
            /\ \A k \in 1 .. Len(s) - 1 : t[k] = IF k < p THEN s[k] ELSE s[k + 1]
    BY <1>2, RemoveFirstPlaces
  <2> HIDE DEF t
  <2> DEFINE f(k) == IF k < p THEN k ELSE k + 1
  <2>2. DOMAIN t = 1 .. Len(s) - 1
    BY <1>0, <2>1
  <2>3. \A k \in DOMAIN t : f(k) \in DOMAIN s /\ t[k] = s[f(k)] /\ f(k) # p
    BY <1>0, <2>1, <2>2
  <2>4. \A k, l \in DOMAIN t : k < l => f(k) < f(l)
    BY <1>0, <2>1, <2>2
  <2> HIDE DEF f
  <2>5. Sublist(t, s)
    BY <2>3, <2>4 DEF Sublist
  <2>6. ASSUME NEW x, Contains(s, x), x # e
        PROVE  Contains(t, x)
    <3>1. PICK i \in 1 .. Len(s) : s[i] = x
      BY <2>6 DEF Contains
    <3>2. CASE i < p
      BY <1>0, <2>1, <3>1, <3>2 DEF Contains
    <3>3. CASE ~(i < p)
      <4>1. i # p
        BY <2>1, <2>6, <3>1
      <4>2. i - 1 \in 1 .. Len(s) - 1 /\ ~(i - 1 < p) /\ (i - 1) + 1 = i
        BY <1>0, <2>1, <3>1, <3>3, <4>1
      <4>3. t[i - 1] = x
        BY <2>1, <3>1, <4>2
      <4> QED
        BY <2>1, <4>2, <4>3 DEF Contains
    <3> QED
      BY <3>2, <3>3
  <2>7. ASSUME Distinct(s)
        PROVE  ~Contains(t, e)
    <3> SUFFICES ASSUME NEW k \in 1 .. Len(t), t[k] = e PROVE FALSE
      BY DEF Contains
    <3>1. k \in DOMAIN t
      BY <2>1
    <3>2. f(k) \in DOMAIN s /\ s[f(k)] = s[p] /\ f(k) # p /\ p \in DOMAIN s
      BY <1>0, <2>1, <2>3, <3>1
    <3>3. f(k) < p \/ p < f(k)
      BY <1>0, <3>2
    <3> QED
      BY <2>7, <3>2, <3>3 DEF Distinct
  <2> QED
    BY <2>1, <2>5, <2>6, <2>7 DEF t
<1> QED
  BY <1>1, <1>2

\* Taking the head leaves the others, in their order.
LEMMA TailKeeps ==
    ASSUME NEW S, NEW s \in Seq(S), s # <<>>
    PROVE  /\ Head(s) \in S /\ Contains(s, Head(s))
           /\ Tail(s) \in Seq(S)
           /\ \A x : Contains(s, x) <=> Contains(Tail(s), x) \/ x = Head(s)
           /\ Distinct(s) => Distinct(Tail(s)) /\ ~Contains(Tail(s), Head(s))
<1>1. Len(s) \in Nat \ {0} /\ DOMAIN s = 1 .. Len(s) /\ Head(s) = s[1] /\ Head(s) \in S
  OBVIOUS
<1>2. /\ Tail(s) \in Seq(S) /\ Len(Tail(s)) = Len(s) - 1 /\ DOMAIN Tail(s) = 1 .. Len(s) - 1
      /\ \A i \in 1 .. Len(s) - 1 : Tail(s)[i] = s[i + 1]
  BY <1>1
<1>3. ASSUME NEW x, Contains(s, x), x # Head(s)
      PROVE  Contains(Tail(s), x)
  <2>1. PICK i \in 1 .. Len(s) : s[i] = x
    BY <1>3 DEF Contains
  <2>2. i - 1 \in 1 .. Len(s) - 1 /\ (i - 1) + 1 = i
    BY <1>1, <1>3, <2>1
  <2> QED
    BY <1>2, <2>1, <2>2 DEF Contains
<1>4. ASSUME NEW x, Contains(Tail(s), x)
      PROVE  Contains(s, x)
  BY <1>1, <1>2, <1>4 DEF Contains
<1>5. Contains(s, Head(s))
  BY <1>1 DEF Contains
<1>6. ASSUME Distinct(s)
      PROVE  Distinct(Tail(s)) /\ ~Contains(Tail(s), Head(s))
  BY <1>1, <1>2, <1>6 DEF Distinct, Contains
<1> QED
  BY <1>1, <1>2, <1>3, <1>4, <1>5, <1>6

\* Appending what is not in the list leaves it without duplicates.
LEMMA AppendKeeps ==
    ASSUME NEW S, NEW s \in Seq(S), NEW e \in S, Distinct(s), ~Contains(s, e)
    PROVE  /\ Append(s, e) \in Seq(S) /\ Distinct(Append(s, e))
           /\ \A x : Contains(Append(s, e), x) <=> Contains(s, x) \/ x = e
<1> DEFINE t == Append(s, e)
<1>1. /\ Len(s) \in Nat /\ DOMAIN s = 1 .. Len(s)
      /\ t \in Seq(S) /\ Len(t) = Len(s) + 1 /\ DOMAIN t = 1 .. Len(s) + 1
      /\ \A i \in 1 .. Len(s) : t[i] = s[i]
      /\ t[Len(s) + 1] = e
  OBVIOUS
<1>2. \A i \in 1 .. Len(s) + 1 : i \in 1 .. Len(s) \/ i = Len(s) + 1
  BY <1>1
<1> HIDE DEF t
<1>3. Distinct(t)
  BY <1>1, <1>2 DEF Distinct, Contains
<1>4. \A x : Contains(t, x) <=> Contains(s, x) \/ x = e
  BY <1>1, <1>2 DEF Contains
<1> QED
  BY <1>1, <1>3, <1>4 DEF t

\* SetToSeq lists a set, without leaving anything out.
LEMMA SetToSeqOnto ==
    ASSUME NEW S, IsFiniteSet(S)
    PROVE  /\ SetToSeq(S) \in Seq(S)
           /\ \A e \in S : \E i \in 1 .. Len(SetToSeq(S)) : SetToSeq(S)[i] = e
<1> DEFINE n == Cardinality(S)
           s == SetToSeq(S)
<1>1. n \in Nat /\ ExistsBijection(1 .. n, S)
  BY FS_CardinalityType
<1>2. \E f \in [1 .. n -> S] : IsInjective(f)
  BY <1>1, Zenon DEF ExistsBijection, Bijection, Injection
<1>3. s \in [1 .. n -> S] /\ IsInjective(s)
  BY <1>2, Zenon DEF SetToSeq
<1> HIDE DEF s
<1>4. s \in Injection(1 .. n, S)
  BY <1>3, Zenon DEF Injection
<1>5. Cardinality(1 .. n) = n
  BY <1>1, FS_Interval
<1>6. s \in Surjection(1 .. n, S)
  BY <1>4, <1>5, FS_Injection, Zenon
<1> HIDE DEF n
<1>7. s \in Seq(S) /\ Len(s) = n
  BY <1>1, <1>3
<1>8. \A e \in S : \E i \in 1 .. n : s[i] = e
  BY <1>6, Zenon DEF Surjection
<1> QED
  BY <1>7, <1>8 DEF s

\* SetToSeq lists nothing twice.
LEMMA SetToSeqOnce ==
    ASSUME NEW S, IsFiniteSet(S)
    PROVE  \A i, j \in 1 .. Len(SetToSeq(S)) : SetToSeq(S)[i] = SetToSeq(S)[j] => i = j
<1> DEFINE n == Cardinality(S)
           s == SetToSeq(S)
<1>1. n \in Nat /\ ExistsBijection(1 .. n, S)
  BY FS_CardinalityType
<1>2. \E f \in [1 .. n -> S] : IsInjective(f)
  BY <1>1, Zenon DEF ExistsBijection, Bijection, Injection
<1>3. s \in [1 .. n -> S] /\ IsInjective(s)
  BY <1>2, Zenon DEF SetToSeq
<1> HIDE DEF s
<1>4. \A i, j \in 1 .. n : s[i] = s[j] => i = j
  BY <1>3, Zenon DEF IsInjective
<1>5. Len(s) = n
  BY <1>1, <1>3
<1> QED
  BY <1>4, <1>5 DEF s

-------------------------------------------------------------------------------
(* Loops *)

\* A loop of L steps from x stays in S: it is in S[n] after n steps when its
\* n-th step, g[<<n, .>>], goes from S[n - 1] to S[n].
Stays(L, x, S, g) ==
    x \in S[0] /\ \A n \in 1 .. L : \A y \in S[n - 1] : g[<<n, y>>] \in S[n]

\* f is the run of the loop.
LoopRun(f, L, x, g) ==
    /\ DOMAIN f = 0 .. L /\ f = [n \in 0 .. L |-> f[n]]
    /\ f[0] = x /\ \A n \in 1 .. L : f[n] = g[<<n, f[n - 1]>>]

RunStays(L, x, S, g) == \E f : LoopRun(f, L, x, g) /\ \A n \in 0 .. L : f[n] \in S[n]

\* Such a loop has a run, and the run stays in S.
LEMMA LoopRuns ==
    ASSUME NEW L \in Nat, NEW x, NEW S, NEW g, Stays(L, x, S, g)
    PROVE  RunStays(L, x, S, g)
<1> DEFINE T == {m \in Nat : m <= L => RunStays(m, x, S, g)}
<1>1. 0 \in T
  <2> DEFINE f == [n \in 0 .. 0 |-> x]
  <2>1. LoopRun(f, 0, x, g) /\ \A n \in 0 .. 0 : f[n] \in S[n]
    BY DEF LoopRun, Stays
  <2> QED
    BY <2>1 DEF RunStays
<1>2. ASSUME NEW m \in Nat, m \in T
      PROVE  m + 1 \in T
  <2> SUFFICES ASSUME m + 1 <= L PROVE RunStays(m + 1, x, S, g)
    OBVIOUS
  <2>1. PICK f : LoopRun(f, m, x, g) /\ \A n \in 0 .. m : f[n] \in S[n]
    BY <1>2 DEF RunStays
  <2> DEFINE y == g[<<m + 1, f[m]>>]
             h == [n \in 0 .. m + 1 |-> IF n <= m THEN f[n] ELSE y]
  <2>2. m + 1 \in 1 .. L /\ (m + 1) - 1 = m /\ ~(m + 1 <= m) /\ m \in 0 .. m /\ m + 1 \in 0 .. m + 1
    OBVIOUS
  <2>3. y \in S[m + 1]
    BY <2>1, <2>2 DEF Stays
  <2>4. /\ DOMAIN h = 0 .. m + 1 /\ h = [n \in 0 .. m + 1 |-> h[n]] /\ h[m + 1] = y
        /\ \A n \in 0 .. m : h[n] = f[n]
    BY <2>2
  <2> HIDE DEF h
  <2>5. \A n \in 0 .. m + 1 : n = m + 1 \/ n \in 0 .. m
    OBVIOUS
  <2>6. \A n \in 0 .. m + 1 : h[n] \in S[n]
    BY <2>1, <2>3, <2>4, <2>5
  <2>7. ASSUME NEW n \in 1 .. m + 1
        PROVE  h[n] = g[<<n, h[n - 1]>>]
    <3>1. CASE n = m + 1
      BY <2>2, <2>4, <3>1
    <3>2. CASE n # m + 1
      <4>1. n \in 1 .. m /\ n \in 0 .. m /\ n - 1 \in 0 .. m
        BY <3>2
      <4> QED
        BY <2>1, <2>4, <4>1 DEF LoopRun
    <3> QED
      BY <3>1, <3>2
  <2>8. h[0] = x
    <3>1. f[0] = x
      BY <2>1, Zenon DEF LoopRun
    <3>2. 0 \in 0 .. m
      OBVIOUS
    <3>3. h[0] = f[0]
      BY <2>4, <3>2, Zenon
    <3> QED
      BY <3>1, <3>3, Zenon
  <2>9. LoopRun(h, m + 1, x, g)
    BY <2>4, <2>7, <2>8 DEF LoopRun
  <2> QED
    BY <2>6, <2>9 DEF RunStays
<1>3. L \in T
  <2> HIDE DEF T
  <2> QED
    BY <1>1, <1>2, InductionOnSet
<1> QED
  BY <1>3

\* What computes the steps of the loop stays in S.
LEMMA LoopStays ==
    ASSUME NEW L \in Nat, NEW x, NEW S, NEW g, Stays(L, x, S, g),
           NEW f, f[0] = x, \A n \in 1 .. L : f[n - 1] \in S[n - 1] => f[n] = g[<<n, f[n - 1]>>]
    PROVE  f[L] \in S[L]
<1> DEFINE T == {m \in Nat : m <= L => f[m] \in S[m]}
<1>1. 0 \in T
  BY DEF Stays
<1>2. ASSUME NEW m \in Nat, m \in T
      PROVE  m + 1 \in T
  <2> SUFFICES ASSUME m + 1 <= L PROVE f[m + 1] \in S[m + 1]
    OBVIOUS
  <2>1. m + 1 \in 1 .. L /\ (m + 1) - 1 = m /\ m <= L
    OBVIOUS
  <2> QED
    BY <1>2, <2>1 DEF Stays
<1>3. L \in T
  <2> HIDE DEF T
  <2> QED
    BY <1>1, <1>2, InductionOnSet
<1> QED
  BY <1>3

-------------------------------------------------------------------------------
(* Paths: sequences that a recursive function builds step by step *)

\* f gives the path from each place of D: places of G go on to the next.
IsPaths(f, D, G, next) ==
    f = [k \in D |-> IF k \in G THEN <<k>> \o f[next[k]] ELSE <<k>>]

\* p goes from k to a place that is not in G.
IsPath(p, k, D, G, next) ==
    /\ p \in Seq(D) /\ Len(p) >= 1 /\ p[1] = k
    /\ \A j \in 1 .. Len(p) - 1 : p[j] \in G /\ p[j + 1] = next[p[j]]
    /\ p[Len(p)] \notin G

\* When each step makes the rank less, there are such paths.
LEMMA PathsExist ==
    ASSUME NEW D, NEW G \in SUBSET D, NEW next \in [G -> D], NEW rank \in [D -> Nat],
           NEW M \in Nat, \A k \in D : rank[k] < M,
           \A k \in G : rank[next[k]] < rank[k]
    PROVE  \E f : IsPaths(f, D, G, next)
<1> DEFINE Low(m) == {k \in D : rank[k] < m}
           Is(f, m) == IsPaths(f, Low(m), G, next)
           T == {m \in Nat : \E f : Is(f, m)}
<1>1. 0 \in T
  <2>1. Low(0) = {}
    OBVIOUS
  <2> HIDE DEF Low
  <2>2. Is([k \in Low(0) |-> <<k>>], 0)
    BY <2>1 DEF IsPaths
  <2> QED
    BY <2>2
<1>2. ASSUME NEW m \in Nat, m \in T
      PROVE  m + 1 \in T
  <2>1. PICK f : Is(f, m)
    BY <1>2
  <2> DEFINE h == [k \in Low(m + 1) |-> IF k \in G THEN <<k>> \o f[next[k]] ELSE <<k>>]
  <2>2. \A k \in Low(m + 1) : k \in G => next[k] \in Low(m) /\ next[k] \in Low(m + 1)
    OBVIOUS
  <2>3. \A k \in Low(m) : k \in Low(m + 1)
    OBVIOUS
  <2> HIDE DEF Low
  <2>4. \A k \in Low(m) : h[k] = f[k]
    BY <2>1, <2>3 DEF IsPaths
  <2>5. \A k \in Low(m + 1) : k \in G => h[next[k]] = f[next[k]]
    BY <2>2, <2>4
  <2>6. h = [k \in Low(m + 1) |-> IF k \in G THEN <<k>> \o h[next[k]] ELSE <<k>>]
    <3> DEFINE g == [k \in Low(m + 1) |-> IF k \in G THEN <<k>> \o h[next[k]] ELSE <<k>>]
    <3>1. \A k \in Low(m + 1) : h[k] = g[k]
      BY <2>5
    <3> QED
      BY <3>1
  <2>7. Is(h, m + 1)
    BY <2>6, Zenon DEF IsPaths
  <2> HIDE DEF h
  <2> QED
    BY <2>7
<1>3. M \in T
  <2> HIDE DEF T
  <2> QED
    BY <1>1, <1>2, InductionOnSet
<1>4. Low(M) = D
  OBVIOUS
<1> QED
  BY <1>3, <1>4

\* The path from a place ends outside of G.
LEMMA PathsArePaths ==
    ASSUME NEW D, NEW G \in SUBSET D, NEW next \in [G -> D], NEW rank \in [D -> Nat],
           NEW M \in Nat, \A k \in D : rank[k] < M,
           \A k \in G : rank[next[k]] < rank[k],
           NEW f, IsPaths(f, D, G, next)
    PROVE  \A k \in D : IsPath(f[k], k, D, G, next)
<1> DEFINE T == {m \in Nat : \A k \in D : rank[k] < m => IsPath(f[k], k, D, G, next)}
<1>1. 0 \in T
  OBVIOUS
<1>2. ASSUME NEW m \in Nat, m \in T
      PROVE  m + 1 \in T
  <2> SUFFICES ASSUME NEW k \in D, rank[k] < m + 1 PROVE IsPath(f[k], k, D, G, next)
    OBVIOUS
  <2>1. CASE k \notin G
    <3>1. f[k] = <<k>>
      BY <2>1 DEF IsPaths
    <3>2. <<k>> \in Seq(D) /\ Len(<<k>>) = 1 /\ <<k>>[1] = k
      OBVIOUS
    <3> QED
      BY <2>1, <3>1, <3>2 DEF IsPath
  <2>2. CASE k \in G
    <3> DEFINE q == f[next[k]]
               p == <<k>> \o q
    <3>1. f[k] = p
      BY <2>2 DEF IsPaths
    <3>2. next[k] \in D /\ rank[next[k]] < m
      BY <2>2
    <3>3. IsPath(q, next[k], D, G, next)
      BY <1>2, <3>2
    <3> HIDE DEF q
    <3>4. q \in Seq(D) /\ Len(q) \in Nat /\ Len(q) >= 1
      BY <3>3 DEF IsPath
    <3>5. /\ p \in Seq(D) /\ Len(p) = Len(q) + 1 /\ p[1] = k
          /\ \A j \in 1 .. Len(q) : p[j + 1] = q[j]
      BY <3>4
    <3> HIDE DEF p
    <3>6. p[Len(p)] \notin G
      <4>1. Len(q) \in 1 .. Len(q) /\ q[Len(q)] \notin G
        BY <3>3, <3>4 DEF IsPath
      <4>2. p[Len(p)] = q[Len(q)]
        BY <3>5, <4>1
      <4> QED
        BY <4>1, <4>2
    <3>7. ASSUME NEW j \in 1 .. Len(p) - 1
          PROVE  p[j] \in G /\ p[j + 1] = next[p[j]]
      <4>1. CASE j = 1
        <5>1. p[1 + 1] = q[1] /\ q[1] = next[k]
          BY <3>3, <3>4, <3>5 DEF IsPath
        <5> QED
          BY <2>2, <3>5, <4>1, <5>1
      <4>2. CASE j # 1
        <5>1. j - 1 \in 1 .. Len(q) - 1 /\ j - 1 \in 1 .. Len(q) /\ j \in 1 .. Len(q) /\ (j - 1) + 1 = j
          BY <3>4, <3>5, <4>2
        <5>2. q[j - 1] \in G /\ q[j] = next[q[j - 1]]
          BY <3>3, <5>1 DEF IsPath
        <5>3. p[j] = q[j - 1] /\ p[j + 1] = q[j]
          BY <3>5, <5>1
        <5> QED
          BY <5>2, <5>3
      <4> QED
        BY <4>1, <4>2
    <3> QED
      BY <3>1, <3>4, <3>5, <3>6, <3>7 DEF IsPath
  <2> QED
    BY <2>1, <2>2
<1>3. M \in T
  <2> HIDE DEF T
  <2> QED
    BY <1>1, <1>2, InductionOnSet
<1> QED
  BY <1>3

\* A path whose ranks fall visits no place twice.
LEMMA PathFalls ==
    ASSUME NEW D, NEW G \in SUBSET D, NEW next \in [G -> D], NEW rank \in [D -> Nat],
           \A k \in G : rank[next[k]] < rank[k],
           NEW p, NEW k, IsPath(p, k, D, G, next)
    PROVE  \A i, j \in 1 .. Len(p) : i < j => rank[p[j]] < rank[p[i]]
<1>1. Len(p) \in Nat /\ \A i \in 1 .. Len(p) : p[i] \in D /\ rank[p[i]] \in Nat
  BY DEF IsPath
<1> DEFINE T == {n \in Nat : \A i \in 1 .. Len(p) :
                    i + n + 1 <= Len(p) => rank[p[i + n + 1]] < rank[p[i]]}
<1>2. \A i \in 1 .. Len(p) : i + 1 <= Len(p) => rank[p[i + 1]] < rank[p[i]]
  <2> SUFFICES ASSUME NEW i \in 1 .. Len(p), i + 1 <= Len(p)
               PROVE  rank[p[i + 1]] < rank[p[i]]
    OBVIOUS
  <2>1. i \in 1 .. Len(p) - 1
    BY <1>1
  <2> QED
    BY <2>1 DEF IsPath
<1>3. 0 \in T
  BY <1>1, <1>2
<1>4. ASSUME NEW n \in Nat, n \in T
      PROVE  n + 1 \in T
  <2> SUFFICES ASSUME NEW i \in 1 .. Len(p), i + (n + 1) + 1 <= Len(p)
               PROVE  rank[p[i + (n + 1) + 1]] < rank[p[i]]
    OBVIOUS
  <2> DEFINE j == i + n + 1
  <2>1. j \in 1 .. Len(p) /\ j + 1 <= Len(p) /\ i + (n + 1) + 1 = j + 1 /\ j + 1 \in 1 .. Len(p)
    BY <1>1
  <2>2. rank[p[j]] < rank[p[i]]
    BY <1>4, <2>1
  <2> HIDE DEF j
  <2>3. rank[p[j + 1]] < rank[p[j]]
    BY <1>2, <2>1
  <2> QED
    BY <1>1, <2>1, <2>2, <2>3
<1>5. Nat \subseteq T
  <2> HIDE DEF T
  <2> QED
    BY <1>3, <1>4, InductionOnSet
<1> SUFFICES ASSUME NEW i \in 1 .. Len(p), NEW j \in 1 .. Len(p), i < j
             PROVE  rank[p[j]] < rank[p[i]]
  OBVIOUS
<1>6. (j - i) - 1 \in Nat /\ i + ((j - i) - 1) + 1 = j
  BY <1>1
<1>7. (j - i) - 1 \in T
  BY <1>5, <1>6
<1>8. \A m \in T : i + m + 1 <= Len(p) => rank[p[i + m + 1]] < rank[p[i]]
  OBVIOUS
<1> HIDE DEF T
<1> QED
  BY <1>1, <1>6, <1>7, <1>8

-------------------------------------------------------------------------------
(* The heap of EvHeap *)

\* The parent of a place is nearer to the root.
LEMMA ParentBefore ==
    ASSUME NEW k \in Nat, k >= 2
    PROVE  HPARENT(k) \in 1 .. k - 1
BY DEF HPARENT, DHEAP

\* The children of a place are those whose parent it is.
LEMMA ChildrenHaveParent ==
    ASSUME NEW k \in Nat \ {0}, NEW n \in Nat, NEW i
    PROVE  i \in Children(k, n) <=> i \in 2 .. n /\ HPARENT(i) = k
BY DEF Children, HPARENT, DHEAP

\* A set of places has a first among its earliest.
LEMMA FirstOfEarliest ==
    ASSUME NEW a \in Nat, NEW n \in Nat, NEW f, NEW C \in SUBSET (a .. a + n), C # {},
           \A i \in C : f[i] \in Int
    PROVE  \E i \in C : \A j \in C : f[i] < f[j] \/ (f[i] = f[j] /\ i <= j)
<1> DEFINE Min1(i, B) == \A j \in B : f[i] < f[j] \/ (f[i] = f[j] /\ i <= j)
           T == {m \in Nat : \A B \in SUBSET (a .. a + m) :
                   B # {} /\ (\A i \in B : f[i] \in Int) => \E i \in B : Min1(i, B)}
<1>1. 0 \in T
  <2> SUFFICES ASSUME NEW B \in SUBSET (a .. a + 0), B # {}, \A i \in B : f[i] \in Int
               PROVE  \E i \in B : Min1(i, B)
    OBVIOUS
  <2>1. \A i \in B : i = a
    OBVIOUS
  <2>2. PICK i \in B : TRUE
    OBVIOUS
  <2>3. \A j \in B : j = i /\ f[j] \in Int /\ i <= j
    BY <2>1
  <2> QED
    BY <2>3
<1>2. ASSUME NEW m \in Nat, m \in T
      PROVE  m + 1 \in T
  <2> SUFFICES ASSUME NEW B \in SUBSET (a .. a + (m + 1)), B # {}, \A i \in B : f[i] \in Int
               PROVE  \E i \in B : Min1(i, B)
    OBVIOUS
  <2> DEFINE z == a + (m + 1)
             R == B \ {z}
  <2>0. R \in SUBSET (a .. a + m) /\ (\A i \in R : f[i] \in Int /\ i <= z /\ i # z /\ i \in Int)
    OBVIOUS
  <2>1. CASE z \notin B
    <3>1. R = B
      BY <2>1
    <3> QED
      BY <1>2, <2>0, <3>1
  <2>2. CASE z \in B /\ R = {}
    <3>1. f[z] \in Int /\ z \in Int /\ \A i \in B : i = z
      BY <2>2
    <3> QED
      BY <2>2, <3>1
  <2>3. CASE z \in B /\ R # {}
    <3>1. PICK i \in R : Min1(i, R)
      BY <1>2, <2>0, <2>3
    <3>2. f[z] \in Int /\ f[i] \in Int /\ \A j \in B : j \in R \/ j = z
      BY <2>3
    <3>3. CASE f[i] <= f[z]
      BY <2>0, <3>1, <3>2, <3>3
    <3>4. CASE ~(f[i] <= f[z])
      <4>1. \A j \in R : f[z] < f[j]
        BY <2>0, <3>1, <3>2, <3>4
      <4> QED
        BY <2>3, <3>2, <4>1
    <3> QED
      BY <3>3, <3>4
  <2> QED
    BY <2>1, <2>2, <2>3
<1>3. n \in T
  <2> HIDE DEF T
  <2> QED
    BY <1>1, <1>2, InductionOnSet
<1> QED
  BY <1>3

\* A sequence is a function on its indices.
LEMMA SeqIsFunction ==
    ASSUME NEW S, NEW s \in Seq(S)
    PROVE  Len(s) \in Nat /\ DOMAIN s = 1 .. Len(s) /\ \A i \in 1 .. Len(s) : s[i] \in S
OBVIOUS

\* A function on 1 .. n is a sequence.
LEMMA FunctionIsSeq ==
    ASSUME NEW S, NEW n \in Nat, NEW s \in [1 .. n -> S]
    PROVE  s \in Seq(S) /\ Len(s) = n /\ DOMAIN s = 1 .. n
OBVIOUS

\* A heap of watchers of E, in any order.
Shapes(E) == [heap : Seq([w : E, at : Int]), active : [E -> Nat], at : [E -> Int]]

\* Each watcher in the array, but for the one at place x, knows its index.
KnownBut(s, x) == \A k \in DOMAIN s.heap : k # x => s.active[s.heap[k].w] = k

\* No watcher is there twice.
OnceEach(s) == \A i, j \in DOMAIN s.heap : s.heap[i].w = s.heap[j].w => i = j

\* t has what s has, in another order, and each watcher knows its index.
Permuted(s, t) ==
    /\ Len(t.heap) = Len(s.heap) /\ t.at = s.at
    /\ \A k \in DOMAIN t.heap : t.active[t.heap[k].w] = k
    /\ \A k \in DOMAIN t.heap : \E i \in DOMAIN s.heap : t.heap[k] = s.heap[i]
    /\ \A i \in DOMAIN s.heap : \E k \in DOMAIN t.heap : t.heap[k] = s.heap[i]
    /\ \A w \in DOMAIN s.active :
         (\A i \in DOMAIN s.heap : s.heap[i].w # w) => t.active[w] = s.active[w]

\* The elements on the path have moved one step, its first to the end.
Rotated(s, t, p) ==
    /\ \A i \in DOMAIN s.heap : ~Contains(p, i) => t.heap[i] = s.heap[i]
    /\ \A j \in 1 .. Len(p) - 1 : t.heap[p[j]] = s.heap[p[j + 1]]
    /\ t.heap[p[Len(p)]] = s.heap[p[1]]

\* Rotate moves the elements on a path, and each watcher learns its new index.
LEMMA RotateRotates ==
    ASSUME NEW E, NEW s \in Shapes(E), NEW p \in Seq(DOMAIN s.heap), Len(p) >= 1,
           \A i, j \in 1 .. Len(p) : i < j => p[i] # p[j],
           KnownBut(s, p[1]), OnceEach(s)
    PROVE  /\ Rotate(s, p) \in Shapes(E)
           /\ Permuted(s, Rotate(s, p))
           /\ Rotated(s, Rotate(s, p), p)
<1> DEFINE m == Len(p)
           N == Len(s.heap)
           from(j) == IF j = m THEN p[1] ELSE p[j + 1]
           put == [j \in 1 .. m |-> IF j = m THEN s.heap[p[1]] ELSE s.heap[p[j + 1]]]
           heap == [i \in DOMAIN s.heap |->
                       IF Contains(p, i) THEN put[CHOOSE j \in 1 .. m : p[j] = i] ELSE s.heap[i]]
           active == [w \in DOMAIN s.active |->
                         IF \E j \in 1 .. m : put[j].w = w
                         THEN p[CHOOSE j \in 1 .. m : put[j].w = w] ELSE s.active[w]]
           t == Rotate(s, p)
<1>1. t = [[s EXCEPT !.heap = heap] EXCEPT !.active = active]
  BY Zenon DEF Rotate
<1>0. /\ s.heap \in Seq([w : E, at : Int]) /\ s.active \in [E -> Nat] /\ s.at \in [E -> Int]
      /\ s = [heap |-> s.heap, active |-> s.active, at |-> s.at]
  BY DEF Shapes
<1>2. /\ DOMAIN s.active = E /\ N \in Nat /\ DOMAIN s.heap = 1 .. N
      /\ \A i \in 1 .. N : s.heap[i] \in [w : E, at : Int]
  <2>1. DOMAIN s.active = E
    BY <1>0
  <2> QED
    BY <1>0, <2>1, SeqIsFunction, Zenon
<1>3. m \in Nat /\ m \in 1 .. m /\ 1 \in 1 .. m /\ \A j \in 1 .. m : p[j] \in 1 .. N
  BY <1>2
<1>4. \A j \in 1 .. m : from(j) \in 1 .. N /\ put[j] = s.heap[from(j)]
  <2> SUFFICES ASSUME NEW j \in 1 .. m PROVE from(j) \in 1 .. N /\ put[j] = s.heap[from(j)]
    OBVIOUS
  <2>1. j # m => j + 1 \in 1 .. m
    BY <1>3
  <2> QED
    BY <1>3, <2>1
<1>5. \A i, j \in 1 .. m : from(i) = from(j) => i = j
  <2>1. \A i, j \in 1 .. m : p[i] = p[j] => i = j
    BY <1>3
  <2> SUFFICES ASSUME NEW i \in 1 .. m, NEW j \in 1 .. m, from(i) = from(j) PROVE i = j
    OBVIOUS
  <2> DEFINE ni == IF i = m THEN 1 ELSE i + 1
             nj == IF j = m THEN 1 ELSE j + 1
  <2>2. ni \in 1 .. m /\ nj \in 1 .. m /\ (ni = nj => i = j)
    BY <1>3
  <2>3. from(i) = p[ni] /\ from(j) = p[nj]
    OBVIOUS
  <2> HIDE DEF ni, nj, from, put, heap, active, t
  <2> QED
    BY <2>1, <2>2, <2>3
<1>6. \A i \in 1 .. m : \E j \in 1 .. m : from(j) = p[i]
  <2> SUFFICES ASSUME NEW i \in 1 .. m PROVE \E j \in 1 .. m : from(j) = p[i]
    OBVIOUS
  <2>1. CASE i = 1
    BY <1>3, <2>1
  <2>2. CASE i # 1
    <3>1. i - 1 \in 1 .. m /\ i - 1 # m /\ (i - 1) + 1 = i
      BY <1>3, <2>2
    <3> QED
      BY <3>1
  <2> QED
    BY <2>1, <2>2
<1> HIDE DEF from, put, m, N
<1>7. \A j \in 1 .. m : (CHOOSE i \in 1 .. m : p[i] = p[j]) = j
  <2>1. \A i, j \in 1 .. m : p[i] = p[j] => i = j
    BY <1>3 DEF m
  <2> QED
    BY <2>1
<1>8. \A j \in 1 .. m : heap[p[j]] = s.heap[from(j)]
  <2> SUFFICES ASSUME NEW j \in 1 .. m PROVE heap[p[j]] = s.heap[from(j)]
    OBVIOUS
  <2>1. p[j] \in DOMAIN s.heap /\ Contains(p, p[j])
    BY <1>2, <1>3 DEF Contains, m
  <2> QED
    BY <1>4, <1>7, <2>1
<1>9. \A i \in DOMAIN s.heap : ~Contains(p, i) => heap[i] = s.heap[i]
  OBVIOUS
<1>10. \A i \in 1 .. N : Contains(p, i) <=> \E j \in 1 .. m : p[j] = i
  BY <1>3, Zenon DEF Contains, m
<1> HIDE DEF heap
<1>23. ASSUME NEW k \in 1 .. N
       PROVE  \E i \in 1 .. N : heap[k] = s.heap[i]
  <2>1. CASE Contains(p, k)
    <3>1. PICK j \in 1 .. m : p[j] = k
      BY <1>10, <2>1
    <3> QED
      BY <1>4, <1>8, <3>1
  <2>2. CASE ~Contains(p, k)
    BY <1>2, <1>9, <2>2
  <2> QED
    BY <2>1, <2>2
<1>11. \A i \in 1 .. N : heap[i] \in [w : E, at : Int]
  BY <1>2, <1>23
<1>12. heap \in Seq([w : E, at : Int]) /\ Len(heap) = N /\ DOMAIN heap = 1 .. N
  <2>1. heap = [i \in 1 .. N |-> heap[i]]
    BY <1>2 DEF heap
  <2>2. heap \in [1 .. N -> [w : E, at : Int]]
    BY <1>11, <2>1
  <2> QED
    BY <1>2, <2>2, FunctionIsSeq, Zenon
<1>13. \A j \in 1 .. m : put[j].w = s.heap[from(j)].w /\ put[j].w \in E
  BY <1>2, <1>4
<1>14. \A i, j \in 1 .. m : put[i].w = put[j].w => i = j
  <2> SUFFICES ASSUME NEW i \in 1 .. m, NEW j \in 1 .. m, put[i].w = put[j].w PROVE i = j
    OBVIOUS
  <2>1. from(i) \in DOMAIN s.heap /\ from(j) \in DOMAIN s.heap /\ s.heap[from(i)].w = s.heap[from(j)].w
    BY <1>2, <1>4, <1>13
  <2>2. from(i) = from(j)
    BY <2>1 DEF OnceEach
  <2> QED
    BY <1>5, <2>2
<1>15. \A j \in 1 .. m : active[put[j].w] = p[j]
  <2> SUFFICES ASSUME NEW j \in 1 .. m PROVE active[put[j].w] = p[j]
    OBVIOUS
  <2>1. (CHOOSE i \in 1 .. m : put[i].w = put[j].w) = j
    BY <1>14
  <2>2. put[j].w \in DOMAIN s.active
    BY <1>2, <1>13
  <2> QED
    BY <2>1, <2>2
<1>16. \A w \in E : (\A j \in 1 .. m : put[j].w # w) => active[w] = s.active[w]
  BY <1>2
<1>17. active \in [E -> Nat]
  <2>1. \A w \in E : active[w] \in Nat
    <3> SUFFICES ASSUME NEW w \in E PROVE active[w] \in Nat
      OBVIOUS
    <3>1. CASE \E j \in 1 .. m : put[j].w = w
      <4>1. PICK j \in 1 .. m : put[j].w = w
        BY <3>1
      <4>2. active[w] = p[j] /\ p[j] \in 1 .. N /\ N \in Nat
        BY <1>2, <1>3, <1>15, <4>1
      <4> HIDE DEF active
      <4> QED
        BY <4>2
    <3>2. CASE ~\E j \in 1 .. m : put[j].w = w
      <4>1. s.active[w] \in Nat
        BY <1>0
      <4> QED
        BY <1>16, <3>2, <4>1, Zenon
    <3> QED
      BY <3>1, <3>2
  <2> QED
    BY <1>2, <2>1
<1> HIDE DEF active
<1>18. t = [heap |-> heap, active |-> active, at |-> s.at]
  BY <1>0, <1>1
<1> HIDE DEF t
<1>19. t \in Shapes(E)
  BY <1>0, <1>12, <1>17, <1>18 DEF Shapes
<1>20. t.heap = heap /\ t.active = active /\ t.at = s.at
  BY <1>18
<1>21. \A i \in 1 .. N : (\A j \in 1 .. m : p[j] # i) => \A j \in 1 .. m : from(j) # i
  <2>1. \A j \in 1 .. m : \E i \in 1 .. m : from(j) = p[i]
    <3> SUFFICES ASSUME NEW j \in 1 .. m PROVE \E i \in 1 .. m : from(j) = p[i]
      OBVIOUS
    <3>1. j # m => j + 1 \in 1 .. m
      BY <1>3
    <3> QED
      BY <1>3, <3>1 DEF from
  <2> QED
    BY <2>1
<1>22. ASSUME NEW k \in 1 .. N
       PROVE  active[heap[k].w] = k
  <2>1. CASE \E j \in 1 .. m : p[j] = k
    <3>1. PICK j \in 1 .. m : p[j] = k
      BY <2>1
    <3>2. heap[k].w = put[j].w
      BY <1>8, <1>13, <3>1
    <3> QED
      BY <1>15, <3>1, <3>2
  <2>2. CASE ~\E j \in 1 .. m : p[j] = k
    <3>1. heap[k] = s.heap[k] /\ k \in DOMAIN s.heap
      BY <1>2, <1>9, <1>10, <2>2
    <3>2. \A j \in 1 .. m : put[j].w # s.heap[k].w
      <4> SUFFICES ASSUME NEW j \in 1 .. m, put[j].w = s.heap[k].w PROVE FALSE
        OBVIOUS
      <4>1. from(j) \in DOMAIN s.heap /\ s.heap[from(j)].w = s.heap[k].w
        BY <1>2, <1>4, <1>13
      <4>2. from(j) = k
        BY <3>1, <4>1 DEF OnceEach
      <4> QED
        BY <1>21, <2>2, <4>2
    <3>3. k # p[1]
      BY <1>3, <2>2
    <3>4. s.heap[k].w \in E
      BY <1>2
    <3> QED
      BY <1>16, <3>1, <3>2, <3>3, <3>4 DEF KnownBut
  <2> QED
    BY <2>1, <2>2
<1>24. ASSUME NEW i \in 1 .. N
       PROVE  \E k \in 1 .. N : heap[k] = s.heap[i]
  <2>1. CASE \E j \in 1 .. m : p[j] = i
    <3>1. PICK j \in 1 .. m : from(j) = i
      BY <1>6, <2>1
    <3> QED
      BY <1>3, <1>8, <3>1
  <2>2. CASE ~\E j \in 1 .. m : p[j] = i
    BY <1>2, <1>9, <1>10, <2>2
  <2> QED
    BY <2>1, <2>2
<1>25. ASSUME NEW w \in E, \A i \in 1 .. N : s.heap[i].w # w
       PROVE  active[w] = s.active[w]
  BY <1>4, <1>13, <1>16, <1>25
<1>26. Permuted(s, t)
  <2>1. Len(t.heap) = Len(s.heap) /\ t.at = s.at /\ DOMAIN t.heap = 1 .. N /\ DOMAIN s.heap = 1 .. N
    BY <1>2, <1>12, <1>20 DEF N
  <2>2. \A k \in 1 .. N : t.active[t.heap[k].w] = k
    BY <1>20, <1>22
  <2>3. /\ \A k \in 1 .. N : \E i \in 1 .. N : t.heap[k] = s.heap[i]
        /\ \A i \in 1 .. N : \E k \in 1 .. N : t.heap[k] = s.heap[i]
    BY <1>20, <1>23, <1>24
  <2>4. \A w \in E : (\A i \in 1 .. N : s.heap[i].w # w) => t.active[w] = s.active[w]
    BY <1>20, <1>25
  <2> QED
    BY <1>2, <2>1, <2>2, <2>3, <2>4, Zenon DEF Permuted
<1>27. Rotated(s, t, p)
  <2>1. \A j \in 1 .. m - 1 : j \in 1 .. m /\ from(j) = p[j + 1]
    BY <1>3 DEF from
  <2>2. \A j \in 1 .. m - 1 : heap[p[j]] = s.heap[p[j + 1]]
    BY <1>8, <2>1
  <2>3. heap[p[m]] = s.heap[p[1]]
    BY <1>3, <1>8 DEF from
  <2> QED
    BY <1>9, <1>20, <2>2, <2>3 DEF Rotated, m
<1> QED
  BY <1>19, <1>26, <1>27 DEF t

\* b is a with the first of the places p at the end, the others one step back.
MovesAlong(L, a, b, m, p) ==
    /\ \A i \in 1 .. L : (\A j \in 1 .. m : p[j] # i) => b[i] = a[i]
    /\ \A j \in 1 .. m - 1 : b[p[j]] = a[p[j + 1]]
    /\ b[p[m]] = a[p[1]]

\* Towards the root, as long as the parent is later than the first.
Rises(a, m, p) ==
    /\ \A i, j \in 1 .. m : i < j => p[j] < p[i]
    /\ \A j \in 1 .. m - 1 : p[j] # 1 /\ p[j + 1] = HPARENT(p[j]) /\ a[p[1]] < a[p[j + 1]]
    /\ p[m] = 1 \/ a[HPARENT(p[m])] <= a[p[1]]

\* Away from it, to the earliest child, as long as that is earlier.
Sinks(L, a, m, p) ==
    /\ \A i, j \in 1 .. m : i < j => p[i] < p[j]
    /\ \A j \in 1 .. m - 1 :
         /\ p[j + 1] # 1 /\ HPARENT(p[j + 1]) = p[j] /\ a[p[j + 1]] < a[p[1]]
         /\ \A k \in 2 .. L : HPARENT(k) = p[j] => a[p[j + 1]] <= a[k]
    /\ \A k \in 2 .. L : HPARENT(k) = p[m] => a[p[1]] <= a[k]

HeapOrder(n, a) == \A k \in 2 .. n : a[HPARENT(k)] <= a[k]

\* What is at x may be too early, or too late.
TooEarly(n, a, x) ==
    /\ \A k \in 2 .. n : k # x => a[HPARENT(k)] <= a[k]
    /\ x = 1 \/ \A k \in 2 .. n : HPARENT(k) = x => a[HPARENT(x)] <= a[k]
TooLate(n, a, x) ==
    /\ \A k \in 2 .. n : HPARENT(k) # x => a[HPARENT(k)] <= a[k]
    /\ x = 1 \/ \A k \in 2 .. n : HPARENT(k) = x => a[HPARENT(x)] <= a[k]

\* The places p lead up: then what was too early is in order.
LEMMA OrderUp ==
    ASSUME NEW L \in Nat, NEW N \in 1 .. L, NEW a \in [1 .. L -> Int], NEW b,
           NEW start \in 1 .. N, NEW m \in Nat \ {0}, NEW p \in [1 .. m -> 1 .. start],
           p[1] = start, Rises(a, m, p), MovesAlong(L, a, b, m, p), TooEarly(N, a, start)
    PROVE  HeapOrder(N, b)
<1> DEFINE On(i) == \E j \in 1 .. m : p[j] = i
<1>1. /\ m \in 1 .. m /\ 1 \in 1 .. m /\ \A j \in 1 .. m : p[j] \in 1 .. start
      /\ \A j \in 1 .. m : j = m \/ (j \in 1 .. m - 1 /\ j + 1 \in 1 .. m)
  OBVIOUS
<1>2. /\ \A i, j \in 1 .. m : i < j => p[j] < p[i]
      /\ \A j \in 1 .. m - 1 : p[j] # 1 /\ p[j + 1] = HPARENT(p[j]) /\ a[start] < a[p[j + 1]]
      /\ p[m] = 1 \/ a[HPARENT(p[m])] <= a[start]
  BY DEF Rises
<1>3. /\ \A i \in 1 .. L : ~On(i) => b[i] = a[i]
      /\ \A j \in 1 .. m - 1 : b[p[j]] = a[p[j + 1]]
      /\ b[p[m]] = a[start]
  BY Zenon DEF MovesAlong
<1>4. /\ \A k \in 2 .. N : k # start => a[HPARENT(k)] <= a[k]
      /\ start = 1 \/ \A k \in 2 .. N : HPARENT(k) = start => a[HPARENT(start)] <= a[k]
  BY Zenon DEF TooEarly
<1>5. \A i, j \in 1 .. m : p[i] = p[j] => i = j
  BY <1>1, <1>2
<1> SUFFICES ASSUME NEW k \in 2 .. N
             PROVE  b[HPARENT(k)] <= b[k]
  BY DEF HeapOrder
<1> DEFINE q == HPARENT(k)
<1>6. q \in 1 .. k - 1
  BY ParentBefore
<1>7. q \in 1 .. L /\ k \in 1 .. L /\ q < k /\ k # 1
  BY <1>6
<1>8. a[start] \in Int /\ a[k] \in Int /\ a[q] \in Int
  BY <1>7
<1>9. CASE ~On(k) /\ ~On(q)
  <2>1. k # start
    BY <1>1, <1>9
  <2> QED
    BY <1>3, <1>4, <1>7, <1>9, <2>1
<1>10. CASE ~On(k) /\ On(q)
  <2>1. PICK j \in 1 .. m : p[j] = q
    BY <1>10
  <2>2. k # start /\ b[k] = a[k]
    BY <1>1, <1>3, <1>7, <1>10
  <2>3. a[q] <= a[k]
    BY <1>4, <2>2
  <2>4. CASE j = m
    <3>1. b[q] = a[start]
      BY <1>3, <2>1, <2>4
    <3>2. CASE m = 1
      <4>1. q = start
        BY <2>1, <2>4, <3>2
      <4> QED
        BY <2>2, <2>3, <3>1, <4>1
    <3>3. CASE m # 1
      <4>1. m - 1 \in 1 .. m - 1 /\ (m - 1) + 1 = m
        BY <3>3
      <4>2. a[start] < a[q]
        BY <1>2, <2>1, <2>4, <4>1
      <4> QED
        BY <1>8, <2>2, <2>3, <3>1, <4>2
    <3> QED
      BY <3>2, <3>3
  <2>5. CASE j # m
    <3>1. j \in 1 .. m - 1
      BY <1>1, <2>5
    <3>2. b[q] = a[HPARENT(q)] /\ q # 1
      BY <1>2, <1>3, <2>1, <3>1
    <3>3. CASE j = 1
      <4>1. q = start
        BY <2>1, <3>3
      <4> QED
        BY <1>4, <2>2, <3>2, <4>1
    <3>4. CASE j # 1
      <4>1. q # start
        BY <1>1, <1>5, <2>1, <3>4
      <4>2. q \in 2 .. N
        BY <1>6, <3>2
      <4>3. a[HPARENT(q)] <= a[q]
        BY <1>4, <4>1, <4>2
      <4>4. HPARENT(q) \in 1 .. q - 1
        BY <4>2, ParentBefore
      <4>5. a[HPARENT(q)] \in Int
        BY <1>7, <4>4
      <4> QED
        BY <1>8, <2>2, <2>3, <3>2, <4>3, <4>5
    <3> QED
      BY <3>3, <3>4
  <2> QED
    BY <2>4, <2>5
<1>11. CASE On(k)
  <2>1. PICK j \in 1 .. m : p[j] = k
    BY <1>11
  <2>2. CASE j = m
    <3>1. b[k] = a[start] /\ a[q] <= a[start]
      BY <1>2, <1>3, <1>7, <2>1, <2>2
    <3>2. ~On(q)
      <4> SUFFICES ASSUME NEW i \in 1 .. m, p[i] = q PROVE FALSE
        OBVIOUS
      <4>1. i = m \/ i < m
        OBVIOUS
      <4>2. i < m => p[m] < p[i]
        BY <1>1, <1>2
      <4> QED
        BY <1>7, <2>1, <2>2, <4>1, <4>2
    <3> QED
      BY <1>3, <1>7, <3>1, <3>2
  <2>3. CASE j # m
    <3>1. j \in 1 .. m - 1 /\ j + 1 \in 1 .. m
      BY <1>1, <2>3
    <3>2. b[k] = a[q] /\ p[j + 1] = q /\ a[start] < a[q]
      BY <1>2, <1>3, <2>1, <3>1
    <3>3. CASE j + 1 = m
      <4>1. b[q] = a[start]
        BY <1>3, <3>2, <3>3
      <4> QED
        BY <1>8, <3>2, <4>1
    <3>4. CASE j + 1 # m
      <4> DEFINE i == j + 1
      <4>1. i \in 1 .. m - 1 /\ p[i] = q
        BY <3>1, <3>2, <3>4
      <4> HIDE DEF i
      <4>2. b[q] = a[HPARENT(q)] /\ q # 1
        BY <1>2, <1>3, <4>1
      <4>3. q # start
        BY <1>1, <1>7, <2>1
      <4>4. q \in 2 .. N
        BY <1>6, <4>2
      <4> QED
        BY <1>4, <3>2, <4>2, <4>3, <4>4
    <3> QED
      BY <3>3, <3>4
  <2> QED
    BY <2>2, <2>3
<1> QED
  BY <1>9, <1>10, <1>11

\* The places p lead down: then what was too late is in order.
LEMMA OrderDown ==
    ASSUME NEW L \in Nat, NEW a \in [1 .. L -> Int], NEW b,
           NEW start \in 1 .. L, NEW m \in Nat \ {0}, NEW p \in [1 .. m -> 1 .. L],
           p[1] = start, Sinks(L, a, m, p), MovesAlong(L, a, b, m, p), TooLate(L, a, start)
    PROVE  HeapOrder(L, b)
<1> DEFINE On(i) == \E j \in 1 .. m : p[j] = i
<1>1. /\ m \in 1 .. m /\ 1 \in 1 .. m /\ \A j \in 1 .. m : p[j] \in 1 .. L
      /\ \A j \in 1 .. m : j = m \/ (j \in 1 .. m - 1 /\ j + 1 \in 1 .. m)
  OBVIOUS
<1>2. /\ \A i, j \in 1 .. m : i < j => p[i] < p[j]
      /\ \A j \in 1 .. m - 1 : p[j + 1] # 1 /\ HPARENT(p[j + 1]) = p[j] /\ a[p[j + 1]] < a[start]
  BY DEF Sinks
<1>3. /\ \A j \in 1 .. m - 1 : \A k \in 2 .. L : HPARENT(k) = p[j] => a[p[j + 1]] <= a[k]
      /\ \A k \in 2 .. L : HPARENT(k) = p[m] => a[start] <= a[k]
  BY DEF Sinks
<1>4. /\ \A i \in 1 .. L : ~On(i) => b[i] = a[i]
      /\ \A j \in 1 .. m - 1 : b[p[j]] = a[p[j + 1]]
      /\ b[p[m]] = a[start]
  BY Zenon DEF MovesAlong
<1>5. /\ \A k \in 2 .. L : HPARENT(k) # start => a[HPARENT(k)] <= a[k]
      /\ start = 1 \/ \A k \in 2 .. L : HPARENT(k) = start => a[HPARENT(start)] <= a[k]
  BY Zenon DEF TooLate
<1> SUFFICES ASSUME NEW k \in 2 .. L
             PROVE  b[HPARENT(k)] <= b[k]
  BY DEF HeapOrder
<1> DEFINE q == HPARENT(k)
<1>6. q \in 1 .. k - 1
  BY ParentBefore
<1>7. q \in 1 .. L /\ k \in 1 .. L /\ q < k /\ k # 1
  BY <1>6
<1>8. a[start] \in Int /\ a[k] \in Int /\ a[q] \in Int
  BY <1>7
<1>9. CASE ~On(k) /\ ~On(q)
  <2>1. q # start
    BY <1>1, <1>9
  <2> QED
    BY <1>4, <1>5, <1>7, <1>9, <2>1
<1>10. CASE ~On(k) /\ On(q)
  <2>1. PICK j \in 1 .. m : p[j] = q
    BY <1>10
  <2>2. b[k] = a[k]
    BY <1>4, <1>7, <1>10
  <2>3. CASE j = m
    <3>1. b[q] = a[start]
      BY <1>4, <2>1, <2>3
    <3> QED
      BY <1>3, <2>1, <2>2, <2>3, <3>1
  <2>4. CASE j # m
    <3>1. j \in 1 .. m - 1
      BY <1>1, <2>4
    <3>2. b[q] = a[p[j + 1]]
      BY <1>4, <2>1, <3>1
    <3> QED
      BY <1>3, <2>1, <2>2, <3>1, <3>2
  <2> QED
    BY <2>3, <2>4
<1>11. CASE On(k)
  <2>1. PICK j \in 1 .. m : p[j] = k
    BY <1>11
  <2>2. CASE j = 1
    <3>1. k = start
      BY <2>1, <2>2
    <3>2. ~On(q)
      <4> SUFFICES ASSUME NEW i \in 1 .. m, p[i] = q PROVE FALSE
        OBVIOUS
      <4>1. i = 1 \/ p[1] < p[i]
        BY <1>1, <1>2
      <4> QED
        BY <1>7, <3>1, <4>1
    <3>3. b[q] = a[q]
      BY <1>4, <1>7, <3>2
    <3>4. q # start
      BY <1>7, <3>1
    <3>5. a[q] <= a[start]
      BY <1>5, <3>1, <3>4
    <3>6. CASE m = 1
      BY <1>4, <2>1, <2>2, <3>3, <3>5, <3>6
    <3>7. CASE m # 1
      <4>1. 1 \in 1 .. m - 1 /\ 1 + 1 \in 1 .. m
        BY <3>7
      <4>2. b[k] = a[p[1 + 1]] /\ p[1 + 1] # 1 /\ HPARENT(p[1 + 1]) = start
        BY <1>2, <1>4, <3>1, <4>1
      <4>3. p[1 + 1] \in 2 .. L
        BY <1>1, <4>1, <4>2
      <4> QED
        BY <1>5, <1>7, <3>1, <3>3, <4>2, <4>3
    <3> QED
      BY <3>6, <3>7
  <2>3. CASE j # 1
    <3>1. j - 1 \in 1 .. m - 1 /\ (j - 1) + 1 = j
      BY <2>3
    <3>2. p[j - 1] = q /\ a[k] < a[start]
      BY <1>2, <2>1, <3>1
    <3>3. b[q] = a[k]
      BY <1>4, <2>1, <3>1, <3>2
    <3>4. CASE j = m
      <4>1. b[k] = a[start]
        BY <1>4, <2>1, <3>4
      <4> QED
        BY <1>8, <3>2, <3>3, <4>1
    <3>5. CASE j # m
      <4>1. j \in 1 .. m - 1 /\ j + 1 \in 1 .. m
        BY <1>1, <3>5
      <4>2. b[k] = a[p[j + 1]] /\ p[j + 1] # 1 /\ HPARENT(p[j + 1]) = k
        BY <1>2, <1>4, <2>1, <4>1
      <4>3. p[j + 1] \in 2 .. L
        BY <1>1, <4>1, <4>2
      <4>4. k # start
        <5>1. p[1] < p[j]
          BY <1>1, <1>2, <2>3
        <5> QED
          BY <2>1, <5>1
      <4> QED
        BY <1>5, <3>3, <4>2, <4>3, <4>4
    <3> QED
      BY <3>4, <3>5
  <2> QED
    BY <2>2, <2>3
<1> QED
  BY <1>9, <1>10, <1>11

\* The times in the array.
Ats(s) == [k \in DOMAIN s.heap |-> s.heap[k].at]

\* The same, of the times alone.
LEMMA RotateMoves ==
    ASSUME NEW E, NEW s \in Shapes(E), NEW p \in Seq(DOMAIN s.heap), Len(p) >= 1,
           \A i, j \in 1 .. Len(p) : i < j => p[i] # p[j],
           KnownBut(s, p[1]), OnceEach(s)
    PROVE  MovesAlong(Len(s.heap), Ats(s), Ats(Rotate(s, p)), Len(p), p)
<1> DEFINE t == Rotate(s, p)
           m == Len(p)
           L == Len(s.heap)
<1>1. Permuted(s, t) /\ Rotated(s, t, p) /\ t \in Shapes(E)
  BY RotateRotates
<1> HIDE DEF t
<1>2. s.heap \in Seq([w : E, at : Int]) /\ t.heap \in Seq([w : E, at : Int])
  BY <1>1 DEF Shapes
<1>3. L \in Nat /\ DOMAIN s.heap = 1 .. L /\ DOMAIN t.heap = 1 .. L
  <2>1. Len(t.heap) = L
    BY <1>1 DEF Permuted
  <2>2. L \in Nat /\ DOMAIN s.heap = 1 .. L /\ DOMAIN t.heap = 1 .. Len(t.heap)
    BY <1>2, SeqIsFunction, Zenon
  <2> QED
    BY <2>1, <2>2
<1>4. m \in Nat /\ \A j \in 1 .. m : p[j] \in 1 .. L
  BY <1>3, SeqIsFunction
<1>5. \A k \in 1 .. L : Ats(s)[k] = s.heap[k].at /\ Ats(t)[k] = t.heap[k].at
  BY <1>3 DEF Ats
<1>6. /\ \A i \in 1 .. L : ~Contains(p, i) => t.heap[i] = s.heap[i]
      /\ \A j \in 1 .. m - 1 : t.heap[p[j]] = s.heap[p[j + 1]]
      /\ t.heap[p[m]] = s.heap[p[1]]
  BY <1>1, <1>3 DEF Rotated
<1>7. \A i \in 1 .. L : Contains(p, i) <=> \E j \in 1 .. m : p[j] = i
  BY Zenon DEF Contains
<1> HIDE DEF m, L
<1>8. ASSUME NEW i \in 1 .. L, \A j \in 1 .. m : p[j] # i
      PROVE  Ats(t)[i] = Ats(s)[i]
  <2>1. t.heap[i] = s.heap[i]
    BY <1>6, <1>7, <1>8, Zenon
  <2> QED
    BY <1>5, <2>1, Zenon
<1>9. ASSUME NEW j \in 1 .. m - 1
      PROVE  Ats(t)[p[j]] = Ats(s)[p[j + 1]]
  <2>1. p[j] \in 1 .. L /\ p[j + 1] \in 1 .. L
    BY <1>4
  <2>2. t.heap[p[j]] = s.heap[p[j + 1]]
    BY <1>6
  <2> QED
    BY <1>5, <2>1, <2>2, Zenon
<1>10. Ats(t)[p[m]] = Ats(s)[p[1]]
  <2>1. p[m] \in 1 .. L /\ p[1] \in 1 .. L
    BY <1>4 DEF m
  <2>2. t.heap[p[m]] = s.heap[p[1]]
    BY <1>6
  <2> QED
    BY <1>5, <2>1, <2>2, Zenon
<1> QED
  BY <1>8, <1>9, <1>10, Zenon DEF MovesAlong, t, m, L

\* upheap puts what is too early where it belongs.
LEMMA UpheapOrders ==
    ASSUME NEW E, NEW s \in Shapes(E), NEW N \in 1 .. Len(s.heap), NEW start \in 1 .. N,
           KnownBut(s, start), OnceEach(s), TooEarly(N, Ats(s), start)
    PROVE  /\ upheap(s, start) \in Shapes(E)
           /\ Permuted(s, upheap(s, start))
           /\ HeapOrder(N, Ats(upheap(s, start)))
<1> DEFINE L == Len(s.heap)
           D == 1 .. start
           a == Ats(s)
           he == s.heap[start]
           Stop(k) == k = 1 \/ ANHE_at(s.heap, HPARENT(k)) <= he.at
           G == {k \in D : ~Stop(k)}
           next == [k \in G |-> HPARENT(k)]
           rank == [k \in D |-> k]
           Is(f) == f = [k \in D |-> IF k = 1 \/ ANHE_at(s.heap, HPARENT(k)) <= he.at THEN <<k>>
                                     ELSE <<k>> \o f[HPARENT(k)]]
           path == CHOOSE f : Is(f)
           p == path[start]
           m == Len(p)
           t == upheap(s, start)
<1>1. t = Rotate(s, p)
  BY DEF upheap
<1>2. s.heap \in Seq([w : E, at : Int])
  BY DEF Shapes
<1>3. L \in Nat /\ DOMAIN s.heap = 1 .. L /\ \A k \in 1 .. L : s.heap[k] \in [w : E, at : Int]
  BY <1>2, SeqIsFunction, Zenon
<1>4. start \in Nat /\ N \in Nat /\ start \in D /\ \A k \in D : k \in 1 .. L /\ k \in Nat
  BY <1>3
<1>5. a \in [1 .. L -> Int] /\ \A k \in 1 .. L : a[k] = s.heap[k].at
  <2>1. \A k \in 1 .. L : s.heap[k].at \in Int
    BY <1>3
  <2> QED
    BY <1>3, <2>1 DEF Ats
<1>6. \A k \in D : k # 1 => HPARENT(k) \in D /\ HPARENT(k) < k
  <2> SUFFICES ASSUME NEW k \in D, k # 1 PROVE HPARENT(k) \in D /\ HPARENT(k) < k
    OBVIOUS
  <2>1. HPARENT(k) \in 1 .. k - 1
    BY <1>4, ParentBefore
  <2> QED
    BY <1>4, <2>1
<1>7. \A k \in D : Stop(k) <=> k = 1 \/ a[HPARENT(k)] <= a[start]
  BY <1>4, <1>5, <1>6 DEF ANHE_at
<1> HIDE DEF a
<1>8. next \in [G -> D] /\ rank \in [D -> Nat] /\ G \in SUBSET D /\ \A k \in G : rank[next[k]] < rank[k]
  BY <1>4, <1>6
<1>9. start + 1 \in Nat /\ \A k \in D : rank[k] < start + 1
  BY <1>4
<1>10. \A f : IsPaths(f, D, G, next) <=> Is(f)
  <2> SUFFICES ASSUME NEW f PROVE IsPaths(f, D, G, next) <=> Is(f)
    OBVIOUS
  <2> DEFINE x == [k \in D |-> IF k \in G THEN <<k>> \o f[next[k]] ELSE <<k>>]
             y == [k \in D |-> IF k = 1 \/ ANHE_at(s.heap, HPARENT(k)) <= he.at THEN <<k>>
                               ELSE <<k>> \o f[HPARENT(k)]]
  <2>1. \A k \in D : x[k] = y[k]
    OBVIOUS
  <2>2. x = y
    BY <2>1
  <2> HIDE DEF G, next
  <2> QED
    BY <2>2, Zenon DEF IsPaths
<1> HIDE DEF G, next, rank, Is
<1> HIDE DEF D
<1>11. \E f : IsPaths(f, D, G, next)
  BY <1>8, <1>9, PathsExist, Zenon
<1>12. Is(path)
  BY <1>10, <1>11
<1>13. IsPaths(path, D, G, next)
  BY <1>10, <1>12
<1> HIDE DEF path
<1>14. IsPath(p, start, D, G, next)
  BY <1>4, <1>8, <1>9, <1>13, PathsArePaths, Zenon
<1> USE DEF D
<1> HIDE DEF p
<1>15. \A i, j \in 1 .. Len(p) : i < j => rank[p[j]] < rank[p[i]]
  BY <1>8, <1>14, PathFalls
<1>16. p \in Seq(D) /\ Len(p) \in Nat /\ Len(p) >= 1 /\ p[1] = start
  BY <1>14 DEF IsPath
<1>17. \A i \in 1 .. m : p[i] \in D
  BY <1>16
<1>18. \A i, j \in 1 .. m : i < j => p[j] < p[i]
  BY <1>15, <1>17 DEF rank
<1>19. p \in Seq(DOMAIN s.heap)
  <2>1. D \subseteq DOMAIN s.heap
    BY <1>3, <1>4
  <2> QED
    BY <1>16, <2>1, SeqMonotonic
<1>20. \A i, j \in 1 .. Len(p) : i < j => p[i] # p[j]
  BY <1>17, <1>18
<1>21. t \in Shapes(E) /\ Permuted(s, t) /\ MovesAlong(L, a, Ats(t), m, p)
  BY <1>1, <1>16, <1>19, <1>20, RotateRotates, RotateMoves DEF a
<1>22. Rises(a, m, p)
  <2>1. ASSUME NEW j \in 1 .. m - 1
        PROVE  p[j] # 1 /\ p[j + 1] = HPARENT(p[j]) /\ a[p[1]] < a[p[j + 1]]
    <3>1. p[j] \in G /\ p[j + 1] = next[p[j]]
      BY <1>14 DEF IsPath
    <3>2. p[j] \in D /\ ~Stop(p[j]) /\ p[j + 1] = HPARENT(p[j])
      BY <3>1 DEF G, next
    <3>3. p[j] # 1 /\ ~(a[p[j + 1]] <= a[start])
      BY <1>7, <3>2
    <3>4. a[p[j + 1]] \in Int /\ a[start] \in Int
      BY <1>4, <1>5, <1>6, <3>2, <3>3
    <3> QED
      BY <1>16, <3>2, <3>3, <3>4
  <2>2. p[m] = 1 \/ a[HPARENT(p[m])] <= a[p[1]]
    <3>1. p[m] \in D /\ p[m] \notin G
      BY <1>14, <1>16, <1>17 DEF IsPath
    <3>2. Stop(p[m])
      BY <3>1 DEF G
    <3> QED
      BY <1>7, <1>16, <3>1, <3>2
  <2> QED
    BY <1>18, <2>1, <2>2 DEF Rises
<1>23. p \in [1 .. m -> D] /\ m \in Nat \ {0}
  BY <1>16
<1> HIDE DEF m, t, L
<1>24. L \in Nat /\ N \in 1 .. L /\ TooEarly(N, a, start) /\ p[1] = start
  BY <1>3, <1>16 DEF L, a
<1>25. HeapOrder(N, Ats(t))
  BY <1>5, <1>21, <1>22, <1>23, <1>24, OrderUp
<1> QED
  BY <1>21, <1>25 DEF t

\* downheap puts what is too late where it belongs.
LEMMA DownheapOrders ==
    ASSUME NEW E, NEW s \in Shapes(E), NEW start \in 1 .. Len(s.heap),
           KnownBut(s, start), OnceEach(s), TooLate(Len(s.heap), Ats(s), start)
    PROVE  /\ downheap(s, Len(s.heap), start) \in Shapes(E)
           /\ Permuted(s, downheap(s, Len(s.heap), start))
           /\ HeapOrder(Len(s.heap), Ats(downheap(s, Len(s.heap), start)))
<1> DEFINE n == Len(s.heap)
           D == 1 .. n
           a == Ats(s)
           he == s.heap[start]
           below(k) == {i \in Children(k, n) : \A j \in Children(k, n) :
                           \/ ANHE_at(s.heap, i) < ANHE_at(s.heap, j)
                           \/ ANHE_at(s.heap, i) = ANHE_at(s.heap, j) /\ i <= j}
           Goes(k) == \E i \in below(k) : ANHE_at(s.heap, i) < he.at
           G == {k \in D : Goes(k)}
           next == [k \in G |-> CHOOSE i \in below(k) : TRUE]
           rank == [k \in D |-> n - k]
           Is(f) == f = [k \in 1 .. n |->
               IF \E i \in {i \in Children(k, n) : \A j \in Children(k, n) :
                               \/ ANHE_at(s.heap, i) < ANHE_at(s.heap, j)
                               \/ ANHE_at(s.heap, i) = ANHE_at(s.heap, j) /\ i <= j} :
                       ANHE_at(s.heap, i) < he.at
               THEN <<k>> \o f[CHOOSE i \in {i \in Children(k, n) : \A j \in Children(k, n) :
                                                \/ ANHE_at(s.heap, i) < ANHE_at(s.heap, j)
                                                \/ ANHE_at(s.heap, i) = ANHE_at(s.heap, j) /\ i <= j} : TRUE]
               ELSE <<k>>]
           path == CHOOSE f : Is(f)
           p == path[start]
           m == Len(p)
           t == downheap(s, n, start)
<1>1. t = Rotate(s, p)
  BY DEF downheap
<1>2. s.heap \in Seq([w : E, at : Int])
  BY DEF Shapes
<1>3. n \in Nat /\ DOMAIN s.heap = 1 .. n /\ \A k \in 1 .. n : s.heap[k] \in [w : E, at : Int]
  BY <1>2, SeqIsFunction, Zenon
<1>4. start \in D /\ \A k \in D : k \in Nat \ {0}
  BY <1>3
<1>5. a \in [1 .. n -> Int] /\ \A k \in 1 .. n : a[k] = s.heap[k].at
  <2>1. \A k \in 1 .. n : s.heap[k].at \in Int
    BY <1>3
  <2> QED
    BY <1>3, <2>1 DEF Ats
<1> HIDE DEF a, n
<1>6. \A k \in D : Children(k, n) = {i \in 2 .. n : HPARENT(i) = k}
  <2> SUFFICES ASSUME NEW k \in D PROVE Children(k, n) = {i \in 2 .. n : HPARENT(i) = k}
    OBVIOUS
  <2>1. \A i : i \in Children(k, n) <=> i \in 2 .. n /\ HPARENT(i) = k
    BY <1>3, <1>4, ChildrenHaveParent
  <2> QED
    BY <2>1
<1>7. \A k \in D : \A i \in Children(k, n) :
        i \in D /\ i # 1 /\ HPARENT(i) = k /\ k < i /\ ANHE_at(s.heap, i) = a[i] /\ a[i] \in Int
  <2> SUFFICES ASSUME NEW k \in D, NEW i \in Children(k, n)
               PROVE  /\ i \in D /\ i # 1 /\ HPARENT(i) = k /\ k < i
                      /\ ANHE_at(s.heap, i) = a[i] /\ a[i] \in Int
    OBVIOUS
  <2>1. i \in 2 .. n /\ HPARENT(i) = k
    BY <1>6
  <2>2. i \in D /\ i \in Nat /\ i >= 2 /\ i # 1
    BY <1>3, <2>1
  <2>3. HPARENT(i) \in 1 .. i - 1
    BY <2>2, ParentBefore
  <2> QED
    BY <1>5, <2>1, <2>2, <2>3 DEF ANHE_at
<1>8. \A k \in D : \A i \in below(k) :
        i \in Children(k, n) /\ \A j \in Children(k, n) : a[i] <= a[j]
  <2> SUFFICES ASSUME NEW k \in D, NEW i \in below(k), NEW j \in Children(k, n)
               PROVE  i \in Children(k, n) /\ a[i] <= a[j]
    BY Zenon
  <2>1. /\ i \in Children(k, n)
        /\ ANHE_at(s.heap, i) < ANHE_at(s.heap, j) \/ ANHE_at(s.heap, i) = ANHE_at(s.heap, j)
    OBVIOUS
  <2> QED
    BY <1>7, <2>1
<1>9. \A k \in D : Children(k, n) # {} => below(k) # {}
  <2> SUFFICES ASSUME NEW k \in D, Children(k, n) # {} PROVE below(k) # {}
    OBVIOUS
  <2> DEFINE C == Children(k, n)
  <2>1. C \in SUBSET (1 .. 1 + n)
    BY <1>3, <1>7
  <2>2. \A i \in C : a[i] \in Int
    BY <1>7
  <2>3. PICK i \in C : \A j \in C : a[i] < a[j] \/ (a[i] = a[j] /\ i <= j)
    <3> HIDE DEF C
    <3>1. C # {}
      BY DEF C
    <3> QED
      BY <1>3, <2>1, <2>2, <3>1, FirstOfEarliest
  <2>4. i \in below(k)
    BY <1>7, <2>3
  <2> QED
    BY <2>4
<1> HIDE DEF below
<1>10. \A k \in G : next[k] \in below(k)
  <2> SUFFICES ASSUME NEW k \in G PROVE next[k] \in below(k)
    OBVIOUS
  <2>1. \E i \in below(k) : TRUE
    OBVIOUS
  <2> QED
    BY <2>1
<1>11. /\ next \in [G -> D] /\ rank \in [D -> Nat] /\ G \in SUBSET D
       /\ \A k \in G : rank[next[k]] < rank[k]
  <2>1. \A k \in G : k \in D /\ next[k] \in D /\ k < next[k]
    BY <1>7, <1>8, <1>10
  <2>2. G \in SUBSET D /\ rank \in [D -> Nat]
    BY <1>3, <1>4
  <2>3. next = [k \in G |-> next[k]]
    OBVIOUS
  <2> HIDE DEF G, next
  <2>4. next \in [G -> D]
    BY <2>1, <2>3
  <2>5. \A k \in G : rank[next[k]] < rank[k]
    BY <1>3, <1>4, <2>1
  <2> QED
    BY <2>2, <2>4, <2>5
<1>12. n + 1 \in Nat /\ \A k \in D : rank[k] < n + 1
  BY <1>3, <1>4
<1>13. \A f : IsPaths(f, D, G, next) <=> Is(f)
  <2> SUFFICES ASSUME NEW f PROVE IsPaths(f, D, G, next) <=> Is(f)
    OBVIOUS
  <2> DEFINE x == [k \in D |-> IF k \in G THEN <<k>> \o f[next[k]] ELSE <<k>>]
             y == [k \in D |-> IF \E i \in below(k) : ANHE_at(s.heap, i) < he.at
                               THEN <<k>> \o f[CHOOSE i \in below(k) : TRUE] ELSE <<k>>]
  <2>1. \A k \in D : x[k] = y[k]
    OBVIOUS
  <2>2. x = y
    BY <2>1
  <2>3. Is(f) <=> f = y
    BY DEF below
  <2> HIDE DEF G, next, y
  <2> QED
    BY <2>2, <2>3, Zenon DEF IsPaths
<1> HIDE DEF G, next, rank, Is, D
<1>14. \E f : IsPaths(f, D, G, next)
  BY <1>11, <1>12, PathsExist, Zenon
<1>15. Is(path)
  BY <1>13, <1>14
<1>16. IsPaths(path, D, G, next)
  BY <1>13, <1>15
<1> HIDE DEF path
<1>17. IsPath(p, start, D, G, next)
  BY <1>4, <1>11, <1>12, <1>16, PathsArePaths, Zenon
<1> HIDE DEF p
<1>18. \A i, j \in 1 .. Len(p) : i < j => rank[p[j]] < rank[p[i]]
  BY <1>11, <1>17, PathFalls
<1>19. p \in Seq(D) /\ Len(p) \in Nat /\ Len(p) >= 1 /\ p[1] = start
  BY <1>17 DEF IsPath
<1>20. \A i \in 1 .. m : p[i] \in D
  BY <1>19
<1>21. \A i, j \in 1 .. m : i < j => p[i] < p[j]
  <2> SUFFICES ASSUME NEW i \in 1 .. m, NEW j \in 1 .. m, i < j PROVE p[i] < p[j]
    OBVIOUS
  <2>1. p[i] \in 1 .. n /\ p[j] \in 1 .. n
    BY <1>20 DEF D
  <2>2. rank[p[i]] = n - p[i] /\ rank[p[j]] = n - p[j]
    BY <2>1 DEF rank, D
  <2>3. rank[p[j]] < rank[p[i]]
    BY <1>18
  <2> QED
    BY <1>3, <2>1, <2>2, <2>3
<1>22. \A i, j \in 1 .. Len(p) : i < j => p[i] # p[j]
  BY <1>20, <1>21 DEF D
<1>23. p \in Seq(DOMAIN s.heap)
  BY <1>3, <1>19 DEF D
<1>24. t \in Shapes(E) /\ Permuted(s, t) /\ MovesAlong(n, a, Ats(t), m, p)
  BY <1>1, <1>19, <1>22, <1>23, RotateRotates, RotateMoves DEF a, n
<1>25. Sinks(n, a, m, p)
  <2>1. ASSUME NEW j \in 1 .. m - 1
        PROVE  /\ p[j + 1] # 1 /\ HPARENT(p[j + 1]) = p[j] /\ a[p[j + 1]] < a[p[1]]
               /\ \A k \in 2 .. n : HPARENT(k) = p[j] => a[p[j + 1]] <= a[k]
    <3>1. p[j] \in G /\ p[j + 1] = next[p[j]]
      BY <1>17 DEF IsPath
    <3>2. p[j] \in D /\ p[j + 1] \in below(p[j]) /\ Goes(p[j])
      BY <1>10, <3>1 DEF G
    <3>3. p[j + 1] \in Children(p[j], n) /\ \A k \in Children(p[j], n) : a[p[j + 1]] <= a[k]
      BY <1>8, <3>2
    <3>4. p[j + 1] # 1 /\ HPARENT(p[j + 1]) = p[j] /\ a[p[j + 1]] \in Int
      BY <1>7, <3>2, <3>3
    <3>5. PICK i \in below(p[j]) : ANHE_at(s.heap, i) < he.at
      BY <3>2
    <3>6. i \in Children(p[j], n) /\ a[i] \in Int /\ a[i] < a[start] /\ a[start] \in Int
      BY <1>4, <1>5, <1>7, <1>8, <3>2, <3>5 DEF D
    <3>7. a[p[j + 1]] < a[p[1]]
      BY <1>19, <3>3, <3>4, <3>6
    <3>8. \A k \in 2 .. n : HPARENT(k) = p[j] => a[p[j + 1]] <= a[k]
      BY <1>6, <3>2, <3>3
    <3> QED
      BY <3>4, <3>7, <3>8
  <2>2. ASSUME NEW k \in 2 .. n, HPARENT(k) = p[m]
        PROVE  a[p[1]] <= a[k]
    <3>1. p[m] \in D /\ p[m] \notin G
      BY <1>17, <1>19, <1>20 DEF IsPath
    <3>2. ~Goes(p[m]) /\ k \in Children(p[m], n)
      BY <1>6, <2>2, <3>1 DEF G
    <3>3. PICK i \in below(p[m]) : TRUE
      BY <1>9, <3>1, <3>2
    <3>4. i \in Children(p[m], n) /\ a[i] <= a[k] /\ ~(ANHE_at(s.heap, i) < he.at)
      BY <1>8, <3>1, <3>2, <3>3
    <3>5. /\ a[i] \in Int /\ ANHE_at(s.heap, i) = a[i] /\ a[k] \in Int
          /\ a[start] \in Int /\ he.at = a[start]
      BY <1>4, <1>5, <1>7, <3>1, <3>2, <3>4 DEF D
    <3> QED
      BY <1>19, <3>4, <3>5
  <2> QED
    BY <1>21, <2>1, <2>2 DEF Sinks
<1>26. p \in [1 .. m -> D] /\ m \in Nat \ {0}
  BY <1>19
<1> HIDE DEF m, t
<1>27. n \in Nat /\ start \in 1 .. n /\ TooLate(n, a, start) /\ p[1] = start
  BY <1>3, <1>19 DEF n, a
<1>28. HeapOrder(n, Ats(t))
  BY <1>5, <1>24, <1>25, <1>26, <1>27, OrderDown DEF D
<1> QED
  BY <1>24, <1>28 DEF t, n

\* What is at x may be too early or too late.
Misplaced(n, a, x) ==
    /\ \A k \in 2 .. n : k # x /\ HPARENT(k) # x => a[HPARENT(k)] <= a[k]
    /\ x = 1 \/ \A k \in 2 .. n : HPARENT(k) = x => a[HPARENT(x)] <= a[k]

\* adjustheap puts what is too early or too late where it belongs.
LEMMA AdjustheapOrders ==
    ASSUME NEW E, NEW s \in Shapes(E), NEW x \in 1 .. Len(s.heap),
           KnownBut(s, x), OnceEach(s), Misplaced(Len(s.heap), Ats(s), x)
    PROVE  /\ adjustheap(s, Len(s.heap), x) \in Shapes(E)
           /\ Permuted(s, adjustheap(s, Len(s.heap), x))
           /\ HeapOrder(Len(s.heap), Ats(adjustheap(s, Len(s.heap), x)))
<1> DEFINE n == Len(s.heap)
           a == Ats(s)
           Early == x > 1 /\ ANHE_at(s.heap, x) <= ANHE_at(s.heap, HPARENT(x))
<1>1. s.heap \in Seq([w : E, at : Int])
  BY DEF Shapes
<1>2. n \in Nat /\ DOMAIN s.heap = 1 .. n /\ \A k \in 1 .. n : s.heap[k] \in [w : E, at : Int]
  BY <1>1, SeqIsFunction, Zenon
<1>3. \A k \in 1 .. n : a[k] = ANHE_at(s.heap, k) /\ a[k] \in Int
  BY <1>2 DEF Ats, ANHE_at
<1>4. \A k \in 2 .. n : HPARENT(k) \in 1 .. n /\ k \in 1 .. n /\ k # 1
  <2> SUFFICES ASSUME NEW k \in 2 .. n PROVE HPARENT(k) \in 1 .. n /\ k \in 1 .. n /\ k # 1
    OBVIOUS
  <2>1. k \in Nat /\ k >= 2
    BY <1>2
  <2>2. HPARENT(k) \in 1 .. k - 1
    BY <2>1, ParentBefore
  <2> QED
    BY <1>2, <2>2
<1>5. x \in 1 .. n /\ (x > 1 => x \in 2 .. n)
  BY <1>2
<1>6. /\ \A k \in 2 .. n : k # x /\ HPARENT(k) # x => a[HPARENT(k)] <= a[k]
      /\ x = 1 \/ \A k \in 2 .. n : HPARENT(k) = x => a[HPARENT(x)] <= a[k]
  BY DEF Misplaced
<1> HIDE DEF a
<1>7. CASE Early
  <2>1. x \in 2 .. n /\ x # 1 /\ a[x] <= a[HPARENT(x)]
    BY <1>3, <1>4, <1>5, <1>7
  <2>2. \A k \in 2 .. n : k # x => a[HPARENT(k)] <= a[k]
    <3> SUFFICES ASSUME NEW k \in 2 .. n, k # x PROVE a[HPARENT(k)] <= a[k]
      OBVIOUS
    <3>1. CASE HPARENT(k) # x
      BY <1>6, <3>1
    <3>2. CASE HPARENT(k) = x
      <4>1. a[HPARENT(x)] <= a[k]
        BY <1>6, <2>1, <3>2
      <4>2. a[x] \in Int /\ a[HPARENT(x)] \in Int /\ a[k] \in Int
        BY <1>3, <1>4, <2>1
      <4> QED
        BY <2>1, <3>2, <4>1, <4>2
    <3> QED
      BY <3>1, <3>2
  <2>3. TooEarly(n, a, x)
    BY <1>6, <2>2 DEF TooEarly
  <2>4. adjustheap(s, n, x) = upheap(s, x)
    BY <1>7 DEF adjustheap
  <2>5. n \in 1 .. Len(s.heap) /\ x \in 1 .. n
    BY <1>2, <1>5
  <2> HIDE DEF n
  <2>6. TooEarly(n, Ats(s), x)
    BY <2>3 DEF a
  <2>7. /\ upheap(s, x) \in Shapes(E) /\ Permuted(s, upheap(s, x))
        /\ HeapOrder(n, Ats(upheap(s, x)))
    BY <2>5, <2>6, UpheapOrders
  <2> QED
    BY <2>4, <2>7 DEF n
<1>8. CASE ~Early
  <2>1. x \in 2 .. n => a[HPARENT(x)] <= a[x]
    <3> SUFFICES ASSUME x \in 2 .. n PROVE a[HPARENT(x)] <= a[x]
      OBVIOUS
    <3>1. x > 1
      BY <1>2
    <3>2. ~(a[x] <= a[HPARENT(x)])
      BY <1>3, <1>4, <1>8, <3>1
    <3> QED
      BY <1>3, <1>4, <3>2
  <2>2. \A k \in 2 .. n : HPARENT(k) # x => a[HPARENT(k)] <= a[k]
    BY <1>6, <2>1
  <2>3. TooLate(n, a, x)
    BY <1>6, <2>2 DEF TooLate
  <2>4. adjustheap(s, n, x) = downheap(s, n, x)
    BY <1>8 DEF adjustheap
  <2>5. TooLate(Len(s.heap), Ats(s), x)
    BY <2>3 DEF a
  <2>6. /\ downheap(s, Len(s.heap), x) \in Shapes(E) /\ Permuted(s, downheap(s, Len(s.heap), x))
        /\ HeapOrder(Len(s.heap), Ats(downheap(s, Len(s.heap), x)))
    BY <2>5, DownheapOrders
  <2> QED
    BY <2>4, <2>6
<1> QED
  BY <1>7, <1>8

\* The copies of the times in the array are right.
Cached(s) == \A k \in DOMAIN s.heap : s.heap[k].at = s.at[s.heap[k].w]

\* w is in the array.
InHeap(s, w) == \E k \in DOMAIN s.heap : s.heap[k].w = w

\* A heap that is right: libev's assertions hold, and it holds what is active.
Heaps(E) == {s \in Shapes(E) : VerifyHeap(s) /\ \A w \in E : s.active[w] # 0 => InHeap(s, w)}

\* What is known of a heap that is right.
LEMMA HeapFacts ==
    ASSUME NEW E, NEW s \in Heaps(E)
    PROVE  /\ s \in Shapes(E) /\ OnceEach(s) /\ Cached(s) /\ HeapOrder(Len(s.heap), Ats(s))
           /\ \A k \in DOMAIN s.heap : s.active[s.heap[k].w] = k
           /\ \A x : KnownBut(s, x)
           /\ \A w \in E : s.active[w] # 0 <=> InHeap(s, w)
<1>1. s \in Shapes(E) /\ VerifyHeap(s) /\ \A w \in E : s.active[w] # 0 => InHeap(s, w)
  BY DEF Heaps
<1>2. s.heap \in Seq([w : E, at : Int])
  BY <1>1 DEF Shapes
<1>3. Len(s.heap) \in Nat /\ DOMAIN s.heap = 1 .. Len(s.heap)
  BY <1>2, SeqIsFunction, Zenon
<1>4. \A k \in DOMAIN s.heap : s.active[s.heap[k].w] = k
  BY <1>1 DEF VerifyHeap
<1>5. OnceEach(s) /\ \A x : KnownBut(s, x)
  BY <1>4 DEF OnceEach, KnownBut
<1>6. Cached(s)
  BY <1>1 DEF VerifyHeap, Cached, ANHE_at
<1>7. HeapOrder(Len(s.heap), Ats(s))
  <2> SUFFICES ASSUME NEW k \in 2 .. Len(s.heap) PROVE Ats(s)[HPARENT(k)] <= Ats(s)[k]
    BY DEF HeapOrder
  <2>1. k \in Nat /\ k >= 2 /\ k \in DOMAIN s.heap /\ k # 1
    BY <1>3
  <2>2. HPARENT(k) \in 1 .. k - 1
    BY <2>1, ParentBefore
  <2>3. HPARENT(k) \in DOMAIN s.heap
    BY <1>3, <2>2
  <2>4. ANHE_at(s.heap, HPARENT(k)) <= ANHE_at(s.heap, k)
    BY <1>1, <2>1 DEF VerifyHeap
  <2> QED
    BY <2>1, <2>3, <2>4 DEF Ats, ANHE_at
<1>8. \A w \in E : InHeap(s, w) => s.active[w] # 0
  BY <1>3, <1>4 DEF InHeap
<1> QED
  BY <1>1, <1>4, <1>5, <1>6, <1>7, <1>8

\* What has been put in order is right, except perhaps for a watcher that is on
\* its way out.
LEMMA PermutedIsHeap ==
    ASSUME NEW E, NEW s \in Shapes(E), NEW t \in Shapes(E), Permuted(s, t), Cached(s),
           HeapOrder(Len(s.heap), Ats(t)),
           NEW X, \A w \in E \ X : s.active[w] # 0 => InHeap(s, w)
    PROVE  /\ VerifyHeap(t)
           /\ \A w \in E : InHeap(t, w) <=> InHeap(s, w)
           /\ \A w \in E \ X : t.active[w] # 0 => InHeap(t, w)
<1>1. /\ s.heap \in Seq([w : E, at : Int]) /\ t.heap \in Seq([w : E, at : Int])
      /\ s.active \in [E -> Nat]
  BY DEF Shapes
<1> DEFINE n == Len(s.heap)
<1>2. n \in Nat /\ DOMAIN s.heap = 1 .. n /\ DOMAIN t.heap = 1 .. n /\ DOMAIN s.active = E
  <2>1. Len(t.heap) = n
    BY DEF Permuted
  <2>2. n \in Nat /\ DOMAIN s.heap = 1 .. n /\ DOMAIN t.heap = 1 .. Len(t.heap)
    BY <1>1, SeqIsFunction, Zenon
  <2>3. DOMAIN s.active = E
    BY <1>1
  <2> QED
    BY <2>1, <2>2, <2>3
<1>3. /\ t.at = s.at
      /\ \A k \in 1 .. n : t.active[t.heap[k].w] = k
      /\ \A k \in 1 .. n : \E i \in 1 .. n : t.heap[k] = s.heap[i]
      /\ \A i \in 1 .. n : \E k \in 1 .. n : t.heap[k] = s.heap[i]
      /\ \A w \in E : (\A i \in 1 .. n : s.heap[i].w # w) => t.active[w] = s.active[w]
  BY <1>2, Zenon DEF Permuted
<1>4. ASSUME NEW k \in 1 .. n
      PROVE  t.heap[k].at = t.at[t.heap[k].w]
  <2>1. PICK i \in 1 .. n : t.heap[k] = s.heap[i]
    BY <1>3
  <2>2. s.heap[i].at = s.at[s.heap[i].w]
    BY <1>2 DEF Cached
  <2> QED
    BY <1>3, <2>1, <2>2
<1>5. ASSUME NEW w \in E
      PROVE  InHeap(t, w) <=> InHeap(s, w)
  <2>1. ASSUME NEW k \in 1 .. n, t.heap[k].w = w
        PROVE  InHeap(s, w)
    <3>1. PICK i \in 1 .. n : t.heap[k] = s.heap[i]
      BY <1>3
    <3> QED
      BY <1>2, <2>1, <3>1 DEF InHeap
  <2>2. ASSUME NEW i \in 1 .. n, s.heap[i].w = w
        PROVE  InHeap(t, w)
    <3>1. PICK k \in 1 .. n : t.heap[k] = s.heap[i]
      BY <1>3
    <3> QED
      BY <1>2, <2>2, <3>1 DEF InHeap
  <2> QED
    BY <1>2, <2>1, <2>2 DEF InHeap
<1>6. \A w \in E \ X : t.active[w] # 0 => InHeap(t, w)
  <2> SUFFICES ASSUME NEW w \in E \ X, t.active[w] # 0, ~InHeap(s, w) PROVE FALSE
    BY <1>5
  <2>1. t.active[w] = s.active[w]
    BY <1>2, <1>3 DEF InHeap
  <2> QED
    BY <2>1
<1>7. ASSUME NEW k \in 1 .. n
      PROVE  k = 1 \/ ANHE_at(t.heap, HPARENT(k)) <= ANHE_at(t.heap, k)
  <2> SUFFICES ASSUME k # 1 PROVE ANHE_at(t.heap, HPARENT(k)) <= ANHE_at(t.heap, k)
    OBVIOUS
  <2>1. k \in 2 .. n /\ k \in Nat /\ k >= 2
    BY <1>2
  <2>2. HPARENT(k) \in 1 .. k - 1
    BY <2>1, ParentBefore
  <2>3. HPARENT(k) \in 1 .. n
    BY <1>2, <2>2
  <2>4. Ats(t)[HPARENT(k)] <= Ats(t)[k]
    BY <2>1 DEF HeapOrder
  <2> QED
    BY <1>2, <2>3, <2>4 DEF Ats, ANHE_at
<1>8. VerifyHeap(t)
  BY <1>2, <1>3, <1>4, <1>7 DEF VerifyHeap, ANHE_at
<1> QED
  BY <1>5, <1>6, <1>8

\* The watchers that are active.
HeapWatchers(s) == {w \in DOMAIN s.active : s.active[w] # 0}

\* An array that has been put in order is a heap that is right, of the same
\* watchers.
LEMMA PutInOrder ==
    ASSUME NEW E, NEW s \in Shapes(E), NEW t \in Shapes(E), Permuted(s, t), Cached(s),
           HeapOrder(Len(s.heap), Ats(t)), \A w \in E : s.active[w] # 0 <=> InHeap(s, w)
    PROVE  t \in Heaps(E) /\ t.at = s.at /\ HeapWatchers(t) = HeapWatchers(s)
<1>1. \A w \in E \ {} : s.active[w] # 0 => InHeap(s, w)
  OBVIOUS
<1>2. /\ VerifyHeap(t)
      /\ \A w \in E : InHeap(t, w) <=> InHeap(s, w)
      /\ \A w \in E \ {} : t.active[w] # 0 => InHeap(t, w)
  BY <1>1, PermutedIsHeap
<1>3. t \in Heaps(E)
  BY <1>2 DEF Heaps
<1>4. \A w \in E : t.active[w] # 0 <=> InHeap(t, w)
  BY <1>3, HeapFacts
<1>5. DOMAIN t.active = E /\ DOMAIN s.active = E
  BY DEF Shapes
<1>6. t.at = s.at
  BY DEF Permuted
<1> QED
  BY <1>2, <1>3, <1>4, <1>5, <1>6 DEF HeapWatchers

\* A heap of three parts, and one of the parts replaced.
Shape(h, a, t) == [heap |-> h, active |-> a, at |-> t]
PutHeap(s, v) == [s EXCEPT !.heap = v]
PutActive(s, v) == [s EXCEPT !.active = v]
PutAt(s, v) == [s EXCEPT !.at = v]

\* What a replacement makes of a heap.
LEMMA ShapePuts ==
    ASSUME NEW h, NEW a, NEW t, NEW v
    PROVE  /\ PutHeap(Shape(h, a, t), v) = Shape(v, a, t)
           /\ PutActive(Shape(h, a, t), v) = Shape(h, v, t)
           /\ PutAt(Shape(h, a, t), v) = Shape(h, a, v)
BY DEF Shape, PutHeap, PutActive, PutAt

\* A record of the three parts is a heap's.
LEMMA ShapeOf ==
    ASSUME NEW E, NEW h \in Seq([w : E, at : Int]), NEW a \in [E -> Nat], NEW t \in [E -> Int],
           NEW s, s = [heap |-> h, active |-> a, at |-> t]
    PROVE  s \in Shapes(E)
BY DEF Shapes

\* Watchers that know their places are in one place each.
LEMMA KnownIsOnce ==
    ASSUME NEW s, \A k \in DOMAIN s.heap : s.active[s.heap[k].w] = k, NEW x
    PROVE  KnownBut(s, x) /\ OnceEach(s)
<1>1. KnownBut(s, x)
  BY DEF KnownBut
<1>2. OnceEach(s)
  <2> SUFFICES ASSUME NEW i \in DOMAIN s.heap, NEW j \in DOMAIN s.heap, s.heap[i].w = s.heap[j].w
               PROVE  i = j
    BY DEF OnceEach
  <2> QED
    OBVIOUS
<1> QED
  BY <1>1, <1>2

\* An active watcher has a new time, and its place in the array has the copy.
LEMMA NewTime ==
    ASSUME NEW E, NEW s \in Heaps(E), NEW k \in DOMAIN s.heap, NEW time \in Int,
           NEW x, x = ANHE_at_cache([s EXCEPT !.at[s.heap[k].w] = time], k)
    PROVE  /\ x \in Shapes(E) /\ KnownBut(x, k) /\ OnceEach(x) /\ Cached(x)
           /\ Len(x.heap) = Len(s.heap) /\ x.active = s.active
           /\ x.at = [s.at EXCEPT ![s.heap[k].w] = time]
           /\ Misplaced(Len(x.heap), Ats(x), k)
           /\ \A w \in E : x.active[w] # 0 <=> InHeap(x, w)
           /\ HeapWatchers(x) = HeapWatchers(s)
<1> DEFINE n == Len(s.heap)
           w == s.heap[k].w
           at == [s.at EXCEPT ![w] = time]
           heap == [s.heap EXCEPT ![k].at = time]
<1>1. /\ s \in Shapes(E) /\ OnceEach(s) /\ Cached(s) /\ HeapOrder(n, Ats(s))
      /\ \A i \in DOMAIN s.heap : s.active[s.heap[i].w] = i
      /\ \A v \in E : s.active[v] # 0 <=> InHeap(s, v)
  BY HeapFacts
<1>2. /\ s.heap \in Seq([w : E, at : Int]) /\ s.active \in [E -> Nat] /\ s.at \in [E -> Int]
      /\ s = [heap |-> s.heap, active |-> s.active, at |-> s.at]
  BY <1>1 DEF Shapes
<1>3. n \in Nat /\ DOMAIN s.heap = 1 .. n /\ \A i \in 1 .. n : s.heap[i] \in [w : E, at : Int]
  BY <1>2, SeqIsFunction, Zenon
<1>4. w \in E /\ k \in 1 .. n
  BY <1>3
<1>5. x = [heap |-> heap, active |-> s.active, at |-> at]
  <2> DEFINE y == [s EXCEPT !.at = at]
  <2>1. at[w] = time
    BY <1>2, <1>4
  <2>2. x = [y EXCEPT !.heap[k].at = y.at[y.heap[k].w]]
    BY DEF ANHE_at_cache
  <2>3. y = Shape(s.heap, s.active, at)
    <3> HIDE DEF at
    <3>1. s = Shape(s.heap, s.active, s.at) /\ y = PutAt(s, at)
      BY <1>2 DEF Shape, PutAt
    <3> HIDE DEF y
    <3> QED
      BY <3>1, ShapePuts
  <2> HIDE DEF at, y
  <2>4. y.heap = s.heap /\ y.at = at
    BY <2>3 DEF Shape
  <2>5. y.at[y.heap[k].w] = time
    BY <2>1, <2>4
  <2>6. x = [y EXCEPT !.heap = [y.heap EXCEPT ![k].at = time]]
    BY <2>2, <2>5
  <2>7. x = PutHeap(y, heap)
    BY <2>4, <2>6 DEF PutHeap
  <2> HIDE DEF heap
  <2>8. x = Shape(heap, s.active, at)
    BY <2>3, <2>7, ShapePuts
  <2> QED
    BY <2>8 DEF Shape
<1>6. at \in [E -> Int] /\ at[w] = time /\ \A v \in E : v # w => at[v] = s.at[v]
  BY <1>2, <1>4
<1>7. /\ \A i \in 1 .. n : heap[i] \in [w : E, at : Int]
      /\ \A i \in 1 .. n : heap[i].w = s.heap[i].w
      /\ heap[k].at = time /\ \A i \in 1 .. n : i # k => heap[i].at = s.heap[i].at
      /\ DOMAIN heap = 1 .. n
  <2> DEFINE e == [s.heap[k] EXCEPT !.at = time]
  <2>1. e \in [w : E, at : Int] /\ e.w = s.heap[k].w /\ e.at = time
    BY <1>3, <1>4
  <2> HIDE DEF e
  <2>2. heap = [i \in 1 .. n |-> IF i = k THEN e ELSE s.heap[i]]
    BY <1>3, <1>4 DEF e
  <2> HIDE DEF heap
  <2> QED
    BY <1>3, <1>4, <2>1, <2>2
<1>8. heap \in Seq([w : E, at : Int]) /\ Len(heap) = n
  <2>1. heap = [i \in 1 .. n |-> heap[i]]
    BY <1>3
  <2> HIDE DEF heap
  <2>2. heap \in [1 .. n -> [w : E, at : Int]]
    BY <1>7, <2>1
  <2> QED
    BY <1>3, <2>2, FunctionIsSeq, Zenon
<1> HIDE DEF heap, at, w, n
<1>9. x.heap = heap /\ x.active = s.active /\ x.at = at
  BY <1>5
<1>10. x \in Shapes(E)
  BY <1>2, <1>5, <1>6, <1>8, ShapeOf, Zenon
<1>11. DOMAIN x.heap = 1 .. n
  BY <1>7, <1>9
<1>12. \A i \in 1 .. n : x.active[x.heap[i].w] = i
  BY <1>1, <1>3, <1>7, <1>9
<1>13. KnownBut(x, k) /\ OnceEach(x)
  BY <1>11, <1>12, KnownIsOnce, Zenon
<1>14. Cached(x)
  <2> SUFFICES ASSUME NEW i \in 1 .. n PROVE heap[i].at = at[heap[i].w]
    BY <1>7, <1>9 DEF Cached
  <2>1. CASE i = k
    BY <1>4, <1>6, <1>7, <2>1 DEF w
  <2>2. CASE i # k
    <3>1. s.heap[i].w # w
      BY <1>1, <1>3, <1>4, <2>2 DEF OnceEach, w
    <3>2. s.heap[i].at = s.at[s.heap[i].w] /\ s.heap[i].w \in E
      BY <1>1, <1>3 DEF Cached
    <3> QED
      BY <1>6, <1>7, <2>2, <3>1, <3>2
  <2> QED
    BY <2>1, <2>2
<1>15. Misplaced(n, Ats(x), k)
  <2>1. /\ \A i \in 1 .. n : i # k => Ats(x)[i] = Ats(s)[i]
        /\ \A i \in 1 .. n : Ats(s)[i] \in Int
    BY <1>3, <1>7, <1>9, <1>11 DEF Ats
  <2>2. \A i \in 2 .. n : Ats(s)[HPARENT(i)] <= Ats(s)[i]
    BY <1>1 DEF HeapOrder, n
  <2>3. \A i \in 2 .. n : HPARENT(i) \in 1 .. n /\ i \in 1 .. n /\ HPARENT(i) < i
    <3> SUFFICES ASSUME NEW i \in 2 .. n PROVE HPARENT(i) \in 1 .. n /\ i \in 1 .. n /\ HPARENT(i) < i
      OBVIOUS
    <3>1. i \in Nat /\ i >= 2
      BY <1>3
    <3>2. HPARENT(i) \in 1 .. i - 1
      BY <3>1, ParentBefore
    <3> QED
      BY <1>3, <3>2
  <2>4. ASSUME NEW i \in 2 .. n, i # k, HPARENT(i) # k
        PROVE  Ats(x)[HPARENT(i)] <= Ats(x)[i]
    <3>1. Ats(x)[i] = Ats(s)[i] /\ Ats(x)[HPARENT(i)] = Ats(s)[HPARENT(i)]
      BY <2>1, <2>3, <2>4
    <3> QED
      BY <2>2, <3>1
  <2>5. ASSUME k # 1, NEW i \in 2 .. n, HPARENT(i) = k
        PROVE  Ats(x)[HPARENT(k)] <= Ats(x)[i]
    <3>1. k \in 2 .. n
      BY <1>3, <1>4, <2>5
    <3>2. HPARENT(k) \in 1 .. n /\ HPARENT(k) # k /\ i # k /\ i \in 1 .. n
      BY <1>3, <2>3, <2>5, <3>1
    <3>3. Ats(s)[HPARENT(k)] <= Ats(s)[k] /\ Ats(s)[k] <= Ats(s)[i]
      BY <2>2, <2>5, <3>1
    <3>4. Ats(x)[HPARENT(k)] = Ats(s)[HPARENT(k)] /\ Ats(x)[i] = Ats(s)[i]
      BY <2>1, <3>2
    <3> QED
      BY <1>4, <2>1, <3>2, <3>3, <3>4
  <2> QED
    BY <2>4, <2>5 DEF Misplaced
<1>16. \A v \in E : InHeap(x, v) <=> InHeap(s, v)
  BY <1>3, <1>7, <1>9, <1>11 DEF InHeap
<1> QED
  BY <1>1, <1>8, <1>9, <1>10, <1>13, <1>14, <1>15, <1>16 DEF HeapWatchers, n, w, at

\* The heaps of a new loop are right.
THEOREM HeapEmpty ==
    ASSUME NEW E
    PROVE  Empty(E) \in Heaps(E) /\ HeapWatchers(Empty(E)) = {}
<1>1. Empty(E) \in Shapes(E)
  BY DEF Empty, Shapes
<1>2. VerifyHeap(Empty(E)) /\ \A w \in E : Empty(E).active[w] = 0
  BY DEF Empty, VerifyHeap
<1> QED
  BY <1>1, <1>2 DEF Heaps, HeapWatchers, Empty

\* What ev_timer_start does to a heap that is right, as
\* libev's verify_heap has it: the watcher is in it with its time, no other has
\* come or gone, and the heap is right again.
THEOREM HeapStarts ==
    ASSUME NEW E, NEW s \in Heaps(E), NEW w \in E, s.active[w] = 0, NEW time \in Int,
           NEW r, r = heap_start([s EXCEPT !.at[w] = time], w)
    PROVE  /\ r \in Heaps(E)
           /\ r.at = [s.at EXCEPT ![w] = time]
           /\ HeapWatchers(r) = HeapWatchers(s) \cup {w}
<1> DEFINE n == Len(s.heap)
           at == [s.at EXCEPT ![w] = time]
           e == [w |-> w, at |-> time]
           heap == Append(s.heap, e)
           active == [s.active EXCEPT ![w] = n + 1]
           x == [heap |-> heap, active |-> active, at |-> at]
<1>1. /\ s \in Shapes(E) /\ OnceEach(s) /\ Cached(s) /\ HeapOrder(n, Ats(s))
      /\ \A i \in DOMAIN s.heap : s.active[s.heap[i].w] = i
      /\ \A v \in E : s.active[v] # 0 <=> InHeap(s, v)
  BY HeapFacts
<1>2. /\ s.heap \in Seq([w : E, at : Int]) /\ s.active \in [E -> Nat] /\ s.at \in [E -> Int]
      /\ s = [heap |-> s.heap, active |-> s.active, at |-> s.at]
  BY <1>1 DEF Shapes
<1>3. n \in Nat /\ DOMAIN s.heap = 1 .. n /\ \A i \in 1 .. n : s.heap[i] \in [w : E, at : Int]
  BY <1>2, SeqIsFunction, Zenon
<1>4. r = upheap(x, n + 1)
  <2> DEFINE y == [s EXCEPT !.at = at]
  <2>1. at[w] = time /\ r = heap_start(y, w)
    BY <1>2
  <2>2. y = Shape(s.heap, s.active, at)
    <3> HIDE DEF at
    <3>1. s = Shape(s.heap, s.active, s.at) /\ y = PutAt(s, at)
      BY <1>2 DEF Shape, PutAt
    <3> HIDE DEF y
    <3> QED
      BY <3>1, ShapePuts
  <2> HIDE DEF at, y
  <2>3. y.at[w] = time /\ y.heap = s.heap /\ y.active = s.active
    BY <2>1, <2>2 DEF Shape
  <2>4. r = upheap(PutActive(PutHeap(y, heap), active), n + 1)
    <3>1. r = upheap([y EXCEPT !.heap = Append(y.heap, [w |-> w, at |-> y.at[w]]),
                               !.active = [y.active EXCEPT ![w] = Len(y.heap) + 1]],
                     Len(y.heap) + 1)
      BY <2>1 DEF heap_start
    <3> QED
      BY <2>3, <3>1 DEF PutActive, PutHeap
  <2> HIDE DEF heap, active, e, n, x
  <2>5. PutHeap(y, heap) = Shape(heap, s.active, at)
    BY <2>2, ShapePuts
  <2>6. PutActive(PutHeap(y, heap), active) = Shape(heap, active, at)
    BY <2>5, ShapePuts
  <2>7. x = Shape(heap, active, at)
    BY DEF x, Shape
  <2> QED
    BY <2>4, <2>6, <2>7
<1>5. at \in [E -> Int] /\ at[w] = time /\ \A v \in E : v # w => at[v] = s.at[v]
  BY <1>2
<1>6. active \in [E -> Nat] /\ active[w] = n + 1 /\ \A v \in E : v # w => active[v] = s.active[v]
  BY <1>2, <1>3
<1>7. e \in [w : E, at : Int] /\ e.w = w /\ e.at = time
  OBVIOUS
<1> HIDE DEF e, active, at
<1>8. heap \in Seq([w : E, at : Int]) /\ Len(heap) = n + 1
  BY <1>2, <1>7
<1>9. DOMAIN heap = 1 .. n + 1 /\ heap[n + 1] = e /\ \A i \in 1 .. n : heap[i] = s.heap[i]
  BY <1>2, <1>3
<1> HIDE DEF heap
<1>10. x.heap = heap /\ x.active = active /\ x.at = at /\ x \in Shapes(E)
  BY <1>5, <1>6, <1>8 DEF Shapes
<1> HIDE DEF x, n
<1>11. \A i \in 1 .. n + 1 : i \in 1 .. n \/ i = n + 1
  BY <1>3
<1>12. ASSUME NEW i \in 1 .. n
       PROVE  s.heap[i].w \in E /\ s.heap[i].w # w
  <2>1. s.active[s.heap[i].w] = i /\ i # 0
    BY <1>1, <1>3
  <2> QED
    BY <1>3, <2>1
<1>13. \A i \in 1 .. n + 1 : active[heap[i].w] = i
  BY <1>1, <1>3, <1>6, <1>7, <1>9, <1>11, <1>12
<1>14. KnownBut(x, n + 1) /\ OnceEach(x)
  BY <1>9, <1>10, <1>13 DEF KnownBut, OnceEach
<1>15. Cached(x)
  <2> SUFFICES ASSUME NEW i \in 1 .. n + 1 PROVE heap[i].at = at[heap[i].w]
    BY <1>9, <1>10 DEF Cached
  <2>1. CASE i = n + 1
    BY <1>5, <1>7, <1>9, <2>1
  <2>2. CASE i \in 1 .. n
    <3>1. s.heap[i].at = s.at[s.heap[i].w]
      BY <1>1, <1>3, <2>2 DEF Cached
    <3> QED
      BY <1>5, <1>9, <1>12, <2>2, <3>1
  <2> QED
    BY <1>11, <2>1, <2>2
<1>16. ASSUME NEW v \in E
       PROVE  (x.active[v] # 0 <=> InHeap(x, v)) /\ (x.active[v] # 0 <=> s.active[v] # 0 \/ v = w)
  <2>1. CASE v = w
    <3>1. n + 1 \in DOMAIN x.heap /\ x.heap[n + 1].w = w /\ x.active[w] # 0
      BY <1>3, <1>6, <1>7, <1>9, <1>10
    <3> QED
      BY <2>1, <3>1 DEF InHeap
  <2>2. CASE v # w
    <3>1. x.active[v] = s.active[v]
      BY <1>6, <1>10, <2>2
    <3>2. InHeap(x, v) <=> InHeap(s, v)
      BY <1>3, <1>7, <1>9, <1>10, <1>11, <2>2 DEF InHeap
    <3> QED
      BY <1>1, <2>2, <3>1, <3>2
  <2> QED
    BY <2>1, <2>2
<1>17. TooEarly(n + 1, Ats(x), n + 1)
  <2>1. \A k \in 2 .. n + 1 : HPARENT(k) \in 1 .. n /\ HPARENT(k) # n + 1
    <3> SUFFICES ASSUME NEW k \in 2 .. n + 1 PROVE HPARENT(k) \in 1 .. n /\ HPARENT(k) # n + 1
      OBVIOUS
    <3>1. k \in Nat /\ k >= 2
      BY <1>3
    <3>2. HPARENT(k) \in 1 .. k - 1
      BY <3>1, ParentBefore
    <3> QED
      BY <1>3, <3>2
  <2>2. \A i \in 1 .. n : Ats(x)[i] = Ats(s)[i]
    BY <1>3, <1>9, <1>10, <1>11 DEF Ats
  <2>3. ASSUME NEW k \in 2 .. n + 1, k # n + 1
        PROVE  Ats(x)[HPARENT(k)] <= Ats(x)[k]
    <3>1. k \in 2 .. n /\ k \in 1 .. n
      BY <1>3, <2>3
    <3>2. Ats(s)[HPARENT(k)] <= Ats(s)[k]
      BY <1>1, <3>1 DEF HeapOrder, n
    <3> QED
      BY <2>1, <2>2, <3>1, <3>2
  <2> QED
    BY <2>1, <2>3 DEF TooEarly
<1>18. n + 1 \in 1 .. Len(x.heap) /\ n + 1 \in 1 .. n + 1 /\ Len(x.heap) = n + 1
  BY <1>3, <1>8, <1>10
<1>19. r \in Shapes(E) /\ Permuted(x, r) /\ HeapOrder(n + 1, Ats(r))
  BY <1>4, <1>10, <1>14, <1>17, <1>18, UpheapOrders
<1>20. r \in Heaps(E) /\ r.at = x.at /\ HeapWatchers(r) = HeapWatchers(x)
  BY <1>10, <1>15, <1>16, <1>18, <1>19, PutInOrder
<1>21. HeapWatchers(x) = HeapWatchers(s) \cup {w}
  <2>1. DOMAIN x.active = E /\ DOMAIN s.active = E
    BY <1>2, <1>6, <1>10
  <2> QED
    BY <1>16, <2>1 DEF HeapWatchers
<1> QED
  BY <1>10, <1>20, <1>21 DEF at

\* What ev_timer_again does to an active watcher: it has its new time, earlier
\* or later, and the heap is right again.
THEOREM HeapMoves ==
    ASSUME NEW E, NEW s \in Heaps(E), NEW w \in E, s.active[w] # 0, NEW time \in Int,
           NEW r, r = heap_move([s EXCEPT !.at[w] = time], w)
    PROVE  /\ r \in Heaps(E)
           /\ r.at = [s.at EXCEPT ![w] = time]
           /\ HeapWatchers(r) = HeapWatchers(s)
<1> DEFINE k == s.active[w]
           y == [s EXCEPT !.at[w] = time]
           x == ANHE_at_cache(y, k)
<1>1. s \in Shapes(E) /\ InHeap(s, w) /\ \A i \in DOMAIN s.heap : s.active[s.heap[i].w] = i
  BY HeapFacts
<1>2. k \in DOMAIN s.heap /\ s.heap[k].w = w
  BY <1>1 DEF InHeap
<1>3. y.active = s.active /\ y.heap = s.heap
  BY <1>1 DEF Shapes
<1>4. r = adjustheap(x, Len(s.heap), k)
  BY <1>3 DEF heap_move
<1>5. x = ANHE_at_cache([s EXCEPT !.at[s.heap[k].w] = time], k)
  BY <1>2
<1> HIDE DEF x, k
<1>6. /\ x \in Shapes(E) /\ KnownBut(x, k) /\ OnceEach(x) /\ Cached(x)
      /\ Len(x.heap) = Len(s.heap) /\ x.at = [s.at EXCEPT ![s.heap[k].w] = time]
      /\ Misplaced(Len(x.heap), Ats(x), k)
      /\ \A v \in E : x.active[v] # 0 <=> InHeap(x, v)
      /\ HeapWatchers(x) = HeapWatchers(s)
  BY <1>2, <1>5, NewTime
<1>7. k \in 1 .. Len(x.heap)
  <2>1. s.heap \in Seq([w : E, at : Int])
    BY <1>1 DEF Shapes
  <2> QED
    BY <1>2, <1>6, <2>1, SeqIsFunction
<1>8. r = adjustheap(x, Len(x.heap), k)
  BY <1>4, <1>6
<1>9. r \in Shapes(E) /\ Permuted(x, r) /\ HeapOrder(Len(x.heap), Ats(r))
  BY <1>6, <1>7, <1>8, AdjustheapOrders
<1>10. r \in Heaps(E) /\ r.at = x.at /\ HeapWatchers(r) = HeapWatchers(x)
  BY <1>6, <1>9, PutInOrder
<1> QED
  BY <1>2, <1>6, <1>10

\* What timers_reify does to the first watcher: it has its next time, and the heap
\* is right again.
THEOREM HeapRootMoves ==
    ASSUME NEW E, NEW s \in Heaps(E), s.heap # <<>>, NEW time \in Int,
           NEW r, r = downheap(ANHE_at_cache([s EXCEPT !.at[s.heap[1].w] = time], 1), Len(s.heap), 1)
    PROVE  /\ r \in Heaps(E)
           /\ r.at = [s.at EXCEPT ![s.heap[1].w] = time]
           /\ HeapWatchers(r) = HeapWatchers(s)
<1> DEFINE x == ANHE_at_cache([s EXCEPT !.at[s.heap[1].w] = time], 1)
<1>1. s.heap \in Seq([w : E, at : Int])
  BY HeapFacts DEF Shapes
<1>2. 1 \in DOMAIN s.heap /\ 1 \in 1 .. Len(s.heap)
  BY <1>1
<1> HIDE DEF x
<1>3. /\ x \in Shapes(E) /\ KnownBut(x, 1) /\ OnceEach(x) /\ Cached(x)
      /\ Len(x.heap) = Len(s.heap) /\ x.at = [s.at EXCEPT ![s.heap[1].w] = time]
      /\ Misplaced(Len(x.heap), Ats(x), 1)
      /\ \A v \in E : x.active[v] # 0 <=> InHeap(x, v)
      /\ HeapWatchers(x) = HeapWatchers(s)
  BY <1>2, NewTime DEF x
<1>4. TooLate(Len(x.heap), Ats(x), 1)
  BY <1>3 DEF Misplaced, TooLate
<1>5. r = downheap(x, Len(x.heap), 1) /\ 1 \in 1 .. Len(x.heap)
  BY <1>2, <1>3 DEF x
<1>6. r \in Shapes(E) /\ Permuted(x, r) /\ HeapOrder(Len(x.heap), Ats(r))
  BY <1>3, <1>4, <1>5, DownheapOrders
<1>7. r \in Heaps(E) /\ r.at = x.at /\ HeapWatchers(r) = HeapWatchers(x)
  BY <1>3, <1>6, PutInOrder
<1> QED
  BY <1>3, <1>7

\* The heap s without its place k: the last element is there instead.
Without(s, k, x) ==
    /\ x.active = s.active /\ x.at = s.at /\ Len(x.heap) = Len(s.heap) - 1
    /\ \A i \in 1 .. Len(s.heap) - 1 : x.heap[i] = s.heap[IF i = k THEN Len(s.heap) ELSE i]

\* What holds of the heap when the watcher at k has been taken out of it.
LEMMA TakenOut ==
    ASSUME NEW E, NEW s \in Heaps(E), NEW k \in DOMAIN s.heap,
           NEW x \in Shapes(E), Without(s, k, x)
    PROVE  /\ KnownBut(x, k) /\ OnceEach(x) /\ Cached(x)
           /\ Misplaced(Len(x.heap), Ats(x), k)
           /\ ~InHeap(x, s.heap[k].w)
           /\ \A v \in E \ {s.heap[k].w} : InHeap(x, v) <=> InHeap(s, v)
           /\ k = Len(s.heap) => /\ \A i \in DOMAIN x.heap : x.active[x.heap[i].w] = i
                                 /\ HeapOrder(Len(x.heap), Ats(x))
<1> DEFINE n == Len(s.heap) - 1
           m == [i \in 1 .. n |-> IF i = k THEN n + 1 ELSE i]
<1>1. /\ s \in Shapes(E) /\ OnceEach(s) /\ Cached(s) /\ HeapOrder(n + 1, Ats(s))
      /\ \A i \in DOMAIN s.heap : s.active[s.heap[i].w] = i
  <2>1. s.heap \in Seq([w : E, at : Int])
    BY HeapFacts DEF Shapes
  <2>2. n + 1 = Len(s.heap)
    BY <2>1
  <2> HIDE DEF n
  <2> QED
    BY <2>2, HeapFacts
<1>2. s.heap \in Seq([w : E, at : Int]) /\ x.heap \in Seq([w : E, at : Int])
  BY <1>1 DEF Shapes
<1>3. /\ Len(s.heap) \in Nat /\ DOMAIN s.heap = 1 .. Len(s.heap)
      /\ DOMAIN x.heap = 1 .. Len(x.heap)
      /\ \A i \in 1 .. Len(s.heap) : s.heap[i] \in [w : E, at : Int]
  BY <1>2, SeqIsFunction, Zenon
<1>4. /\ n \in Nat /\ DOMAIN s.heap = 1 .. n + 1 /\ Len(s.heap) = n + 1 /\ k \in 1 .. n + 1
      /\ \A i \in 1 .. n + 1 : s.heap[i] \in [w : E, at : Int]
  BY <1>3
<1>5. \A i \in 1 .. n : x.heap[i] = s.heap[m[i]]
  BY <1>4 DEF Without
<1>6. /\ Len(x.heap) = n /\ x.active = s.active /\ x.at = s.at
  BY DEF Without
<1>7. DOMAIN x.heap = 1 .. n
  BY <1>3, <1>6
<1>8. /\ \A i \in 1 .. n : m[i] \in 1 .. n + 1 /\ m[i] # k
      /\ \A i \in 1 .. n : i # k => m[i] = i
      /\ \A i, j \in 1 .. n : m[i] = m[j] => i = j
      /\ \A j \in 1 .. n + 1 : j # k => \E i \in 1 .. n : m[i] = j
  <2>1. \A j \in 1 .. n + 1 : j # k => \E i \in 1 .. n : m[i] = j
    <3> SUFFICES ASSUME NEW j \in 1 .. n + 1, j # k PROVE \E i \in 1 .. n : m[i] = j
      OBVIOUS
    <3>1. CASE j = n + 1
      <4>1. k \in 1 .. n /\ m[k] = j
        BY <1>4, <3>1
      <4> QED
        BY <4>1
    <3>2. CASE j # n + 1
      <4>1. j \in 1 .. n /\ m[j] = j
        BY <1>4, <3>2
      <4> QED
        BY <4>1
    <3> QED
      BY <3>1, <3>2
  <2>2. /\ \A i \in 1 .. n : m[i] \in 1 .. n + 1 /\ m[i] # k
        /\ \A i \in 1 .. n : i # k => m[i] = i
        /\ \A i, j \in 1 .. n : m[i] = m[j] => i = j
    BY <1>4
  <2> QED
    BY <2>1, <2>2
<1> HIDE DEF m, n
<1>9. ASSUME NEW i \in 1 .. n, i # k
      PROVE  x.active[x.heap[i].w] = i
  <2>1. x.heap[i] = s.heap[i]
    BY <1>5, <1>8, <1>9
  <2>2. i \in DOMAIN s.heap
    BY <1>4
  <2> QED
    BY <1>1, <1>6, <2>1, <2>2
<1>10. KnownBut(x, k)
  BY <1>7, <1>9 DEF KnownBut
<1>11. OnceEach(x)
  <2> SUFFICES ASSUME NEW i \in 1 .. n, NEW j \in 1 .. n, x.heap[i].w = x.heap[j].w
               PROVE  i = j
    BY <1>7 DEF OnceEach
  <2>1. s.heap[m[i]].w = s.heap[m[j]].w /\ m[i] \in DOMAIN s.heap /\ m[j] \in DOMAIN s.heap
    BY <1>4, <1>5, <1>8
  <2>2. m[i] = m[j]
    BY <1>1, <2>1 DEF OnceEach
  <2> QED
    BY <1>8, <2>2
<1>12. Cached(x)
  <2> SUFFICES ASSUME NEW i \in 1 .. n PROVE x.heap[i].at = x.at[x.heap[i].w]
    BY <1>7 DEF Cached
  <2>1. m[i] \in DOMAIN s.heap
    BY <1>4, <1>8
  <2>2. s.heap[m[i]].at = s.at[s.heap[m[i]].w]
    BY <1>1, <2>1 DEF Cached
  <2> QED
    BY <1>5, <1>6, <2>2
<1>13. ~InHeap(x, s.heap[k].w)
  <2> SUFFICES ASSUME NEW i \in 1 .. n, x.heap[i].w = s.heap[k].w PROVE FALSE
    BY <1>7 DEF InHeap
  <2>1. m[i] \in DOMAIN s.heap /\ s.heap[m[i]].w = s.heap[k].w /\ m[i] # k
    BY <1>4, <1>5, <1>8
  <2> QED
    BY <1>1, <2>1 DEF OnceEach
<1>14. ASSUME NEW v \in E \ {s.heap[k].w}
       PROVE  InHeap(x, v) <=> InHeap(s, v)
  <2>1. ASSUME NEW i \in 1 .. n, x.heap[i].w = v
        PROVE  InHeap(s, v)
    BY <1>4, <1>5, <1>8, <2>1 DEF InHeap
  <2>2. ASSUME NEW j \in 1 .. n + 1, s.heap[j].w = v
        PROVE  InHeap(x, v)
    <3>1. j # k
      BY <2>2
    <3>2. PICK i \in 1 .. n : m[i] = j
      BY <1>8, <3>1
    <3> QED
      BY <1>5, <1>7, <2>2, <3>2 DEF InHeap
  <2> QED
    BY <1>4, <1>7, <2>1, <2>2 DEF InHeap
<1>15. /\ \A i \in 1 .. n : i # k => Ats(x)[i] = Ats(s)[i]
       /\ \A i \in 1 .. n + 1 : Ats(s)[i] \in Int
       /\ \A i \in 1 .. n : Ats(x)[i] \in Int
  <2>1. \A i \in 1 .. n : Ats(x)[i] = s.heap[m[i]].at
    BY <1>5, <1>7 DEF Ats
  <2>2. \A i \in 1 .. n + 1 : Ats(s)[i] = s.heap[i].at
    BY <1>4 DEF Ats
  <2>3. \A i \in 1 .. n : i \in 1 .. n + 1
    BY <1>4
  <2> QED
    BY <1>4, <1>8, <2>1, <2>2, <2>3
<1>16. \A i \in 2 .. n + 1 : Ats(s)[HPARENT(i)] <= Ats(s)[i]
  BY <1>1 DEF HeapOrder
<1>17. ASSUME NEW i \in 2 .. n
       PROVE  /\ HPARENT(i) \in 1 .. n /\ i \in 1 .. n /\ HPARENT(i) < i
              /\ i \in 2 .. n + 1 /\ HPARENT(i) \in 1 .. n + 1 /\ i \in 1 .. n + 1
  <2>1. i \in Nat /\ i >= 2
    BY <1>4
  <2>2. HPARENT(i) \in 1 .. i - 1
    BY <2>1, ParentBefore
  <2> QED
    BY <1>4, <2>2
<1>18. ASSUME NEW i \in 2 .. n, i # k, HPARENT(i) # k
       PROVE  Ats(x)[HPARENT(i)] <= Ats(x)[i]
  <2>1. Ats(x)[i] = Ats(s)[i] /\ Ats(x)[HPARENT(i)] = Ats(s)[HPARENT(i)]
    BY <1>15, <1>17, <1>18
  <2> QED
    BY <1>16, <1>17, <2>1
<1>19. ASSUME k # 1, NEW i \in 2 .. n, HPARENT(i) = k
       PROVE  Ats(x)[HPARENT(k)] <= Ats(x)[i]
  <2>1. k \in 2 .. n
    BY <1>4, <1>17, <1>19
  <2>2. HPARENT(k) \in 1 .. n /\ HPARENT(k) # k /\ i # k /\ i \in 1 .. n /\ HPARENT(k) \in 1 .. n + 1
    BY <1>4, <1>17, <1>19, <2>1
  <2>3. Ats(s)[HPARENT(k)] <= Ats(s)[k] /\ Ats(s)[k] <= Ats(s)[i]
    BY <1>16, <1>17, <1>19, <2>1
  <2>4. Ats(x)[HPARENT(k)] = Ats(s)[HPARENT(k)] /\ Ats(x)[i] = Ats(s)[i]
    BY <1>15, <2>2
  <2>5. Ats(s)[HPARENT(k)] \in Int /\ Ats(s)[k] \in Int /\ Ats(s)[i] \in Int
    BY <1>4, <1>15, <1>17, <2>2
  <2> QED
    BY <2>3, <2>4, <2>5
<1>20. Misplaced(n, Ats(x), k)
  BY <1>18, <1>19 DEF Misplaced
<1>21. ASSUME k = n + 1
       PROVE  /\ \A i \in DOMAIN x.heap : x.active[x.heap[i].w] = i
              /\ HeapOrder(n, Ats(x))
  <2>1. \A i \in 1 .. n : i # k
    BY <1>4, <1>21
  <2>2. \A i \in 2 .. n : i # k /\ HPARENT(i) # k
    BY <1>17, <2>1
  <2> QED
    BY <1>7, <1>9, <1>18, <2>1, <2>2 DEF HeapOrder
<1> QED
  BY <1>4, <1>6, <1>10, <1>11, <1>12, <1>13, <1>14, <1>20, <1>21

\* What ev_timer_stop does: the watcher is out of the heap,
\* wherever it was, no other has come or gone, and the heap is right again.
THEOREM HeapStops ==
    ASSUME NEW E, NEW s \in Heaps(E), NEW w \in E, s.active[w] # 0,
           NEW r, r = heap_stop(s, w)
    PROVE  /\ r \in Heaps(E)
           /\ r.at = s.at
           /\ HeapWatchers(r) = HeapWatchers(s) \ {w}
<1> DEFINE k == s.active[w]
           n == Len(s.heap) - 1
           sub == SubSeq(s.heap, 1, n)
           y == PutHeap(s, sub)
           hx == [sub EXCEPT ![k] = s.heap[n + 1]]
           x == PutHeap(y, hx)
           t == IF k > n THEN y ELSE adjustheap(x, n, k)
           z == IF k > n THEN y ELSE x
           none == [t.active EXCEPT ![w] = 0]
<1>1. /\ s \in Shapes(E) /\ InHeap(s, w) /\ \A i \in DOMAIN s.heap : s.active[s.heap[i].w] = i
      /\ \A v \in E : s.active[v] # 0 <=> InHeap(s, v)
  BY HeapFacts
<1>2. k \in DOMAIN s.heap /\ s.heap[k].w = w
  BY <1>1 DEF InHeap
<1>3. /\ s.heap \in Seq([w : E, at : Int]) /\ s.active \in [E -> Nat] /\ s.at \in [E -> Int]
      /\ s = Shape(s.heap, s.active, s.at)
  BY <1>1 DEF Shapes, Shape
<1>4. /\ Len(s.heap) \in Nat /\ DOMAIN s.heap = 1 .. Len(s.heap)
      /\ \A i \in 1 .. Len(s.heap) : s.heap[i] \in [w : E, at : Int]
  BY <1>3, SeqIsFunction, Zenon
<1>5. /\ n \in Nat /\ Len(s.heap) = n + 1 /\ k \in 1 .. n + 1
      /\ \A i \in 1 .. n + 1 : s.heap[i] \in [w : E, at : Int]
  BY <1>2, <1>4
<1>6. r = PutActive(t, none)
  BY DEF heap_stop, PutActive, PutHeap
<1>7. /\ sub \in Seq([w : E, at : Int]) /\ Len(sub) = n
      /\ \A i \in 1 .. n : sub[i] = s.heap[i]
  BY <1>3, <1>5
<1>8. sub = [i \in 1 .. n |-> sub[i]] /\ DOMAIN sub = 1 .. n
  BY <1>7
<1> HIDE DEF sub
<1>9. /\ DOMAIN hx = 1 .. n /\ hx = [i \in 1 .. n |-> hx[i]]
      /\ \A i \in 1 .. n : hx[i] = s.heap[IF i = k THEN n + 1 ELSE i]
  BY <1>7, <1>8
<1> HIDE DEF hx
<1>10. hx \in Seq([w : E, at : Int]) /\ Len(hx) = n
  <2>1. \A i \in 1 .. n : (IF i = k THEN n + 1 ELSE i) \in 1 .. n + 1
    BY <1>5
  <2> HIDE DEF n, k
  <2>2. ASSUME NEW i \in 1 .. n
        PROVE  hx[i] \in [w : E, at : Int]
    <3> DEFINE j == IF i = k THEN n + 1 ELSE i
    <3>1. j \in 1 .. n + 1 /\ hx[i] = s.heap[j]
      BY <1>9, <2>1
    <3> HIDE DEF j
    <3> QED
      BY <1>5, <3>1
  <2>3. hx \in [1 .. n -> [w : E, at : Int]]
    BY <1>9, <2>2
  <2> QED
    BY <1>5, <2>3, FunctionIsSeq, Zenon
<1> HIDE DEF n, k
<1>11. y = Shape(sub, s.active, s.at)
  BY <1>3, ShapePuts
<1> HIDE DEF y
<1>12. x = Shape(hx, s.active, s.at)
  BY <1>11, ShapePuts
<1> HIDE DEF x
<1>13. x \in Shapes(E) /\ y \in Shapes(E)
  BY <1>3, <1>7, <1>10, <1>11, <1>12, ShapeOf, Zenon DEF Shape
<1>14. z \in Shapes(E) /\ Without(s, k, z) /\ Len(z.heap) = n
  <2>1. CASE k > n
    <3>1. /\ y.heap = sub /\ y.active = s.active /\ y.at = s.at
      BY <1>11 DEF Shape
    <3>2. \A i \in 1 .. n : i # k
      BY <1>5, <2>1
    <3>3. Without(s, k, y)
      BY <1>5, <1>7, <3>1, <3>2 DEF Without, n
    <3> QED
      BY <1>7, <1>13, <2>1, <3>1, <3>3
  <2>2. CASE ~(k > n)
    <3>1. /\ x.heap = hx /\ x.active = s.active /\ x.at = s.at
      BY <1>12 DEF Shape
    <3>2. Without(s, k, x)
      BY <1>5, <1>9, <1>10, <3>1 DEF Without, n
    <3> QED
      BY <1>10, <1>13, <2>2, <3>1, <3>2
  <2> QED
    BY <2>1, <2>2
<1> HIDE DEF z
<1>15. /\ KnownBut(z, k) /\ OnceEach(z) /\ Cached(z) /\ Misplaced(n, Ats(z), k)
       /\ ~InHeap(z, w) /\ \A v \in E \ {w} : InHeap(z, v) <=> InHeap(s, v)
       /\ k = n + 1 => /\ \A i \in DOMAIN z.heap : z.active[z.heap[i].w] = i
                       /\ HeapOrder(n, Ats(z))
  BY <1>2, <1>5, <1>14, TakenOut
<1>16. t \in Shapes(E) /\ Permuted(z, t) /\ HeapOrder(n, Ats(t))
  <2>1. CASE k > n
    <3>1. t = z /\ k = n + 1
      BY <1>5, <2>1 DEF z
    <3>2. Permuted(z, z)
      BY <1>15, <3>1 DEF Permuted
    <3> HIDE DEF t
    <3> QED
      BY <1>14, <1>15, <3>1, <3>2
  <2>2. CASE ~(k > n)
    <3>1. t = adjustheap(z, n, k) /\ k \in 1 .. n
      BY <1>5, <2>2 DEF z
    <3> HIDE DEF t
    <3>2. /\ t = adjustheap(z, Len(z.heap), k) /\ k \in 1 .. Len(z.heap)
          /\ Misplaced(Len(z.heap), Ats(z), k)
      BY <1>14, <1>15, <3>1
    <3>3. t \in Shapes(E) /\ Permuted(z, t) /\ HeapOrder(Len(z.heap), Ats(t))
      BY <1>14, <1>15, <3>2, AdjustheapOrders
    <3> QED
      BY <1>14, <3>3
  <2> QED
    BY <2>1, <2>2
<1> HIDE DEF t
<1>17. z.active = s.active /\ z.at = s.at
  BY <1>14 DEF Without
<1>18. \A v \in E \ {w} : z.active[v] # 0 => InHeap(z, v)
  BY <1>1, <1>15, <1>17
<1>19. HeapOrder(Len(z.heap), Ats(t))
  BY <1>14, <1>16
<1>20. /\ VerifyHeap(t)
       /\ \A v \in E : InHeap(t, v) <=> InHeap(z, v)
       /\ \A v \in E \ {w} : t.active[v] # 0 => InHeap(t, v)
  BY <1>14, <1>15, <1>16, <1>18, <1>19, PermutedIsHeap
<1>21. /\ t.heap \in Seq([w : E, at : Int]) /\ t.active \in [E -> Nat] /\ t.at \in [E -> Int]
       /\ t = Shape(t.heap, t.active, t.at) /\ t.at = s.at
  BY <1>16, <1>17 DEF Shapes, Shape, Permuted
<1>22. none \in [E -> Nat] /\ none[w] = 0 /\ \A v \in E : v # w => none[v] = t.active[v]
  BY <1>21
<1> HIDE DEF none
<1>23. r = Shape(t.heap, none, t.at)
  BY <1>6, <1>21, ShapePuts
<1>24. r.heap = t.heap /\ r.active = none /\ r.at = t.at
  BY <1>23 DEF Shape
<1>25. r \in Shapes(E)
  BY <1>21, <1>22, <1>23, ShapeOf, Zenon DEF Shape
<1>26. \A v \in E : InHeap(r, v) <=> InHeap(t, v)
  BY <1>24 DEF InHeap
<1>27. ~InHeap(t, w)
  BY <1>15, <1>20
<1>28. VerifyHeap(r)
  <2>1. DOMAIN t.heap = 1 .. Len(t.heap) /\ \A i \in DOMAIN t.heap : t.heap[i] \in [w : E, at : Int]
    BY <1>21, SeqIsFunction, Zenon
  <2>2. \A i \in DOMAIN t.heap : t.heap[i].w \in E /\ t.heap[i].w # w
    BY <1>27, <2>1 DEF InHeap
  <2>3. \A i \in DOMAIN t.heap : none[t.heap[i].w] = t.active[t.heap[i].w]
    BY <1>22, <2>2
  <2> QED
    BY <1>20, <1>24, <2>3 DEF VerifyHeap
<1>29. ASSUME NEW v \in E, r.active[v] # 0
       PROVE  InHeap(r, v)
  BY <1>20, <1>22, <1>24, <1>26, <1>29
<1>30. r \in Heaps(E)
  BY <1>25, <1>28, <1>29 DEF Heaps
<1>31. \A v \in E : r.active[v] # 0 <=> s.active[v] # 0 /\ v # w
  <2>1. \A v \in E : r.active[v] # 0 <=> InHeap(r, v)
    BY <1>30, HeapFacts
  <2>2. \A v \in E : v = w \/ v \in E \ {w}
    OBVIOUS
  <2> QED
    BY <1>1, <1>15, <1>20, <1>26, <1>27, <2>1, <2>2
<1>32. DOMAIN r.active = E /\ DOMAIN s.active = E
  BY <1>3, <1>22, <1>24
<1>33. HeapWatchers(r) = HeapWatchers(s) \ {w}
  BY <1>31, <1>32 DEF HeapWatchers
<1> QED
  BY <1>21, <1>24, <1>30, <1>33

\* The root is the earliest of all active watchers: what the wait of ev_run and
\* timers_reify, which look at nothing else, rely on.
THEOREM HeapRoot ==
    ASSUME NEW E, NEW s \in Heaps(E), NEW w \in E, s.active[w] # 0
    PROVE  s.heap # <<>> /\ s.heap[1].at <= s.at[w]
<1> DEFINE n == Len(s.heap)
           a == Ats(s)
           T == {m \in Nat : \A k \in 1 .. m : k <= n => a[1] <= a[k]}
<1>1. s \in Shapes(E) /\ Cached(s) /\ HeapOrder(n, a) /\ InHeap(s, w)
  BY HeapFacts
<1>2. s.heap \in Seq([w : E, at : Int])
  BY <1>1 DEF Shapes
<1>3. n \in Nat /\ DOMAIN s.heap = 1 .. n /\ \A i \in 1 .. n : s.heap[i] \in [w : E, at : Int]
  BY <1>2, SeqIsFunction, Zenon
<1>4. \A i \in 1 .. n : a[i] = s.heap[i].at /\ a[i] \in Int
  BY <1>3 DEF Ats
<1> HIDE DEF a, n
<1>5. 0 \in T
  OBVIOUS
<1>6. ASSUME NEW m \in Nat, m \in T
      PROVE  m + 1 \in T
  <2> DEFINE j == m + 1
  <2>1. j \in Nat /\ j >= 1 /\ m = j - 1
    OBVIOUS
  <2> HIDE DEF j
  <2>2. ASSUME j <= n
        PROVE  a[1] <= a[j]
    <3>1. CASE j = 1
      BY <1>3, <1>4, <2>1, <2>2, <3>1
    <3>2. CASE j # 1
      <4>1. j >= 2 /\ j \in 2 .. n
        BY <1>3, <2>1, <2>2, <3>2
      <4>2. HPARENT(j) \in 1 .. j - 1
        BY <2>1, <4>1, ParentBefore
      <4>3. /\ HPARENT(j) \in 1 .. m /\ HPARENT(j) <= n /\ HPARENT(j) \in 1 .. n
            /\ j \in 1 .. n /\ 1 \in 1 .. n
        BY <1>3, <2>1, <2>2, <4>2
      <4>4. a[1] <= a[HPARENT(j)]
        BY <1>6, <4>3
      <4>5. a[HPARENT(j)] <= a[j]
        BY <1>1, <4>1 DEF HeapOrder
      <4> QED
        BY <1>4, <4>3, <4>4, <4>5
    <3> QED
      BY <3>1, <3>2
  <2>3. \A k \in 1 .. j : k \in 1 .. m \/ k = j
    BY <2>1
  <2>4. \A k \in 1 .. j : k <= n => a[1] <= a[k]
    BY <1>6, <2>2, <2>3
  <2> QED
    BY <2>1, <2>4 DEF j
<1>7. n \in T
  <2> HIDE DEF T
  <2> QED
    BY <1>3, <1>5, <1>6, InductionOnSet
<1>8. PICK k \in 1 .. n : s.heap[k].w = w
  BY <1>1, <1>3 DEF InHeap
<1>9. 1 \in 1 .. n
  BY <1>3, <1>8
<1>10. s.heap[k].at = s.at[w]
  BY <1>1, <1>3, <1>8 DEF Cached
<1>11. a[1] <= a[k]
  BY <1>3, <1>7, <1>8
<1>12. s.heap # <<>>
  BY <1>2, <1>3, <1>9 DEF n
<1> QED
  BY <1>4, <1>8, <1>9, <1>10, <1>11, <1>12

\* What timers_reschedule does when the clock jumped: all active watchers are
\* moved by as much, and the heap is right as it stands.
THEOREM HeapAdjusts ==
    ASSUME NEW E, NEW s \in Heaps(E), NEW adjust \in Int,
           NEW r, r = heap_adjust(s, adjust)
    PROVE  /\ r \in Heaps(E)
           /\ r.at = [w \in E |-> IF s.active[w] # 0 THEN s.at[w] + adjust ELSE s.at[w]]
           /\ HeapWatchers(r) = HeapWatchers(s)
<1> DEFINE heap == [k \in DOMAIN s.heap |-> [w |-> s.heap[k].w, at |-> s.heap[k].at + adjust]]
           at == [w \in E |-> IF s.active[w] # 0 THEN s.at[w] + adjust ELSE s.at[w]]
<1>1. /\ s \in Shapes(E) /\ OnceEach(s) /\ Cached(s) /\ HeapOrder(Len(s.heap), Ats(s))
      /\ \A k \in DOMAIN s.heap : s.active[s.heap[k].w] = k
      /\ \A w \in E : s.active[w] # 0 <=> InHeap(s, w)
  BY HeapFacts
<1>2. s.heap \in Seq([w : E, at : Int]) /\ s.active \in [E -> Nat] /\ s.at \in [E -> Int]
  BY <1>1 DEF Shapes
<1>3. /\ Len(s.heap) \in Nat /\ DOMAIN s.heap = 1 .. Len(s.heap)
      /\ \A k \in 1 .. Len(s.heap) : s.heap[k] \in [w : E, at : Int]
  BY <1>2, SeqIsFunction, Zenon
<1>4. \A k \in DOMAIN s.heap : s.heap[k] \in [w : E, at : Int]
  BY <1>3
<1>5. \A k \in DOMAIN s.heap : heap[k].w = s.heap[k].w /\ heap[k].at = s.heap[k].at + adjust
  OBVIOUS
<1>6. heap \in Seq([w : E, at : Int]) /\ DOMAIN heap = DOMAIN s.heap
  <2>1. heap = [k \in 1 .. Len(s.heap) |-> heap[k]] /\ DOMAIN heap = DOMAIN s.heap
    BY <1>3
  <2>2. \A k \in 1 .. Len(s.heap) : heap[k] \in [w : E, at : Int]
    BY <1>3
  <2> HIDE DEF heap
  <2>3. heap \in [1 .. Len(s.heap) -> [w : E, at : Int]]
    BY <2>1, <2>2
  <2> QED
    BY <1>3, <2>1, <2>3, FunctionIsSeq, Zenon
<1>7. at \in [E -> Int]
  BY <1>2
<1>8. r = [heap |-> heap, active |-> s.active, at |-> at]
  BY <1>1, <1>2 DEF heap_adjust, Shapes
<1> HIDE DEF heap, at
<1>9. r \in Shapes(E)
  BY <1>2, <1>6, <1>7, <1>8 DEF Shapes
<1>10. \A k \in DOMAIN s.heap : s.heap[k].w \in E /\ s.active[s.heap[k].w] # 0
  BY <1>1, <1>4 DEF InHeap
<1>11. \A k \in DOMAIN s.heap : at[s.heap[k].w] = s.heap[k].at + adjust
  BY <1>1, <1>10 DEF Cached, at
<1>12. VerifyHeap(r)
  <2> SUFFICES ASSUME NEW k \in DOMAIN r.heap
               PROVE  /\ r.active[r.heap[k].w] = k
                      /\ k = 1 \/ ANHE_at(r.heap, HPARENT(k)) <= ANHE_at(r.heap, k)
                      /\ ANHE_at(r.heap, k) = r.at[r.heap[k].w]
    BY DEF VerifyHeap
  <2>1. r.heap = heap /\ r.active = s.active /\ r.at = at /\ k \in DOMAIN s.heap
    BY <1>6, <1>8
  <2>2. r.active[r.heap[k].w] = k /\ ANHE_at(r.heap, k) = r.at[r.heap[k].w]
    <3>1. heap[k].w = s.heap[k].w /\ heap[k].at = s.heap[k].at + adjust
      BY <1>5, <2>1
    <3>2. s.active[s.heap[k].w] = k /\ at[s.heap[k].w] = s.heap[k].at + adjust
      BY <1>1, <1>11, <2>1
    <3> QED
      BY <2>1, <3>1, <3>2 DEF ANHE_at
  <2>3. ASSUME k # 1
        PROVE  ANHE_at(r.heap, HPARENT(k)) <= ANHE_at(r.heap, k)
    <3>1. k \in 2 .. Len(s.heap) /\ HPARENT(k) \in 1 .. k - 1
      BY <1>3, <2>1, <2>3, ParentBefore
    <3>2. HPARENT(k) \in DOMAIN s.heap
      BY <1>3, <3>1
    <3>3. s.heap[HPARENT(k)].at <= s.heap[k].at
      BY <1>1, <2>1, <3>1, <3>2 DEF HeapOrder, Ats
    <3>4. s.heap[HPARENT(k)].at \in Int /\ s.heap[k].at \in Int
      BY <1>4, <2>1, <3>2
    <3>5. /\ ANHE_at(r.heap, HPARENT(k)) = s.heap[HPARENT(k)].at + adjust
          /\ ANHE_at(r.heap, k) = s.heap[k].at + adjust
      <4>1. /\ heap[HPARENT(k)].at = s.heap[HPARENT(k)].at + adjust
            /\ heap[k].at = s.heap[k].at + adjust
        BY <1>5, <2>1, <3>2
      <4> QED
        BY <2>1, <4>1, Zenon DEF ANHE_at
    <3> QED
      BY <3>3, <3>4, <3>5
  <2> QED
    BY <2>2, <2>3
<1>13. \A w \in E : r.active[w] # 0 => InHeap(r, w)
  BY <1>1, <1>5, <1>6, <1>8 DEF InHeap
<1> QED
  BY <1>8, <1>9, <1>12, <1>13 DEF Heaps, HeapWatchers, at
===============================================================================
