----------------------------- MODULE EvRunProofs -----------------------------
(***************************************************************************)
(* Theorems about EvRun, for any number of watchers, priorities and nested *)
(* calls of ev_run: the arrays of watchers and the count of the active     *)
(* ones are right, and callbacks, idle watchers, fork watchers and the     *)
(* poll keep their order.                                                  *)
(***************************************************************************)
EXTENDS EvRun, ListLemmas

-------------------------------------------------------------------------------
(* The inductive invariant *)

Labels == {"first", "fork", "forked", "prepare", "prepared", "poll", "polled", "while", "end"}
AllKinds == {"fork", "prepare", "check", "idle", "cleanup", "io"}
Info == [kind : AllKinds, pri : Pri, active : Nat]
Pendings == [Pri -> Seq(Watcher \cup {None})]
Call == [flag : {"LOOP", "ONCE", "NOWAIT"}, at : Labels, cb : BOOLEAN]

TypeInv ==
    /\ of \in [Watcher -> Info] /\ arr \in [Arrays -> Seq(Watcher)] /\ pend \in Pendings
    /\ pendingpri \in Pri /\ activecnt \in Int /\ user \in Int
    /\ loop_done \in {"CANCEL", "ONE", "ALL"} /\ postfork \in 0 .. 2
    /\ stack \in Seq(Call) /\ untold \in SUBSET Watcher

\* Each place of an array knows its watcher and the watcher its place.
ArrayInv ==
    /\ \A a \in Arrays : \A i \in DOMAIN arr[a] :
         of[arr[a][i]].active = i /\ Array(arr[a][i]) = a
    /\ \A w \in Watcher : Active(w) => Contains(arr[Array(w)], w)

\* A pending watcher is on the stack of its priority.
PriorityInv == \A p \in Pri : \A w \in Watcher : Contains(pend[p], w) => of[w].pri = p

\* Nothing is pending above the priority that ev_invoke_pending has come to.
AboveInv == \A p \in Pri : p > pendingpri => pend[p] = <<>>

Drained == \A p \in Pri : pend[p] = <<>>
Invoking == DOMAIN Invokes

\* Only ev_invoke_pending runs callbacks, and only a callback calls ev_run again;
\* ev_run goes on when nothing is pending.
FrameInv ==
    /\ \A i \in DOMAIN stack : stack[i].cb => stack[i].at \in Invoking
    /\ \A i \in DOMAIN stack : i < Len(stack) => stack[i].cb
    /\ stack # <<>> /\ top.at \notin Invoking => Drained

\* While a call of ev_run is between the fork watchers and the poll, those that
\* have not been told are pending.
ForkInv ==
    /\ \A w \in untold : Active(w) /\ of[w].kind = "fork"
    /\ postfork = 1 /\ (\E i \in DOMAIN stack : stack[i].at \in {"forked", "prepare", "prepared", "poll"})
         => \A w \in untold : Pending(w)

IInv ==
    /\ TypeInv /\ ArrayInv /\ PriorityInv /\ AboveInv /\ FrameInv
    /\ ActiveCounted
    /\ ~LateFork => ForkInv

-------------------------------------------------------------------------------
(* Facts about the operators of the model *)

\* The choice of the highest priority of a set.
LEMMA HighestOf ==
    ASSUME RunAssumption, NEW S \in SUBSET Pri, S # {}
    PROVE  LET h == CHOOSE p \in S : \A q \in S : q <= p
           IN  h \in S /\ \A q \in S : q <= h
<1>1. NUMPRI \in Nat
  BY DEF RunAssumption
<1>0. \A p \in S : p \in Nat /\ p < NUMPRI /\ NUMPRI - p \in Nat
  <2>1. \A p \in Pri : p \in Nat /\ p < NUMPRI /\ NUMPRI - p \in Nat
    BY <1>1 DEF Pri
  <2> QED
    BY <2>1
<1> DEFINE far == {NUMPRI - p : p \in S}
<1>2. far \in SUBSET Nat /\ far # {}
  BY <1>0
<1>3. PICK m \in far : \A n \in far : m <= n
  BY <1>2, LeastNat
<1>4. PICK p \in S : m = NUMPRI - p
  BY <1>3
<1>5. \A q \in S : q <= p
  BY <1>0, <1>1, <1>3, <1>4
<1> QED
  BY <1>4, <1>5, Zenon

\* Each watcher of a set once, in any order.
LEMMA ListOf ==
    ASSUME NEW S, IsFiniteSet(S)
    PROVE  SetToSeq(S) \in Seq(S)
<1> DEFINE n == Cardinality(S)
<1>1. n \in Nat /\ ExistsBijection(1 .. n, S)
  BY FS_CardinalityType
<1>2. \E f \in [1 .. n -> S] : IsInjective(f)
  BY <1>1 DEF ExistsBijection, Bijection, Injection, IsInjective
<1>3. SetToSeq(S) \in [1 .. n -> S]
  BY <1>2 DEF SetToSeq
<1> QED
  BY <1>1, <1>3

\* A list is empty if it contains nothing.
LEMMA Nothing ==
    ASSUME NEW S, NEW s \in Seq(S)
    PROVE  s = <<>> <=> \A x \in S : ~Contains(s, x)
<1>1. s # <<>> => s[1] \in S /\ 1 \in 1 .. Len(s)
  OBVIOUS
<1>2. s = <<>> => 1 .. Len(s) = {}
  OBVIOUS
<1> QED
  BY <1>1, <1>2 DEF Contains

\* Append adds one element.
LEMMA Appended ==
    ASSUME NEW S, NEW s \in Seq(S), NEW e \in S
    PROVE  /\ Append(s, e) \in Seq(S)
           /\ \A x : Contains(Append(s, e), x) <=> Contains(s, x) \/ x = e
<1> DEFINE t == Append(s, e)
<1>1. /\ Len(s) \in Nat /\ t \in Seq(S) /\ Len(t) = Len(s) + 1
      /\ \A i \in 1 .. Len(s) : t[i] = s[i]
      /\ t[Len(s) + 1] = e
  OBVIOUS
<1>2. \A i : i \in 1 .. Len(t) <=> i \in 1 .. Len(s) \/ i = Len(s) + 1
  BY <1>1
<1> HIDE DEF t
<1>3. \A x : Contains(t, x) <=> Contains(s, x) \/ x = e
  BY <1>1, <1>2, Zenon DEF Contains
<1> QED
  BY <1>1, <1>3 DEF t

\* Front takes away the last element.
LEMMA Shortened ==
    ASSUME NEW S, NEW s \in Seq(S), s # <<>>
    PROVE  /\ Front(s) \in Seq(S) /\ Last(s) \in S /\ Contains(s, Last(s))
           /\ \A x : Contains(s, x) <=> Contains(Front(s), x) \/ x = Last(s)
           /\ Len(Front(s)) = Len(s) - 1
           /\ \A i \in 1 .. Len(s) - 1 : Front(s)[i] = s[i]
<1> DEFINE t == Front(s)
<1>1. /\ Len(s) \in Nat \ {0} /\ t \in Seq(S) /\ Len(t) = Len(s) - 1
      /\ \A i \in 1 .. Len(t) : t[i] = s[i]
      /\ s[Len(s)] \in S
  <2>1. Len(s) \in Nat \ {0} /\ s[Len(s)] \in S /\ Len(s) - 1 \in 0 .. Len(s)
    OBVIOUS
  <2>2. t = [i \in 1 .. Len(s) - 1 |-> s[i]]
    BY <2>1 DEF Front
  <2> QED
    BY <2>1, <2>2
<1>2. (\A i : i \in 1 .. Len(s) <=> i \in 1 .. Len(t) \/ i = Len(s)) /\ Len(s) \in 1 .. Len(s)
  BY <1>1
<1> HIDE DEF t
<1>3. \A x : Contains(s, x) <=> Contains(t, x) \/ x = Last(s)
  BY <1>1, <1>2, Zenon DEF Contains, Last
<1>4. Last(s) \in S /\ Contains(s, Last(s))
  BY <1>1, <1>2 DEF Contains, Last
<1> QED
  BY <1>1, <1>3, <1>4 DEF t

\* A place or the callback of the innermost call is noted.
LEMMA SetTop ==
    ASSUME NEW s \in Seq(Call), s # <<>>, NEW label \in Labels, NEW b \in BOOLEAN
    PROVE  LET n == Len(s)
               t == [s EXCEPT ![n].at = label]
               u == [s EXCEPT ![n].cb = b]
           IN  /\ t \in Seq(Call) /\ Len(t) = n /\ DOMAIN t = DOMAIN s
               /\ t[n].at = label /\ t[n].cb = s[n].cb /\ t[n].flag = s[n].flag
               /\ \A i \in 1 .. n - 1 : t[i] = s[i]
               /\ u \in Seq(Call) /\ Len(u) = n /\ DOMAIN u = DOMAIN s
               /\ u[n].cb = b /\ u[n].at = s[n].at
               /\ \A i \in 1 .. n - 1 : u[i] = s[i]
<1> DEFINE n == Len(s)  p == [s[n] EXCEPT !.at = label]  q == [s[n] EXCEPT !.cb = b]
<1>1. n \in Nat \ {0} /\ n \in DOMAIN s /\ s[n] \in Call /\ DOMAIN s = 1 .. n
  OBVIOUS
<1>2. p \in Call /\ p.at = label /\ p.cb = s[n].cb /\ p.flag = s[n].flag
  BY <1>1 DEF Call
<1>3. q \in Call /\ q.cb = b /\ q.at = s[n].at
  BY <1>1 DEF Call
<1>4. [s EXCEPT ![n].at = label] = [s EXCEPT ![n] = p] /\ [s EXCEPT ![n].cb = b] = [s EXCEPT ![n] = q]
  OBVIOUS
<1> HIDE DEF n, p, q
<1>5. ASSUME NEW r \in Call
      PROVE  /\ [s EXCEPT ![n] = r] \in Seq(Call) /\ Len([s EXCEPT ![n] = r]) = n
             /\ DOMAIN [s EXCEPT ![n] = r] = DOMAIN s
             /\ [s EXCEPT ![n] = r][n] = r /\ \A i \in 1 .. n - 1 : [s EXCEPT ![n] = r][i] = s[i]
  BY <1>1
<1> DEFINE t == [s EXCEPT ![n].at = label]  u == [s EXCEPT ![n].cb = b]
<1>6. /\ t \in Seq(Call) /\ Len(t) = n /\ DOMAIN t = DOMAIN s
      /\ t[n] = p /\ \A i \in 1 .. n - 1 : t[i] = s[i]
  <2>1. t = [s EXCEPT ![n] = p]
    BY <1>4
  <2> HIDE DEF t
  <2> QED
    BY <1>2, <1>5, <2>1, Zenon
<1>7. /\ u \in Seq(Call) /\ Len(u) = n /\ DOMAIN u = DOMAIN s
      /\ u[n] = q /\ \A i \in 1 .. n - 1 : u[i] = s[i]
  <2>1. u = [s EXCEPT ![n] = q]
    BY <1>4
  <2> HIDE DEF u
  <2> QED
    BY <1>3, <1>5, <2>1, Zenon
<1> HIDE DEF t, u
<1>8. /\ t[n].at = label /\ t[n].cb = s[n].cb /\ t[n].flag = s[n].flag
      /\ u[n].cb = b /\ u[n].at = s[n].at
  BY <1>2, <1>3, <1>6, <1>7
<1> QED
  BY <1>6, <1>7, <1>8, Zenon DEF n, t, u

\* ev_feed_event makes one watcher pending, at its priority.
LEMMA Fed ==
    ASSUME TypeInv, NEW p \in Pendings, NEW w \in Watcher
    PROVE  /\ feed(p, w) \in Pendings
           /\ \A r \in Pri : \A x :
                Contains(feed(p, w)[r], x) <=> Contains(p[r], x) \/ (x = w /\ of[w].pri = r)
<1> DEFINE q == of[w].pri  s == Append(p[q], w)
<1>1. q \in Pri /\ p[q] \in Seq(Watcher \cup {None})
  BY DEF TypeInv, Info, Pendings
<1>2. CASE Contains(p[q], w)
  BY <1>1, <1>2 DEF feed
<1>3. CASE ~Contains(p[q], w)
  <2>1. feed(p, w) = [p EXCEPT ![q] = s]
    BY <1>3 DEF feed
  <2>2. s \in Seq(Watcher \cup {None}) /\ \A x : Contains(s, x) <=> Contains(p[q], x) \/ x = w
    BY <1>1, Appended
  <2> HIDE DEF s, q
  <2>3. [p EXCEPT ![q] = s] \in Pendings
    BY <2>2 DEF Pendings
  <2>4. \A r \in Pri : [p EXCEPT ![q] = s][r] = IF r = q THEN s ELSE p[r]
    BY DEF Pendings
  <2>5. ASSUME NEW r \in Pri, NEW x
        PROVE  Contains(feed(p, w)[r], x) <=> Contains(p[r], x) \/ (x = w /\ q = r)
    BY <2>1, <2>2, <2>4, Zenon
  <2> QED
    BY <2>1, <2>3, <2>5 DEF q
<1> QED
  BY <1>2, <1>3

\* One turn of the loop of queue_events.
QueueStep(p, ws, q, n) == IF n = 0 THEN p ELSE feed(q[n - 1], ws[n])

\* The pending events after each turn exist.
LEMMA QueueExists ==
    ASSUME NEW p, NEW ws, NEW N \in Nat
    PROVE  \E q : q = [n \in 0 .. N |-> QueueStep(p, ws, q, n)]
<1> DEFINE S == {m \in Nat : \E q : q = [n \in 0 .. m |-> QueueStep(p, ws, q, n)]}
<1>1. 0 \in S
  <2> DEFINE q == [n \in 0 .. 0 |-> p]
  <2>1. \A n \in 0 .. 0 : QueueStep(p, ws, q, n) = p
    BY DEF QueueStep
  <2>2. q = [n \in 0 .. 0 |-> QueueStep(p, ws, q, n)]
    BY <2>1
  <2> QED
    BY <2>2
<1>2. ASSUME NEW m \in Nat, m \in S
      PROVE  m + 1 \in S
  <2>1. PICK q : q = [n \in 0 .. m |-> QueueStep(p, ws, q, n)]
    BY <1>2
  <2> DEFINE h == [n \in 0 .. m + 1 |-> IF n = m + 1 THEN QueueStep(p, ws, q, n) ELSE q[n]]
  <2>2. \A n \in 0 .. m : q[n] = QueueStep(p, ws, q, n)
    BY <2>1
  <2>3. \A n \in 0 .. m : h[n] = q[n]
    BY <1>2
  <2>4. h[m + 1] = QueueStep(p, ws, q, m + 1)
    BY <1>2
  <2> HIDE DEF h
  <2>5. ASSUME NEW n \in 0 .. m + 1
        PROVE  QueueStep(p, ws, h, n) = QueueStep(p, ws, q, n)
    <3>1. CASE n = 0
      BY <3>1 DEF QueueStep
    <3>2. CASE n # 0
      <4>1. n - 1 \in 0 .. m
        BY <3>2, <2>5
      <4>2. h[n - 1] = q[n - 1]
        BY <2>3, <4>1
      <4> QED
        BY <4>2 DEF QueueStep
    <3> QED
      BY <3>1, <3>2
  <2>6. \A n \in 0 .. m + 1 : h[n] = QueueStep(p, ws, h, n)
    BY <2>2, <2>3, <2>4, <2>5, <1>2
  <2>7. h = [n \in 0 .. m + 1 |-> QueueStep(p, ws, h, n)]
    BY <2>6, Zenon DEF h
  <2> QED
    BY <2>7
<1>3. N \in S
  BY <1>1, <1>2, InductionOnSet
<1> QED
  BY <1>3

\* queue_events makes the watchers of a list pending, each at its priority.
LEMMA Queued ==
    ASSUME TypeInv, NEW p \in Pendings, NEW ws \in Seq(Watcher)
    PROVE  /\ queue_events(p, ws) \in Pendings
           /\ \A r \in Pri : \A x :
                Contains(queue_events(p, ws)[r], x)
                    <=> Contains(p[r], x) \/ (Contains(ws, x) /\ of[x].pri = r)
<1> DEFINE N == Len(ws)
           q == CHOOSE f : f = [n \in 0 .. N |-> QueueStep(p, ws, f, n)]
           Held(n) == /\ q[n] \in Pendings
                      /\ \A r \in Pri : \A x :
                           Contains(q[n][r], x)
                               <=> \/ Contains(p[r], x)
                                   \/ (\E i \in 1 .. n : ws[i] = x) /\ of[x].pri = r
           T == {n \in Nat : n <= N => Held(n)}
<1>0. N \in Nat
  OBVIOUS
<1>1. q = [n \in 0 .. N |-> QueueStep(p, ws, q, n)]
  <2>1. \E f : f = [n \in 0 .. N |-> QueueStep(p, ws, f, n)]
    BY <1>0, QueueExists
  <2> QED
    BY <2>1, Zenon
<1>2. queue_events(p, ws) = q[N]
  BY Zenon DEF queue_events, QueueStep
<1> HIDE DEF q
<1>3. \A n \in 0 .. N : q[n] = QueueStep(p, ws, q, n)
  BY <1>1
<1>4. 0 \in T
  <2>1. q[0] = p
    BY <1>0, <1>3 DEF QueueStep
  <2>2. \A x : ~ \E i \in 1 .. 0 : ws[i] = x
    OBVIOUS
  <2>3. Held(0)
    BY <2>1, <2>2, Zenon
  <2> QED
    BY <2>3
<1>5. ASSUME NEW n \in Nat, n \in T
      PROVE  n + 1 \in T
  <2> SUFFICES ASSUME n + 1 <= N PROVE Held(n + 1)
    OBVIOUS
  <2>1. Held(n)
    BY <1>0, <1>5
  <2>2. n + 1 \in 0 .. N /\ n + 1 # 0 /\ (n + 1) - 1 = n /\ ws[n + 1] \in Watcher
    BY <1>0
  <2>3. q[n + 1] = feed(q[n], ws[n + 1])
    BY <1>3, <2>2, Zenon DEF QueueStep
  <2> HIDE DEF N
  <2>4. /\ q[n + 1] \in Pendings
        /\ \A r \in Pri : \A x :
             Contains(q[n + 1][r], x)
                 <=> Contains(q[n][r], x) \/ (x = ws[n + 1] /\ of[ws[n + 1]].pri = r)
    <3>1. q[n] \in Pendings /\ ws[n + 1] \in Watcher
      BY <2>1, <2>2
    <3>2. PICK p0 \in Pendings, w \in Watcher : p0 = q[n] /\ w = ws[n + 1]
      BY <3>1
    <3>3. /\ feed(p0, w) \in Pendings
          /\ \A r \in Pri : \A x :
               Contains(feed(p0, w)[r], x) <=> Contains(p0[r], x) \/ (x = w /\ of[w].pri = r)
      BY Fed
    <3> QED
      BY <2>3, <3>2, <3>3
  <2>5. \A i : i \in 1 .. n + 1 <=> i \in 1 .. n \/ i = n + 1
    OBVIOUS
  <2>6. \A x : (\E i \in 1 .. n + 1 : ws[i] = x) <=> (\E i \in 1 .. n : ws[i] = x) \/ x = ws[n + 1]
    BY <2>5, Zenon
  <2>7. ASSUME NEW r \in Pri, NEW x
        PROVE  Contains(q[n + 1][r], x)
                 <=> Contains(p[r], x) \/ ((\E i \in 1 .. n + 1 : ws[i] = x) /\ of[x].pri = r)
    <3>1. Contains(q[n][r], x) <=> Contains(p[r], x) \/ ((\E i \in 1 .. n : ws[i] = x) /\ of[x].pri = r)
      BY <2>1, Zenon
    <3>2. Contains(q[n + 1][r], x) <=> Contains(q[n][r], x) \/ (x = ws[n + 1] /\ of[x].pri = r)
      BY <2>4, Zenon
    <3> QED
      BY <2>6, <3>1, <3>2, Zenon
  <2> QED
    BY <2>4, <2>7, Zenon
<1>6. N \in T
  <2> HIDE DEF T
  <2>1. Nat \subseteq T
    BY <1>4, <1>5, InductionOnSet
  <2> QED
    BY <1>0, <2>1
<1>7. Held(N)
  BY <1>0, <1>6
<1>8. ASSUME NEW r \in Pri, NEW x
      PROVE  Contains(queue_events(p, ws)[r], x)
               <=> Contains(p[r], x) \/ (Contains(ws, x) /\ of[x].pri = r)
  <2>1. Contains(ws, x) <=> \E i \in 1 .. N : ws[i] = x
    BY Zenon DEF Contains
  <2>2. Contains(q[N][r], x) <=> Contains(p[r], x) \/ ((\E i \in 1 .. N : ws[i] = x) /\ of[x].pri = r)
    BY <1>7, Zenon
  <2> QED
    BY <1>2, <2>1, <2>2, Zenon
<1> QED
  BY <1>2, <1>7, <1>8, Zenon

\* clear_pending puts pending_w in the place of the watcher.
LEMMA Cleared ==
    ASSUME RunAssumption, TypeInv, NEW w \in Watcher
    PROVE  /\ clear_pending(w) \in Pendings
           /\ \A p \in Pri : pend[p] = <<>> => clear_pending(w)[p] = <<>>
           /\ \A p \in Pri : \A v \in Watcher :
                Contains(clear_pending(w)[p], v) <=> Contains(pend[p], v) /\ v # w
<1> DEFINE new(p) == [i \in DOMAIN pend[p] |-> IF pend[p][i] = w THEN None ELSE pend[p][i]]
<1>1. ASSUME NEW p \in Pri
      PROVE  /\ new(p) \in Seq(Watcher \cup {None}) /\ Len(new(p)) = Len(pend[p])
             /\ \A i \in 1 .. Len(pend[p]) :
                  new(p)[i] = IF pend[p][i] = w THEN None ELSE pend[p][i]
  <2>1. pend[p] \in Seq(Watcher \cup {None})
    BY DEF TypeInv, Pendings
  <2> DEFINE s == pend[p]
  <2> HIDE DEF s
  <2>2. ASSUME NEW s0 \in Seq(Watcher \cup {None})
        PROVE  LET t == [i \in DOMAIN s0 |-> IF s0[i] = w THEN None ELSE s0[i]]
               IN  /\ t \in Seq(Watcher \cup {None}) /\ Len(t) = Len(s0)
                   /\ \A i \in 1 .. Len(s0) : t[i] = IF s0[i] = w THEN None ELSE s0[i]
    OBVIOUS
  <2> QED
    BY <2>1, <2>2
<1>2. clear_pending(w) = [p \in Pri |-> new(p)]
  BY DEF clear_pending
<1> HIDE DEF new
<1>3. clear_pending(w) \in Pendings /\ \A p \in Pri : clear_pending(w)[p] = new(p)
  BY <1>1, <1>2 DEF Pendings
<1>4. ASSUME NEW p \in Pri, pend[p] = <<>>
      PROVE  new(p) = <<>>
  BY <1>1, <1>4
<1>5. None \notin Watcher
  BY DEF RunAssumption
<1>6. ASSUME NEW p \in Pri, NEW v \in Watcher
      PROVE  Contains(new(p), v) <=> Contains(pend[p], v) /\ v # w
  BY <1>1, <1>5, Zenon DEF Contains
<1> QED
  BY <1>3, <1>4, <1>6

-------------------------------------------------------------------------------
(* The arrays of active watchers *)

\* Every watcher has an array for its kind and priority.
LEMMA ArrayOf ==
    ASSUME TypeInv, NEW w \in Watcher
    PROVE  Array(w) \in Arrays /\ arr[Array(w)] \in Seq(Watcher)
<1>1. of[w] \in Info
  BY DEF TypeInv
<1>2. ASSUME NEW r \in Info
      PROVE  <<r.kind, IF r.kind = "idle" THEN r.pri ELSE 0>> \in Arrays
  <2>1. CASE r.kind = "idle"
    BY <2>1, <1>2 DEF Info, Arrays
  <2>2. CASE r.kind # "idle"
    BY <2>2, <1>2 DEF Info, Arrays, AllKinds
  <2> QED
    BY <2>1, <2>2
<1>3. Array(w) \in Arrays
  BY <1>1, <1>2 DEF Array
<1> QED
  BY <1>3 DEF TypeInv

\* An active watcher is at its index, and nowhere else.
LEMMA PlaceOf ==
    ASSUME TypeInv, ArrayInv, NEW w \in Watcher, Active(w)
    PROVE  of[w].active \in 1 .. Len(arr[Array(w)]) /\ arr[Array(w)][of[w].active] = w
<1>1. Array(w) \in Arrays /\ arr[Array(w)] \in Seq(Watcher)
  BY ArrayOf
<1>2. PICK i \in 1 .. Len(arr[Array(w)]) : arr[Array(w)][i] = w
  BY Zenon DEF ArrayInv, Contains
<1>3. i \in DOMAIN arr[Array(w)]
  BY <1>1, <1>2
<1>4. of[w].active = i
  BY <1>1, <1>2, <1>3 DEF ArrayInv
<1> QED
  BY <1>2, <1>4

\* The index of one watcher is set.
LEMMA SetActive ==
    ASSUME NEW f \in [Watcher -> Info], NEW v \in Watcher, NEW m \in Nat
    PROVE  LET g == [f EXCEPT ![v].active = m]
           IN  /\ g \in [Watcher -> Info] /\ g[v].active = m
               /\ \A u \in Watcher : g[u].kind = f[u].kind /\ g[u].pri = f[u].pri
               /\ \A u \in Watcher : u # v => g[u] = f[u]
<1> DEFINE r == [f[v] EXCEPT !.active = m]
<1>1. r \in Info /\ r.active = m /\ r.kind = f[v].kind /\ r.pri = f[v].pri
  BY DEF Info
<1>2. [f EXCEPT ![v].active = m] = [f EXCEPT ![v] = r]
  OBVIOUS
<1> HIDE DEF r
<1> QED
  BY <1>1, <1>2

\* The last element of a list takes the place of one that goes.
LEMMA LastMoves ==
    ASSUME NEW S, NEW s \in Seq(S), NEW k \in 1 .. Len(s)
    PROVE  LET t == SubSeq([s EXCEPT ![k] = s[Len(s)]], 1, Len(s) - 1)
           IN  /\ t \in Seq(S) /\ Len(t) = Len(s) - 1
               /\ \A i \in 1 .. Len(s) - 1 : t[i] = IF i = k THEN s[Len(s)] ELSE s[i]
<1> DEFINE n == Len(s)  u == [s EXCEPT ![k] = s[n]]
<1>1. n \in Nat \ {0} /\ s[n] \in S
  OBVIOUS
<1>2. u \in Seq(S) /\ Len(u) = n /\ \A i \in 1 .. n : u[i] = IF i = k THEN s[n] ELSE s[i]
  BY <1>1
<1> HIDE DEF u
<1>3. /\ SubSeq(u, 1, n - 1) \in Seq(S) /\ Len(SubSeq(u, 1, n - 1)) = n - 1
      /\ \A i \in 1 .. n - 1 : SubSeq(u, 1, n - 1)[i] = u[i]
  BY <1>1, <1>2
<1> QED
  BY <1>1, <1>2, <1>3 DEF u

\* After a stop the arrays are right: the watcher that moved knows its place.
LEMMA Stopped ==
    ASSUME TypeInv, ArrayInv, NEW w \in Watcher, Active(w), stop_active(w)
    PROVE  /\ of' \in [Watcher -> Info] /\ arr' \in [Arrays -> Seq(Watcher)]
           /\ \A v \in Watcher : of'[v].kind = of[v].kind /\ of'[v].pri = of[v].pri
           /\ of'[w].active = 0
           /\ \A v \in Watcher : v # w => (of'[v].active # 0 <=> of[v].active # 0)
           /\ ArrayInv'
<1> DEFINE a == Array(w)  n == Len(arr[a])  k == of[w].active  l == arr[a][n]
           t == SubSeq([arr[a] EXCEPT ![k] = l], 1, n - 1)
           f == [of EXCEPT ![l].active = k]
           place(v) == <<of'[v].kind, IF of'[v].kind = "idle" THEN of'[v].pri ELSE 0>>
<1>1. a \in Arrays /\ arr[a] \in Seq(Watcher)
  BY ArrayOf
<1>2. k \in 1 .. n /\ arr[a][k] = w
  BY PlaceOf
<1>3. n \in Nat \ {0} /\ l \in Watcher /\ of[l].active = n /\ Array(l) = a
  <2>1. n \in DOMAIN arr[a] /\ n \in Nat \ {0} /\ l \in Watcher
    BY <1>1, <1>2
  <2> QED
    BY <1>1, <2>1 DEF ArrayInv
<1>4. /\ t \in Seq(Watcher) /\ Len(t) = n - 1
      /\ \A i \in 1 .. n - 1 : t[i] = IF i = k THEN l ELSE arr[a][i]
  BY <1>1, <1>2, LastMoves
<1>5. arr' = [arr EXCEPT ![a] = t] /\ of' = [f EXCEPT ![w].active = 0]
  BY DEF stop_active
<1> HIDE DEF t
<1>6. /\ arr' \in [Arrays -> Seq(Watcher)] /\ arr'[a] = t
      /\ \A b \in Arrays : b # a => arr'[b] = arr[b]
  BY <1>1, <1>4, <1>5 DEF TypeInv
<1>7. /\ f \in [Watcher -> Info] /\ f[l].active = k
      /\ \A v \in Watcher : f[v].kind = of[v].kind /\ f[v].pri = of[v].pri
      /\ \A v \in Watcher : v # l => f[v] = of[v]
  <2>1. of \in [Watcher -> Info] /\ k \in Nat
    BY <1>2 DEF TypeInv
  <2> QED
    BY <1>3, <2>1, SetActive
<1> HIDE DEF f
<1>8. /\ of' \in [Watcher -> Info] /\ of'[w].active = 0
      /\ \A v \in Watcher : of'[v].kind = f[v].kind /\ of'[v].pri = f[v].pri
      /\ \A v \in Watcher : v # w => of'[v] = f[v]
  <2>1. f \in [Watcher -> Info] /\ 0 \in Nat
    BY <1>7
  <2> QED
    BY <1>5, <2>1, SetActive
<1>9. \A v \in Watcher : of'[v].kind = of[v].kind /\ of'[v].pri = of[v].pri /\ place(v) = Array(v)
  BY <1>7, <1>8 DEF Array
<1>10. \A v \in Watcher : v # w => (of'[v].active # 0 <=> of[v].active # 0)
  BY <1>2, <1>3, <1>7, <1>8
<1>11. l # w => k # n
  BY <1>2
<1>12. l # w => of'[l].active = k
  BY <1>3, <1>7, <1>8
<1>13. \A v \in Watcher : v # w /\ v # l => of'[v] = of[v]
  BY <1>7, <1>8
<1> HIDE DEF a, n, k, l, place
<1>14. ASSUME NEW b \in Arrays, NEW i \in DOMAIN arr'[b]
       PROVE  of'[arr'[b][i]].active = i /\ place(arr'[b][i]) = b
  <2> DEFINE v == arr'[b][i]
  <2>1. CASE b # a
    <3>1. v = arr[b][i] /\ i \in DOMAIN arr[b] /\ v \in Watcher
      BY <1>6, <2>1 DEF TypeInv
    <3>2. of[v].active = i /\ Array(v) = b
      BY <3>1 DEF ArrayInv
    <3>3. v # w /\ v # l
      BY <1>3, <2>1, <3>2 DEF a
    <3> QED
      BY <1>9, <1>13, <3>1, <3>2, <3>3
  <2>2. CASE b = a
    <3>1. i \in 1 .. n - 1 /\ v = IF i = k THEN l ELSE arr[a][i]
      BY <1>4, <1>6, <2>2
    <3>2. CASE i = k
      <4>1. v = l /\ l # w
        BY <1>2, <1>3, <3>1, <3>2 DEF k, l
      <4> QED
        BY <1>3, <1>9, <1>12, <2>2, <3>2, <4>1
    <3>3. CASE i # k
      <4>1. v = arr[a][i] /\ i \in DOMAIN arr[a] /\ v \in Watcher /\ i # n
        BY <1>1, <1>3, <3>1, <3>3 DEF n
      <4>2. of[v].active = i /\ Array(v) = a
        BY <1>1, <4>1 DEF ArrayInv
      <4>3. v # w /\ v # l
        BY <1>3, <3>3, <4>1, <4>2 DEF k
      <4> QED
        BY <1>9, <1>13, <2>2, <4>1, <4>2, <4>3
    <3> QED
      BY <3>2, <3>3
  <2> QED
    BY <2>1, <2>2
<1>15. ASSUME NEW v \in Watcher, of'[v].active # 0
       PROVE  Contains(arr'[place(v)], v)
  <2>1. v # w /\ Active(v)
    BY <1>8, <1>10, <1>15 DEF Active
  <2>2. of[v].active \in 1 .. Len(arr[Array(v)]) /\ arr[Array(v)][of[v].active] = v
    BY <2>1, PlaceOf
  <2>3. Array(v) \in Arrays /\ place(v) = Array(v)
    BY <1>9, ArrayOf
  <2>4. CASE Array(v) # a
    BY <1>6, <2>2, <2>3, <2>4 DEF Contains
  <2>5. CASE Array(v) = a /\ v = l
    <3>1. k \in 1 .. n - 1 /\ t[k] = v /\ arr'[place(v)] = t
      BY <1>2, <1>3, <1>4, <1>6, <1>11, <2>1, <2>3, <2>5
    <3> QED
      BY <1>4, <3>1 DEF Contains
  <2>6. CASE Array(v) = a /\ v # l
    <3> DEFINE j == of[v].active
    <3>1. j \in 1 .. n /\ arr[a][j] = v
      BY <2>2, <2>6 DEF n
    <3>2. j # n /\ j # k
      BY <1>2, <2>1, <2>6, <3>1 DEF l
    <3>3. j \in 1 .. n - 1 /\ t[j] = v /\ arr'[place(v)] = t
      BY <1>3, <1>4, <1>6, <2>3, <2>6, <3>1, <3>2
    <3> QED
      BY <1>4, <3>3 DEF Contains
  <2> QED
    BY <2>4, <2>5, <2>6
<1>16. ArrayInv'
  BY <1>14, <1>15 DEF ArrayInv, Array, Active, place
<1> QED
  BY <1>6, <1>8, <1>9, <1>10, <1>16

\* After a start the arrays are right.
LEMMA Started ==
    ASSUME RunAssumption, TypeInv, ArrayInv, NEW w \in Watcher, NEW kind \in Kinds, NEW pri \in Pri,
           start(w, kind, pri)
    PROVE  /\ of' \in [Watcher -> Info] /\ arr' \in [Arrays -> Seq(Watcher)]
           /\ \A v \in Watcher : v # w => of'[v] = of[v]
           /\ of'[w].kind = kind /\ of'[w].pri = pri /\ of'[w].active # 0
           /\ ArrayInv'
<1> DEFINE a == <<kind, IF kind = "idle" THEN pri ELSE 0>>
           m == Len(arr[a]) + 1
           r == [kind |-> kind, pri |-> pri, active |-> m]
           t == Append(arr[a], w)
           place(v) == <<of'[v].kind, IF of'[v].kind = "idle" THEN of'[v].pri ELSE 0>>
<1>1. kind \in AllKinds
  BY DEF RunAssumption, AllKinds
<1>2. a \in Arrays
  BY <1>1 DEF Arrays, AllKinds
<1>3. arr[a] \in Seq(Watcher) /\ m \in Nat \ {0}
  BY <1>2 DEF TypeInv
<1>4. r \in Info /\ r.kind = kind /\ r.pri = pri /\ r.active = m
  BY <1>1, <1>3 DEF Info
<1>5. arr' = [arr EXCEPT ![a] = t] /\ of' = [of EXCEPT ![w] = r] /\ ~Active(w)
  BY DEF start
<1>6. /\ t \in Seq(Watcher) /\ Len(t) = m /\ t[m] = w
      /\ \A i \in 1 .. m - 1 : t[i] = arr[a][i]
  BY <1>3
<1> HIDE DEF t, r
<1>7. /\ arr' \in [Arrays -> Seq(Watcher)] /\ arr'[a] = t
      /\ \A b \in Arrays : b # a => arr'[b] = arr[b]
  BY <1>2, <1>5, <1>6 DEF TypeInv
<1>8. /\ of' \in [Watcher -> Info] /\ of'[w] = r
      /\ \A v \in Watcher : v # w => of'[v] = of[v]
  BY <1>4, <1>5 DEF TypeInv
<1>9. place(w) = a /\ \A v \in Watcher : v # w => place(v) = Array(v)
  BY <1>4, <1>8 DEF Array
<1>10. of[w].active = 0
  BY <1>5 DEF Active
<1>11. Len(arr[a]) = m - 1
  BY <1>3
<1> HIDE DEF a, m, place
<1>12. ASSUME NEW b \in Arrays, NEW i \in DOMAIN arr'[b]
       PROVE  of'[arr'[b][i]].active = i /\ place(arr'[b][i]) = b
  <2> DEFINE v == arr'[b][i]
  <2>1. ASSUME i \in DOMAIN arr[b], v = arr[b][i]
        PROVE  of'[v].active = i /\ place(v) = b
    <3>1. of[v].active = i /\ Array(v) = b /\ v \in Watcher /\ i # 0
      BY <2>1 DEF ArrayInv, TypeInv
    <3>2. v # w
      BY <1>10, <3>1
    <3> QED
      BY <1>8, <1>9, <3>1, <3>2
  <2>2. CASE b # a
    BY <1>7, <2>1, <2>2
  <2>3. CASE b = a /\ i # m
    <3>1. i \in 1 .. m - 1 /\ v = arr[a][i]
      BY <1>3, <1>6, <1>7, <2>3
    <3>2. i \in DOMAIN arr[a]
      BY <1>3, <1>11, <3>1
    <3> QED
      BY <2>1, <2>3, <3>1, <3>2
  <2>4. CASE b = a /\ i = m
    BY <1>4, <1>6, <1>7, <1>8, <1>9, <2>4
  <2> QED
    BY <2>2, <2>3, <2>4
<1>13. ASSUME NEW v \in Watcher, of'[v].active # 0
       PROVE  Contains(arr'[place(v)], v)
  <2>1. CASE v = w
    BY <1>3, <1>6, <1>7, <1>9, <2>1 DEF Contains
  <2>2. CASE v # w
    <3>1. Active(v)
      BY <1>8, <1>13, <2>2 DEF Active
    <3>2. of[v].active \in 1 .. Len(arr[Array(v)]) /\ arr[Array(v)][of[v].active] = v
      BY <3>1, PlaceOf
    <3>3. Array(v) \in Arrays /\ place(v) = Array(v)
      BY <1>9, <2>2, ArrayOf
    <3>4. CASE Array(v) # a
      BY <1>7, <3>2, <3>3, <3>4 DEF Contains
    <3>5. CASE Array(v) = a
      <4> DEFINE j == of[v].active
      <4>1. j \in 1 .. m - 1 /\ j \in 1 .. m /\ arr[a][j] = v
        BY <1>3, <1>11, <3>2, <3>5
      <4>2. t[j] = v /\ arr'[place(v)] = t
        BY <1>6, <1>7, <3>3, <3>5, <4>1
      <4> QED
        BY <1>6, <4>1, <4>2 DEF Contains
    <3> QED
      BY <3>4, <3>5
  <2> QED
    BY <2>1, <2>2
<1>14. ArrayInv'
  BY <1>12, <1>13 DEF ArrayInv, Array, Active, place
<1> QED
  BY <1>3, <1>4, <1>7, <1>8, <1>14

-------------------------------------------------------------------------------
(* Types *)

\* The innermost call is one of ev_run.
LEMMA TopCall ==
    ASSUME TypeInv, stack # <<>>
    PROVE  /\ Len(stack) \in Nat \ {0} /\ DOMAIN stack = 1 .. Len(stack)
           /\ Len(stack) \in DOMAIN stack /\ top = stack[Len(stack)] /\ top \in Call
BY DEF TypeInv, Last, top

\* idle_reify and the back end make watchers of the arrays pending.
LEMMA PollQueues ==
    ASSUME RunAssumption, TypeInv, NEW p \in Pendings
    PROVE  /\ \A a \in Arrays : queue_events(p, arr[a]) \in Pendings
           /\ idle_reify(p) \in Pendings
           /\ \A a \in Arrays : \A S \in SUBSET ToSet(arr[a]) : SetToSeq(S) \in Seq(Watcher)
<1>1. \A a \in Arrays : arr[a] \in Seq(Watcher)
  BY DEF TypeInv
<1>2. \A a \in Arrays : queue_events(p, arr[a]) \in Pendings
  BY <1>1, Queued
<1>3. idle_reify(p) \in Pendings
  <2> DEFINE ready == {q \in Pri : arr[<<"idle", q>>] # <<>>}
             first == CHOOSE q \in ready : \A r \in ready : r <= q
  <2>1. CASE ready = {}
    BY <2>1, Zenon DEF idle_reify
  <2>2. CASE ready # {}
    <3>1. ready \in SUBSET Pri
      OBVIOUS
    <3>2. first \in Pri
      BY <2>2, <3>1, HighestOf, Zenon
    <3>3. <<"idle", first>> \in Arrays
      <4> HIDE DEF first
      <4> QED
        BY <3>2 DEF Arrays
    <3>4. idle_reify(p) = p \/ idle_reify(p) = queue_events(p, arr[<<"idle", first>>])
      BY Zenon DEF idle_reify
    <3> QED
      BY <1>2, <3>3, <3>4
  <2> QED
    BY <2>1, <2>2
<1>4. ASSUME NEW a \in Arrays, NEW S \in SUBSET ToSet(arr[a])
      PROVE  SetToSeq(S) \in Seq(Watcher)
  <2>1. S \in SUBSET Watcher
    BY <1>1 DEF ToSet
  <2>2. IsFiniteSet(S)
    BY <2>1, FS_Subset DEF RunAssumption
  <2>3. SetToSeq(S) \in Seq(S)
    BY <2>2, ListOf
  <2> QED
    BY <2>1, <2>3
<1> QED
  BY <1>2, <1>3, <1>4

\* The program keeps the types.
LEMMA ProgramTypes ==
    ASSUME RunAssumption, TypeInv, ArrayInv, program
    PROVE  TypeInv'
<1>0. /\ of \in [Watcher -> Info] /\ arr \in [Arrays -> Seq(Watcher)] /\ pend \in Pendings
      /\ pendingpri \in Pri /\ activecnt \in Int /\ user \in Int
      /\ loop_done \in {"CANCEL", "ONE", "ALL"} /\ postfork \in 0 .. 2
      /\ stack \in Seq(Call) /\ untold \in SUBSET Watcher
  BY DEF TypeInv
<1>1. NUMPRI - 1 \in Pri
  BY DEF RunAssumption, Pri
<1>2. ASSUME NEW w \in Watcher, stop(w)
      PROVE  TypeInv'
  <2>1. pend' \in Pendings
    BY <1>2, Cleared DEF stop
  <2>2. /\ of' \in [Watcher -> Info] /\ arr' \in [Arrays -> Seq(Watcher)]
        /\ activecnt' \in Int
    <3>1. CASE Active(w)
      <4>1. stop_active(w)
        BY <1>2, <3>1 DEF stop
      <4>2. activecnt' \in Int
        BY <1>0, <4>1 DEF stop_active
      <4> QED
        BY <3>1, <4>1, <4>2, Stopped
    <3>2. CASE ~Active(w)
      BY <1>0, <1>2, <3>2 DEF stop
    <3> QED
      BY <3>1, <3>2
  <2> QED
    BY <1>0, <1>2, <2>1, <2>2 DEF stop, TypeInv
<1>3. ASSUME NEW w \in Watcher, NEW kind \in Kinds, NEW pri \in Pri, start(w, kind, pri)
      PROVE  TypeInv'
  <2>1. of' \in [Watcher -> Info] /\ arr' \in [Arrays -> Seq(Watcher)]
    BY <1>3, Started
  <2>2. activecnt' \in Int
    BY <1>0, <1>3 DEF start
  <2> QED
    BY <1>0, <1>3, <2>1, <2>2 DEF start, TypeInv
<1>4. ASSUME NEW w \in Watcher, ev_feed_event(w)
      PROVE  TypeInv'
  <2>1. pend' \in Pendings
    BY <1>0, <1>4, Fed DEF ev_feed_event
  <2> QED
    BY <1>0, <1>1, <1>4, <2>1 DEF ev_feed_event, TypeInv
<1>5. ASSUME NEW w \in Watcher, ev_clear_pending(w)
      PROVE  TypeInv'
  <2>1. pend' \in Pendings
    BY <1>5, Cleared DEF ev_clear_pending
  <2> QED
    BY <1>0, <1>5, <2>1 DEF ev_clear_pending, TypeInv
<1>6. ASSUME NEW n \in {-1, 1}, ev_ref(n)
      PROVE  TypeInv'
  BY <1>0, <1>6 DEF ev_ref, TypeInv
<1>7. ASSUME NEW how \in {"ONE", "ALL"}, ev_break(how)
      PROVE  TypeInv'
  BY <1>0, <1>7 DEF ev_break, TypeInv
<1>8. ASSUME NEW flag \in {"LOOP", "ONCE", "NOWAIT"}, ev_run(flag)
      PROVE  TypeInv'
  <2>1. [flag |-> flag, at |-> "first", cb |-> FALSE] \in Call
    BY DEF Call, Labels
  <2>2. stack' \in Seq(Call)
    BY <1>0, <1>8, <2>1 DEF ev_run
  <2> QED
    BY <1>0, <1>1, <1>8, <2>2 DEF ev_run, TypeInv
<1>9. ASSUME ev_loop_fork
      PROVE  TypeInv'
  <2>1. untold' \in SUBSET Watcher
    <3>1. arr[<<"fork", 0>>] \in Seq(Watcher)
      BY <1>0 DEF Arrays
    <3> QED
      BY <1>9, <3>1 DEF ev_loop_fork, ToSet
  <2> QED
    BY <1>0, <1>9, <2>1 DEF ev_loop_fork, TypeInv
<1> QED
  BY <1>2, <1>3, <1>4, <1>5, <1>6, <1>7, <1>8, <1>9 DEF program

\* ev_run keeps the types.
LEMMA LoopTypes ==
    ASSUME RunAssumption, TypeInv, loop
    PROVE  TypeInv'
<1>0. /\ of \in [Watcher -> Info] /\ arr \in [Arrays -> Seq(Watcher)] /\ pend \in Pendings
      /\ pendingpri \in Pri /\ activecnt \in Int /\ user \in Int
      /\ loop_done \in {"CANCEL", "ONE", "ALL"} /\ postfork \in 0 .. 2
      /\ stack \in Seq(Call) /\ untold \in SUBSET Watcher
  BY DEF TypeInv
<1>1. NUMPRI - 1 \in Pri /\ 0 \in Pri
  BY DEF RunAssumption, Pri
<1>2. stack # <<>>
  BY DEF loop, ev_invoke_pending, callback_returns, invoked, run_fork, run_prepare, run_poll,
         run_while, run_end, At, AtInvoke
<1>3. ASSUME NEW label \in Labels, NEW b \in BOOLEAN
      PROVE  /\ [stack EXCEPT ![Len(stack)].at = label] \in Seq(Call)
             /\ [stack EXCEPT ![Len(stack)].cb = b] \in Seq(Call)
  BY <1>0, <1>2, SetTop
<1>4. /\ <<"fork", 0>> \in Arrays /\ <<"prepare", 0>> \in Arrays
      /\ <<"check", 0>> \in Arrays /\ <<"io", 0>> \in Arrays
  BY DEF Arrays
<1>5. CASE ev_invoke_pending
  <2>1. Lower \in SUBSET Pri /\ Lower # {}
    BY <1>5 DEF ev_invoke_pending, Lower
  <2>2. Highest \in Lower
    BY <2>1, HighestOf, Zenon DEF Highest
  <2>3. Highest \in Pri /\ pend[Highest] \in Seq(Watcher \cup {None}) /\ pend[Highest] # <<>>
    BY <1>0, <2>2 DEF Lower, Pendings
  <2>4. Front(pend[Highest]) \in Seq(Watcher \cup {None})
    BY <2>3, Shortened
  <2>5. pend' \in Pendings
    BY <1>0, <1>5, <2>3, <2>4 DEF ev_invoke_pending, Pendings
  <2>6. stack' \in Seq(Call)
    <3>1. PICK b \in BOOLEAN : b = (Last(pend[Highest]) # None)
      OBVIOUS
    <3>2. stack' = [stack EXCEPT ![Len(stack)].cb = b]
      BY <1>5, <3>1, Zenon DEF ev_invoke_pending
    <3>3. "first" \in Labels
      BY DEF Labels
    <3> QED
      BY <1>3, <3>2, <3>3
  <2> QED
    BY <1>0, <1>5, <2>3, <2>5, <2>6 DEF ev_invoke_pending, TypeInv
<1>6. CASE callback_returns
  <2>1. stack' \in Seq(Call)
    BY <1>3, <1>6 DEF callback_returns, Labels
  <2> QED
    BY <1>0, <1>6, <2>1 DEF callback_returns, TypeInv
<1>7. CASE invoked
  <2>1. Invokes[top.at] \in Labels
    BY <1>7 DEF invoked, AtInvoke, Invokes, Labels
  <2>2. stack' \in Seq(Call)
    BY <1>3, <1>7, <2>1 DEF invoked, becomes
  <2> QED
    BY <1>0, <1>1, <1>7, <2>2 DEF invoked, TypeInv
<1>8. CASE run_fork
  <2>1. pend' \in Pendings
    BY <1>0, <1>4, <1>8, PollQueues DEF run_fork
  <2>2. stack' \in Seq(Call) /\ pendingpri' \in Pri
    BY <1>1, <1>3, <1>8 DEF run_fork, invokes, Labels
  <2> QED
    BY <1>0, <1>8, <2>1, <2>2 DEF run_fork, rest, TypeInv
<1>9. CASE run_prepare
  <2>1. pend' \in Pendings
    BY <1>0, <1>4, <1>9, PollQueues DEF run_prepare
  <2>2. stack' \in Seq(Call) /\ pendingpri' \in Pri
    BY <1>1, <1>3, <1>9 DEF run_prepare, invokes, Labels
  <2> QED
    BY <1>0, <1>9, <2>1, <2>2 DEF run_prepare, rest, TypeInv
<1>10. CASE run_poll
  <2>1. CASE loop_done # "CANCEL"
    <3>1. becomes("end") /\ UNCHANGED <<pend, pendingpri, loop_done, postfork, untold>> /\ rest
      BY <1>10, <2>1 DEF run_poll
    <3>2. stack' \in Seq(Call)
      BY <1>3, <3>1 DEF becomes, Labels
    <3> QED
      BY <1>0, <3>1, <3>2 DEF rest, TypeInv
  <2>2. CASE loop_done = "CANCEL"
    <3>1. PICK ready \in SUBSET ToSet(arr[<<"io", 0>>]) :
            /\ pend' = queue_events(idle_reify(queue_events(pend, SetToSeq(ready))),
                                    arr[<<"check", 0>>])
            /\ loop_done' = "CANCEL" /\ postfork' \in {0, 2} /\ invokes("polled")
      BY <1>10, <2>2, Zenon DEF run_poll
    <3>2. SetToSeq(ready) \in Seq(Watcher)
      BY <1>0, <1>4, PollQueues
    <3>3. PICK p1 \in Pendings : p1 = queue_events(pend, SetToSeq(ready))
      BY <1>0, <3>2, Queued
    <3>4. PICK p2 \in Pendings : p2 = idle_reify(p1)
      BY PollQueues
    <3>5. pend' \in Pendings
      BY <1>4, <3>1, <3>3, <3>4, PollQueues
    <3>6. stack' \in Seq(Call) /\ pendingpri' \in Pri
      BY <1>1, <1>3, <3>1 DEF invokes, Labels
    <3>7. UNCHANGED <<of, arr, activecnt, user, untold>>
      BY <1>10 DEF run_poll, rest
    <3> QED
      BY <1>0, <3>1, <3>5, <3>6, <3>7 DEF TypeInv
  <2> QED
    BY <2>1, <2>2
<1>11. CASE run_while
  <2>1. stack' \in Seq(Call)
    BY <1>3, <1>11 DEF run_while, becomes, Labels
  <2> QED
    BY <1>0, <1>11, <2>1 DEF run_while, rest, TypeInv
<1>12. CASE run_end
  <2>1. stack' \in Seq(Call)
    BY <1>0, <1>2, <1>12, Shortened DEF run_end
  <2> QED
    BY <1>0, <1>12, <2>1 DEF run_end, TypeInv
<1> QED
  BY <1>5, <1>6, <1>7, <1>8, <1>9, <1>10, <1>11, <1>12 DEF loop

-------------------------------------------------------------------------------
(* Pending events *)

\* The watchers in p are each at its priority.
InPlace(p) == \A q \in Pri : \A w \in Watcher : Contains(p[q], w) => of[w].pri = q

\* What the loop makes pending is at its priority.
LEMMA QueuesInPlace ==
    ASSUME RunAssumption, TypeInv, NEW p \in Pendings, InPlace(p)
    PROVE  /\ \A ws \in Seq(Watcher) : InPlace(queue_events(p, ws))
           /\ InPlace(idle_reify(p))
<1>1. ASSUME NEW ws \in Seq(Watcher)
      PROVE  InPlace(queue_events(p, ws))
  BY Queued DEF InPlace
<1>2. InPlace(idle_reify(p))
  <2> DEFINE ready == {q \in Pri : arr[<<"idle", q>>] # <<>>}
             first == CHOOSE q \in ready : \A r \in ready : r <= q
  <2>1. CASE ready = {}
    <3>1. idle_reify(p) = p
      BY <2>1, Zenon DEF idle_reify
    <3> QED
      BY <3>1
  <2>2. CASE ready # {}
    <3>1. ready \in SUBSET Pri
      OBVIOUS
    <3>2. first \in Pri
      BY <2>2, <3>1, HighestOf, Zenon
    <3>3. arr[<<"idle", first>>] \in Seq(Watcher)
      <4> HIDE DEF first
      <4> QED
        BY <3>2 DEF Arrays, TypeInv
    <3>4. idle_reify(p) = p \/ idle_reify(p) = queue_events(p, arr[<<"idle", first>>])
      BY Zenon DEF idle_reify
    <3> QED
      BY <1>1, <3>3, <3>4
  <2> QED
    BY <2>1, <2>2
<1> QED
  BY <1>1, <1>2

\* A pending watcher stays at its priority, and nothing is pending above the
\* one that ev_invoke_pending has come to.
LEMMA PendingStep ==
    ASSUME RunAssumption, IInv, Next
    PROVE  PriorityInv' /\ AboveInv'
<1>0. TypeInv /\ ArrayInv /\ PriorityInv /\ AboveInv
  BY DEF IInv
<1>1. pend \in Pendings /\ of \in [Watcher -> Info]
  BY <1>0 DEF TypeInv
<1>2. \A p \in Pri : ~(p > NUMPRI - 1)
  BY DEF RunAssumption, Pri
<1>3. /\ <<"fork", 0>> \in Arrays /\ <<"prepare", 0>> \in Arrays
      /\ <<"check", 0>> \in Arrays /\ <<"io", 0>> \in Arrays
  BY DEF Arrays
<1>4. ASSUME NEW w \in Watcher, stop(w)
      PROVE  PriorityInv' /\ AboveInv'
  <2>1. \A v \in Watcher : of'[v].pri = of[v].pri
    BY <1>0, <1>4, Stopped DEF stop
  <2>2. /\ \A p \in Pri : pend[p] = <<>> => pend'[p] = <<>>
        /\ \A p \in Pri : \A v \in Watcher : Contains(pend'[p], v) => Contains(pend[p], v)
    BY <1>0, <1>4, Cleared DEF stop
  <2>3. UNCHANGED pendingpri
    BY <1>4 DEF stop
  <2>4. PriorityInv'
    BY <1>0, <2>1, <2>2, Zenon DEF PriorityInv
  <2>5. AboveInv'
    BY <1>0, <2>2, <2>3 DEF AboveInv
  <2> QED
    BY <2>4, <2>5
<1>5. ASSUME NEW w \in Watcher, NEW kind \in Kinds, NEW pri \in Pri, start(w, kind, pri)
      PROVE  PriorityInv' /\ AboveInv'
  <2>1. /\ of'[w].pri = pri
        /\ \A v \in Watcher : v # w => of'[v] = of[v]
    BY <1>0, <1>5, Started
  <2>2. UNCHANGED <<pend, pendingpri>> /\ (Pending(w) => pri = of[w].pri)
    BY <1>5 DEF start
  <2>3. \A p \in Pri : \A v \in Watcher : Contains(pend[p], v) => of'[v].pri = p
    BY <1>0, <2>1, <2>2 DEF PriorityInv, Pending
  <2>4. AboveInv'
    BY <1>0, <2>2 DEF AboveInv
  <2> QED
    BY <2>2, <2>3, <2>4 DEF PriorityInv
<1>6. ASSUME NEW w \in Watcher, ev_feed_event(w)
      PROVE  PriorityInv' /\ AboveInv'
  <2>1. pend' = feed(pend, w) /\ pendingpri' = NUMPRI - 1 /\ UNCHANGED of
    BY <1>6 DEF ev_feed_event
  <2>2. \A p \in Pri : \A v : Contains(pend'[p], v) <=> Contains(pend[p], v) \/ (v = w /\ of[w].pri = p)
    BY <1>0, <1>1, <2>1, Fed
  <2>3. PriorityInv'
    BY <1>0, <2>1, <2>2 DEF PriorityInv
  <2> QED
    BY <1>2, <2>1, <2>3 DEF AboveInv
<1>7. ASSUME NEW w \in Watcher, ev_clear_pending(w)
      PROVE  PriorityInv' /\ AboveInv'
  <2>1. /\ \A p \in Pri : pend[p] = <<>> => pend'[p] = <<>>
        /\ \A p \in Pri : \A v \in Watcher : Contains(pend'[p], v) => Contains(pend[p], v)
    BY <1>0, <1>7, Cleared DEF ev_clear_pending
  <2>2. UNCHANGED <<of, pendingpri>>
    BY <1>7 DEF ev_clear_pending
  <2>3. PriorityInv'
    BY <1>0, <2>1, <2>2, Zenon DEF PriorityInv
  <2>4. AboveInv'
    BY <1>0, <2>1, <2>2 DEF AboveInv
  <2> QED
    BY <2>3, <2>4
<1>8. ASSUME UNCHANGED <<of, pend>>, pendingpri' = pendingpri \/ pendingpri' = NUMPRI - 1
      PROVE  PriorityInv' /\ AboveInv'
  <2>1. PriorityInv'
    BY <1>0, <1>8 DEF PriorityInv
  <2>2. AboveInv'
    BY <1>0, <1>2, <1>8 DEF AboveInv
  <2> QED
    BY <2>1, <2>2
<1>9. CASE ev_invoke_pending
  <2>1. Lower \in SUBSET Pri /\ Lower # {}
    BY <1>9 DEF ev_invoke_pending, Lower
  <2>2. Highest \in Lower /\ \A q \in Lower : q <= Highest
    BY <2>1, HighestOf, Zenon DEF Highest
  <2>3. PICK h \in Pri : h = Highest
    BY <2>1, <2>2
  <2>4. pend[h] # <<>> /\ pend[h] \in Seq(Watcher \cup {None}) /\ h <= pendingpri
    BY <1>1, <2>2, <2>3 DEF Lower, Pendings
  <2>5. pendingpri' = h /\ pend' = [pend EXCEPT ![h] = Front(@)] /\ UNCHANGED of
    BY <1>9, <2>3 DEF ev_invoke_pending
  <2>6. pend'[h] = Front(pend[h]) /\ \A p \in Pri : p # h => pend'[p] = pend[p]
    BY <1>1, <2>5 DEF Pendings
  <2>7. \A x : Contains(Front(pend[h]), x) => Contains(pend[h], x)
    BY <2>4, Shortened
  <2>8. PriorityInv'
    BY <1>0, <2>5, <2>6, <2>7 DEF PriorityInv
  <2>9. ASSUME NEW p \in Pri, p > h
        PROVE  pend'[p] = <<>>
    <3>1. pend'[p] = pend[p] /\ p \notin Lower
      BY <2>2, <2>3, <2>6, <2>9 DEF Pri
    <3>2. p <= pendingpri => pend[p] = <<>>
      BY <3>1 DEF Lower
    <3>3. p > pendingpri => pend[p] = <<>>
      BY <1>0 DEF AboveInv
    <3>4. p <= pendingpri \/ p > pendingpri
      BY <1>0 DEF TypeInv, Pri
    <3> QED
      BY <3>1, <3>2, <3>3, <3>4
  <2> QED
    BY <2>5, <2>8, <2>9 DEF AboveInv
<1>10. CASE invoked
  <2>1. UNCHANGED <<of, pend>> /\ pendingpri' = 0 /\ Lower = {}
    BY <1>10 DEF invoked
  <2>2. ASSUME NEW p \in Pri
        PROVE  pend[p] = <<>>
    <3>1. p <= pendingpri => pend[p] = <<>>
      BY <2>1 DEF Lower
    <3>2. p > pendingpri => pend[p] = <<>>
      BY <1>0 DEF AboveInv
    <3>3. p <= pendingpri \/ p > pendingpri
      BY <1>0 DEF TypeInv, Pri
    <3> QED
      BY <3>1, <3>2, <3>3
  <2>3. PriorityInv'
    BY <1>0, <2>1 DEF PriorityInv
  <2> QED
    BY <2>1, <2>2, <2>3 DEF AboveInv
<1>11. ASSUME InPlace(pend)', pendingpri' = NUMPRI - 1
       PROVE  PriorityInv' /\ AboveInv'
  BY <1>2, <1>11 DEF InPlace, PriorityInv, AboveInv
<1>12. InPlace(pend)
  BY <1>0 DEF InPlace, PriorityInv
<1>13. \A a \in Arrays : arr[a] \in Seq(Watcher)
  BY <1>0 DEF TypeInv
<1>14. CASE run_fork
  <2>1. UNCHANGED of /\ pendingpri' = NUMPRI - 1 /\ (pend' = pend \/ pend' = queue_events(pend, arr[<<"fork", 0>>]))
    BY <1>14 DEF run_fork, rest, invokes
  <2>2. InPlace(pend')
    BY <1>0, <1>1, <1>3, <1>12, <1>13, <2>1, QueuesInPlace
  <2> QED
    BY <1>11, <2>1, <2>2 DEF InPlace
<1>15. CASE run_prepare
  <2>1. UNCHANGED of /\ pendingpri' = NUMPRI - 1 /\ pend' = queue_events(pend, arr[<<"prepare", 0>>])
    BY <1>15 DEF run_prepare, rest, invokes
  <2>2. InPlace(pend')
    BY <1>0, <1>1, <1>3, <1>12, <1>13, <2>1, QueuesInPlace
  <2> QED
    BY <1>11, <2>1, <2>2 DEF InPlace
<1>16. CASE run_poll
  <2>1. CASE loop_done # "CANCEL"
    BY <1>8, <1>16, <2>1 DEF run_poll, rest
  <2>2. CASE loop_done = "CANCEL"
    <3>1. PICK ready \in SUBSET ToSet(arr[<<"io", 0>>]) :
            /\ pend' = queue_events(idle_reify(queue_events(pend, SetToSeq(ready))),
                                    arr[<<"check", 0>>])
            /\ loop_done' = "CANCEL" /\ postfork' \in {0, 2} /\ invokes("polled")
      BY <1>16, <2>2, Zenon DEF run_poll
    <3>2. SetToSeq(ready) \in Seq(Watcher)
      BY <1>0, <1>1, <1>3, PollQueues
    <3>3. PICK p1 \in Pendings : p1 = queue_events(pend, SetToSeq(ready))
      BY <1>0, <1>1, <3>2, Queued
    <3>4. PICK p2 \in Pendings : p2 = idle_reify(p1)
      BY <1>0, PollQueues
    <3>5. InPlace(p1)
      BY <1>0, <1>1, <1>12, <3>2, <3>3, QueuesInPlace
    <3>6. InPlace(p2)
      BY <1>0, <3>4, <3>5, QueuesInPlace
    <3>7. InPlace(pend')
      BY <1>0, <1>3, <1>13, <3>1, <3>3, <3>4, <3>6, QueuesInPlace
    <3>8. UNCHANGED of /\ pendingpri' = NUMPRI - 1
      BY <1>16, <3>1 DEF run_poll, rest, invokes
    <3> QED
      BY <1>11, <3>7, <3>8 DEF InPlace
  <2> QED
    BY <2>1, <2>2
<1>17. CASE program
  <2>1. ASSUME \/ \E n \in {-1, 1} : ev_ref(n)
               \/ \E how \in {"ONE", "ALL"} : ev_break(how)
               \/ \E flag \in {"LOOP", "ONCE", "NOWAIT"} : ev_run(flag)
               \/ ev_loop_fork
        PROVE  PriorityInv' /\ AboveInv'
    BY <1>8, <2>1 DEF ev_ref, ev_break, ev_run, ev_loop_fork
  <2> QED
    BY <1>4, <1>5, <1>6, <1>7, <1>17, <2>1 DEF program
<1>18. ASSUME callback_returns \/ run_while \/ run_end
       PROVE  PriorityInv' /\ AboveInv'
  BY <1>8, <1>18 DEF callback_returns, run_while, run_end, rest
<1> QED
  BY <1>9, <1>10, <1>14, <1>15, <1>16, <1>17, <1>18 DEF Next, loop

-------------------------------------------------------------------------------
(* The calls of ev_run *)

\* Where ev_run invokes callbacks.
LEMMA InvokingPlaces == Invoking = {"first", "forked", "prepared", "polled"}
BY DEF Invoking, Invokes

\* ev_invoke_pending ends when nothing is pending at any priority.
LEMMA NothingLeft ==
    ASSUME TypeInv, AboveInv, Lower = {}
    PROVE  Drained
<1>1. ASSUME NEW p \in Pri
      PROVE  pend[p] = <<>>
  <2>1. p <= pendingpri => pend[p] = <<>>
    BY DEF Lower
  <2>2. p > pendingpri => pend[p] = <<>>
    BY DEF AboveInv
  <2>3. p <= pendingpri \/ p > pendingpri
    BY DEF TypeInv, Pri
  <2> QED
    BY <2>1, <2>2, <2>3
<1> QED
  BY <1>1 DEF Drained

\* The innermost call goes on to another place.
LEMMA GoesOn ==
    ASSUME TypeInv, FrameInv, stack # <<>>, ~top.cb, NEW label \in Labels, becomes(label),
           label \notin Invoking => Drained'
    PROVE  /\ FrameInv' /\ stack' # <<>> /\ Len(stack') = Len(stack) /\ top'.at = label
           /\ DOMAIN stack' = DOMAIN stack
           /\ \A i \in DOMAIN stack : stack'[i].at = IF i = Len(stack) THEN label ELSE stack[i].at
<1> DEFINE n == Len(stack)
<1>0. n \in Nat \ {0} /\ DOMAIN stack = 1 .. n /\ top = stack[n]
  BY TopCall
<1>1. /\ Len(stack') = n /\ DOMAIN stack' = DOMAIN stack
      /\ stack'[n].at = label /\ stack'[n].cb = stack[n].cb
      /\ \A i \in 1 .. n - 1 : stack'[i] = stack[i]
  <2>1. stack \in Seq(Call) /\ TRUE \in BOOLEAN
    BY DEF TypeInv
  <2>2. stack' = [stack EXCEPT ![n].at = label]
    BY DEF becomes
  <2> QED
    BY <2>1, <2>2, SetTop
<1>2. top' = stack'[n] /\ stack' # <<>>
  BY <1>0, <1>1 DEF top, Last
<1> HIDE DEF n
<1>3. \A i \in 1 .. n : stack'[i].cb = stack[i].cb /\ (i < n => stack'[i] = stack[i])
  BY <1>0, <1>1
<1>4. \A i \in 1 .. n : i < n \/ i = n
  BY <1>0
<1>5. ~stack[n].cb
  BY <1>0
<1>6. ASSUME NEW i \in DOMAIN stack', stack'[i].cb
      PROVE  stack'[i].at \in Invoking
  <2>1. i \in DOMAIN stack /\ stack[i].cb /\ stack'[i] = stack[i]
    BY <1>0, <1>1, <1>3, <1>4, <1>5, <1>6
  <2> QED
    BY <2>1 DEF FrameInv
<1>7. ASSUME NEW i \in DOMAIN stack', i < Len(stack')
      PROVE  stack'[i].cb
  BY <1>0, <1>1, <1>3, <1>7 DEF FrameInv, n
<1>8. top'.at \notin Invoking => Drained'
  BY <1>1, <1>2
<1>9. FrameInv'
  BY <1>6, <1>7, <1>8 DEF FrameInv, Invoking, Invokes
<1>10. \A i \in DOMAIN stack : stack'[i].at = IF i = n THEN label ELSE stack[i].at
  BY <1>0, <1>1, <1>3, <1>4
<1> QED
  BY <1>1, <1>2, <1>9, <1>10 DEF n

\* A callback of the innermost call starts or returns.
LEMMA CallsBack ==
    ASSUME TypeInv, FrameInv, stack # <<>>, top.at \in Invoking, NEW b \in BOOLEAN,
           stack' = [stack EXCEPT ![Len(stack)].cb = b]
    PROVE  /\ FrameInv'
           /\ DOMAIN stack' = DOMAIN stack /\ \A i \in DOMAIN stack : stack'[i].at = stack[i].at
<1> DEFINE n == Len(stack)
<1>0. n \in Nat \ {0} /\ DOMAIN stack = 1 .. n /\ top = stack[n]
  BY TopCall
<1>1. /\ Len(stack') = n /\ DOMAIN stack' = DOMAIN stack
      /\ stack'[n].at = stack[n].at /\ stack'[n].cb = b
      /\ \A i \in 1 .. n - 1 : stack'[i] = stack[i]
  <2>1. stack \in Seq(Call) /\ "first" \in Labels
    BY DEF TypeInv, Labels
  <2> QED
    BY <2>1, SetTop
<1>2. top' = stack'[n]
  BY <1>1 DEF top, Last
<1> HIDE DEF n
<1>3. \A i \in 1 .. n : stack'[i].at = stack[i].at /\ (i < n => stack'[i] = stack[i])
  BY <1>0, <1>1
<1>4. \A i \in 1 .. n : i < n \/ i = n
  BY <1>0
<1>5. ASSUME NEW i \in DOMAIN stack', stack'[i].cb
      PROVE  stack'[i].at \in Invoking
  <2>1. i \in DOMAIN stack /\ (i = n \/ stack'[i] = stack[i])
    BY <1>0, <1>1, <1>3, <1>4
  <2>2. stack'[n].at \in Invoking
    BY <1>0, <1>1
  <2> QED
    BY <1>5, <2>1, <2>2 DEF FrameInv
<1>6. ASSUME NEW i \in DOMAIN stack', i < Len(stack')
      PROVE  stack'[i].cb
  BY <1>0, <1>1, <1>3, <1>6 DEF FrameInv, n
<1>7. top'.at \in Invoking
  BY <1>0, <1>1, <1>2
<1>8. FrameInv'
  BY <1>5, <1>6, <1>7 DEF FrameInv, Invoking, Invokes
<1> QED
  BY <1>0, <1>1, <1>3, <1>8

\* When a step of ev_run is due, there is an innermost call without a callback.
LEMMA AtPlace ==
    ASSUME TypeInv, FrameInv, NEW label, label \notin Invoking, At(label)
    PROVE  stack # <<>> /\ ~top.cb /\ top.at = label /\ Drained
BY DEF At, FrameInv

\* Calls of ev_run are made from callbacks, and go on when nothing is pending.
LEMMA FrameStep ==
    ASSUME RunAssumption, IInv, Next
    PROVE  FrameInv'
<1>0. TypeInv /\ AboveInv /\ FrameInv
  BY DEF IInv
<1>1. ASSUME Program, UNCHANGED stack
      PROVE  FrameInv'
  <2>1. stack # <<>> => top.at \in Invoking
    <3>1. ASSUME stack # <<>>
          PROVE  top.at \in Invoking
      <4>1. Len(stack) \in DOMAIN stack /\ top = stack[Len(stack)] /\ top.cb
        BY <1>0, <1>1, <3>1, TopCall DEF Program, top
      <4> QED
        BY <1>0, <4>1 DEF FrameInv
    <3> QED
      BY <3>1
  <2>2. top' = top /\ Invoking' = Invoking
    BY <1>1 DEF top, Invoking, Invokes
  <2> QED
    BY <1>0, <1>1, <2>1, <2>2 DEF FrameInv
<1>2. ASSUME NEW flag \in {"LOOP", "ONCE", "NOWAIT"}, ev_run(flag)
      PROVE  FrameInv'
  <2> DEFINE n == Len(stack)  r == [flag |-> flag, at |-> "first", cb |-> FALSE]
  <2>1. n \in Nat /\ DOMAIN stack = 1 .. n /\ stack' = Append(stack, r)
    BY <1>0, <1>2 DEF TypeInv, ev_run
  <2>2. /\ DOMAIN stack' = 1 .. n + 1 /\ Len(stack') = n + 1
        /\ stack'[n + 1] = r /\ \A i \in 1 .. n : stack'[i] = stack[i]
    BY <1>0, <2>1 DEF TypeInv
  <2>3. n \in 1 .. n => stack[n].cb
    <3>1. n \in 1 .. n => stack # <<>>
      OBVIOUS
    <3> QED
      BY <1>2, <3>1 DEF ev_run, Program, Last
  <2>4. r.at = "first" /\ r.cb = FALSE /\ "first" \in Invoking
    BY InvokingPlaces
  <2> HIDE DEF n, r
  <2>5. \A i \in 1 .. n + 1 : i \in 1 .. n \/ i = n + 1
    BY <2>1
  <2>6. ASSUME NEW i \in DOMAIN stack', stack'[i].cb
        PROVE  stack'[i].at \in Invoking
    BY <1>0, <2>1, <2>2, <2>4, <2>5, <2>6 DEF FrameInv
  <2>7. ASSUME NEW i \in DOMAIN stack', i < Len(stack')
        PROVE  stack'[i].cb
    <3>1. i \in 1 .. n /\ (i < n \/ i = n)
      BY <2>1, <2>2, <2>7
    <3> QED
      BY <1>0, <2>1, <2>2, <2>3, <3>1 DEF FrameInv, n
  <2>8. top'.at \in Invoking
    BY <2>2, <2>4 DEF top, Last
  <2> QED
    BY <2>6, <2>7, <2>8 DEF FrameInv, Invoking, Invokes
<1>3. CASE program
  <2>1. ASSUME NEW w \in Watcher,
               \/ stop(w)
               \/ \E kind \in Kinds, pri \in Pri : start(w, kind, pri)
               \/ ev_feed_event(w)
               \/ ev_clear_pending(w)
        PROVE  FrameInv'
    BY <1>1, <2>1 DEF stop, start, ev_feed_event, ev_clear_pending, Op
  <2>2. ASSUME \/ \E k \in {-1, 1} : ev_ref(k)
               \/ \E how \in {"ONE", "ALL"} : ev_break(how)
               \/ ev_loop_fork
        PROVE  FrameInv'
    BY <1>1, <2>2 DEF ev_ref, ev_break, ev_loop_fork, Op
  <2> QED
    BY <1>2, <1>3, <2>1, <2>2 DEF program
<1>4. CASE ev_invoke_pending
  <2>1. PICK b \in BOOLEAN : b = (Last(pend[Highest]) # None)
    OBVIOUS
  <2>2. stack' = [stack EXCEPT ![Len(stack)].cb = b]
    BY <1>4, <2>1, Zenon DEF ev_invoke_pending
  <2>3. stack # <<>> /\ top.at \in Invoking
    BY <1>4 DEF ev_invoke_pending, AtInvoke, Invoking
  <2> QED
    BY <1>0, <2>2, <2>3, CallsBack
<1>5. CASE callback_returns
  <2>1. stack # <<>> /\ top.cb /\ stack' = [stack EXCEPT ![Len(stack)].cb = FALSE]
    BY <1>5 DEF callback_returns
  <2>2. top.at \in Invoking
    BY <1>0, <2>1, TopCall DEF FrameInv
  <2> QED
    BY <1>0, <2>1, <2>2, CallsBack
<1>6. CASE invoked
  <2>1. stack # <<>> /\ ~top.cb /\ top.at \in DOMAIN Invokes /\ becomes(Invokes[top.at]) /\ Lower = {}
    BY <1>6 DEF invoked, AtInvoke
  <2>2. Invokes[top.at] \in Labels
    BY <2>1 DEF Invokes, Labels
  <2>3. Drained'
    <3>1. UNCHANGED pend
      BY <1>6 DEF invoked
    <3> QED
      BY <1>0, <2>1, <3>1, NothingLeft DEF Drained
  <2>4. PICK label \in Labels : becomes(label)
    BY <2>1, <2>2
  <2> QED
    BY <1>0, <2>1, <2>3, <2>4, GoesOn
<1>7. CASE run_fork
  <2>1. At("fork") /\ becomes("forked") /\ "forked" \in Labels /\ "forked" \in Invoking
    BY <1>7, InvokingPlaces DEF run_fork, invokes, becomes, Labels
  <2> QED
    BY <1>0, <2>1, GoesOn DEF At
<1>8. CASE run_prepare
  <2>1. At("prepare") /\ becomes("prepared") /\ "prepared" \in Labels /\ "prepared" \in Invoking
    BY <1>8, InvokingPlaces DEF run_prepare, invokes, becomes, Labels
  <2> QED
    BY <1>0, <2>1, GoesOn DEF At
<1>9. CASE run_poll
  <2>0. At("poll") /\ "poll" \notin Invoking
    BY <1>9, InvokingPlaces DEF run_poll
  <2>1. CASE loop_done # "CANCEL"
    <3>1. becomes("end") /\ UNCHANGED pend /\ "end" \in Labels
      BY <1>9, <2>1 DEF run_poll, Labels
    <3>2. Drained'
      BY <1>0, <2>0, <3>1, AtPlace DEF Drained
    <3> QED
      BY <1>0, <2>0, <3>1, <3>2, GoesOn DEF At
  <2>2. CASE loop_done = "CANCEL"
    <3>1. becomes("polled") /\ "polled" \in Labels /\ "polled" \in Invoking
      BY <1>9, <2>2, InvokingPlaces DEF run_poll, invokes, becomes, Labels
    <3> QED
      BY <1>0, <2>0, <3>1, GoesOn DEF At
  <2> QED
    BY <2>1, <2>2
<1>10. CASE run_while
  <2>1. At("while") /\ "while" \notin Invoking /\ UNCHANGED pend
    BY <1>10, InvokingPlaces DEF run_while
  <2>2. PICK label \in {"fork", "end"} : becomes(label)
    BY <1>10 DEF run_while
  <2>3. label \in Labels
    BY DEF Labels
  <2>4. Drained'
    BY <1>0, <2>1, AtPlace DEF Drained
  <2> QED
    BY <1>0, <2>1, <2>2, <2>3, <2>4, GoesOn DEF At
<1>11. CASE run_end
  <2> DEFINE n == Len(stack)
  <2>1. stack # <<>> /\ stack' = Front(stack) /\ n \in Nat \ {0} /\ DOMAIN stack = 1 .. n
    BY <1>0, <1>11, TopCall DEF run_end, At
  <2>2. /\ Len(stack') = n - 1 /\ DOMAIN stack' = 1 .. n - 1
        /\ \A i \in 1 .. n - 1 : stack'[i] = stack[i]
    <3>1. /\ stack' \in Seq(Call) /\ Len(stack') = n - 1
          /\ \A i \in 1 .. n - 1 : stack'[i] = stack[i]
      BY <1>0, <2>1, Shortened DEF TypeInv
    <3> QED
      BY <3>1
  <2> HIDE DEF n
  <2>3. \A i \in DOMAIN stack' : i \in DOMAIN stack /\ i < n /\ stack'[i] = stack[i]
    BY <2>1, <2>2
  <2>4. \A i \in DOMAIN stack' : stack'[i].cb /\ stack'[i].at \in Invoking
    BY <1>0, <2>3 DEF FrameInv, n
  <2>5. stack' # <<>> => top'.at \in Invoking
    <3>1. stack' # <<>> => n - 1 \in DOMAIN stack'
      BY <2>1, <2>2
    <3> QED
      BY <2>2, <2>4, <3>1 DEF top, Last
  <2> QED
    BY <2>4, <2>5 DEF FrameInv, Invoking, Invokes
<1> QED
  BY <1>3, <1>4, <1>5, <1>6, <1>7, <1>8, <1>9, <1>10, <1>11 DEF Next, loop

-------------------------------------------------------------------------------
(* The count of active watchers *)

Counting == {w \in Watcher : Active(w) /\ of[w].kind # "cleanup"}

\* Starts and stops count each watcher once, ev_ref what the program asks for.
LEMMA CountStep ==
    ASSUME RunAssumption, IInv, Next
    PROVE  ActiveCounted'
<1>0. TypeInv /\ ArrayInv /\ ActiveCounted
  BY DEF IInv
<1>1. IsFiniteSet(Counting) /\ Cardinality(Counting) \in Int /\ activecnt \in Int /\ user \in Int
  <2>1. IsFiniteSet(Watcher) /\ Counting \in SUBSET Watcher
    BY DEF RunAssumption, Counting
  <2>2. IsFiniteSet(Counting)
    BY <2>1, FS_Subset
  <2> QED
    BY <1>0, <2>2, FS_CardinalityType DEF TypeInv
<1>2. activecnt = user + Cardinality(Counting)
  BY <1>0 DEF ActiveCounted, Counting
<1>3. ASSUME activecnt' = user' + Cardinality(Counting')
      PROVE  ActiveCounted'
  BY <1>3 DEF ActiveCounted, Counting
<1>4. ASSUME UNCHANGED <<of, activecnt, user>>
      PROVE  ActiveCounted'
  BY <1>0, <1>4 DEF ActiveCounted, Active
<1>5. ASSUME NEW w \in Watcher, stop(w)
      PROVE  ActiveCounted'
  <2>1. CASE Active(w)
    <3>1. stop_active(w) /\ UNCHANGED user
      BY <1>5, <2>1 DEF stop
    <3>2. /\ \A v \in Watcher : of'[v].kind = of[v].kind
          /\ of'[w].active = 0
          /\ \A v \in Watcher : v # w => (of'[v].active # 0 <=> of[v].active # 0)
      BY <1>0, <2>1, <3>1, Stopped
    <3>3. Counting' = Counting \ {w}
      BY <3>2 DEF Counting, Active
    <3>4. /\ Cardinality(Counting') = IF w \in Counting THEN Cardinality(Counting) - 1 ELSE Cardinality(Counting)
      BY <1>1, <3>3, FS_RemoveElement
    <3>5. activecnt' = IF of[w].kind = "cleanup" THEN activecnt ELSE activecnt - 1
      BY <3>1 DEF stop_active
    <3>6. w \in Counting <=> of[w].kind # "cleanup"
      BY <2>1 DEF Counting
    <3> QED
      BY <1>1, <1>2, <1>3, <3>1, <3>4, <3>5, <3>6
  <2>2. CASE ~Active(w)
    BY <1>4, <1>5, <2>2 DEF stop
  <2> QED
    BY <2>1, <2>2
<1>6. ASSUME NEW w \in Watcher, NEW kind \in Kinds, NEW pri \in Pri, start(w, kind, pri)
      PROVE  ActiveCounted'
  <2>1. /\ \A v \in Watcher : v # w => of'[v] = of[v]
        /\ of'[w].kind = kind /\ of'[w].active # 0
    BY <1>0, <1>6, Started
  <2>2. ~Active(w) /\ activecnt' = (IF kind = "cleanup" THEN activecnt ELSE activecnt + 1) /\ UNCHANGED user
    BY <1>6 DEF start
  <2>3. Counting' = IF kind = "cleanup" THEN Counting ELSE Counting \cup {w}
    BY <2>1, <2>2 DEF Counting, Active
  <2>4. w \notin Counting
    BY <2>2 DEF Counting
  <2>5. Cardinality(Counting \cup {w}) = Cardinality(Counting) + 1
    BY <1>1, <2>4, FS_AddElement
  <2> QED
    BY <1>1, <1>2, <1>3, <2>2, <2>3, <2>5
<1>7. ASSUME NEW n \in {-1, 1}, ev_ref(n)
      PROVE  ActiveCounted'
  <2>1. activecnt' = activecnt + n /\ user' = user + n /\ Counting' = Counting
    BY <1>7 DEF ev_ref, Counting, Active
  <2> QED
    BY <1>1, <1>2, <1>3, <2>1
<1>8. CASE program
  <2>1. ASSUME \/ \E w \in Watcher : ev_feed_event(w) \/ ev_clear_pending(w)
               \/ \E how \in {"ONE", "ALL"} : ev_break(how)
               \/ \E flag \in {"LOOP", "ONCE", "NOWAIT"} : ev_run(flag)
               \/ ev_loop_fork
        PROVE  ActiveCounted'
    BY <1>4, <2>1 DEF ev_feed_event, ev_clear_pending, ev_break, ev_run, ev_loop_fork
  <2> QED
    BY <1>5, <1>6, <1>7, <1>8, <2>1 DEF program
<1>9. CASE loop
  BY <1>4, <1>9 DEF loop, ev_invoke_pending, callback_returns, invoked, run_fork, run_prepare,
                    run_poll, run_while, run_end, rest
<1> QED
  BY <1>8, <1>9 DEF Next

-------------------------------------------------------------------------------
(* Forks *)

\* Between the fork watchers and the poll.
Forked == {"forked", "prepare", "prepared", "poll"}
BeforePoll == \E i \in DOMAIN stack : stack[i].at \in Forked

\* ForkInv stays if no watcher is added to untold, and none that stays in it
\* loses its event.
LEMMA ForkKept ==
    ASSUME ForkInv, untold' \in SUBSET untold,
           \A w \in untold' : of'[w].active # 0 /\ of'[w].kind = of[w].kind,
           \A w \in untold' : Pending(w) => Pending(w)',
           postfork' = 1 /\ BeforePoll' => postfork = 1 /\ BeforePoll
    PROVE  ForkInv'
<1>1. \A w \in untold' : of'[w].active # 0 /\ of'[w].kind = "fork"
  BY DEF ForkInv
<1>2. ASSUME postfork' = 1, BeforePoll'
      PROVE  \A w \in untold' : Pending(w)'
  <2>1. \A w \in untold : Pending(w)
    BY <1>2 DEF ForkInv, BeforePoll, Forked
  <2> QED
    BY <2>1
<1> QED
  BY <1>1, <1>2 DEF ForkInv, BeforePoll, Forked, Active

\* Fork watchers are told before the poll, unless they are stopped or cleared.
LEMMA ForkStep ==
    ASSUME RunAssumption, ~LateFork, IInv, Next
    PROVE  ForkInv'
<1>0. TypeInv /\ ArrayInv /\ FrameInv /\ ForkInv
  BY DEF IInv
<1>1. pend \in Pendings /\ of \in [Watcher -> Info] /\ untold \in SUBSET Watcher
  BY <1>0 DEF TypeInv
<1>2. \A w \in untold : w \in Watcher /\ of[w].active # 0 /\ of[w].kind = "fork"
  BY <1>0, <1>1 DEF ForkInv, Active
<1>3. ASSUME NEW w \in Watcher, stop(w)
      PROVE  ForkInv'
  <2>1. untold' = untold \ {w} /\ UNCHANGED <<stack, postfork>>
    BY <1>3 DEF stop
  <2>2. \A v \in untold' : of'[v].active # 0 /\ of'[v].kind = of[v].kind
    <3>1. CASE Active(w)
      BY <1>0, <1>2, <1>3, <2>1, <3>1, Stopped DEF stop
    <3>2. CASE ~Active(w)
      BY <1>2, <1>3, <2>1, <3>2 DEF stop
    <3> QED
      BY <3>1, <3>2
  <2>3. \A v \in untold' : Pending(v) => Pending(v)'
    <3>1. \A p \in Pri : \A v \in Watcher : Contains(pend'[p], v) <=> Contains(pend[p], v) /\ v # w
      BY <1>0, <1>3, Cleared DEF stop
    <3> QED
      BY <1>2, <2>1, <3>1 DEF Pending
  <2> QED
    BY <1>0, <2>1, <2>2, <2>3, ForkKept DEF BeforePoll
<1>4. ASSUME NEW w \in Watcher, ev_clear_pending(w)
      PROVE  ForkInv'
  <2>1. untold' = untold \ {w} /\ UNCHANGED <<of, stack, postfork>>
    BY <1>4 DEF ev_clear_pending
  <2>2. \A v \in untold' : Pending(v) => Pending(v)'
    <3>1. \A p \in Pri : \A v \in Watcher : Contains(pend'[p], v) <=> Contains(pend[p], v) /\ v # w
      BY <1>0, <1>4, Cleared DEF ev_clear_pending
    <3> QED
      BY <1>2, <2>1, <3>1 DEF Pending
  <2> QED
    BY <1>0, <1>2, <2>1, <2>2, ForkKept DEF BeforePoll
<1>5. ASSUME NEW w \in Watcher, NEW kind \in Kinds, NEW pri \in Pri, start(w, kind, pri)
      PROVE  ForkInv'
  <2>1. UNCHANGED <<pend, untold, stack, postfork>> /\ ~Active(w)
    BY <1>5 DEF start
  <2>2. \A v \in untold : of'[v] = of[v]
    BY <1>0, <1>2, <1>5, <2>1, Started DEF Active
  <2> QED
    BY <1>0, <1>2, <2>1, <2>2, ForkKept DEF BeforePoll, Pending
<1>6. ASSUME NEW w \in Watcher, ev_feed_event(w)
      PROVE  ForkInv'
  <2>1. pend' = feed(pend, w) /\ UNCHANGED <<of, untold, stack, postfork>>
    BY <1>6 DEF ev_feed_event
  <2>2. \A v \in untold' : Pending(v) => Pending(v)'
    BY <1>0, <1>1, <2>1, Fed DEF Pending
  <2> QED
    BY <1>0, <1>2, <2>1, <2>2, ForkKept DEF BeforePoll
<1>7. ASSUME UNCHANGED <<of, pend, untold, stack, postfork>>
      PROVE  ForkInv'
  BY <1>0, <1>2, <1>7, ForkKept DEF BeforePoll, Pending
<1>8. ASSUME NEW flag \in {"LOOP", "ONCE", "NOWAIT"}, ev_run(flag)
      PROVE  ForkInv'
  <2> DEFINE n == Len(stack)  r == [flag |-> flag, at |-> "first", cb |-> FALSE]
  <2>1. stack' = Append(stack, r) /\ UNCHANGED <<of, pend, untold, postfork>>
    BY <1>8 DEF ev_run
  <2>2. /\ n \in Nat /\ DOMAIN stack = 1 .. n /\ DOMAIN stack' = 1 .. n + 1
        /\ stack'[n + 1] = r /\ \A i \in 1 .. n : stack'[i] = stack[i]
    BY <1>0, <2>1 DEF TypeInv
  <2>3. r.at \notin Forked
    BY DEF Forked
  <2> HIDE DEF n, r
  <2>4. \A i \in 1 .. n + 1 : i \in 1 .. n \/ i = n + 1
    BY <2>2
  <2>5. BeforePoll' => BeforePoll
    BY <2>2, <2>3, <2>4 DEF BeforePoll
  <2> QED
    BY <1>0, <1>2, <2>1, <2>5, ForkKept DEF Pending
<1>9. ASSUME ev_loop_fork
      PROVE  ForkInv'
  <2>1. untold' = ToSet(arr[<<"fork", 0>>]) /\ UNCHANGED <<of, pend, stack>>
    BY <1>9 DEF ev_loop_fork
  <2>2. ASSUME NEW w \in untold'
        PROVE  of[w].active # 0 /\ of[w].kind = "fork"
    <3>1. <<"fork", 0>> \in Arrays
      BY DEF Arrays
    <3>2. PICK i \in DOMAIN arr[<<"fork", 0>>] : w = arr[<<"fork", 0>>][i]
      BY <2>1, <2>2 DEF ToSet
    <3>3. of[w].active = i /\ Array(w) = <<"fork", 0>>
      BY <1>0, <3>1, <3>2 DEF ArrayInv
    <3>4. i # 0
      BY <1>0, <3>1, <3>2 DEF TypeInv
    <3> QED
      BY <3>3, <3>4 DEF Array
  <2>3. ASSUME NEW i \in DOMAIN stack
        PROVE  stack[i].at \notin Forked
    <3>1. stack[i].at \notin {"forked", "prepared"}
      BY <1>9 DEF ev_loop_fork
    <3>2. stack # <<>>
      OBVIOUS
    <3>3. i < Len(stack) \/ i = Len(stack)
      BY <1>0, <3>2, TopCall
    <3>4. top = stack[Len(stack)] /\ top.cb
      BY <1>0, <1>9, <3>2, TopCall DEF ev_loop_fork, Op, Program, top
    <3>5. stack[i].cb
      BY <1>0, <3>3, <3>4 DEF FrameInv
    <3>6. stack[i].at \in {"first", "forked", "prepared", "polled"}
      BY <1>0, <3>5, InvokingPlaces DEF FrameInv
    <3> QED
      BY <3>1, <3>6 DEF Forked
  <2>4. ~BeforePoll'
    BY <2>1, <2>3 DEF BeforePoll
  <2> QED
    BY <2>1, <2>2, <2>4 DEF ForkInv, BeforePoll, Forked, Active
<1>10. CASE program
  <2>1. ASSUME (\E n \in {-1, 1} : ev_ref(n)) \/ (\E how \in {"ONE", "ALL"} : ev_break(how))
        PROVE  ForkInv'
    BY <1>7, <2>1 DEF ev_ref, ev_break
  <2> QED
    BY <1>3, <1>4, <1>5, <1>6, <1>8, <1>9, <1>10, <2>1 DEF program
<1>11. ASSUME NEW b \in BOOLEAN, stack # <<>>, top.at \in Invoking,
              stack' = [stack EXCEPT ![Len(stack)].cb = b]
       PROVE  BeforePoll' => BeforePoll
  <2>1. DOMAIN stack' = DOMAIN stack /\ \A i \in DOMAIN stack : stack'[i].at = stack[i].at
    BY <1>0, <1>11, CallsBack
  <2> QED
    BY <2>1 DEF BeforePoll
<1>12. CASE ev_invoke_pending
  <2>1. Lower \in SUBSET Pri /\ Lower # {}
    BY <1>12 DEF ev_invoke_pending, Lower
  <2>2. Highest \in Lower
    BY <2>1, HighestOf, Zenon DEF Highest
  <2>3. PICK h \in Pri : h = Highest
    BY <2>1, <2>2
  <2>4. pend[h] # <<>> /\ pend[h] \in Seq(Watcher \cup {None})
    BY <1>1, <2>2, <2>3 DEF Lower, Pendings
  <2>5. pend' = [pend EXCEPT ![h] = Front(@)] /\ UNCHANGED <<of, postfork>> /\ untold' = untold \ {Last(pend[h])}
    BY <1>12, <2>3 DEF ev_invoke_pending
  <2>6. pend'[h] = Front(pend[h]) /\ \A p \in Pri : p # h => pend'[p] = pend[p]
    BY <1>1, <2>5 DEF Pendings
  <2>7. \A v : Contains(pend[h], v) <=> Contains(Front(pend[h]), v) \/ v = Last(pend[h])
    BY <2>4, Shortened
  <2>8. \A v \in untold' : Pending(v) => Pending(v)'
    BY <2>5, <2>6, <2>7 DEF Pending
  <2>9. BeforePoll' => BeforePoll
    <3>1. PICK b \in BOOLEAN : b = (Last(pend[Highest]) # None)
      OBVIOUS
    <3>2. stack' = [stack EXCEPT ![Len(stack)].cb = b]
      BY <1>12, <3>1, Zenon DEF ev_invoke_pending
    <3>3. stack # <<>> /\ top.at \in Invoking
      BY <1>12 DEF ev_invoke_pending, AtInvoke, Invoking
    <3> QED
      BY <1>11, <3>2, <3>3
  <2> QED
    BY <1>0, <1>2, <2>5, <2>8, <2>9, ForkKept
<1>13. CASE callback_returns
  <2>1. stack # <<>> /\ top.cb /\ stack' = [stack EXCEPT ![Len(stack)].cb = FALSE]
    BY <1>13 DEF callback_returns
  <2>2. top.at \in Invoking
    BY <1>0, <2>1, TopCall DEF FrameInv
  <2>3. BeforePoll' => BeforePoll
    BY <1>11, <2>1, <2>2
  <2>4. UNCHANGED <<of, pend, untold, postfork>>
    BY <1>13 DEF callback_returns
  <2> QED
    BY <1>0, <1>2, <2>3, <2>4, ForkKept DEF Pending
<1>14. ASSUME stack # <<>>, ~top.cb, NEW label \in Labels, becomes(label),
              label \notin Invoking => Drained',
              label \in Forked => top.at \in Forked
       PROVE  BeforePoll' => BeforePoll
  <2>1. /\ DOMAIN stack' = DOMAIN stack
        /\ \A i \in DOMAIN stack : stack'[i].at = IF i = Len(stack) THEN label ELSE stack[i].at
    BY <1>0, <1>14, GoesOn
  <2>2. top = stack[Len(stack)]
    BY <1>0, <1>14, TopCall
  <2> QED
    BY <1>14, <2>1, <2>2 DEF BeforePoll
<1>15. CASE invoked
  <2>1. stack # <<>> /\ ~top.cb /\ top.at \in DOMAIN Invokes /\ becomes(Invokes[top.at]) /\ Lower = {}
    BY <1>15 DEF invoked, AtInvoke
  <2>2. Invokes[top.at] \in Labels /\ (Invokes[top.at] \in Forked => top.at \in Forked)
    BY <2>1 DEF Invokes, Labels, Forked
  <2>3. PICK label \in Labels : label = Invokes[top.at]
    BY <2>2
  <2>4. UNCHANGED <<of, pend, untold, postfork>>
    BY <1>15 DEF invoked
  <2>5. Drained'
    <3>1. AboveInv
      BY DEF IInv
    <3> QED
      BY <1>0, <2>1, <2>4, <3>1, NothingLeft DEF Drained
  <2>6. BeforePoll' => BeforePoll
    BY <1>14, <2>1, <2>2, <2>3, <2>5
  <2> QED
    BY <1>0, <1>2, <2>4, <2>6, ForkKept DEF Pending
<1>16. CASE run_fork
  <2>1. UNCHANGED <<of, untold, postfork>>
    BY <1>16 DEF run_fork, rest
  <2>2. ASSUME postfork = 1, NEW w \in untold
        PROVE  Pending(w)'
    <3>1. pend' = queue_events(pend, arr[<<"fork", 0>>])
      BY <1>16, <2>2 DEF run_fork
    <3>2. w \in Watcher /\ Active(w) /\ Array(w) = <<"fork", 0>>
      BY <1>2, <2>2 DEF Active, Array
    <3>3. Contains(arr[<<"fork", 0>>], w) /\ arr[<<"fork", 0>>] \in Seq(Watcher)
      BY <1>0, <3>2, ArrayOf DEF ArrayInv
    <3>4. of[w].pri \in Pri
      BY <1>1, <3>2 DEF Info
    <3>5. Contains(pend'[of[w].pri], w)
      BY <1>0, <1>1, <3>1, <3>3, <3>4, Queued
    <3> QED
      BY <3>4, <3>5 DEF Pending
  <2>3. postfork' = 1 => \A w \in untold' : Pending(w)'
    BY <2>1, <2>2
  <2>4. \A w \in untold' : Active(w)' /\ of'[w].kind = "fork"
    BY <1>2, <2>1 DEF Active
  <2> QED
    BY <2>3, <2>4 DEF ForkInv
<1>17. CASE run_prepare
  <2>1. /\ At("prepare") /\ becomes("prepared") /\ UNCHANGED <<of, untold, postfork>>
        /\ pend' = queue_events(pend, arr[<<"prepare", 0>>])
    BY <1>17 DEF run_prepare, invokes, becomes, rest
  <2>2. "prepared" \in Labels /\ "prepared" \in Invoking
    BY InvokingPlaces DEF Labels
  <2>3. BeforePoll' => BeforePoll
    BY <1>14, <2>1, <2>2 DEF At, Forked
  <2>4. \A v \in untold' : Pending(v) => Pending(v)'
    <3>1. arr[<<"prepare", 0>>] \in Seq(Watcher)
      BY <1>0 DEF TypeInv, Arrays
    <3> QED
      BY <1>0, <1>1, <2>1, <3>1, Queued DEF Pending
  <2> QED
    BY <1>0, <1>2, <2>1, <2>3, <2>4, ForkKept
<1>18. CASE run_poll
  <2>1. At("poll") /\ "poll" \notin Invoking /\ UNCHANGED <<of, untold>>
    BY <1>18, InvokingPlaces DEF run_poll, rest
  <2>2. CASE loop_done # "CANCEL"
    <3>1. becomes("end") /\ UNCHANGED <<pend, postfork>> /\ "end" \in Labels /\ "end" \notin Forked
      BY <1>18, <2>2 DEF run_poll, Labels, Forked
    <3>2. Drained'
      BY <1>0, <2>1, <3>1, AtPlace DEF Drained
    <3>3. BeforePoll' => BeforePoll
      BY <1>14, <2>1, <3>1, <3>2 DEF At
    <3> QED
      BY <1>0, <1>2, <2>1, <3>1, <3>3, ForkKept DEF Pending
  <2>3. CASE loop_done = "CANCEL"
    <3>1. postfork' # 1
      BY <1>18, <2>3 DEF run_poll
    <3>2. \A w \in untold' : Active(w)' /\ of'[w].kind = "fork"
      BY <1>2, <2>1 DEF Active
    <3> QED
      BY <3>1, <3>2 DEF ForkInv
  <2> QED
    BY <2>2, <2>3
<1>19. CASE run_while
  <2>1. At("while") /\ "while" \notin Invoking /\ UNCHANGED <<of, pend, untold, postfork>>
    BY <1>19, InvokingPlaces DEF run_while, rest
  <2>2. PICK label \in {"fork", "end"} : becomes(label)
    BY <1>19 DEF run_while
  <2>3. label \in Labels /\ label \notin Forked
    BY DEF Labels, Forked
  <2>4. Drained'
    BY <1>0, <2>1, AtPlace DEF Drained
  <2>5. BeforePoll' => BeforePoll
    BY <1>14, <2>1, <2>2, <2>3, <2>4 DEF At
  <2> QED
    BY <1>0, <1>2, <2>1, <2>5, ForkKept DEF Pending
<1>20. CASE run_end
  <2>1. stack # <<>> /\ stack' = Front(stack) /\ UNCHANGED <<of, pend, untold, postfork>>
    BY <1>20 DEF run_end, At
  <2>2. /\ stack' \in Seq(Call) /\ Len(stack') = Len(stack) - 1
        /\ \A i \in 1 .. Len(stack) - 1 : stack'[i] = stack[i]
    BY <1>0, <2>1, Shortened DEF TypeInv
  <2>3. \A i \in DOMAIN stack' : i \in DOMAIN stack /\ stack'[i] = stack[i]
    BY <1>0, <2>1, <2>2, TopCall
  <2>4. BeforePoll' => BeforePoll
    BY <2>3 DEF BeforePoll
  <2> QED
    BY <1>0, <1>2, <2>1, <2>4, ForkKept DEF Pending
<1> QED
  BY <1>10, <1>12, <1>13, <1>15, <1>16, <1>17, <1>18, <1>19, <1>20 DEF Next, loop


-------------------------------------------------------------------------------
(* The invariant is inductive *)

\* Initially nothing is active or pending.
LEMMA RunInit ==
    ASSUME RunAssumption, Init
    PROVE  IInv
<1>1. /\ \A w \in Watcher : of[w].active = 0
      /\ \A a \in Arrays : arr[a] = <<>>
      /\ \A p \in Pri : pend[p] = <<>>
  BY DEF Init
<1>2. 0 \in Pri
  BY DEF RunAssumption, Pri
<1>3. TypeInv
  <2>1. [kind |-> "io", pri |-> 0, active |-> 0] \in Info
    BY <1>2 DEF Info, AllKinds
  <2>2. /\ of \in [Watcher -> Info] /\ arr \in [Arrays -> Seq(Watcher)]
        /\ pend \in Pendings /\ stack \in Seq(Call)
    BY <2>1 DEF Init, Pendings
  <2> QED
    BY <1>2, <2>2 DEF Init, TypeInv
<1>4. ArrayInv
  BY <1>1 DEF ArrayInv, Active
<1>5. PriorityInv
  BY <1>1 DEF PriorityInv, Contains
<1>6. AboveInv
  BY <1>1 DEF AboveInv
<1>7. FrameInv
  BY DEF Init, FrameInv
<1>8. ActiveCounted
  <2>1. {w \in Watcher : Active(w) /\ of[w].kind # "cleanup"} = {}
    BY <1>1 DEF Active
  <2> QED
    BY <2>1, FS_EmptySet, 0 + 0 = 0, Zenon DEF Init, ActiveCounted
<1>9. ForkInv
  BY DEF Init, ForkInv
<1> QED
  BY <1>3, <1>4, <1>5, <1>6, <1>7, <1>8, <1>9 DEF IInv

\* Only starts and stops change the arrays.
LEMMA ArrayStep ==
    ASSUME RunAssumption, IInv, Next
    PROVE  ArrayInv'
<1>0. TypeInv /\ ArrayInv
  BY DEF IInv
<1>1. ASSUME UNCHANGED <<of, arr>>
      PROVE  ArrayInv'
  BY <1>0, <1>1 DEF ArrayInv, Active, Array
<1>2. ASSUME NEW w \in Watcher, stop(w)
      PROVE  ArrayInv'
  <2>1. CASE Active(w)
    BY <1>0, <1>2, <2>1, Stopped DEF stop
  <2>2. CASE ~Active(w)
    BY <1>1, <1>2, <2>2 DEF stop
  <2> QED
    BY <2>1, <2>2
<1>3. ASSUME NEW w \in Watcher, NEW kind \in Kinds, NEW pri \in Pri, start(w, kind, pri)
      PROVE  ArrayInv'
  BY <1>0, <1>3, Started
<1>4. CASE program
  <2>1. ASSUME \/ \E w \in Watcher : ev_feed_event(w) \/ ev_clear_pending(w)
               \/ \E n \in {-1, 1} : ev_ref(n)
               \/ \E how \in {"ONE", "ALL"} : ev_break(how)
               \/ \E flag \in {"LOOP", "ONCE", "NOWAIT"} : ev_run(flag)
               \/ ev_loop_fork
        PROVE  ArrayInv'
    BY <1>1, <2>1 DEF ev_feed_event, ev_clear_pending, ev_ref, ev_break, ev_run, ev_loop_fork
  <2> QED
    BY <1>2, <1>3, <1>4, <2>1 DEF program
<1>5. CASE loop
  BY <1>1, <1>5 DEF loop, ev_invoke_pending, callback_returns, invoked, run_fork, run_prepare,
                    run_poll, run_while, run_end, rest
<1> QED
  BY <1>4, <1>5 DEF Next

\* Every step keeps the invariant.
LEMMA RunStep ==
    ASSUME RunAssumption, IInv, [Next]_vars
    PROVE  IInv'
<1>1. CASE Next
  <2>1. TypeInv'
    BY <1>1, ProgramTypes, LoopTypes DEF Next, IInv
  <2>2. ArrayInv'
    BY <1>1, ArrayStep
  <2>3. PriorityInv' /\ AboveInv'
    BY <1>1, PendingStep
  <2>4. FrameInv'
    BY <1>1, FrameStep
  <2>5. ActiveCounted'
    BY <1>1, CountStep
  <2>6. ~LateFork => ForkInv'
    BY <1>1, ForkStep
  <2> QED
    BY <2>1, <2>2, <2>3, <2>4, <2>5, <2>6, Zenon DEF IInv
<1>2. CASE UNCHANGED vars
  <2>1. UNCHANGED <<of, arr>> /\ UNCHANGED <<pend, pendingpri, activecnt, loop_done>>
        /\ UNCHANGED <<postfork, stack, user, untold>>
    BY <1>2, Zenon DEF vars
  <2>2. TypeInv'
    BY <2>1, Zenon DEF IInv, TypeInv
  <2>3. ArrayInv'
    BY <2>1 DEF IInv, ArrayInv, Active, Array
  <2>4. PriorityInv' /\ AboveInv'
    BY <2>1 DEF IInv, PriorityInv, AboveInv
  <2>5. FrameInv'
    BY <2>1 DEF IInv, FrameInv, top, Drained, Invoking, Invokes
  <2>6. ActiveCounted'
    BY <2>1 DEF IInv, ActiveCounted, Active
  <2>7. ~LateFork => ForkInv'
    BY <2>1 DEF IInv, ForkInv, Active, Pending
  <2> QED
    BY <2>2, <2>3, <2>4, <2>5, <2>6, <2>7, Zenon DEF IInv
<1> QED
  BY <1>1, <1>2

-------------------------------------------------------------------------------
(* What the invariant is for *)

\* The invariant says what TypeOK does: the events of a priority are of
\* watchers of that priority.
LEMMA RightTypes ==
    ASSUME IInv
    PROVE  TypeOK
<1>0. TypeInv /\ ArrayInv /\ PriorityInv
  BY DEF IInv
<1>1. ASSUME NEW p \in Pri, NEW w \in ToSet(pend[p]) \ {None}
      PROVE  of[w].pri = p
  <2>1. pend[p] \in Seq(Watcher \cup {None})
    BY <1>0 DEF TypeInv, Pendings
  <2>2. w \in Watcher /\ Contains(pend[p], w)
    BY <2>1 DEF ToSet, Contains
  <2> QED
    BY <1>0, <2>2 DEF PriorityInv
<1>2. loop_done \in {"CANCEL", "ONE", "ALL"}
  BY <1>0 DEF TypeInv
<1> QED
  BY <1>0, <1>1, <1>2, Zenon DEF TypeOK, ArrayInv

\* A watcher in an array is of its kind, and of its priority if the array is one
\* of idles.
LEMMA KindOf ==
    ASSUME TypeInv, ArrayInv, NEW a \in Arrays, NEW w, Contains(arr[a], w)
    PROVE  w \in Watcher /\ of[w].kind = a[1] /\ (a[1] = "idle" => of[w].pri = a[2])
<1>1. arr[a] \in Seq(Watcher)
  BY DEF TypeInv
<1>2. PICK i \in 1 .. Len(arr[a]) : arr[a][i] = w
  BY Zenon DEF Contains
<1>3. i \in DOMAIN arr[a] /\ w \in Watcher
  BY <1>1, <1>2
<1>4. Array(w) = a
  BY <1>2, <1>3, Zenon DEF ArrayInv
<1>5. a = <<of[w].kind, IF of[w].kind = "idle" THEN of[w].pri ELSE 0>>
  BY <1>4, Zenon DEF Array
<1>6. a[1] = of[w].kind /\ a[2] = IF of[w].kind = "idle" THEN of[w].pri ELSE 0
  BY <1>5
<1> QED
  BY <1>3, <1>6

\* idle_reify makes watchers of one priority pending, and only if nothing is
\* pending at that or a higher one.
LEMMA IdleQueued ==
    ASSUME RunAssumption, TypeInv, NEW p \in Pendings
    PROVE  \/ idle_reify(p) = p
           \/ \E first \in Pri :
                /\ \A q \in Pri : q >= first => p[q] = <<>>
                /\ \A r \in Pri : \A x :
                     Contains(idle_reify(p)[r], x)
                         <=> \/ Contains(p[r], x)
                             \/ Contains(arr[<<"idle", first>>], x) /\ of[x].pri = r
<1> DEFINE ready == {q \in Pri : arr[<<"idle", q>>] # <<>>}
           first == CHOOSE q \in ready : \A r \in ready : r <= q
           busy == {q \in Pri : p[q] # <<>>}
<1>1. CASE ready = {} \/ \E b \in busy : b >= first
  BY <1>1, Zenon DEF idle_reify
<1>2. CASE ready # {} /\ \A b \in busy : ~(b >= first)
  <2>1. ready \in SUBSET Pri
    OBVIOUS
  <2>2. first \in Pri
    BY <1>2, <2>1, HighestOf, Zenon
  <2>3. PICK f \in Pri : f = first
    BY <2>2
  <2>4. idle_reify(p) = queue_events(p, arr[<<"idle", f>>])
    BY <1>2, <2>3, Zenon DEF idle_reify
  <2>5. \A q \in Pri : q >= f => p[q] = <<>>
    BY <1>2, <2>3, Zenon
  <2>6. arr[<<"idle", f>>] \in Seq(Watcher)
    BY DEF Arrays, TypeInv
  <2> HIDE DEF first, busy, ready
  <2>7. \A r \in Pri : \A x :
          Contains(queue_events(p, arr[<<"idle", f>>])[r], x)
              <=> Contains(p[r], x) \/ (Contains(arr[<<"idle", f>>], x) /\ of[x].pri = r)
    BY <2>6, Queued
  <2> QED
    BY <2>4, <2>5, <2>7, Zenon
<1> QED
  BY <1>1, <1>2, Zenon

\* What the loop makes pending before it runs callbacks again: what is ready,
\* idle watchers if nothing else of their priority or above is, and check
\* watchers.
LEMMA IdleStep ==
    ASSUME RunAssumption, IInv, run_poll
    PROVE  IdleWhenIdle
<1>0. TypeInv /\ ArrayInv /\ FrameInv
  BY DEF IInv
<1>1. Drained
  BY <1>0, AtPlace, InvokingPlaces DEF run_poll
<1>2. CASE loop_done # "CANCEL"
  <2>1. UNCHANGED pend
    BY <1>2 DEF run_poll
  <2> QED
    BY <2>1 DEF IdleWhenIdle, Pending
<1>3. CASE loop_done = "CANCEL"
  <2>1. PICK ready \in SUBSET ToSet(arr[<<"io", 0>>]) :
          pend' = queue_events(idle_reify(queue_events(pend, SetToSeq(ready))), arr[<<"check", 0>>])
    BY <1>3, Zenon DEF run_poll
  <2>2. <<"io", 0>> \in Arrays /\ <<"check", 0>> \in Arrays /\ \A q \in Pri : <<"idle", q>> \in Arrays
    BY DEF Arrays
  <2>3. pend \in Pendings /\ SetToSeq(ready) \in Seq(Watcher)
    BY <1>0, <2>2, PollQueues DEF TypeInv
  <2>4. PICK ws \in Seq(Watcher) : ws = SetToSeq(ready)
    BY <2>3
  <2>5. PICK p1 \in Pendings : p1 = queue_events(pend, ws)
    BY <1>0, <2>3, Queued
  <2>6. PICK p2 \in Pendings : p2 = idle_reify(p1)
    BY <1>0, PollQueues
  <2>7. pend' = queue_events(p2, arr[<<"check", 0>>])
    BY <2>1, <2>4, <2>5, <2>6
  <2>8. \A x : Contains(ws, x) => of[x].kind = "io"
    <3>1. ready \in SUBSET Watcher /\ IsFiniteSet(ready)
      <4>1. ready \in SUBSET Watcher
        BY <1>0, <2>2 DEF TypeInv, ToSet
      <4> QED
        BY <4>1, FS_Subset DEF RunAssumption
    <3>2. ws \in Seq(ready)
      BY <2>4, <3>1, ListOf
    <3>3. ASSUME NEW x, Contains(ws, x)
          PROVE  of[x].kind = "io"
      <4>1. x \in ready
        BY <3>2, <3>3 DEF Contains
      <4>2. Contains(arr[<<"io", 0>>], x)
        <5>1. arr[<<"io", 0>>] \in Seq(Watcher)
          BY <1>0, <2>2 DEF TypeInv
        <5> QED
          BY <4>1, <5>1 DEF ToSet, Contains
      <4> QED
        BY <1>0, <2>2, <4>2, KindOf
    <3> QED
      BY <3>3
  <2>9. \A r \in Pri : \A x : Contains(p1[r], x) => of[x].kind = "io" /\ of[x].pri = r
    <3>1. \A r \in Pri : \A x : Contains(p1[r], x) <=> Contains(pend[r], x) \/ (Contains(ws, x) /\ of[x].pri = r)
      BY <1>0, <2>3, <2>5, Queued
    <3>2. \A r \in Pri : \A x : ~Contains(pend[r], x)
      BY <1>1 DEF Drained, Contains
    <3> QED
      BY <2>8, <3>1, <3>2, Zenon
  <2>10. \A r \in Pri : \A x : Contains(pend'[r], x) => Contains(p2[r], x) \/ of[x].kind = "check"
    <3>1. arr[<<"check", 0>>] \in Seq(Watcher)
      BY <1>0, <2>2 DEF TypeInv
    <3>2. \A r \in Pri : \A x :
            Contains(pend'[r], x) <=> Contains(p2[r], x) \/ (Contains(arr[<<"check", 0>>], x) /\ of[x].pri = r)
      BY <1>0, <2>7, <3>1, Queued
    <3>3. \A x : Contains(arr[<<"check", 0>>], x) => of[x].kind = "check"
      BY <1>0, <2>2, KindOf
    <3> QED
      BY <3>2, <3>3, Zenon
  <2>11. ASSUME NEW w \in Watcher, of[w].kind = "idle", Pending(w)', NEW p \in Pri, p >= of[w].pri
         PROVE  \A v \in ToSet(pend'[p]) : of[v].kind \in {"idle", "check"}
    <3>1. PICK r \in Pri : Contains(p2[r], w)
      BY <2>10, <2>11 DEF Pending
    <3>2. ~Contains(p1[r], w)
      BY <2>9, <2>11
    <3>3. PICK first \in Pri :
            /\ \A q \in Pri : q >= first => p1[q] = <<>>
            /\ \A q \in Pri : \A x :
                 Contains(p2[q], x)
                     <=> Contains(p1[q], x) \/ (Contains(arr[<<"idle", first>>], x) /\ of[x].pri = q)
      BY <1>0, <2>6, <3>1, <3>2, IdleQueued
    <3>4. \A x : Contains(arr[<<"idle", first>>], x) => of[x].kind = "idle" /\ of[x].pri = first
      BY <1>0, <2>2, KindOf
    <3>5. Contains(arr[<<"idle", first>>], w)
      BY <3>1, <3>2, <3>3, Zenon
    <3>6. p1[p] = <<>>
      BY <2>11, <3>3, <3>4, <3>5
    <3>7. \A x : ~Contains(p1[p], x)
      BY <3>6 DEF Contains
    <3>8. \A x : Contains(pend'[p], x) => of[x].kind = "idle" \/ of[x].kind = "check"
      BY <2>10, <3>3, <3>4, <3>7, Zenon
    <3>9. ASSUME NEW v \in ToSet(pend'[p])
          PROVE  Contains(pend'[p], v)
      <4>1. pend' \in Pendings
        BY <1>0, <2>2, <2>7, PollQueues
      <4>2. pend'[p] \in Seq(Watcher \cup {None})
        BY <4>1 DEF Pendings
      <4> QED
        BY <3>9, <4>2 DEF ToSet, Contains
    <3> QED
      BY <3>8, <3>9, Zenon
  <2> QED
    BY <1>1, <2>11 DEF IdleWhenIdle, Drained
<1> QED
  BY <1>2, <1>3

\* Every step keeps the order of the priorities, runs idle watchers when nothing
\* else is to be done, and polls when nothing is pending.
LEMMA OrderStep ==
    ASSUME RunAssumption, IInv
    PROVE  HighestFirst /\ IdleWhenIdle /\ PollsWhenDone
<1>0. TypeInv /\ AboveInv /\ FrameInv
  BY DEF IInv
<1>1. HighestFirst
  <2>1. ASSUME ev_invoke_pending, NEW p \in Pri, p > pendingpri'
        PROVE  pend[p] = <<>>
    <3>1. Lower \in SUBSET Pri /\ Lower # {} /\ pendingpri' = Highest
      BY <2>1 DEF ev_invoke_pending, Lower
    <3>2. Highest \in Lower /\ \A q \in Lower : q <= Highest
      BY <3>1, HighestOf, Zenon DEF Highest
    <3>3. PICK h \in Pri : h = Highest
      BY <3>1, <3>2
    <3>4. p > h /\ \A q \in Lower : q <= h
      BY <2>1, <3>1, <3>2, <3>3
    <3>5. p \notin Lower
      BY <3>3, <3>4 DEF Pri
    <3>6. p <= pendingpri \/ p > pendingpri
      BY <1>0 DEF TypeInv, Pri
    <3> QED
      BY <1>0, <3>5, <3>6 DEF AboveInv, Lower
  <2> QED
    BY <2>1, Zenon DEF HighestFirst
<1>2. IdleWhenIdle
  <2>1. ~run_poll => IdleWhenIdle
    BY Zenon DEF IdleWhenIdle
  <2> QED
    BY <2>1, IdleStep
<1>3. PollsWhenDone
  <2>1. run_poll => Drained
    BY <1>0, AtPlace, InvokingPlaces DEF run_poll
  <2> QED
    BY <2>1 DEF PollsWhenDone, Drained
<1> QED
  BY <1>1, <1>2, <1>3

\* When no callback forks after the fork watchers, these have all run when the
\* loop polls.
LEMMA ForkOrder ==
    ASSUME RunAssumption, ~LateFork, IInv
    PROVE  ForkBeforePoll
<1>0. TypeInv /\ FrameInv /\ ForkInv
  BY DEF IInv
<1>1. ASSUME run_poll, postfork = 1
      PROVE  untold = {}
  <2>1. stack # <<>> /\ top.at = "poll" /\ Drained
    BY <1>0, <1>1, AtPlace, InvokingPlaces DEF run_poll
  <2>2. Len(stack) \in DOMAIN stack /\ stack[Len(stack)].at = "poll"
    BY <1>0, <2>1, TopCall
  <2>3. \A w \in untold : Pending(w)
    BY <1>0, <1>1, <2>2 DEF ForkInv
  <2>4. \A w : ~Pending(w)
    BY <2>1 DEF Drained, Pending, Contains
  <2> QED
    BY <2>3, <2>4
<1> QED
  BY <1>1 DEF ForkBeforePoll

-------------------------------------------------------------------------------
(* The theorems *)

\* The inductive invariant holds of the loop.
THEOREM Inductive ==
    ASSUME RunAssumption
    PROVE  Spec => []IInv
<1>1. Init => IInv
  BY RunInit
<1>2. IInv /\ [Next]_vars => IInv'
  BY RunStep
<1> QED
  BY <1>1, <1>2, PTL DEF Spec

\* Each active watcher knows its place in its array, events are pending at the
\* priority of their watcher, and activecnt counts the watchers that keep the
\* loop running, whatever the program starts and stops.
THEOREM ArraysRight ==
    ASSUME RunAssumption
    PROVE  Spec => [](TypeOK /\ ActiveCounted)
<1>1. IInv => TypeOK /\ ActiveCounted
  BY RightTypes DEF IInv
<1> QED
  BY <1>1, Inductive, PTL

\* No callback runs while one of a higher priority is pending, idle watchers
\* run when nothing of their priority or above is to be done, and the loop
\* polls with nothing left to run, also with ev_run in callbacks.
THEOREM InOrder ==
    ASSUME RunAssumption
    PROVE  Spec => [][HighestFirst /\ IdleWhenIdle /\ PollsWhenDone]_vars
<1>1. IInv => HighestFirst /\ IdleWhenIdle /\ PollsWhenDone
  BY OrderStep
<1> QED
  BY <1>1, Inductive, PTL DEF Spec

\* After a fork every fork watcher that is still active runs before the loop
\* polls, if no callback between the fork watchers and the poll forks.
THEOREM ForksFirst ==
    ASSUME RunAssumption, ~LateFork
    PROVE  Spec => [][ForkBeforePoll]_vars
<1>1. IInv => ForkBeforePoll
  BY ForkOrder
<1> QED
  BY <1>1, Inductive, PTL DEF Spec
===============================================================================
