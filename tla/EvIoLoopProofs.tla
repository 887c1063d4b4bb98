---------------------------- MODULE EvIoLoopProofs ----------------------------
(***************************************************************************)
(* Proofs about EvIoLoop, for every number of descriptors, watchers, files *)
(* and operations and every choice of back end.  IInv is the inductive     *)
(* invariant: libev's state is Good (the watchers of a descriptor are      *)
(* different ones that are set for it, the changed descriptors are on the  *)
(* list once, and the mask of an unchanged one is what its watchers want), *)
(* and the state of the back end has its types and, for poll and select,   *)
(* agrees with the masks.  Armed, proved on top of IInv, says what the     *)
(* kernel's set of epoll holds, under the assumption Supposed, and Calm    *)
(* what io_uring has on its way for each descriptor, under Patient.  Most  *)
(* loops of the code run over lists that their body changes; LoopStays of  *)
(* ListLemmas says what it keeps.                                          *)
(***************************************************************************)
EXTENDS EvIoLoop, ListLemmas

-------------------------------------------------------------------------------
(* Lists that libev changes *)

\* RemoveAt takes one element out.
LEMMA RemoveAtKeeps ==
    ASSUME NEW S, NEW s \in Seq(S), NEW i \in 1 .. Len(s)
    PROVE  /\ RemoveAt(s, i) \in Seq(S)
           /\ \A k \in 1 .. Len(s) : k # i => \E j \in DOMAIN RemoveAt(s, i) : RemoveAt(s, i)[j] = s[k]
<1> DEFINE a == SubSeq(s, 1, i - 1)  b == SubSeq(s, i + 1, Len(s))
<1>1. Len(s) \in Nat
  OBVIOUS
<1>2. /\ a \in Seq(S) /\ Len(a) = i - 1
      /\ \A k \in 1 .. i - 1 : a[k] = s[k]
  BY <1>1
<1>3. /\ b \in Seq(S) /\ Len(b) = Len(s) - i
      /\ \A k \in 1 .. Len(s) - i : b[k] = s[k + i]
  BY <1>1
<1> HIDE DEF a, b
<1>4. /\ a \o b \in Seq(S) /\ DOMAIN (a \o b) = 1 .. Len(a) + Len(b)
      /\ \A k \in 1 .. Len(a) : (a \o b)[k] = a[k]
      /\ \A k \in 1 .. Len(b) : (a \o b)[Len(a) + k] = b[k]
  <2>0. a \in Seq(S) /\ b \in Seq(S)
    BY <1>2, <1>3
  <2>1. a \o b \in Seq(S) /\ Len(a \o b) = Len(a) + Len(b)
    BY <2>0
  <2>2. \A k \in 1 .. Len(a) : (a \o b)[k] = a[k]
    BY <1>2, <1>3
  <2>3. \A k \in 1 .. Len(b) : (a \o b)[Len(a) + k] = b[k]
    BY <1>2, <1>3
  <2> QED
    BY <2>1, <2>2, <2>3
<1>5. ASSUME NEW k \in 1 .. Len(s), k # i
      PROVE  \E j \in DOMAIN (a \o b) : (a \o b)[j] = s[k]
  <2>1. CASE k < i
    <3>1. k \in 1 .. Len(a) /\ k \in 1 .. Len(a) + Len(b)
      BY <1>1, <1>2, <1>3, <2>1
    <3> QED
      BY <1>2, <1>4, <2>1, <3>1
  <2>2. CASE ~(k < i)
    <3>1. /\ k - i \in 1 .. Len(b) /\ (k - i) + i = k
          /\ Len(a) + (k - i) \in 1 .. Len(a) + Len(b)
      BY <1>1, <1>2, <1>3, <1>5, <2>2
    <3>2. (a \o b)[Len(a) + (k - i)] = s[k]
      BY <1>3, <1>4, <3>1
    <3> QED
      BY <1>4, <3>1, <3>2
  <2> QED
    BY <2>1, <2>2
<1> QED
  BY <1>4, <1>5 DEF RemoveAt, a, b

-------------------------------------------------------------------------------
(* The state of libev *)

Event == [w : Watcher, revents : SUBSET Revents]

\* The types of c.ev.
Ev == [io      : [Watcher -> {Unset} \cup [fd : Fd, events : SUBSET RW, fresh : BOOLEAN]],
       head    : [Fd -> Seq(Watcher)],
       events  : [Fd -> SUBSET RW],
       reify   : [Fd -> SUBSET {"IOFDSET", "REIFY"}],
       changes : Seq(Fd),
       pend    : Seq(Event)]

\* The watchers of a descriptor are different ones, and set for it.
HeadsInv(e) ==
    \A fd \in Fd : /\ Distinct(e.head[fd])
                   /\ \A i \in DOMAIN e.head[fd] : e.io[e.head[fd][i]].fd = fd

\* The changed descriptors are those on the list after the first n, each once.
ListInv(e, n) ==
    /\ n <= Len(e.changes)
    /\ \A i, j \in n + 1 .. Len(e.changes) : i < j => e.changes[i] # e.changes[j]
    /\ \A fd \in Fd : e.reify[fd] # {} <=> \E i \in n + 1 .. Len(e.changes) : e.changes[i] = fd

\* The mask of a descriptor that has not changed is what its watchers want.
Want(e, fd) == UNION {e.io[w].events : w \in ToSet(e.head[fd])}
MaskInv(e, fd) == e.reify[fd] = {} => e.events[fd] = Want(e, fd)

\* A state of libev when fd_reify has done with the first n changes.
Good(n) == {e \in Ev : HeadsInv(e) /\ ListInv(e, n) /\ \A fd \in Fd : MaskInv(e, fd)}

\* The watcher has been told of an error.
Err(e, w) == \E i \in DOMAIN e.pend : e.pend[i].w = w /\ "ERROR" \in e.pend[i].revents

\* The loop starts no watcher and changes no field of one.
Keeps(e, d) == d.io = e.io /\ \A w \in Watcher : Active(d, w) => Active(e, w)

\* What the loop itself does to the watchers: it may stop one, with an error,
\* and add to the list of changes.
Follows(e, d) ==
    /\ Keeps(e, d)
    /\ Len(e.changes) <= Len(d.changes)
    /\ \A i \in 1 .. Len(e.changes) : d.changes[i] = e.changes[i]
    /\ \A w \in Watcher : Active(e, w) \/ Err(e, w) => Active(d, w) \/ Err(d, w)

LEMMA FollowsItself == \A e \in Ev : Follows(e, e)
<1> SUFFICES ASSUME NEW e \in Ev PROVE Follows(e, e)
  OBVIOUS
<1>1. Len(e.changes) \in Nat
  BY DEF Ev
<1> QED
  BY <1>1 DEF Follows, Keeps

LEMMA FollowsOn ==
    ASSUME NEW e \in Ev, NEW d \in Ev, NEW f \in Ev, Follows(e, d), Follows(d, f)
    PROVE  Follows(e, f)
<1>1. Len(e.changes) \in Nat /\ Len(d.changes) \in Nat /\ Len(f.changes) \in Nat
  BY DEF Ev
<1>2. Keeps(e, f)
  BY Zenon DEF Follows, Keeps
<1>3. Len(e.changes) <= Len(f.changes)
  BY <1>1 DEF Follows
<1>4. \A i \in 1 .. Len(e.changes) : i \in 1 .. Len(d.changes) /\ f.changes[i] = e.changes[i]
  BY <1>1 DEF Follows
<1>5. \A w \in Watcher : Active(e, w) \/ Err(e, w) => Active(f, w) \/ Err(f, w)
  BY Zenon DEF Follows
<1> QED
  BY <1>2, <1>3, <1>4, <1>5 DEF Follows

-------------------------------------------------------------------------------
(* Events *)

\* Only pendings is different.
Same(e, d) == /\ d.io = e.io /\ d.head = e.head /\ d.events = e.events
              /\ d.reify = e.reify /\ d.changes = e.changes

LEMMA SameGood ==
    ASSUME NEW n \in Nat, NEW e \in Good(n), NEW d \in Ev, Same(e, d)
    PROVE  d \in Good(n)
BY DEF Good, HeadsInv, ListInv, MaskInv, Want, Same

LEMMA SameActive ==
    ASSUME NEW e, NEW d, Same(e, d), NEW w
    PROVE  Active(d, w) <=> Active(e, w)
BY Zenon DEF Same, Active

LEMMA SameFollows ==
    ASSUME NEW e \in Ev, NEW d \in Ev, Same(e, d),
           \A w \in Watcher : Err(e, w) => Err(d, w)
    PROVE  Follows(e, d)
<1>1. Len(e.changes) \in Nat
  BY DEF Ev
<1>2. \A w \in Watcher : Active(e, w) \/ Err(e, w) => Active(d, w) \/ Err(d, w)
  BY SameActive, Zenon
<1>3. \A w \in Watcher : Active(d, w) => Active(e, w)
  BY SameActive, Zenon
<1> QED
  BY <1>1, <1>2, <1>3 DEF Follows, Keeps, Same

\* An event is added to those of the watcher; no other is lost.
LEMMA FeedEvent ==
    ASSUME NEW e \in Ev, NEW w \in Watcher, NEW r \in SUBSET Revents
    PROVE  LET d == ev_feed_event(e, w, r)
           IN  /\ d \in Ev /\ Same(e, d)
               /\ \A v \in Watcher : Err(e, v) => Err(d, v)
               /\ "ERROR" \in r => Err(d, w)
<1>0. e.pend \in Seq(Event) /\ Len(e.pend) \in Nat /\ DOMAIN e.pend = 1 .. Len(e.pend)
  BY DEF Ev
<1>1. CASE Pending(e, w)
  <2> DEFINE p == [i \in DOMAIN e.pend |-> IF e.pend[i].w = w
                     THEN [w |-> w, revents |-> e.pend[i].revents \cup r] ELSE e.pend[i]]
             d == [e EXCEPT !.pend = p]
  <2>1. ev_feed_event(e, w, r) = d
    BY <1>1, Zenon DEF ev_feed_event
  <2>2. ASSUME NEW i \in DOMAIN e.pend
        PROVE  /\ p[i] \in Event /\ p[i].w = e.pend[i].w
               /\ e.pend[i].revents \subseteq p[i].revents
               /\ e.pend[i].w = w => r \subseteq p[i].revents
    <3>1. e.pend[i] \in Event
      BY <1>0
    <3> QED
      BY <3>1 DEF Event
  <2>7. DOMAIN p = DOMAIN e.pend /\ p = [i \in DOMAIN e.pend |-> p[i]]
    OBVIOUS
  <2> HIDE DEF p
  <2>3. p \in Seq(Event) /\ DOMAIN p = DOMAIN e.pend
    <3>1. p \in [1 .. Len(e.pend) -> Event]
      BY <1>0, <2>2, <2>7, Zenon
    <3> QED
      BY <1>0, <2>7, <3>1
  <2>4. d \in Ev /\ d.pend = p /\ Same(e, d)
    BY <2>3 DEF Ev, Same
  <2> HIDE DEF d
  <2>5. ASSUME NEW v \in Watcher, Err(e, v)
        PROVE  Err(d, v)
    BY <2>2, <2>3, <2>4, <2>5 DEF Err
  <2>6. ASSUME "ERROR" \in r
        PROVE  Err(d, w)
    BY <1>1, <2>2, <2>3, <2>4, <2>6 DEF Err, Pending
  <2> QED
    BY <2>1, <2>4, <2>5, <2>6
<1>2. CASE ~Pending(e, w)
  <2> DEFINE m == [w |-> w, revents |-> r]
             p == Append(e.pend, m)
             d == [e EXCEPT !.pend = p]
  <2>1. ev_feed_event(e, w, r) = d
    BY <1>2 DEF ev_feed_event
  <2>2. m \in Event
    BY DEF Event
  <2>3. /\ p \in Seq(Event) /\ DOMAIN p = 1 .. Len(e.pend) + 1
        /\ \A i \in DOMAIN e.pend : i \in DOMAIN p /\ p[i] = e.pend[i]
        /\ Len(e.pend) + 1 \in DOMAIN p /\ p[Len(e.pend) + 1] = m
    <3> HIDE DEF m
    <3> QED
      BY <1>0, <2>2
  <2>7. m.w = w /\ m.revents = r
    OBVIOUS
  <2> HIDE DEF p, m
  <2>4. d \in Ev /\ d.pend = p /\ Same(e, d)
    BY <2>3 DEF Ev, Same
  <2> HIDE DEF d
  <2>5. ASSUME NEW v \in Watcher, Err(e, v)
        PROVE  Err(d, v)
    BY <2>3, <2>4, <2>5 DEF Err
  <2>6. ASSUME "ERROR" \in r
        PROVE  Err(d, w)
    BY <2>3, <2>4, <2>6, <2>7 DEF Err
  <2> QED
    BY <2>1, <2>4, <2>5, <2>6
<1> QED
  BY <1>1, <1>2

\* What feeding events to watchers makes of e.
Fed(e) == {d \in Ev : Same(e, d) /\ \A v \in Watcher : Err(e, v) => Err(d, v)}

\* fd_event_nocheck only feeds events.
LEMMA FeedAll ==
    ASSUME NEW e \in Ev, NEW fd \in Fd, NEW r \in SUBSET Revents
    PROVE  fd_event_nocheck(e, fd, r) \in Fed(e)
<1> DEFINE s == e.head[fd]
           L == Len(s)
           op(d, w) == LET got == d.io[w].events \cap r
                       IN  IF got = {} THEN d ELSE ev_feed_event(d, w, got)
           D(f) == [n \in 0 .. L |-> IF n = 0 THEN e
                        ELSE CHOOSE z \in {op(v, s[n]) : v \in {f[n - 1]}} : TRUE]
           after == CHOOSE f : f = D(f)
           S == [n \in 0 .. L |-> Fed(e)]
           g == [p \in (1 .. L) \X Fed(e) |-> op(p[2], s[p[1]])]
<1>1. fd_event_nocheck(e, fd, r) = after[L]
  BY Zenon DEF fd_event_nocheck, Steps
<1>2. /\ L \in Nat /\ L \in 0 .. L /\ \A n \in 0 .. L : n = 0 \/ n \in 1 .. L
      /\ \A n \in 1 .. L : n \in 0 .. L /\ n - 1 \in 0 .. L /\ s[n] \in Watcher
  BY DEF Ev
<1>3. /\ e \in S[0] /\ \A n \in 0 .. L : S[n] = Fed(e)
      /\ \A n \in 1 .. L : \A d \in S[n - 1] : op(d, s[n]) \in S[n]
  <2>1. ASSUME NEW d \in Fed(e), NEW w \in Watcher
        PROVE  op(d, w) \in Fed(e)
    <3>1. d \in Ev /\ d.io[w].events \cap r \in SUBSET Revents
      BY DEF Fed
    <3> QED
      BY <3>1, FeedEvent DEF Fed, Same
  <2> HIDE DEF s, L, op
  <2>2. e \in S[0] /\ \A n \in 0 .. L : S[n] = Fed(e)
    BY <1>2 DEF Fed, Same
  <2> HIDE DEF S
  <2> QED
    BY <1>2, <2>1, <2>2
<1> HIDE DEF s, L, op, S
<1>4. \A n \in 1 .. L : \A y \in S[n - 1] : g[<<n, y>>] = op(y, s[n])
  BY <1>2, <1>3
<1> HIDE DEF g
<1>5. Stays(L, e, S, g)
  BY <1>2, <1>3, <1>4 DEF Stays
<1> HIDE DEF S
<1>6. PICK f : LoopRun(f, L, e, g) /\ \A n \in 0 .. L : f[n] \in S[n]
  BY <1>2, <1>5, LoopRuns DEF RunStays
<1>7. f = D(f)
  <2>1. \A n \in 1 .. L : f[n] = g[<<n, f[n - 1]>>] /\ f[n - 1] \in S[n - 1]
    BY <1>2, <1>6 DEF LoopRun
  <2>2. \A n \in 1 .. L : f[n] = op(f[n - 1], s[n])
    BY <1>4, <2>1
  <2>3. \A n \in 1 .. L : f[n] = CHOOSE z \in {op(v, s[n]) : v \in {f[n - 1]}} : TRUE
    BY <2>2
  <2>4. \A n \in 0 .. L : f[n] = D(f)[n]
    BY <1>2, <1>6, <2>3 DEF LoopRun
  <2> QED
    BY <1>6, <2>4 DEF LoopRun
<1>8. after = D(after)
  BY <1>7
<1> HIDE DEF after
<1>9. after[0] = e /\ \A n \in 1 .. L : after[n] = op(after[n - 1], s[n])
  BY <1>2, <1>8
<1>10. after[L] \in S[L]
  BY <1>2, <1>4, <1>5, <1>9, LoopStays
<1> QED
  BY <1>1, <1>2, <1>3, <1>10

-------------------------------------------------------------------------------
(* Changes of the watchers *)

\* The watcher is not pending any more; the others are.
LEMMA ClearPending ==
    ASSUME NEW e \in Ev, NEW w \in Watcher
    PROVE  LET d == clear_pending(e, w)
           IN  /\ d \in Ev /\ Same(e, d)
               /\ \A v \in Watcher : v # w /\ Err(e, v) => Err(d, v)
<1>1. CASE Pending(e, w)
  <2> DEFINE i == CHOOSE i \in DOMAIN e.pend : e.pend[i].w = w
             p == RemoveAt(e.pend, i)
             d == [e EXCEPT !.pend = p]
  <2>1. clear_pending(e, w) = d
    BY <1>1, Zenon DEF clear_pending
  <2>2. e.pend \in Seq(Event) /\ DOMAIN e.pend = 1 .. Len(e.pend)
    BY DEF Ev
  <2>3. i \in DOMAIN e.pend /\ e.pend[i].w = w
    BY <1>1, Zenon DEF Pending
  <2> HIDE DEF i
  <2>4. /\ p \in Seq(Event)
        /\ \A k \in 1 .. Len(e.pend) : k # i => \E j \in DOMAIN p : p[j] = e.pend[k]
    <3>1. e.pend \in Seq(Event) /\ i \in 1 .. Len(e.pend)
      BY <2>2, <2>3
    <3> QED
      BY <3>1, RemoveAtKeeps
  <2> HIDE DEF p
  <2>5. d \in Ev /\ d.pend = p /\ Same(e, d)
    BY <2>4 DEF Ev, Same
  <2> HIDE DEF d
  <2>6. ASSUME NEW v \in Watcher, v # w, Err(e, v)
        PROVE  Err(d, v)
    BY <2>2, <2>3, <2>4, <2>5, <2>6 DEF Err
  <2> QED
    BY <2>1, <2>5, <2>6
<1>2. CASE ~Pending(e, w)
  BY <1>2 DEF clear_pending, Same
<1> QED
  BY <1>1, <1>2

\* The descriptor of a change of watchers gets on the list.
LEMMA FdChange ==
    ASSUME NEW n \in Nat, NEW e \in Ev, HeadsInv(e), ListInv(e, n),
           NEW fd \in Fd, \A g \in Fd \ {fd} : MaskInv(e, g),
           NEW flags \in SUBSET {"IOFDSET", "REIFY"}, flags # {}
    PROVE  LET d == fd_change(e, fd, flags)
           IN  /\ d \in Good(n)
               /\ d.io = e.io /\ d.head = e.head /\ d.events = e.events /\ d.pend = e.pend
               /\ \A g \in Fd : e.reify[g] \subseteq d.reify[g]
               /\ Len(e.changes) <= Len(d.changes)
               /\ \A i \in 1 .. Len(e.changes) : d.changes[i] = e.changes[i]
<1> DEFINE l == IF e.reify[fd] = {} THEN Append(e.changes, fd) ELSE e.changes
           d == fd_change(e, fd, flags)
<1>1. e.changes \in Seq(Fd) /\ Len(e.changes) \in Nat
  BY DEF Ev
<1>2. /\ l \in Seq(Fd) /\ Len(l) \in Nat /\ Len(e.changes) <= Len(l)
      /\ \A i \in 1 .. Len(e.changes) : l[i] = e.changes[i]
      /\ e.reify[fd] = {} => Len(l) = Len(e.changes) + 1 /\ l[Len(e.changes) + 1] = fd
      /\ e.reify[fd] # {} => Len(l) = Len(e.changes)
  BY <1>1
<1> HIDE DEF l
<1>3. /\ d \in Ev
      /\ d.io = e.io /\ d.head = e.head /\ d.events = e.events /\ d.pend = e.pend
      /\ d.changes = l
      /\ d.reify[fd] # {} /\ \A g \in Fd : g # fd => d.reify[g] = e.reify[g]
      /\ e.reify[fd] \subseteq d.reify[fd]
  BY <1>2 DEF fd_change, Ev, l
<1> HIDE DEF d
<1>11. \A g \in Fd : e.reify[g] \subseteq d.reify[g]
  BY <1>3
<1>4. HeadsInv(d)
  BY <1>3 DEF HeadsInv
<1>5. n <= Len(l)
  BY <1>1, <1>2 DEF ListInv
<1>6. ASSUME NEW i \in n + 1 .. Len(l), NEW j \in n + 1 .. Len(l), i < j
      PROVE  l[i] # l[j]
  <2>1. i \in n + 1 .. Len(e.changes) /\ i \in 1 .. Len(e.changes)
    BY <1>1, <1>2, <1>6
  <2>2. CASE j <= Len(e.changes)
    <3>1. j \in n + 1 .. Len(e.changes) /\ j \in 1 .. Len(e.changes)
      BY <1>1, <2>2
    <3> QED
      BY <1>2, <1>6, <2>1, <3>1 DEF ListInv
  <2>3. CASE ~(j <= Len(e.changes))
    <3>1. e.reify[fd] = {} /\ l[j] = fd /\ l[i] = e.changes[i]
      BY <1>1, <1>2, <2>1, <2>3
    <3> QED
      BY <2>1, <3>1 DEF ListInv
  <2> QED
    BY <2>2, <2>3
<1>7. ASSUME NEW g \in Fd
      PROVE  d.reify[g] # {} <=> \E i \in n + 1 .. Len(l) : l[i] = g
  <2>0. e.reify[g] # {} <=> \E i \in n + 1 .. Len(e.changes) : e.changes[i] = g
    BY Zenon DEF ListInv
  <2>1. CASE e.reify[fd] # {}
    <3>1. \A i \in n + 1 .. Len(l) : i \in 1 .. Len(e.changes) /\ l[i] = e.changes[i]
      BY <1>1, <1>2, <2>1
    <3>2. Len(l) = Len(e.changes)
      BY <1>2, <2>1
    <3>3. d.reify[g] # {} <=> e.reify[g] # {}
      BY <1>3, <2>1
    <3> QED
      BY <2>0, <3>1, <3>2, <3>3
  <2>2. CASE e.reify[fd] = {}
    <3>1. ASSUME NEW i \in n + 1 .. Len(l)
          PROVE  \/ i \in n + 1 .. Len(e.changes) /\ l[i] = e.changes[i]
                 \/ i = Len(e.changes) + 1 /\ l[i] = fd
      <4>1. Len(l) = Len(e.changes) + 1 /\ l[Len(e.changes) + 1] = fd
        BY <1>2, <2>2
      <4>2. CASE i <= Len(e.changes)
        <5>1. i \in 1 .. Len(e.changes) /\ i \in n + 1 .. Len(e.changes)
          BY <1>1, <4>2
        <5> QED
          BY <1>2, <5>1
      <4>3. CASE ~(i <= Len(e.changes))
        BY <1>1, <4>1, <4>3
      <4> QED
        BY <4>2, <4>3
    <3>2. /\ Len(e.changes) + 1 \in n + 1 .. Len(l) /\ l[Len(e.changes) + 1] = fd
          /\ \A i \in n + 1 .. Len(e.changes) : i \in n + 1 .. Len(l) /\ l[i] = e.changes[i]
      BY <1>1, <1>2, <2>2 DEF ListInv
    <3>3. CASE g = fd
      BY <1>3, <3>2, <3>3
    <3>4. CASE g # fd
      <4>1. d.reify[g] = e.reify[g]
        BY <1>3, <3>4
      <4> QED
        BY <2>0, <3>1, <3>2, <3>4, <4>1
    <3> QED
      BY <3>3, <3>4
  <2> QED
    BY <2>1, <2>2
<1>8. \A g \in Fd : MaskInv(d, g)
  BY <1>3 DEF MaskInv, Want
<1>9. ListInv(d, n)
  BY <1>3, <1>5, <1>6, <1>7 DEF ListInv
<1>10. d \in Good(n)
  BY <1>3, <1>4, <1>8, <1>9 DEF Good
<1> QED
  BY <1>2, <1>3, <1>10, <1>11 DEF d

\* The watcher is set; it is on no list.
LEMMA IoSet ==
    ASSUME NEW n \in Nat, NEW e \in Good(n), NEW w \in Watcher, ~Active(e, w),
           NEW set \in {Unset} \cup [fd : Fd, events : SUBSET RW, fresh : BOOLEAN]
    PROVE  [e EXCEPT !.io[w] = set] \in Good(n)
<1> DEFINE d == [e EXCEPT !.io[w] = set]
<1>1. /\ d \in Ev /\ d.head = e.head /\ d.events = e.events /\ d.reify = e.reify
      /\ d.changes = e.changes
      /\ \A v \in Watcher : v # w => d.io[v] = e.io[v]
  BY DEF Good, Ev
<1> HIDE DEF d
<1>2. \A fd \in Fd : \A i \in DOMAIN e.head[fd] : e.head[fd][i] \in Watcher /\ e.head[fd][i] # w
  BY DEF Good, Ev, Active, Contains
<1>3. \A fd \in Fd : Want(d, fd) = Want(e, fd)
  <2> SUFFICES ASSUME NEW fd \in Fd PROVE Want(d, fd) = Want(e, fd)
    OBVIOUS
  <2>1. \A v \in ToSet(e.head[fd]) : d.io[v] = e.io[v]
    BY <1>1, <1>2 DEF ToSet
  <2>2. {d.io[v].events : v \in ToSet(e.head[fd])} = {e.io[v].events : v \in ToSet(e.head[fd])}
    BY <2>1
  <2> QED
    BY <1>1, <2>2, Zenon DEF Want
<1>4. HeadsInv(d)
  BY <1>1, <1>2 DEF Good, HeadsInv
<1>5. ListInv(d, n)
  BY <1>1 DEF Good, ListInv
<1>6. \A fd \in Fd : MaskInv(d, fd)
  BY <1>1, <1>3, Zenon DEF Good, MaskInv
<1> QED
  BY <1>1, <1>4, <1>5, <1>6 DEF Good, d

\* A watcher that is set gets on the list of its descriptor.
LEMMA IoStart ==
    ASSUME NEW n \in Nat, NEW e \in Good(n), NEW w \in Watcher, ~Active(e, w), e.io[w] # Unset
    PROVE  ev_io_start(e, w) \in Good(n)
<1> DEFINE fd == e.io[w].fd
           d == [e EXCEPT !.head[fd] = <<w>> \o @, !.io[w].fresh = FALSE]
           flags == IF e.io[w].fresh THEN {"IOFDSET", "REIFY"} ELSE {"REIFY"}
<1>1. fd \in Fd /\ e.io[w].fd = fd /\ e.io[w] \in [fd : Fd, events : SUBSET RW, fresh : BOOLEAN]
  BY DEF Good, Ev
<1>2. e.head[fd] \in Seq(Watcher) /\ Len(e.head[fd]) \in Nat /\ ~Contains(e.head[fd], w)
  <2>1. ~Contains(e.head[fd], w)
    BY <1>1, Zenon DEF Active
  <2> QED
    BY <1>1, <2>1 DEF Good, Ev
<1> DEFINE h == <<w>> \o e.head[fd]
<1>3. /\ h \in Seq(Watcher) /\ DOMAIN h = 1 .. Len(e.head[fd]) + 1 /\ h[1] = w
      /\ \A i \in 2 .. Len(e.head[fd]) + 1 : h[i] = e.head[fd][i - 1]
  <2>1. <<w>> \in Seq(Watcher) /\ Len(<<w>>) = 1 /\ <<w>>[1] = w
    OBVIOUS
  <2> QED
    BY <1>2, <2>1
<1> HIDE DEF h
<1>4. /\ d \in Ev /\ d.head = [e.head EXCEPT ![fd] = h]
      /\ d.events = e.events /\ d.reify = e.reify /\ d.changes = e.changes
      /\ \A v \in Watcher : d.io[v].fd = e.io[v].fd /\ d.io[v].events = e.io[v].events
  <2>1. [e.io[w] EXCEPT !.fresh = FALSE] \in [fd : Fd, events : SUBSET RW, fresh : BOOLEAN]
    BY <1>1
  <2>2. d = [e EXCEPT !.head = [e.head EXCEPT ![fd] = h],
                      !.io = [e.io EXCEPT ![w] = [e.io[w] EXCEPT !.fresh = FALSE]]]
    BY <1>1 DEF h, Good, Ev
  <2> HIDE DEF d, fd
  <2> QED
    BY <1>1, <1>3, <2>1, <2>2 DEF Good, Ev
<1> HIDE DEF d, fd
<1>5. \A g \in Fd : g # fd => d.head[g] = e.head[g]
  BY <1>4 DEF Good, Ev
<1>6. d.head[fd] = h
  BY <1>1, <1>4 DEF Good, Ev
<1>7. HeadsInv(d)
  <2>1. Distinct(h)
    <3>1. \A i, j \in DOMAIN h : i < j => j \in 2 .. Len(e.head[fd]) + 1 /\ (i = 1 \/ i \in 2 .. Len(e.head[fd]) + 1)
      BY <1>2, <1>3
    <3>2. \A i \in 2 .. Len(e.head[fd]) + 1 : h[i] # w
      <4>1. \A i \in 2 .. Len(e.head[fd]) + 1 : i - 1 \in 1 .. Len(e.head[fd])
        BY <1>2
      <4>2. \A i \in 1 .. Len(e.head[fd]) : e.head[fd][i] # w
        BY <1>2 DEF Contains
      <4> QED
        BY <1>3, <4>1, <4>2
    <3>3. \A i, j \in 2 .. Len(e.head[fd]) + 1 : i < j => h[i] # h[j]
      <4>1. Distinct(e.head[fd])
        BY <1>1 DEF Good, HeadsInv
      <4>2. \A i, j \in 2 .. Len(e.head[fd]) + 1 : i < j =>
               i - 1 \in DOMAIN e.head[fd] /\ j - 1 \in DOMAIN e.head[fd] /\ i - 1 < j - 1
        BY <1>2
      <4> QED
        BY <1>3, <4>1, <4>2 DEF Distinct
    <3> QED
      BY <1>3, <3>1, <3>2, <3>3 DEF Distinct
  <2>2. \A i \in DOMAIN h : d.io[h[i]].fd = fd
    <3>1. \A i \in DOMAIN h : i = 1 \/ (i \in 2 .. Len(e.head[fd]) + 1 /\ i - 1 \in DOMAIN e.head[fd])
      BY <1>2, <1>3
    <3>2. \A i \in DOMAIN e.head[fd] : e.head[fd][i] \in Watcher /\ e.io[e.head[fd][i]].fd = fd
      BY <1>1, <1>2 DEF Good, HeadsInv
    <3> QED
      <4>1. d.io[w].fd = fd /\ \A v \in Watcher : d.io[v].fd = e.io[v].fd
        BY <1>1, <1>4
      <4>2. \A i \in DOMAIN h : h[i] = w \/ \E k \in DOMAIN e.head[fd] : h[i] = e.head[fd][k]
        BY <1>3, <3>1
      <4> QED
        BY <3>2, <4>1, <4>2
  <2>3. ASSUME NEW g \in Fd, g # fd
        PROVE  /\ Distinct(d.head[g])
               /\ \A i \in DOMAIN d.head[g] : d.io[d.head[g][i]].fd = g
    <3>1. \A i \in DOMAIN e.head[g] : e.head[g][i] \in Watcher
      BY DEF Good, Ev
    <3> QED
      BY <1>4, <1>5, <2>3, <3>1 DEF Good, HeadsInv
  <2> QED
    BY <1>1, <1>6, <2>1, <2>2, <2>3 DEF HeadsInv
<1>8. ListInv(d, n)
  BY <1>4 DEF Good, ListInv
<1>9. ASSUME NEW g \in Fd \ {fd}
      PROVE  MaskInv(d, g)
  <2>1. \A v \in ToSet(e.head[g]) : v \in Watcher
    BY DEF Good, Ev, ToSet
  <2>2. {d.io[v].events : v \in ToSet(e.head[g])} = {e.io[v].events : v \in ToSet(e.head[g])}
    BY <1>4, <2>1
  <2> QED
    BY <1>4, <1>5, <2>2, Zenon DEF Good, MaskInv, Want
<1>10. flags \in SUBSET {"IOFDSET", "REIFY"} /\ flags # {}
  OBVIOUS
<1>11. ev_io_start(e, w) = fd_change(d, fd, flags)
  BY Zenon DEF ev_io_start, d, fd
<1> HIDE DEF flags
<1> QED
  BY <1>1, <1>4, <1>7, <1>8, <1>9, <1>10, <1>11, FdChange

\* A watcher that stops leaves the list of its descriptor.
LEMMA IoStop ==
    ASSUME NEW n \in Nat, NEW e \in Good(n), NEW w \in Watcher
    PROVE  LET d == ev_io_stop(e, w)
           IN  /\ d \in Good(n) /\ Keeps(e, d) /\ d.events = e.events
               /\ ~Active(d, w)
               /\ \A g \in Fd : e.reify[g] \subseteq d.reify[g]
               /\ Len(e.changes) <= Len(d.changes)
               /\ \A i \in 1 .. Len(e.changes) : d.changes[i] = e.changes[i]
               /\ \A v \in Watcher : v # w =>
                    (Active(e, v) => Active(d, v)) /\ (Err(e, v) => Err(d, v))
<1> DEFINE p == clear_pending(e, w)
<1>1. /\ p \in Good(n) /\ Same(e, p)
      /\ \A v \in Watcher : v # w /\ Err(e, v) => Err(p, v)
  <2>1. e \in Ev
    BY DEF Good
  <2> HIDE DEF p
  <2>2. p \in Ev /\ Same(e, p) /\ \A v \in Watcher : v # w /\ Err(e, v) => Err(p, v)
    BY <2>1, ClearPending DEF p
  <2> QED
    BY <2>2, SameGood
<1>2. Len(e.changes) \in Nat
  BY DEF Good, Ev
<1>3. CASE ~Active(e, w)
  <2>1. ev_io_stop(e, w) = p
    BY <1>3, Zenon DEF ev_io_stop
  <2> HIDE DEF p
  <2>2. \A v \in Watcher : Active(p, v) <=> Active(e, v)
    BY <1>1, SameActive
  <2> QED
    BY <1>1, <1>2, <1>3, <2>1, <2>2 DEF Same, Keeps
<1>4. CASE Active(e, w)
  <2> DEFINE fd == e.io[w].fd
             h == RemoveFirst(e.head[fd], w)
             d == [p EXCEPT !.head[fd] = RemoveFirst(@, w)]
  <2>1. ev_io_stop(e, w) = fd_change(d, fd, {"REIFY"})
    BY <1>4, Zenon DEF ev_io_stop
  <2>2. fd \in Fd /\ e.head[fd] \in Seq(Watcher)
    BY <1>4 DEF Active, Contains, Good, HeadsInv, Ev
  <2>3. /\ h \in Seq(Watcher) /\ Sublist(h, e.head[fd])
        /\ \A v : Contains(e.head[fd], v) /\ v # w => Contains(h, v)
        /\ ~Contains(h, w)
    <3>1. Distinct(e.head[fd])
      BY <2>2 DEF Good, HeadsInv
    <3> QED
      BY <2>2, <3>1, RemoveFirstKeeps
  <2> HIDE DEF p, h
  <2>4. /\ d \in Ev /\ d.head[fd] = h /\ \A g \in Fd : g # fd => d.head[g] = e.head[g]
        /\ d.io = e.io /\ d.events = e.events /\ d.reify = e.reify
        /\ d.changes = e.changes /\ d.pend = p.pend
    <3>1. d = [p EXCEPT !.head = [e.head EXCEPT ![fd] = h]]
      BY <1>1, <2>2 DEF Same, h, Good, Ev
    <3> HIDE DEF d, fd
    <3>2. p \in Ev
      BY <1>1 DEF Good
    <3>3. e.head \in [Fd -> Seq(Watcher)]
      BY DEF Good, Ev
    <3> QED
      BY <1>1, <2>2, <2>3, <3>1, <3>2, <3>3 DEF Same, Ev
  <2> HIDE DEF d, fd
  <2>5. HeadsInv(d)
    <3>1. Distinct(h) /\ \A i \in DOMAIN h : d.io[h[i]].fd = fd
      <4>1. /\ Distinct(e.head[fd])
            /\ \A i \in DOMAIN e.head[fd] : e.io[e.head[fd][i]].fd = fd
        BY <2>2 DEF Good, HeadsInv
      <4> QED
        BY <2>3, <2>4, <4>1 DEF Sublist, Distinct
    <3>2. ASSUME NEW g \in Fd, g # fd
          PROVE  /\ Distinct(d.head[g])
                 /\ \A i \in DOMAIN d.head[g] : d.io[d.head[g][i]].fd = g
      BY <2>4, <3>2 DEF Good, HeadsInv
    <3> QED
      BY <2>2, <2>4, <3>1, <3>2 DEF HeadsInv
  <2>6. ListInv(d, n)
    BY <2>4 DEF Good, ListInv
  <2>7. \A g \in Fd \ {fd} : MaskInv(d, g)
    BY <2>4 DEF Good, MaskInv, Want
  <2> DEFINE f == fd_change(d, fd, {"REIFY"})
  <2>8. /\ f \in Good(n) /\ f.io = d.io /\ f.head = d.head /\ f.pend = d.pend
        /\ f.events = d.events /\ Len(d.changes) <= Len(f.changes)
        /\ \A g \in Fd : d.reify[g] \subseteq f.reify[g]
        /\ \A i \in 1 .. Len(d.changes) : f.changes[i] = d.changes[i]
    <3> DEFINE flags == {"REIFY"}
    <3>1. flags \in SUBSET {"IOFDSET", "REIFY"} /\ flags # {}
      OBVIOUS
    <3>2. f = fd_change(d, fd, flags)
      OBVIOUS
    <3> HIDE DEF f, flags
    <3> QED
      BY <2>2, <2>4, <2>5, <2>6, <2>7, <3>1, <3>2, FdChange
  <2> HIDE DEF f
  <2>9. ASSUME NEW v \in Watcher, v # w
        PROVE  (Active(e, v) => Active(f, v)) /\ (Err(e, v) => Err(f, v))
    <3>1. Active(e, v) => Active(d, v)
      BY <2>2, <2>3, <2>4, <2>9 DEF Active
    <3>2. Active(d, v) => Active(f, v)
      BY <2>8, Zenon DEF Active
    <3>3. Err(e, v) => Err(f, v)
      BY <1>1, <2>4, <2>8, <2>9 DEF Err
    <3> QED
      BY <3>1, <3>2, <3>3
  <2>10. ASSUME NEW v \in Watcher, Active(f, v)
         PROVE  Active(e, v)
    <3>1. PICK g \in Fd : Contains(d.head[g], v)
      BY <2>8, <2>10, Zenon DEF Active
    <3>2. g = fd => Contains(e.head[g], v)
      BY <2>3, <2>4, <3>1 DEF Sublist, Contains
    <3>3. Contains(e.head[g], v)
      BY <2>4, <3>1, <3>2
    <3> QED
      BY <3>3, Zenon DEF Active
  <2>11. ~Active(f, w)
    <3> SUFFICES ASSUME NEW g \in Fd, Contains(d.head[g], w) PROVE FALSE
      BY <2>8, Zenon DEF Active
    <3>1. g # fd
      BY <2>3, <2>4
    <3>2. Contains(e.head[g], w)
      BY <2>4, <3>1
    <3>3. e.io[w].fd = g
      BY <3>2 DEF Contains, Good, HeadsInv
    <3> QED
      BY <3>1, <3>3 DEF fd
  <2> QED
    BY <2>1, <2>4, <2>8, <2>9, <2>10, <2>11 DEF f, Keeps
<1> QED
  BY <1>3, <1>4

-------------------------------------------------------------------------------
(* What the loop does to the watchers *)

\* The states of libev that the loop can make of e, and those with the same
\* masks in force and no change forgotten.
After(n, e) == {d \in Good(n) : Follows(e, d)}
On(n, e) == {d \in After(n, e) :
    d.events = e.events /\ \A fd \in Fd : e.reify[fd] \subseteq d.reify[fd]}

LEMMA OnItself == \A n \in Nat : \A e \in Good(n) : e \in On(n, e)
BY FollowsItself DEF On, After, Good

LEMMA AfterItself == \A n \in Nat : \A e \in Good(n) : e \in After(n, e)
BY FollowsItself DEF After, Good

LEMMA AfterAfter ==
    ASSUME NEW n \in Nat, NEW e \in Good(n), NEW d \in After(n, e), NEW f \in After(n, d)
    PROVE  f \in After(n, e)
<1>1. e \in Ev /\ d \in Ev /\ f \in Ev /\ Follows(e, d) /\ Follows(d, f)
  BY DEF After, Good
<1>2. Follows(e, f)
  BY <1>1, FollowsOn
<1> QED
  BY <1>2 DEF After

LEMMA OnOn ==
    ASSUME NEW n \in Nat, NEW e \in Good(n), NEW d \in On(n, e), NEW f \in On(n, d)
    PROVE  f \in On(n, e)
BY AfterAfter DEF On

LEMMA FdEventNocheck ==
    ASSUME NEW n \in Nat, NEW e \in Good(n), NEW fd \in Fd, NEW r \in SUBSET Revents
    PROVE  fd_event_nocheck(e, fd, r) \in On(n, e)
<1> DEFINE d == fd_event_nocheck(e, fd, r)
<1>1. e \in Ev
  BY DEF Good
<1>2. d \in Fed(e)
  BY <1>1, FeedAll
<1> HIDE DEF d
<1>3. d \in Good(n)
  BY <1>2, SameGood DEF Fed
<1>4. Follows(e, d)
  BY <1>1, <1>2, SameFollows DEF Fed
<1> QED
  BY <1>2, <1>3, <1>4 DEF On, After, Fed, Same, d

LEMMA FdEvent ==
    ASSUME NEW n \in Nat, NEW e \in Good(n), NEW fd \in Fd, NEW r \in SUBSET Revents
    PROVE  fd_event(e, fd, r) \in On(n, e)
BY FdEventNocheck, OnItself DEF fd_event

\* A watcher is stopped and told of an error.
LEMMA Kill ==
    ASSUME NEW n \in Nat, NEW e \in Good(n), NEW w \in Watcher
    PROVE  LET f == ev_feed_event(ev_io_stop(e, w), w, RW \cup {"ERROR"})
           IN  f \in On(n, e) /\ ~Active(f, w)
<1> DEFINE r == RW \cup {"ERROR"}
           d == ev_io_stop(e, w)
           f == ev_feed_event(d, w, r)
<1>1. /\ d \in Good(n) /\ Keeps(e, d) /\ d.events = e.events /\ ~Active(d, w)
      /\ \A g \in Fd : e.reify[g] \subseteq d.reify[g]
      /\ Len(e.changes) <= Len(d.changes)
      /\ \A i \in 1 .. Len(e.changes) : d.changes[i] = e.changes[i]
      /\ \A v \in Watcher : v # w => (Active(e, v) => Active(d, v)) /\ (Err(e, v) => Err(d, v))
  BY IoStop
<1> HIDE DEF d
<1>2. r \in SUBSET Revents /\ "ERROR" \in r
  BY DEF Revents
<1> HIDE DEF r
<1>3. d \in Ev
  BY <1>1 DEF Good
<1>4. f \in Ev /\ Same(d, f) /\ (\A v \in Watcher : Err(d, v) => Err(f, v)) /\ Err(f, w)
  BY <1>2, <1>3, FeedEvent
<1> HIDE DEF f
<1>5. f \in Good(n)
  BY <1>1, <1>4, SameGood
<1>6. \A v \in Watcher : Active(f, v) <=> Active(d, v)
  BY <1>4, SameActive
<1>7. \A v \in Watcher : Active(e, v) \/ Err(e, v) => Active(f, v) \/ Err(f, v)
  BY <1>1, <1>4, <1>6, Zenon
<1>8. Follows(e, f)
  BY <1>1, <1>4, <1>6, <1>7 DEF Follows, Keeps, Same
<1>9. ~Active(f, w)
  BY <1>1, <1>6
<1> QED
  BY <1>1, <1>4, <1>5, <1>8, <1>9 DEF On, After, Same, f, d, r

\* fd_kill does this with all watchers of a descriptor.
LEMMA FdKill ==
    ASSUME NEW k \in Nat, NEW e \in Good(k), NEW fd \in Fd
    PROVE  LET d == fd_kill(e, fd)
           IN  d \in On(k, e) /\ \A w \in Watcher : Active(d, w) => e.io[w].fd # fd
<1> DEFINE s == e.head[fd]
           L == Len(s)
           op(d, w) == ev_feed_event(ev_io_stop(d, w), w, RW \cup {"ERROR"})
           D(f) == [n \in 0 .. L |-> IF n = 0 THEN e
                        ELSE CHOOSE z \in {op(v, s[n]) : v \in {f[n - 1]}} : TRUE]
           after == CHOOSE f : f = D(f)
           S == [n \in 0 .. L |-> {d \in On(k, e) : \A i \in 1 .. n : ~Active(d, s[i])}]
           g == [p \in (1 .. L) \X On(k, e) |-> op(p[2], s[p[1]])]
<1>1. fd_kill(e, fd) = after[L]
  BY Zenon DEF fd_kill, Steps
<1>2. /\ L \in Nat /\ L \in 0 .. L /\ \A n \in 0 .. L : n = 0 \/ n \in 1 .. L
      /\ \A n \in 1 .. L : n \in 0 .. L /\ n - 1 \in 0 .. L /\ s[n] \in Watcher
  BY DEF Good, Ev
<1>3. /\ e \in S[0] /\ \A n \in 0 .. L : S[n] \subseteq On(k, e)
      /\ \A n \in 1 .. L : \A d \in S[n - 1] : op(d, s[n]) \in S[n]
  <2>1. ASSUME NEW d \in On(k, e), NEW w \in Watcher
        PROVE  op(d, w) \in On(k, e) /\ Keeps(d, op(d, w)) /\ ~Active(op(d, w), w)
    <3>1. d \in Good(k)
      BY DEF On, After
    <3> HIDE DEF op
    <3>2. op(d, w) \in On(k, d) /\ ~Active(op(d, w), w)
      BY <3>1, Kill DEF op
    <3> QED
      BY <3>2, OnOn DEF On, After, Follows
  <2> HIDE DEF s, L, op
  <2>2. e \in S[0] /\ \A n \in 0 .. L : S[n] \subseteq On(k, e)
    BY <1>2, OnItself
  <2>3. ASSUME NEW n \in 1 .. L, NEW d \in S[n - 1]
        PROVE  op(d, s[n]) \in S[n]
    <3>1. /\ n \in 0 .. L /\ n - 1 \in 0 .. L /\ s[n] \in Watcher
          /\ \A i \in 1 .. n : i = n \/ i \in 1 .. n - 1
          /\ \A i \in 1 .. n : i \in 1 .. L
      BY <1>2
    <3>2. d \in On(k, e) /\ \A i \in 1 .. n - 1 : ~Active(d, s[i])
      BY <3>1
    <3> DEFINE z == op(d, s[n])
    <3>3. z \in On(k, e) /\ Keeps(d, z) /\ ~Active(z, s[n])
      BY <2>1, <3>1, <3>2
    <3> HIDE DEF z
    <3>4. \A i \in 1 .. n : ~Active(z, s[i])
      BY <1>2, <3>1, <3>2, <3>3, Zenon DEF Keeps
    <3> QED
      BY <3>1, <3>3, <3>4 DEF z
  <2> HIDE DEF S
  <2> QED
    BY <2>2, <2>3
<1>11. S[L] = {d \in On(k, e) : \A i \in 1 .. L : ~Active(d, s[i])}
  BY <1>2
<1> HIDE DEF s, L, op, S
<1>4. \A n \in 1 .. L : \A y \in S[n - 1] : g[<<n, y>>] = op(y, s[n])
  BY <1>2, <1>3
<1> HIDE DEF g
<1>5. Stays(L, e, S, g)
  BY <1>2, <1>3, <1>4 DEF Stays
<1> HIDE DEF S
<1>6. PICK f : LoopRun(f, L, e, g) /\ \A n \in 0 .. L : f[n] \in S[n]
  BY <1>2, <1>5, LoopRuns DEF RunStays
<1>7. f = D(f)
  <2>1. \A n \in 1 .. L : f[n] = g[<<n, f[n - 1]>>] /\ f[n - 1] \in S[n - 1]
    BY <1>2, <1>6 DEF LoopRun
  <2>2. \A n \in 1 .. L : f[n] = op(f[n - 1], s[n])
    BY <1>4, <2>1
  <2>3. \A n \in 1 .. L : f[n] = CHOOSE z \in {op(v, s[n]) : v \in {f[n - 1]}} : TRUE
    BY <2>2
  <2>4. \A n \in 0 .. L : f[n] = D(f)[n]
    BY <1>2, <1>6, <2>3 DEF LoopRun
  <2> QED
    BY <1>6, <2>4 DEF LoopRun
<1>8. after = D(after)
  BY <1>7
<1> HIDE DEF after
<1>9. after[0] = e /\ \A n \in 1 .. L : after[n] = op(after[n - 1], s[n])
  BY <1>2, <1>8
<1>10. after[L] \in S[L]
  BY <1>2, <1>4, <1>5, <1>9, LoopStays
<1> DEFINE d == fd_kill(e, fd)
<1>13. d \in On(k, e) /\ \A i \in 1 .. L : ~Active(d, s[i])
  BY <1>1, <1>10, <1>11
<1> HIDE DEF d
<1>14. ASSUME NEW w \in Watcher, Active(d, w), e.io[w].fd = fd
       PROVE  FALSE
  <2>1. Active(e, w)
    BY <1>13, <1>14, Zenon DEF On, After, Follows, Keeps
  <2>2. PICK h \in Fd : Contains(e.head[h], w)
    BY <2>1, Zenon DEF Active
  <2>3. e.io[w].fd = h
    BY <2>2 DEF Contains, Good, HeadsInv
  <2>4. Contains(s, w)
    BY <1>14, <2>2, <2>3 DEF s
  <2>5. PICK i \in 1 .. L : s[i] = w
    BY <2>4, Zenon DEF Contains, L
  <2> QED
    BY <1>13, <1>14, <2>5
<1> QED
  BY <1>13, <1>14 DEF d

\* The closed descriptors that are in force are given up.
LEMMA FdEbadf ==
    ASSUME NEW k \in Nat, NEW e \in Good(k)
    PROVE  fd_ebadf(e) \in On(k, e)
<1> DEFINE s == Reverse(Descending)
           L == Len(s)
           op(d, w) == IF d.events[w] # {} /\ ~fd_valid(w) THEN fd_kill(d, w) ELSE d
           D(f) == [n \in 0 .. L |-> IF n = 0 THEN e
                        ELSE CHOOSE z \in {op(v, s[n]) : v \in {f[n - 1]}} : TRUE]
           after == CHOOSE f : f = D(f)
           S == [n \in 0 .. L |-> On(k, e)]
           g == [p \in (1 .. L) \X On(k, e) |-> op(p[2], s[p[1]])]
<1>1. fd_ebadf(e) = after[L]
  BY Zenon DEF fd_ebadf, Steps
<1>2. /\ L \in Nat /\ L \in 0 .. L /\ \A n \in 0 .. L : n = 0 \/ n \in 1 .. L
      /\ \A n \in 1 .. L : n \in 0 .. L /\ n - 1 \in 0 .. L /\ s[n] \in Fd
  BY FdAssumption DEF Reverse, Descending, Fd
<1>3. /\ e \in S[0] /\ \A n \in 0 .. L : S[n] = On(k, e)
      /\ \A n \in 1 .. L : \A d \in S[n - 1] : op(d, s[n]) \in S[n]
  <2>1. ASSUME NEW d \in On(k, e), NEW w \in Fd
        PROVE  op(d, w) \in On(k, e)
    <3>1. d \in Good(k)
      BY DEF On, After
    <3>2. fd_kill(d, w) \in On(k, d)
      BY <3>1, FdKill
    <3>3. fd_kill(d, w) \in On(k, e)
      BY <3>2, OnOn
    <3> QED
      BY <3>3
  <2> HIDE DEF s, L, op
  <2>2. e \in S[0] /\ \A n \in 0 .. L : S[n] = On(k, e)
    BY <1>2, OnItself
  <2> HIDE DEF S
  <2> QED
    BY <1>2, <2>1, <2>2
<1> HIDE DEF s, L, op, S
<1>4. \A n \in 1 .. L : \A y \in S[n - 1] : g[<<n, y>>] = op(y, s[n])
  BY <1>2, <1>3
<1> HIDE DEF g
<1>5. Stays(L, e, S, g)
  BY <1>2, <1>3, <1>4 DEF Stays
<1> HIDE DEF S
<1>6. PICK f : LoopRun(f, L, e, g) /\ \A n \in 0 .. L : f[n] \in S[n]
  BY <1>2, <1>5, LoopRuns DEF RunStays
<1>7. f = D(f)
  <2>1. \A n \in 1 .. L : f[n] = g[<<n, f[n - 1]>>] /\ f[n - 1] \in S[n - 1]
    BY <1>2, <1>6 DEF LoopRun
  <2>2. \A n \in 1 .. L : f[n] = op(f[n - 1], s[n])
    BY <1>4, <2>1
  <2>3. \A n \in 1 .. L : f[n] = CHOOSE z \in {op(v, s[n]) : v \in {f[n - 1]}} : TRUE
    BY <2>2
  <2>4. \A n \in 0 .. L : f[n] = D(f)[n]
    BY <1>2, <1>6, <2>3 DEF LoopRun
  <2> QED
    BY <1>6, <2>4 DEF LoopRun
<1>8. after = D(after)
  BY <1>7
<1> HIDE DEF after
<1>9. after[0] = e /\ \A n \in 1 .. L : after[n] = op(after[n - 1], s[n])
  BY <1>2, <1>8
<1>10. after[L] \in S[L]
  BY <1>2, <1>4, <1>5, <1>9, LoopStays
<1> QED
  BY <1>1, <1>2, <1>3, <1>10

\* Without memory, one descriptor is given up.
LEMMA FdEnomem ==
    ASSUME NEW k \in Nat, NEW e \in Good(k)
    PROVE  fd_enomem(e) \in On(k, e)
<1> DEFINE used == {fd \in Fd : e.events[fd] # {}}
           top == CHOOSE fd \in used : \A g \in used : g <= fd
<1>1. CASE used = {}
  BY <1>1, OnItself DEF fd_enomem
<1>2. CASE used # {}
  <2>1. \E fd \in used : \A g \in used : g <= fd
    <3> DEFINE S == {NFd - g : g \in used}
    <3>1. NFd \in Nat /\ \A g \in used : g \in 0 .. NFd - 1
      BY FdAssumption DEF Fd
    <3>2. S \in SUBSET Nat /\ S # {}
      BY <1>2, <3>1
    <3> HIDE DEF used
    <3>3. PICK m \in S : \A n \in S : m <= n
      BY <3>2, LeastNat
    <3>4. PICK fd \in used : m = NFd - fd
      BY <3>3
    <3>5. \A g \in used : NFd - fd <= NFd - g
      BY <3>3, <3>4
    <3>6. \A g \in used : g <= fd
      BY <3>1, <3>5
    <3> QED
      BY <3>6
  <2>2. top \in used
    BY <2>1
  <2>3. fd_enomem(e) = fd_kill(e, top)
    BY <1>2 DEF fd_enomem
  <2> HIDE DEF top
  <2>4. top \in Fd
    BY <2>2
  <2> QED
    BY <2>3, <2>4, FdKill
<1> QED
  BY <1>1, <1>2

\* A descriptor is taken out of force and put on the list.
LEMMA Rearm ==
    ASSUME NEW n \in Nat, NEW e \in Good(n), NEW fd \in Fd,
           NEW flags \in SUBSET {"IOFDSET", "REIFY"}, flags # {}
    PROVE  LET d == fd_change([e EXCEPT !.events[fd] = {}], fd, flags)
           IN  /\ d \in After(n, e) /\ d.events[fd] = {}
               /\ \A g \in Fd : g # fd => d.events[g] = e.events[g]
<1> DEFINE d == [e EXCEPT !.events[fd] = {}]
           f == fd_change(d, fd, flags)
<1>1. /\ d \in Ev /\ d.io = e.io /\ d.head = e.head /\ d.reify = e.reify
      /\ d.changes = e.changes /\ d.pend = e.pend
      /\ \A g \in Fd : g # fd => d.events[g] = e.events[g]
      /\ d.events[fd] = {}
  BY DEF Good, Ev
<1> HIDE DEF d
<1>2. HeadsInv(d) /\ ListInv(d, n)
  BY <1>1 DEF Good, HeadsInv, ListInv
<1>3. \A g \in Fd \ {fd} : MaskInv(d, g)
  BY <1>1 DEF Good, MaskInv, Want
<1>4. /\ f \in Good(n) /\ f.io = d.io /\ f.head = d.head /\ f.pend = d.pend
      /\ f.events = d.events /\ Len(d.changes) <= Len(f.changes)
      /\ \A i \in 1 .. Len(d.changes) : f.changes[i] = d.changes[i]
  BY <1>1, <1>2, <1>3, FdChange
<1> HIDE DEF f
<1>5. \A v \in Watcher : (Active(e, v) <=> Active(f, v)) /\ (Err(e, v) => Err(f, v))
  BY <1>1, <1>4, Zenon DEF Active, Err
<1>6. Follows(e, f)
  BY <1>1, <1>4, <1>5 DEF Follows, Keeps
<1> QED
  BY <1>1, <1>4, <1>6 DEF After, f, d

LEMMA FdRearmAll ==
    ASSUME NEW k \in Nat, NEW e \in Good(k)
    PROVE  LET d == fd_rearm_all(e)
           IN  d \in After(k, e) /\ \A fd \in Fd : d.events[fd] = {}
<1> DEFINE s == Reverse(Descending)
           L == Len(s)
           op(d, w) == IF d.events[w] = {} THEN d
                       ELSE fd_change([d EXCEPT !.events[w] = {}], w, {"IOFDSET", "REIFY"})
           D(f) == [n \in 0 .. L |-> IF n = 0 THEN e
                        ELSE CHOOSE z \in {op(v, s[n]) : v \in {f[n - 1]}} : TRUE]
           after == CHOOSE f : f = D(f)
           S == [n \in 0 .. L |-> {d \in After(k, e) : \A i \in 1 .. n : d.events[s[i]] = {}}]
           g == [p \in (1 .. L) \X After(k, e) |-> op(p[2], s[p[1]])]
<1>1. fd_rearm_all(e) = after[L]
  BY Zenon DEF fd_rearm_all, Steps
<1>2. /\ L \in Nat /\ L \in 0 .. L /\ \A n \in 0 .. L : n = 0 \/ n \in 1 .. L
      /\ \A n \in 1 .. L : n \in 0 .. L /\ n - 1 \in 0 .. L /\ s[n] \in Fd
  BY FdAssumption DEF Reverse, Descending, Fd
<1>11. \A fd \in Fd : \E i \in 1 .. L : s[i] = fd
  <2> SUFFICES ASSUME NEW fd \in Fd PROVE \E i \in 1 .. L : s[i] = fd
    OBVIOUS
  <2>1. fd + 1 \in 1 .. L /\ s[fd + 1] = fd
    BY FdAssumption DEF Reverse, Descending, Fd
  <2> QED
    BY <2>1
<1>3. /\ e \in S[0] /\ \A n \in 0 .. L : S[n] \subseteq After(k, e)
      /\ \A n \in 1 .. L : \A d \in S[n - 1] : op(d, s[n]) \in S[n]
  <2>1. ASSUME NEW d \in After(k, e), NEW w \in Fd
        PROVE  /\ op(d, w) \in After(k, e) /\ op(d, w).events[w] = {}
               /\ \A h \in Fd : h # w => op(d, w).events[h] = d.events[h]
    <3> DEFINE flags == {"IOFDSET", "REIFY"}
               f == fd_change([d EXCEPT !.events[w] = {}], w, flags)
    <3>1. d \in Good(k)
      BY DEF After
    <3>2. flags \in SUBSET {"IOFDSET", "REIFY"} /\ flags # {}
      OBVIOUS
    <3>3. (op(d, w) = d /\ d.events[w] = {}) \/ op(d, w) = f
      OBVIOUS
    <3> HIDE DEF flags, op
    <3>4. /\ f \in After(k, d) /\ f.events[w] = {}
          /\ \A h \in Fd : h # w => f.events[h] = d.events[h]
      BY <3>1, <3>2, Rearm
    <3> HIDE DEF f
    <3>5. f \in After(k, e)
      BY <3>4, AfterAfter
    <3> QED
      BY <3>3, <3>4, <3>5
  <2> HIDE DEF s, L, op
  <2>2. e \in S[0] /\ \A n \in 0 .. L : S[n] \subseteq After(k, e)
    BY <1>2, AfterItself
  <2>3. ASSUME NEW n \in 1 .. L, NEW d \in S[n - 1]
        PROVE  op(d, s[n]) \in S[n]
    <3>1. /\ n \in 0 .. L /\ n - 1 \in 0 .. L /\ s[n] \in Fd
          /\ \A i \in 1 .. n : i = n \/ i \in 1 .. n - 1
          /\ \A i \in 1 .. n : s[i] \in Fd
      BY <1>2
    <3>2. d \in After(k, e) /\ \A i \in 1 .. n - 1 : d.events[s[i]] = {}
      BY <3>1
    <3> DEFINE z == op(d, s[n])
    <3>3. /\ z \in After(k, e) /\ z.events[s[n]] = {}
          /\ \A h \in Fd : h # s[n] => z.events[h] = d.events[h]
      BY <2>1, <3>1, <3>2
    <3> HIDE DEF z
    <3>4. \A i \in 1 .. n : z.events[s[i]] = {}
      BY <3>1, <3>2, <3>3
    <3> QED
      BY <3>1, <3>3, <3>4 DEF z
  <2> HIDE DEF S
  <2> QED
    BY <2>2, <2>3
<1>12. S[L] = {d \in After(k, e) : \A i \in 1 .. L : d.events[s[i]] = {}}
  BY <1>2
<1> HIDE DEF s, L, op, S
<1>4. \A n \in 1 .. L : \A y \in S[n - 1] : g[<<n, y>>] = op(y, s[n])
  BY <1>2, <1>3
<1> HIDE DEF g
<1>5. Stays(L, e, S, g)
  BY <1>2, <1>3, <1>4 DEF Stays
<1> HIDE DEF S
<1>6. PICK f : LoopRun(f, L, e, g) /\ \A n \in 0 .. L : f[n] \in S[n]
  BY <1>2, <1>5, LoopRuns DEF RunStays
<1>7. f = D(f)
  <2>1. \A n \in 1 .. L : f[n] = g[<<n, f[n - 1]>>] /\ f[n - 1] \in S[n - 1]
    BY <1>2, <1>6 DEF LoopRun
  <2>2. \A n \in 1 .. L : f[n] = op(f[n - 1], s[n])
    BY <1>4, <2>1
  <2>3. \A n \in 1 .. L : f[n] = CHOOSE z \in {op(v, s[n]) : v \in {f[n - 1]}} : TRUE
    BY <2>2
  <2>4. \A n \in 0 .. L : f[n] = D(f)[n]
    BY <1>2, <1>6, <2>3 DEF LoopRun
  <2> QED
    BY <1>6, <2>4 DEF LoopRun
<1>8. after = D(after)
  BY <1>7
<1> HIDE DEF after
<1>9. after[0] = e /\ \A n \in 1 .. L : after[n] = op(after[n - 1], s[n])
  BY <1>2, <1>8
<1>10. after[L] \in S[L]
  BY <1>2, <1>4, <1>5, <1>9, LoopStays
<1> DEFINE d == fd_rearm_all(e)
<1>13. d \in After(k, e) /\ \A i \in 1 .. L : d.events[s[i]] = {}
  BY <1>1, <1>10, <1>12
<1> HIDE DEF d
<1>14. \A fd \in Fd : d.events[fd] = {}
  BY <1>11, <1>13
<1> QED
  BY <1>13, <1>14 DEF d


\* A changed descriptor gets the mask that its watchers want.
LEMMA Reify ==
    ASSUME NEW n \in Nat, NEW m \in Nat, m = n + 1, NEW e \in Good(n), NEW fd \in Fd,
           m \in 1 .. Len(e.changes), e.changes[m] = fd
    PROVE  LET d == [e EXCEPT !.reify[fd] = {}, !.events[fd] = Want(e, fd)]
           IN  d \in Good(m) /\ Follows(e, d)
<1> DEFINE d == [e EXCEPT !.reify[fd] = {}, !.events[fd] = Want(e, fd)]
<1>1. Want(e, fd) \in SUBSET RW
  <2>1. \A w \in ToSet(e.head[fd]) : w \in Watcher
    BY DEF Good, Ev, ToSet
  <2>2. \A w \in Watcher : e.io[w].events \subseteq RW
    <3>1. \A w \in Watcher : e.io[w] = Unset \/ e.io[w] \in [fd : Fd, events : SUBSET RW, fresh : BOOLEAN]
      BY DEF Good, Ev
    <3>2. Unset.events \subseteq RW
      BY DEF Unset
    <3> QED
      BY <3>1, <3>2
  <2> QED
    BY <2>1, <2>2 DEF Want
<1>2. /\ d \in Ev /\ d.io = e.io /\ d.head = e.head
      /\ d.changes = e.changes /\ d.pend = e.pend
      /\ d.events[fd] = Want(e, fd) /\ d.reify[fd] = {}
      /\ \A g \in Fd : g # fd => d.events[g] = e.events[g] /\ d.reify[g] = e.reify[g]
  <2> DEFINE m0 == Want(e, fd)
  <2> HIDE DEF m0
  <2>1. m0 \in SUBSET RW
    BY <1>1 DEF m0
  <2>2. [e EXCEPT !.reify[fd] = {}, !.events[fd] = m0] = d
    BY DEF m0
  <2> HIDE DEF d
  <2> QED
    BY <2>1, <2>2 DEF Good, Ev, m0
<1> HIDE DEF d
<1>3. HeadsInv(d)
  BY <1>2 DEF Good, HeadsInv
<1>4. ListInv(d, m)
  <2>1. Len(e.changes) \in Nat
    BY DEF Good, Ev
  <2>2. /\ \A i, j \in n + 1 .. Len(e.changes) : i < j => e.changes[i] # e.changes[j]
        /\ \A g \in Fd : e.reify[g] # {} <=> \E i \in n + 1 .. Len(e.changes) : e.changes[i] = g
    BY DEF Good, ListInv
  <2>3. /\ \A i \in m + 1 .. Len(e.changes) : i \in n + 1 .. Len(e.changes) /\ e.changes[i] # fd
        /\ \A i \in n + 1 .. Len(e.changes) : i = m \/ i \in m + 1 .. Len(e.changes)
    <3>1. \A i \in m + 1 .. Len(e.changes) : i \in n + 1 .. Len(e.changes) /\ m < i
      BY <2>1
    <3>2. m \in n + 1 .. Len(e.changes)
      BY <2>1
    <3>3. \A i \in n + 1 .. Len(e.changes) : i = m \/ i \in m + 1 .. Len(e.changes)
      BY <2>1
    <3> QED
      BY <2>2, <3>1, <3>2, <3>3
  <2>4. m <= Len(d.changes) /\ d.changes = e.changes
    BY <1>2, <2>1
  <2>5. \A i, j \in m + 1 .. Len(e.changes) : i < j => e.changes[i] # e.changes[j]
    BY <2>2, <2>3
  <2>6. ASSUME NEW h \in Fd, h # fd
        PROVE  d.reify[h] # {} <=> \E i \in m + 1 .. Len(e.changes) : e.changes[i] = h
    <3>1. e.reify[h] # {} <=> \E i \in n + 1 .. Len(e.changes) : e.changes[i] = h
      BY <2>2
    <3>2. d.reify[h] = e.reify[h]
      BY <1>2, <2>6
    <3> QED
      BY <2>3, <2>6, <3>1, <3>2
  <2>7. d.reify[fd] = {} /\ ~\E i \in m + 1 .. Len(e.changes) : e.changes[i] = fd
    BY <1>2, <2>3
  <2>8. \A h \in Fd : d.reify[h] # {} <=> \E i \in m + 1 .. Len(e.changes) : e.changes[i] = h
    BY <2>6, <2>7
  <2> QED
    BY <2>4, <2>5, <2>8 DEF ListInv
<1>5. \A g \in Fd : MaskInv(d, g)
  BY <1>2 DEF Good, MaskInv, Want
<1>6. \A v \in Watcher : (Active(e, v) <=> Active(d, v)) /\ (Err(e, v) => Err(d, v))
  BY <1>2, Zenon DEF Active, Err
<1>7. Len(e.changes) \in Nat
  BY DEF Good, Ev
<1> QED
  BY <1>2, <1>3, <1>4, <1>5, <1>6, <1>7 DEF Good, Follows, Keeps, d

-------------------------------------------------------------------------------
(* fd_reify *)

\* No watcher is stopped without being told, and no other field of it changes.
Tells(e, d) ==
    /\ Keeps(e, d)
    /\ \A w \in Watcher : Active(e, w) \/ Err(e, w) => Active(d, w) \/ Err(d, w)

LEMMA FollowsTells == \A e, d : Follows(e, d) => Tells(e, d)
BY Zenon DEF Follows, Tells

LEMMA TellsOn == \A e, d, f : Tells(e, d) /\ Tells(d, f) => Tells(e, f)
BY Zenon DEF Tells, Keeps

\* When all changes on the list have been dealt with, the list starts after them.
LEMMA ReifyEnd ==
    ASSUME NEW n \in Nat, NEW e \in Good(n)
    PROVE  LET d == [e EXCEPT !.changes = SubSeq(@, n + 1, Len(@))]
           IN  /\ d \in Good(0) /\ Tells(e, d)
               /\ d.io = e.io /\ d.head = e.head /\ d.events = e.events /\ d.reify = e.reify
<1> DEFINE l == SubSeq(e.changes, n + 1, Len(e.changes))
           d == [e EXCEPT !.changes = l]
<1>1. e.changes \in Seq(Fd) /\ Len(e.changes) \in Nat /\ n <= Len(e.changes)
  BY DEF Good, Ev, ListInv
<1>2. /\ l \in Seq(Fd) /\ Len(l) = Len(e.changes) - n
      /\ \A i \in 1 .. Len(e.changes) - n : l[i] = e.changes[i + n]
  BY <1>1
<1> HIDE DEF l
<1>3. /\ d \in Ev /\ d.io = e.io /\ d.head = e.head /\ d.events = e.events
      /\ d.reify = e.reify /\ d.pend = e.pend /\ d.changes = l
  BY <1>2 DEF Good, Ev
<1> HIDE DEF d
<1>4. ListInv(d, 0)
  <2>1. \A i \in 1 .. Len(l) : i + n \in n + 1 .. Len(e.changes) /\ l[i] = e.changes[i + n]
    BY <1>1, <1>2
  <2>2. \A i \in n + 1 .. Len(e.changes) : i - n \in 1 .. Len(l) /\ l[i - n] = e.changes[i]
    <3> SUFFICES ASSUME NEW i \in n + 1 .. Len(e.changes)
                 PROVE  i - n \in 1 .. Len(l) /\ l[i - n] = e.changes[i]
      OBVIOUS
    <3>1. i - n \in 1 .. Len(e.changes) - n /\ (i - n) + n = i
      BY <1>1
    <3> QED
      BY <1>2, <3>1
  <2>3. \A i, j \in 1 .. Len(l) : i < j => i + n < j + n
    BY <1>1, <1>2
  <2>4. /\ \A i, j \in n + 1 .. Len(e.changes) : i < j => e.changes[i] # e.changes[j]
        /\ \A fd \in Fd : e.reify[fd] # {} <=> \E i \in n + 1 .. Len(e.changes) : e.changes[i] = fd
    BY DEF Good, ListInv
  <2>5. \A i, j \in 1 .. Len(l) : i < j => l[i] # l[j]
    <3> SUFFICES ASSUME NEW i \in 1 .. Len(l), NEW j \in 1 .. Len(l), i < j
                 PROVE  l[i] # l[j]
      OBVIOUS
    <3>1. /\ i + n \in n + 1 .. Len(e.changes) /\ l[i] = e.changes[i + n]
          /\ j + n \in n + 1 .. Len(e.changes) /\ l[j] = e.changes[j + n] /\ i + n < j + n
      BY <2>1, <2>3
    <3> QED
      BY <2>4, <3>1
  <2>6. ASSUME NEW fd \in Fd
        PROVE  e.reify[fd] # {} <=> \E i \in 1 .. Len(l) : l[i] = fd
    <3>1. ASSUME NEW i \in n + 1 .. Len(e.changes), e.changes[i] = fd
          PROVE  \E k \in 1 .. Len(l) : l[k] = fd
      BY <2>2, <3>1
    <3>2. ASSUME NEW i \in 1 .. Len(l), l[i] = fd
          PROVE  \E k \in n + 1 .. Len(e.changes) : e.changes[k] = fd
      BY <2>1, <3>2
    <3> QED
      BY <2>4, <3>1, <3>2
  <2>7. 0 + 1 = 1 /\ 0 <= Len(l)
    BY <1>1, <1>2
  <2> QED
    <3>1. d.changes = l /\ d.reify = e.reify
      BY <1>3
    <3>2. \A fd \in Fd : d.reify[fd] # {} <=> \E i \in 0 + 1 .. Len(d.changes) : d.changes[i] = fd
      BY <2>6, <2>7, <3>1
    <3>3. \A i, j \in 0 + 1 .. Len(d.changes) : i < j => d.changes[i] # d.changes[j]
      BY <2>5, <2>7, <3>1
    <3> QED
      BY <2>7, <3>1, <3>2, <3>3 DEF ListInv
<1>5. HeadsInv(d) /\ \A fd \in Fd : MaskInv(d, fd)
  BY <1>3 DEF Good, HeadsInv, MaskInv, Want
<1>6. Tells(e, d)
  BY <1>3, Zenon DEF Tells, Keeps, Active, Err
<1> QED
  BY <1>3, <1>4, <1>5, <1>6 DEF Good, d, l

\* The same as Reify, with the back end.
LEMMA AnfdReify ==
    ASSUME NEW n \in Nat, NEW m \in Nat, m = n + 1, NEW B, NEW x \in [ev : Good(n), back : B],
           NEW fd \in Fd, m \in 1 .. Len(x.ev.changes), x.ev.changes[m] = fd
    PROVE  LET y == anfd_reify(x, fd)
           IN  /\ y \in [ev : Good(m), back : B] /\ y.back = x.back
               /\ Follows(x.ev, y.ev) /\ y.ev.io = x.ev.io /\ y.ev.head = x.ev.head
               /\ y.ev.events = [x.ev.events EXCEPT ![fd] = Want(x.ev, fd)]
               /\ y.ev.reify = [x.ev.reify EXCEPT ![fd] = {}]
<1> DEFINE u == Want(x.ev, fd)
           d == [x.ev EXCEPT !.reify[fd] = {}, !.events[fd] = u]
<1>1. x.ev \in Good(n) /\ x.back \in B
  OBVIOUS
<1>2. d \in Good(m) /\ Follows(x.ev, d)
  BY <1>1, Reify
<1>3. /\ d.events = [x.ev.events EXCEPT ![fd] = u] /\ d.io = x.ev.io /\ d.head = x.ev.head
      /\ d.reify = [x.ev.reify EXCEPT ![fd] = {}]
  <2> HIDE DEF u
  <2> QED
    BY <1>1 DEF Good, Ev
<1>4. anfd_reify(x, fd) = [x EXCEPT !.ev = d]
  <2>1. anfd_reify(x, fd) = [x EXCEPT !.ev.reify[fd] = {}, !.ev.events[fd] = u]
    BY Zenon DEF anfd_reify, Want
  <2> HIDE DEF u
  <2>2. [x EXCEPT !.ev.reify[fd] = {}, !.ev.events[fd] = u] = [x EXCEPT !.ev = d]
    BY <1>1 DEF Good, Ev
  <2> QED
    BY <2>1, <2>2
<1> HIDE DEF d, u
<1> QED
  BY <1>1, <1>2, <1>3, <1>4 DEF u

-------------------------------------------------------------------------------
(* The poll back end *)

PollEntry == [fd : Fd, events : SUBSET RW]
Nval == {"NVAL"}
PollResult == (SUBSET RW) \cup {Nval}
PollBack == [polls : Seq(PollEntry), idxs : [Fd -> Int], errno : {"", "EINTR", "ENOMEM"},
             result : Seq(PollResult)]

\* Array and index agree, and have exactly the descriptors with a mask.
PollAgrees(events, b) ==
    /\ \A fd \in Fd : events[fd] = {} => b.idxs[fd] = -1
    /\ \A fd \in Fd : events[fd] # {} =>
         /\ b.idxs[fd] \in 0 .. Len(b.polls) - 1
         /\ b.polls[b.idxs[fd] + 1].fd = fd /\ b.polls[b.idxs[fd] + 1].events = events[fd]
    /\ \A i \in 1 .. Len(b.polls) : b.idxs[b.polls[i].fd] = i - 1

LEMMA PollRemove ==
    ASSUME NEW events \in [Fd -> SUBSET RW], NEW b \in PollBack, PollAgrees(events, b),
           NEW fd \in Fd, events[fd] # {}
    PROVE  LET d == poll_remove(b, fd)
           IN  /\ d \in PollBack /\ d.result = b.result
               /\ PollAgrees([events EXCEPT ![fd] = {}], d)
<1> DEFINE N == Len(b.polls)
           i == b.idxs[fd]
           last == b.polls[N]
           q == [b.polls EXCEPT ![i + 1] = last]
           p == Front(q)
           x == [b.idxs EXCEPT ![last.fd] = i, ![fd] = -1]
           d == [b EXCEPT !.polls = p, !.idxs = x]
           new == [events EXCEPT ![fd] = {}]
<1>1. /\ b.polls \in Seq(PollEntry) /\ N \in Nat /\ DOMAIN b.polls = 1 .. N
      /\ b.idxs \in [Fd -> Int]
  <2>1. b.polls \in Seq(PollEntry) /\ b.idxs \in [Fd -> Int]
    BY DEF PollBack
  <2> QED
    BY <2>1
<1>2. i \in 0 .. N - 1 /\ i \in Int /\ N \in 1 .. N /\ i + 1 \in 1 .. N /\ N - 1 \in Nat
  <2>1. i \in 0 .. N - 1
    BY DEF PollAgrees
  <2> QED
    BY <1>1, <2>1
<1>3. /\ last \in PollEntry /\ last.fd \in Fd /\ b.idxs[last.fd] = N - 1
      /\ b.polls[i + 1].fd = fd
  <2>1. last \in PollEntry
    BY <1>1, <1>2
  <2> QED
    BY <1>2, <2>1 DEF PollAgrees, PollEntry
<1>4. poll_remove(b, fd) = d
  BY Zenon DEF poll_remove, poll_cnt
<1> HIDE DEF i, last, N
<1>5. /\ q \in Seq(PollEntry) /\ Len(q) = N /\ q[i + 1] = last
      /\ \A k \in 1 .. N : k # i + 1 => q[k] = b.polls[k]
  BY <1>1, <1>2, <1>3 DEF N
<1> HIDE DEF q
<1>6. /\ p \in Seq(PollEntry) /\ Len(p) = N - 1
      /\ \A k \in 1 .. N - 1 : p[k] = q[k]
  BY <1>2, <1>5 DEF Front
<1> HIDE DEF p
<1>7. /\ x \in [Fd -> Int] /\ x[fd] = -1 /\ (last.fd # fd => x[last.fd] = i)
      /\ \A g \in Fd : g # fd /\ g # last.fd => x[g] = b.idxs[g]
  BY <1>1, <1>2, <1>3
<1> HIDE DEF x
<1>8. /\ d \in PollBack /\ d.result = b.result /\ d.polls = p /\ d.idxs = x
  BY <1>6, <1>7 DEF PollBack
<1> HIDE DEF d
<1>9. /\ new[fd] = {} /\ \A g \in Fd : g # fd => new[g] = events[g]
  OBVIOUS
<1> HIDE DEF new
<1>10. ASSUME NEW g \in Fd, events[g] # {}, g # fd
       PROVE  /\ x[g] \in 0 .. N - 2
              /\ p[x[g] + 1].fd = g /\ p[x[g] + 1].events = events[g]
  <2>1. /\ b.idxs[g] \in 0 .. N - 1
        /\ b.polls[b.idxs[g] + 1].fd = g /\ b.polls[b.idxs[g] + 1].events = events[g]
    BY <1>10 DEF PollAgrees, N
  <2>2. b.idxs[g] # i
    BY <1>3, <1>10, <2>1
  <2>3. CASE g = last.fd
    <3>1. b.idxs[g] = N - 1
      BY <1>3, <2>3
    <3>2. i \in 0 .. N - 2 /\ i + 1 \in 1 .. N - 1
      BY <1>2, <2>2, <3>1
    <3>3. x[g] = i
      BY <1>7, <1>10, <2>3
    <3>4. last.events = events[g]
      BY <1>2, <2>1, <3>1 DEF last
    <3> QED
      BY <1>5, <1>6, <2>3, <3>2, <3>3, <3>4
  <2>4. CASE g # last.fd
    <3>1. b.idxs[g] # N - 1
      BY <1>2, <2>1, <2>4 DEF last
    <3>2. b.idxs[g] \in 0 .. N - 2 /\ b.idxs[g] + 1 \in 1 .. N - 1 /\ b.idxs[g] + 1 \in 1 .. N /\ b.idxs[g] + 1 # i + 1
      BY <1>1, <1>2, <2>1, <2>2, <3>1
    <3> QED
      BY <1>5, <1>6, <1>7, <1>10, <2>1, <2>4, <3>2
  <2> QED
    BY <2>3, <2>4
<1>11. ASSUME NEW g \in Fd, events[g] = {}
       PROVE  x[g] = -1
  <2>1. b.idxs[g] = -1 /\ g # fd
    BY <1>11 DEF PollAgrees
  <2>2. g # last.fd
    BY <1>2, <1>3, <2>1
  <2> QED
    BY <1>7, <2>1, <2>2
<1>12. ASSUME NEW k \in 1 .. N - 1
       PROVE  x[p[k].fd] = k - 1
  <2>1. k \in 1 .. N /\ k # N /\ p[k] = q[k]
    BY <1>2, <1>6
  <2>2. CASE k = i + 1
    <3>1. last.fd # fd
      BY <1>2, <1>3, <2>1, <2>2 DEF i
    <3> QED
      BY <1>2, <1>5, <1>7, <2>1, <2>2, <3>1
  <2>3. CASE k # i + 1
    <3>1. b.polls[k].fd \in Fd /\ b.idxs[b.polls[k].fd] = k - 1
      <4>1. b.polls[k] \in PollEntry /\ k \in 1 .. Len(b.polls)
        BY <1>1, <2>1 DEF N
      <4> QED
        BY <4>1 DEF PollAgrees, PollEntry
    <3>2. b.polls[k].fd # fd /\ b.polls[k].fd # last.fd
      BY <1>2, <1>3, <2>1, <2>3, <3>1 DEF i
    <3> QED
      BY <1>5, <1>7, <2>1, <2>3, <3>1, <3>2
  <2> QED
    BY <2>2, <2>3
<1>13. PollAgrees(new, d)
  <2>1. Len(p) - 1 = N - 2
    BY <1>2, <1>6
  <2> QED
    <3>1. \A g \in Fd : new[g] # {} => g # fd /\ events[g] # {} /\ new[g] = events[g]
      BY <1>9
    <3>2. \A g \in Fd : new[g] = {} => x[g] = -1
      BY <1>7, <1>9, <1>11
    <3>3. \A g \in Fd : new[g] # {} => /\ x[g] \in 0 .. Len(p) - 1
                                      /\ p[x[g] + 1].fd = g /\ p[x[g] + 1].events = new[g]
      BY <1>10, <2>1, <3>1
    <3>4. \A k \in 1 .. Len(p) : x[p[k].fd] = k - 1
      BY <1>6, <1>12
    <3> QED
      BY <1>8, <3>2, <3>3, <3>4, Zenon DEF PollAgrees
<1> QED
  BY <1>4, <1>8, <1>13 DEF new

LEMMA PollSet ==
    ASSUME NEW events \in [Fd -> SUBSET RW], NEW b \in PollBack, PollAgrees(events, b),
           NEW fd \in Fd, NEW mask \in SUBSET RW, mask # {}
    PROVE  LET d == poll_set(b, fd, mask)
           IN  /\ d \in PollBack /\ d.result = b.result
               /\ PollAgrees([events EXCEPT ![fd] = mask], d)
<1> DEFINE N == Len(b.polls)
           d == poll_set(b, fd, mask)
           new == [events EXCEPT ![fd] = mask]
<1>1. /\ b.polls \in Seq(PollEntry) /\ N \in Nat /\ DOMAIN b.polls = 1 .. N
      /\ b.idxs \in [Fd -> Int]
  <2>1. b.polls \in Seq(PollEntry) /\ b.idxs \in [Fd -> Int]
    BY DEF PollBack
  <2> QED
    BY <2>1
<1>2. /\ new[fd] = mask /\ \A g \in Fd : g # fd => new[g] = events[g]
  OBVIOUS
<1> HIDE DEF new
<1>3. CASE b.idxs[fd] = -1
  <2> DEFINE m == [fd |-> fd, events |-> mask]
             p == Append(b.polls, m)
             x == [b.idxs EXCEPT ![fd] = N]
  <2>1. d = [b EXCEPT !.polls = p, !.idxs = x]
    BY <1>1, <1>3 DEF poll_set, poll_cnt, PollBack
  <2>2. m \in PollEntry /\ m.fd = fd /\ m.events = mask
    BY DEF PollEntry
  <2> HIDE DEF m, N
  <2>3. /\ p \in Seq(PollEntry) /\ Len(p) = N + 1 /\ p[N + 1] = m
        /\ \A k \in 1 .. N : p[k] = b.polls[k]
    BY <1>1, <2>2 DEF N
  <2> HIDE DEF p
  <2>4. /\ x \in [Fd -> Int] /\ x[fd] = N /\ \A g \in Fd : g # fd => x[g] = b.idxs[g]
    BY <1>1
  <2> HIDE DEF x, d
  <2>5. /\ d \in PollBack /\ d.result = b.result /\ d.polls = p /\ d.idxs = x
    BY <2>1, <2>3, <2>4 DEF PollBack
  <2>6. ASSUME NEW g \in Fd, g # fd, events[g] # {}
        PROVE  /\ x[g] \in 0 .. N /\ p[x[g] + 1].fd = g /\ p[x[g] + 1].events = events[g]
    <3>1. /\ b.idxs[g] \in 0 .. N - 1
          /\ b.polls[b.idxs[g] + 1].fd = g /\ b.polls[b.idxs[g] + 1].events = events[g]
      BY <2>6 DEF PollAgrees, N
    <3>2. b.idxs[g] \in 0 .. N /\ b.idxs[g] + 1 \in 1 .. N
      BY <1>1, <3>1
    <3> QED
      BY <2>3, <2>4, <2>6, <3>1, <3>2
  <2>7. ASSUME NEW g \in Fd, g # fd, events[g] = {}
        PROVE  x[g] = -1
    BY <2>4, <2>7 DEF PollAgrees
  <2>8. ASSUME NEW k \in 1 .. N + 1
        PROVE  x[p[k].fd] = k - 1
    <3>1. CASE k \in 1 .. N
      <4>1. b.polls[k].fd \in Fd /\ b.idxs[b.polls[k].fd] = k - 1
        <5>1. b.polls[k] \in PollEntry /\ k \in 1 .. Len(b.polls)
          BY <1>1, <3>1 DEF N
        <5> QED
          BY <5>1 DEF PollAgrees, PollEntry
      <4>2. b.polls[k].fd # fd
        BY <1>1, <1>3, <3>1, <4>1
      <4> QED
        BY <2>3, <2>4, <3>1, <4>1, <4>2
    <3>2. CASE k = N + 1
      BY <1>1, <2>2, <2>3, <2>4, <3>2
    <3> QED
      BY <1>1, <3>1, <3>2
  <2>9. /\ N \in 0 .. N /\ (N + 1) - 1 = N
    BY <1>1
  <2>10. PollAgrees(new, d)
    <3>1. Len(p) - 1 = N
      BY <1>1, <2>3 DEF N
    <3>2. \A g \in Fd : new[g] = {} => x[g] = -1
      BY <1>2, <2>7
    <3>3. ASSUME NEW g \in Fd, new[g] # {}
          PROVE  /\ x[g] \in 0 .. Len(p) - 1
                 /\ p[x[g] + 1].fd = g /\ p[x[g] + 1].events = new[g]
      <4>1. CASE g = fd
        BY <1>2, <2>2, <2>3, <2>4, <2>9, <3>1, <4>1
      <4>2. CASE g # fd
        BY <1>2, <2>6, <3>1, <3>3, <4>2
      <4> QED
        BY <4>1, <4>2
    <3>4. \A k \in 1 .. Len(p) : x[p[k].fd] = k - 1
      BY <2>3, <2>8
    <3> QED
      BY <2>5, <3>2, <3>3, <3>4, Zenon DEF PollAgrees
  <2> QED
    BY <2>5, <2>10 DEF d, new
<1>4. CASE b.idxs[fd] # -1
  <2> DEFINE i == b.idxs[fd]
             p == [b.polls EXCEPT ![i + 1].events = mask]
  <2>1. d = [b EXCEPT !.polls = p]
    BY <1>1, <1>4 DEF poll_set, PollBack
  <2>2. /\ events[fd] # {} /\ i \in 0 .. N - 1 /\ b.polls[i + 1].fd = fd
    BY <1>4 DEF PollAgrees
  <2>3. i + 1 \in 1 .. N /\ b.polls[i + 1] \in PollEntry
    BY <1>1, <2>2
  <2> HIDE DEF i, N
  <2>4. /\ p \in Seq(PollEntry) /\ Len(p) = N /\ p[i + 1].fd = fd /\ p[i + 1].events = mask
        /\ \A k \in 1 .. N : p[k].fd = b.polls[k].fd
        /\ \A k \in 1 .. N : k # i + 1 => p[k] = b.polls[k]
    BY <1>1, <2>2, <2>3 DEF PollEntry, N
  <2> HIDE DEF p, d
  <2>5. /\ d \in PollBack /\ d.result = b.result /\ d.polls = p /\ d.idxs = b.idxs
    BY <2>1, <2>4 DEF PollBack
  <2>6. ASSUME NEW g \in Fd, g # fd, events[g] # {}
        PROVE  /\ b.idxs[g] \in 0 .. N - 1 /\ p[b.idxs[g] + 1].fd = g
               /\ p[b.idxs[g] + 1].events = events[g]
    <3>1. /\ b.idxs[g] \in 0 .. N - 1
          /\ b.polls[b.idxs[g] + 1].fd = g /\ b.polls[b.idxs[g] + 1].events = events[g]
      BY <2>6 DEF PollAgrees, N
    <3>2. b.idxs[g] # i /\ b.idxs[g] + 1 \in 1 .. N /\ b.idxs[g] + 1 # i + 1
      BY <1>1, <2>2, <2>6, <3>1
    <3> QED
      BY <2>4, <3>1, <3>2
  <2>7. \A k \in 1 .. N : b.idxs[p[k].fd] = k - 1
    BY <2>4 DEF PollAgrees, N
  <2>8. \A g \in Fd : g # fd /\ events[g] = {} => b.idxs[g] = -1
    BY DEF PollAgrees
  <2>9. PollAgrees(new, d)
    <3>1. \A g \in Fd : new[g] = {} => b.idxs[g] = -1
      BY <1>2, <2>8
    <3>2. ASSUME NEW g \in Fd, new[g] # {}
          PROVE  /\ b.idxs[g] \in 0 .. Len(p) - 1
                 /\ p[b.idxs[g] + 1].fd = g /\ p[b.idxs[g] + 1].events = new[g]
      <4>1. CASE g = fd
        BY <1>2, <2>2, <2>4, <4>1 DEF i
      <4>2. CASE g # fd
        BY <1>2, <2>4, <2>6, <3>2, <4>2
      <4> QED
        BY <4>1, <4>2
    <3>3. \A k \in 1 .. Len(p) : b.idxs[p[k].fd] = k - 1
      BY <2>4, <2>7
    <3> QED
      BY <2>5, <3>1, <3>2, <3>3, Zenon DEF PollAgrees
  <2> QED
    BY <2>5, <2>9 DEF d, new
<1> QED
  BY <1>3, <1>4

LEMMA PollModify ==
    ASSUME NEW n \in Nat, NEW x \in [ev : Good(n), back : PollBack], NEW fd \in Fd,
           NEW events \in [Fd -> SUBSET RW], NEW nev \in SUBSET RW,
           PollAgrees(events, x.back), x.ev.events[fd] = nev,
           \A g \in Fd \ {fd} : x.ev.events[g] = events[g]
    PROVE  LET z == poll_modify(x, fd, events[fd], nev)
           IN  /\ z \in [ev : Good(n), back : PollBack] /\ z.ev = x.ev
               /\ PollAgrees(x.ev.events, z.back) /\ z.back.result = x.back.result
<1> DEFINE b == IF nev = {} THEN poll_remove(x.back, fd) ELSE poll_set(x.back, fd, nev)
           new == [events EXCEPT ![fd] = nev]
<1>1. x.back \in PollBack
  OBVIOUS
<1>4. x.ev.events = new
  <2>1. x.ev.events \in [Fd -> SUBSET RW]
    BY DEF Good, Ev
  <2> QED
    BY <2>1
<1>2. CASE events[fd] = nev
  <2>1. x.ev.events = events
    BY <1>2, <1>4
  <2> QED
    BY <1>2, <2>1 DEF poll_modify
<1>3. CASE events[fd] # nev
  <2>1. poll_modify(x, fd, events[fd], nev) = [x EXCEPT !.back = b]
    BY <1>3 DEF poll_modify
  <2>2. b \in PollBack /\ b.result = x.back.result /\ PollAgrees(new, b)
    <3>1. CASE nev = {}
      <4>1. b = poll_remove(x.back, fd) /\ new = [events EXCEPT ![fd] = {}] /\ events[fd] # {}
        BY <1>3, <3>1
      <4> HIDE DEF b, new
      <4> QED
        BY <1>1, <4>1, PollRemove
    <3>2. CASE nev # {}
      <4>1. b = poll_set(x.back, fd, nev)
        BY <3>2
      <4> HIDE DEF b
      <4> QED
        BY <1>1, <3>2, <4>1, PollSet
    <3> QED
      BY <3>1, <3>2
  <2> HIDE DEF b
  <2> QED
    BY <1>4, <2>1, <2>2
<1> QED
  BY <1>2, <1>3

\* Array and index agree with the masks after fd_reify.
LEMMA PollReify ==
    ASSUME NEW x0 \in [ev : Good(0), back : PollBack], PollAgrees(x0.ev.events, x0.back)
    PROVE  LET z == fd_reify(x0, poll_modify)
           IN  /\ z \in [ev : Good(0), back : PollBack] /\ Tells(x0.ev, z.ev)
               /\ PollAgrees(z.ev.events, z.back) /\ z.back.result = x0.back.result
<1> DEFINE e == x0.ev
<1> DEFINE s == x0.ev.changes
           L == Len(s)
           op(d, w) == LET oev == d.ev.events[w]
                           y   == anfd_reify(d, w)
                           nev == y.ev.events[w]
                       IN  IF "IOFDSET" \in d.ev.reify[w] \/ oev # nev
                           THEN poll_modify(y, w, oev, nev) ELSE y
           D(f) == [n \in 0 .. L |-> IF n = 0 THEN x0
                        ELSE CHOOSE z \in {op(v, s[n]) : v \in {f[n - 1]}} : TRUE]
           after == CHOOSE f : f = D(f)
           S == [n \in 0 .. L |-> {d \in [ev : Good(n), back : PollBack] : Follows(e, d.ev) /\ PollAgrees(d.ev.events, d.back) /\ d.back.result = x0.back.result}]
           g == [p \in (1 .. L) \X [ev : Ev, back : PollBack] |-> op(p[2], s[p[1]])]
<1>1. fd_reify(x0, poll_modify) = [after[L] EXCEPT !.ev.changes = SubSeq(@, L + 1, Len(@))]
  BY Zenon DEF fd_reify, Steps
<1>11. e \in Good(0) /\ e \in Ev /\ e.changes \in Seq(Fd)
  BY DEF Good, Ev
<1>2. /\ L \in Nat /\ L \in 0 .. L /\ \A n \in 0 .. L : n = 0 \/ n \in 1 .. L
      /\ \A n \in 1 .. L : n \in 0 .. L /\ n - 1 \in 0 .. L /\ s[n] \in Fd
  BY <1>11
<1>3. /\ x0 \in S[0] /\ \A n \in 0 .. L : S[n] \subseteq [ev : Ev, back : PollBack]
      /\ \A n \in 1 .. L : \A d \in S[n - 1] : op(d, s[n]) \in S[n]
  <2>1. ASSUME NEW n \in 1 .. L, NEW x \in S[n - 1]
        PROVE  op(x, s[n]) \in S[n]
    <3> DEFINE m  == n - 1
               fd == s[n]
               y  == anfd_reify(x, fd)
               z  == poll_modify(y, fd, x.ev.events[fd], y.ev.events[fd])
    <3>1. n \in Nat /\ m \in Nat /\ n = m + 1 /\ n \in 0 .. L /\ m \in 0 .. L
      BY <1>2
    <3>2. /\ x \in [ev : Good(m), back : PollBack] /\ x.ev \in Good(m) /\ Follows(e, x.ev) /\ PollAgrees(x.ev.events, x.back) /\ x.back.result = x0.back.result
      BY <3>1
    <3>3. fd \in Fd /\ n \in 1 .. Len(x.ev.changes) /\ x.ev.changes[n] = fd
      <4>1. Len(x.ev.changes) \in Nat /\ L <= Len(x.ev.changes) /\ x.ev.changes[n] = s[n]
        <5>1. Len(x.ev.changes) \in Nat
          BY <3>2 DEF Good, Ev
        <5>2. e.changes = s /\ L = Len(e.changes)
          OBVIOUS
        <5> HIDE DEF s, L, S, e
        <5> QED
          BY <1>2, <3>2, <5>1, <5>2 DEF Follows
      <4> QED
        BY <1>2, <4>1
    <3>4. op(x, fd) = y \/ op(x, fd) = z
      OBVIOUS
    <3>5. op(x, fd) = y => x.ev.events[fd] = y.ev.events[fd] \/ y = z
      OBVIOUS
    <3> HIDE DEF s, L, op, S, e, m, fd
    <3>6. /\ y \in [ev : Good(n), back : PollBack] /\ y.ev \in Good(n) /\ y.back = x.back /\ Follows(x.ev, y.ev)
          /\ y.ev.events = [x.ev.events EXCEPT ![fd] = Want(x.ev, fd)]
      <4>1. /\ y \in [ev : Good(n), back : PollBack] /\ y.back = x.back
            /\ Follows(x.ev, y.ev) /\ y.ev.io = x.ev.io /\ y.ev.head = x.ev.head
            /\ y.ev.events = [x.ev.events EXCEPT ![fd] = Want(x.ev, fd)]
            /\ y.ev.reify = [x.ev.reify EXCEPT ![fd] = {}]
        BY <3>1, <3>2, <3>3, AnfdReify
      <4> HIDE DEF y
      <4> QED
        BY <4>1
    <3>7. x.ev.events \in [Fd -> SUBSET RW] /\ y.ev.events \in [Fd -> SUBSET RW]
      BY <3>2, <3>6 DEF Good, Ev
    <3> DEFINE w == Want(x.ev, fd)
    <3>8. y.ev.events[fd] = w /\ w \in SUBSET RW
      BY <3>3, <3>6, <3>7
    <3> HIDE DEF y, w
    <3>9. z \in [ev : Good(n), back : PollBack] /\ Follows(y.ev, z.ev) /\ PollAgrees(z.ev.events, z.back) /\ z.back.result = x0.back.result
      <4>1. PollAgrees(x.ev.events, y.back) /\ y.ev.events = [x.ev.events EXCEPT ![fd] = w]
        BY <3>2, <3>6 DEF w
      <4>2. z \in [ev : Good(n), back : PollBack] /\ z.ev = y.ev
            /\ PollAgrees(y.ev.events, z.back) /\ z.back.result = y.back.result
        <5> DEFINE v == x.ev.events
        <5>1. /\ z = poll_modify(y, fd, v[fd], w) /\ v \in [Fd -> SUBSET RW]
              /\ PollAgrees(v, y.back) /\ y.ev.events[fd] = w
              /\ \A h \in Fd \ {fd} : y.ev.events[h] = v[h]
          BY <3>3, <3>7, <3>8, <4>1
        <5>2. y \in [ev : Good(n), back : PollBack] /\ n \in Nat /\ fd \in Fd /\ w \in SUBSET RW
          BY <3>1, <3>3, <3>6, <3>8
        <5> HIDE DEF z, v
        <5> QED
          BY <5>1, <5>2, PollModify
      <4> HIDE DEF z
      <4>3. y.ev \in Ev
        BY <3>6 DEF Good
      <4> QED
        BY <3>2, <3>6, <4>2, <4>3, FollowsItself
    <3> HIDE DEF z
    <3>10. op(x, fd) = y => PollAgrees(y.ev.events, y.back) /\ y.back.result = x0.back.result
      BY <3>2, <3>5, <3>6, <3>7, <3>9
    <3>11. e \in Ev /\ x.ev \in Ev /\ y.ev \in Ev /\ z.ev \in Ev
      BY <1>11, <3>2, <3>6, <3>9 DEF Good
    <3>12. Follows(e, y.ev)
      BY <3>2, <3>6, <3>11, FollowsOn
    <3>13. Follows(e, z.ev)
      BY <3>9, <3>11, <3>12, FollowsOn
    <3>14. S[n] = {d \in [ev : Good(n), back : PollBack] : Follows(e, d.ev) /\ PollAgrees(d.ev.events, d.back) /\ d.back.result = x0.back.result}
      BY <3>1 DEF S
    <3> QED
      BY <3>4, <3>6, <3>9, <3>10, <3>12, <3>13, <3>14 DEF fd
  <2> HIDE DEF op
  <2>2. \A n \in 0 .. L : S[n] \subseteq [ev : Ev, back : PollBack]
    BY DEF Good
  <2>3. x0 \in S[0]
    BY <1>2, <1>11, FollowsItself
  <2> HIDE DEF S
  <2> QED
    BY <2>1, <2>2, <2>3
<1>12. L \in 0 .. L => S[L] = {d \in [ev : Good(L), back : PollBack] : Follows(e, d.ev) /\ PollAgrees(d.ev.events, d.back) /\ d.back.result = x0.back.result}
  OBVIOUS
<1> HIDE DEF s, L, op, S, e
<1>4. \A n \in 1 .. L : \A y \in S[n - 1] : g[<<n, y>>] = op(y, s[n])
  BY <1>2, <1>3
<1> HIDE DEF g
<1>5. Stays(L, x0, S, g)
  BY <1>2, <1>3, <1>4 DEF Stays
<1> HIDE DEF S
<1>6. PICK f : LoopRun(f, L, x0, g) /\ \A n \in 0 .. L : f[n] \in S[n]
  BY <1>2, <1>5, LoopRuns DEF RunStays
<1>7. f = D(f)
  <2>1. \A n \in 1 .. L : f[n] = g[<<n, f[n - 1]>>] /\ f[n - 1] \in S[n - 1]
    BY <1>2, <1>6 DEF LoopRun
  <2>2. \A n \in 1 .. L : f[n] = op(f[n - 1], s[n])
    BY <1>4, <2>1
  <2>3. \A n \in 1 .. L : f[n] = CHOOSE z \in {op(v, s[n]) : v \in {f[n - 1]}} : TRUE
    BY <2>2
  <2>4. \A n \in 0 .. L : f[n] = D(f)[n]
    BY <1>2, <1>6, <2>3 DEF LoopRun
  <2> QED
    BY <1>6, <2>4 DEF LoopRun
<1>8. after = D(after)
  BY <1>7
<1> HIDE DEF after
<1>9. after[0] = x0 /\ \A n \in 1 .. L : after[n] = op(after[n - 1], s[n])
  BY <1>2, <1>8
<1>10. after[L] \in S[L]
  BY <1>2, <1>4, <1>5, <1>9, LoopStays
<1> DEFINE x == after[L]
           d == [x.ev EXCEPT !.changes = SubSeq(@, L + 1, Len(@))]
<1>13. x \in [ev : Good(L), back : PollBack] /\ Follows(e, x.ev) /\ PollAgrees(x.ev.events, x.back) /\ x.back.result = x0.back.result
  BY <1>2, <1>10, <1>12
<1> HIDE DEF x
<1>14. x.ev \in Good(L) /\ x.back \in PollBack
  BY <1>13
<1>15. d \in Good(0) /\ d.events = x.ev.events /\ Tells(x.ev, d)
  BY <1>2, <1>14, ReifyEnd
<1>16. Tells(e, d)
  BY <1>13, <1>15, FollowsTells, TellsOn
<1>17. [x EXCEPT !.ev.changes = SubSeq(@, L + 1, Len(@))] = [x EXCEPT !.ev = d]
  BY <1>13 DEF Good, Ev
<1> HIDE DEF d
<1> QED
  BY <1>1, <1>13, <1>14, <1>15, <1>16, <1>17 DEF x, e

\* States that differ from x in libev's part only.
EvOnly(x) == [ev : On(0, x.ev), back : {x.back}]

\* The result of poll() becomes events.
LEMMA PollEvents ==
    ASSUME NEW x0 \in [ev : Good(0), back : PollBack], NEW res \in Seq(PollResult),
           Len(res) <= Len(x0.back.polls)
    PROVE  poll_events(x0, res) \in EvOnly(x0)
<1> DEFINE s == [i \in DOMAIN res |-> i]
           L == Len(s)
           op(d, w) == LET fd == d.back.polls[w].fd
                       IN  [d EXCEPT !.ev = IF res[w] = {"NVAL"} THEN fd_kill(@, fd)
                                            ELSE fd_event(@, fd, res[w])]
           D(f) == [n \in 0 .. L |-> IF n = 0 THEN x0
                        ELSE CHOOSE z \in {op(v, s[n]) : v \in {f[n - 1]}} : TRUE]
           after == CHOOSE f : f = D(f)
           S == [n \in 0 .. L |-> EvOnly(x0)]
           g == [p \in (1 .. L) \X EvOnly(x0) |-> op(p[2], s[p[1]])]
<1>1. poll_events(x0, res) = after[L]
  BY Zenon DEF poll_events, Steps
<1>2. /\ L \in Nat /\ L \in 0 .. L /\ \A n \in 0 .. L : n = 0 \/ n \in 1 .. L
      /\ \A n \in 1 .. L : n \in 0 .. L /\ n - 1 \in 0 .. L /\ s[n] \in 1 .. Len(res)
  OBVIOUS
<1>3. /\ x0 \in S[0] /\ \A n \in 0 .. L : S[n] = EvOnly(x0)
      /\ \A n \in 1 .. L : \A d \in S[n - 1] : op(d, s[n]) \in S[n]
  <2>1. ASSUME NEW d \in EvOnly(x0), NEW w \in 1 .. Len(res)
        PROVE  op(d, w) \in EvOnly(x0)
    <3>1. d.ev \in On(0, x0.ev) /\ d.ev \in Good(0) /\ d.back = x0.back /\ x0.ev \in Good(0)
      BY DEF On, After, EvOnly
    <3> DEFINE fd == d.back.polls[w].fd
    <3>2. fd \in Fd
      <4>1. Len(res) \in Nat /\ Len(x0.back.polls) \in Nat /\ x0.back.polls \in Seq(PollEntry)
        <5>1. x0.back.polls \in Seq(PollEntry)
          BY DEF PollBack
        <5> QED
          BY <5>1
      <4>2. w \in 1 .. Len(x0.back.polls)
        BY <4>1
      <4>3. x0.back.polls[w] \in PollEntry
        BY <4>1, <4>2
      <4> QED
        BY <3>1, <4>3 DEF PollEntry
    <3>3. res[w] = {"NVAL"} \/ res[w] \in SUBSET Revents
      <4>1. res[w] \in PollResult
        OBVIOUS
      <4> QED
        <5>1. res[w] \in SUBSET RW \/ res[w] = Nval
          BY <4>1, Zenon DEF PollResult
        <5>2. RW \subseteq Revents
          BY DEF Revents
        <5> QED
          BY <5>1, <5>2 DEF Nval
    <3> DEFINE k == fd_kill(d.ev, fd)
               f == fd_event(d.ev, fd, res[w])
    <3>4. op(d, w) = [d EXCEPT !.ev = IF res[w] = {"NVAL"} THEN k ELSE f]
      OBVIOUS
    <3> HIDE DEF fd, op
    <3>5. k \in On(0, d.ev)
      BY <3>1, <3>2, FdKill
    <3>6. res[w] # {"NVAL"} => f \in On(0, d.ev)
      BY <3>1, <3>2, <3>3, FdEvent
    <3> HIDE DEF k, f
    <3>7. k \in On(0, x0.ev) /\ (res[w] # {"NVAL"} => f \in On(0, x0.ev))
      BY <3>1, <3>5, <3>6, OnOn
    <3> QED
      BY <3>1, <3>4, <3>7 DEF EvOnly
  <2> HIDE DEF s, L, op
  <2>2. x0 \in S[0] /\ \A n \in 0 .. L : S[n] = EvOnly(x0)
    <3>1. x0.ev \in Good(0) /\ x0.ev \in On(0, x0.ev)
      BY OnItself
    <3>2. x0 \in EvOnly(x0)
      BY <3>1 DEF EvOnly
    <3> QED
      BY <1>2, <3>2
  <2> HIDE DEF S
  <2> QED
    BY <1>2, <2>1, <2>2
<1> HIDE DEF s, L, op, S
<1>4. \A n \in 1 .. L : \A y \in S[n - 1] : g[<<n, y>>] = op(y, s[n])
  BY <1>2, <1>3
<1> HIDE DEF g
<1>5. Stays(L, x0, S, g)
  BY <1>2, <1>3, <1>4 DEF Stays
<1> HIDE DEF S
<1>6. PICK f : LoopRun(f, L, x0, g) /\ \A n \in 0 .. L : f[n] \in S[n]
  BY <1>2, <1>5, LoopRuns DEF RunStays
<1>7. f = D(f)
  <2>1. \A n \in 1 .. L : f[n] = g[<<n, f[n - 1]>>] /\ f[n - 1] \in S[n - 1]
    BY <1>2, <1>6 DEF LoopRun
  <2>2. \A n \in 1 .. L : f[n] = op(f[n - 1], s[n])
    BY <1>4, <2>1
  <2>3. \A n \in 1 .. L : f[n] = CHOOSE z \in {op(v, s[n]) : v \in {f[n - 1]}} : TRUE
    BY <2>2
  <2>4. \A n \in 0 .. L : f[n] = D(f)[n]
    BY <1>2, <1>6, <2>3 DEF LoopRun
  <2> QED
    BY <1>6, <2>4 DEF LoopRun
<1>8. after = D(after)
  BY <1>7
<1> HIDE DEF after
<1>9. after[0] = x0 /\ \A n \in 1 .. L : after[n] = op(after[n - 1], s[n])
  BY <1>2, <1>8
<1>10. after[L] \in S[L]
  <2>1. \A n \in 1 .. L : after[n - 1] \in S[n - 1] => after[n] = g[<<n, after[n - 1]>>]
    BY <1>4, <1>9
  <2> QED
    BY <1>2, <1>5, <1>9, <2>1, LoopStays
<1> QED
  BY <1>1, <1>2, <1>3, <1>10

-------------------------------------------------------------------------------
(* The select back end *)

Bits == SUBSET (0 .. NFDBITS - 1)
SelectBack == [ri : Seq(Bits), wi : Seq(Bits), errno : {"", "EINTR", "ENOMEM", "EBADF"},
               result : Seq(Seq(Bits))]

\* The bits that are set are those of the masks.
SelectAgrees(events, b) ==
    /\ Len(b.ri) = Len(b.wi)
    /\ \A fd \in Nat : Isset(b.ri, fd) <=> fd \in Fd /\ "READ" \in events[fd]
    /\ \A fd \in Nat : Isset(b.wi, fd) <=> fd \in Fd /\ "WRITE" \in events[fd]

\* A descriptor is the only one with its word and bit.
LEMMA WordAndBit ==
    ASSUME NFDBITS \in Nat \ {0}, NEW fd \in Nat
    PROVE  /\ Word(fd) \in Nat \ {0} /\ Bit(fd) \in 0 .. NFDBITS - 1
           /\ fd = (Word(fd) - 1) * NFDBITS + Bit(fd)
<1> DEFINE w == fd \div NFDBITS  b == fd % NFDBITS
<1>1. w \in Nat /\ b \in 0 .. NFDBITS - 1
  OBVIOUS
<1>2. fd = w * NFDBITS + b
  OBVIOUS
<1>3. Word(fd) = w + 1 /\ Bit(fd) = b
  BY DEF Word, Bit
<1> HIDE DEF w, b
<1>4. (w + 1) - 1 = w
  BY <1>1
<1> QED
  BY <1>1, <1>2, <1>3, <1>4

LEMMA OneBit ==
    ASSUME NFDBITS \in Nat \ {0}, NEW fd \in Nat, NEW g \in Nat, Word(fd) = Word(g), Bit(fd) = Bit(g)
    PROVE  fd = g
BY WordAndBit

LEMMA SetBit ==
    ASSUME NFDBITS \in Nat \ {0}, NEW vec \in Seq(Bits), NEW fd \in Nat, NEW on \in BOOLEAN
    PROVE  LET d == set_bit(vec, fd, on)
           IN  /\ d \in Seq(Bits)
               /\ Len(d) = IF Len(vec) < Word(fd) THEN Word(fd) ELSE Len(vec)
               /\ Isset(d, fd) <=> on
               /\ \A g \in Nat : g # fd => (Isset(d, g) <=> Isset(vec, g))
<1> DEFINE N == Len(vec)
           W == Word(fd)
           more == [i \in 1 .. (W - N) |-> {}]
           v == select_grow(vec, fd)
           M == IF N < W THEN W ELSE N
           u == IF on THEN v[W] \cup {Bit(fd)} ELSE v[W] \ {Bit(fd)}
           d == [v EXCEPT ![W] = u]
<1>1. N \in Nat /\ W \in Nat \ {0} /\ Bit(fd) \in 0 .. NFDBITS - 1
  <2>1. N \in Nat
    OBVIOUS
  <2> QED
    BY <2>1, WordAndBit
<1>2. /\ v \in Seq(Bits) /\ Len(v) = M
      /\ \A i \in 1 .. N : v[i] = vec[i]
      /\ \A i \in N + 1 .. M : v[i] = {}
  <2>1. CASE N < W
    <3>1. more \in Seq(Bits) /\ Len(more) = W - N /\ \A i \in 1 .. W - N : more[i] = {}
      <4> DEFINE k == W - N
      <4>1. k \in Nat /\ {} \in Bits
        BY <1>1, <2>1 DEF Bits
      <4> HIDE DEF k
      <4>2. [i \in 1 .. k |-> {}] \in [1 .. k -> Bits]
        BY <4>1
      <4>3. [i \in 1 .. k |-> {}] \in Seq(Bits) /\ Len([i \in 1 .. k |-> {}]) = k
        BY <4>1, <4>2
      <4>4. \A i \in 1 .. k : [j \in 1 .. k |-> {}][i] = {}
        OBVIOUS
      <4> QED
        BY <4>3, <4>4 DEF k
    <3>2. v = vec \o more /\ M = W
      BY <2>1 DEF select_grow
    <3> HIDE DEF more, v, M, W, N
    <3>3. vec \in Seq(Bits) /\ N = Len(vec)
      BY DEF N
    <3>4. /\ v \in Seq(Bits) /\ Len(v) = N + (W - N)
          /\ \A i \in 1 .. N : v[i] = vec[i]
          /\ \A i \in 1 .. W - N : v[N + i] = more[i]
      <4>1. vec \in Seq(Bits) /\ more \in Seq(Bits)
        BY <3>1, <3>3
      <4>2. vec \o more \in Seq(Bits) /\ Len(vec \o more) = Len(vec) + Len(more)
        BY <4>1
      <4>3. \A i \in 1 .. Len(vec) : (vec \o more)[i] = vec[i]
        BY <4>1
      <4>4. \A i \in 1 .. Len(more) : (vec \o more)[Len(vec) + i] = more[i]
        BY <4>1
      <4> QED
        BY <3>1, <3>2, <3>3, <4>2, <4>3, <4>4
    <3>5. ASSUME NEW i \in N + 1 .. M
          PROVE  v[i] = {}
      <4>1. i - N \in 1 .. W - N /\ N + (i - N) = i
        BY <1>1, <3>2, <3>5
      <4> QED
        BY <3>1, <3>4, <4>1
    <3> QED
      <4>1. N + (W - N) = M
        BY <1>1, <3>2
      <4> QED
        BY <3>4, <3>5, <4>1
  <2>2. CASE ~(N < W)
    BY <1>1, <2>2 DEF select_grow
  <2> QED
    BY <2>1, <2>2
<1>3. set_bit(vec, fd, on) = d
  BY Zenon DEF set_bit
<1>4. W \in 1 .. M /\ M \in Nat /\ N <= M
  BY <1>1
<1> HIDE DEF v, M, W, N
<1>5. u \in Bits /\ (Bit(fd) \in u <=> on) /\ \A b : b # Bit(fd) => (b \in u <=> b \in v[W])
  <2>1. v[W] \in Bits
    BY <1>2, <1>4
  <2> QED
    BY <1>1, <2>1 DEF Bits
<1> HIDE DEF u
<1>6. /\ d \in Seq(Bits) /\ Len(d) = M /\ d[W] = u
      /\ \A i \in 1 .. M : i # W => d[i] = v[i]
  BY <1>2, <1>4, <1>5
<1> HIDE DEF d
<1>7. Isset(d, fd) <=> on
  BY <1>4, <1>5, <1>6 DEF Isset, W
<1>8. ASSUME NEW g \in Nat, g # fd
      PROVE  Isset(d, g) <=> Isset(vec, g)
  <2>1. Word(g) \in Nat \ {0}
    BY WordAndBit
  <2>2. Isset(d, g) <=> Word(g) <= M /\ Bit(g) \in v[Word(g)]
    <3>1. CASE Word(g) = W
      <4>1. Bit(g) # Bit(fd)
        BY <1>8, <3>1, OneBit DEF W
      <4> QED
        BY <1>4, <1>5, <1>6, <3>1, <4>1 DEF Isset
    <3>2. CASE Word(g) # W
      BY <1>4, <1>6, <2>1, <3>2 DEF Isset
    <3> QED
      BY <3>1, <3>2
  <2>3. Word(g) <= M /\ Bit(g) \in v[Word(g)] <=> Word(g) <= N /\ Bit(g) \in vec[Word(g)]
    <3>1. CASE Word(g) <= N
      <4>1. Word(g) \in 1 .. N /\ Word(g) <= M
        BY <1>1, <1>4, <2>1, <3>1
      <4> QED
        BY <1>2, <4>1
    <3>2. CASE ~(Word(g) <= N)
      <4>1. Word(g) <= M => Word(g) \in N + 1 .. M
        BY <1>1, <1>4, <2>1, <3>2
      <4> QED
        BY <1>2, <3>2, <4>1
    <3> QED
      BY <3>1, <3>2
  <2> QED
    BY <2>2, <2>3 DEF Isset, N
<1> QED
  BY <1>3, <1>6, <1>7, <1>8 DEF M, W, N

LEMMA SelectModify ==
    ASSUME NEW n \in Nat, NEW x \in [ev : Good(n), back : SelectBack], NEW fd \in Fd,
           NEW events \in [Fd -> SUBSET RW], NEW nev \in SUBSET RW,
           SelectAgrees(events, x.back), x.ev.events[fd] = nev,
           \A g \in Fd \ {fd} : x.ev.events[g] = events[g]
    PROVE  LET z == select_modify(x, fd, events[fd], nev)
           IN  /\ z \in [ev : Good(n), back : SelectBack] /\ z.ev = x.ev
               /\ SelectAgrees(x.ev.events, z.back)
               /\ z.back.result = x.back.result /\ z.back.errno = x.back.errno
<1>1. x.back \in SelectBack /\ fd \in Nat /\ NFDBITS \in Nat \ {0}
  BY BackendAssumption, FdAssumption DEF SelectAssumption, Fd
<1>2. CASE events[fd] = nev
  <2>1. \A g \in Fd : x.ev.events[g] = events[g]
    BY <1>2
  <2>2. SelectAgrees(x.ev.events, x.back)
    BY <2>1 DEF SelectAgrees
  <2> QED
    BY <1>2, <2>2 DEF select_modify
<1>3. CASE events[fd] # nev
  <2> DEFINE rd == "READ" \in nev  wr == "WRITE" \in nev
             ri == set_bit(x.back.ri, fd, rd)
             wi == set_bit(x.back.wi, fd, wr)
             z == [x EXCEPT !.back = [x.back EXCEPT !.ri = ri, !.wi = wi]]
  <2>1. select_modify(x, fd, events[fd], nev) = z
    <3> HIDE DEF ri, wi
    <3>1. select_modify(x, fd, events[fd], nev) = [x EXCEPT !.back.ri = ri, !.back.wi = wi]
      BY <1>3 DEF select_modify, ri, wi
    <3> QED
      BY <1>1, <3>1 DEF SelectBack
  <2>2. x.back.ri \in Seq(Bits) /\ x.back.wi \in Seq(Bits) /\ rd \in BOOLEAN /\ wr \in BOOLEAN
    <3>1. x.back.ri \in Seq(Bits) /\ x.back.wi \in Seq(Bits)
      BY <1>1 DEF SelectBack
    <3>2. rd \in BOOLEAN /\ wr \in BOOLEAN
      OBVIOUS
    <3> QED
      BY <3>1, <3>2
  <2>3. (rd <=> "READ" \in nev) /\ (wr <=> "WRITE" \in nev)
    OBVIOUS
  <2> HIDE DEF rd, wr
  <2>4. /\ ri \in Seq(Bits)
        /\ Len(ri) = IF Len(x.back.ri) < Word(fd) THEN Word(fd) ELSE Len(x.back.ri)
        /\ Isset(ri, fd) <=> rd
        /\ \A g \in Nat : g # fd => (Isset(ri, g) <=> Isset(x.back.ri, g))
    <3> DEFINE v == x.back.ri  d == set_bit(v, fd, rd)
    <3> HIDE DEF v
    <3>1. v \in Seq(Bits)
      BY <2>2 DEF v
    <3>2. /\ d \in Seq(Bits)
          /\ Len(d) = IF Len(v) < Word(fd) THEN Word(fd) ELSE Len(v)
          /\ Isset(d, fd) <=> rd
          /\ \A g \in Nat : g # fd => (Isset(d, g) <=> Isset(v, g))
      BY <1>1, <2>2, <3>1, SetBit
    <3> QED
      BY <3>2, Zenon DEF v
  <2>5. /\ wi \in Seq(Bits)
        /\ Len(wi) = IF Len(x.back.wi) < Word(fd) THEN Word(fd) ELSE Len(x.back.wi)
        /\ Isset(wi, fd) <=> wr
        /\ \A g \in Nat : g # fd => (Isset(wi, g) <=> Isset(x.back.wi, g))
    <3> DEFINE v == x.back.wi  d == set_bit(v, fd, wr)
    <3> HIDE DEF v
    <3>1. v \in Seq(Bits)
      BY <2>2 DEF v
    <3>2. /\ d \in Seq(Bits)
          /\ Len(d) = IF Len(v) < Word(fd) THEN Word(fd) ELSE Len(v)
          /\ Isset(d, fd) <=> wr
          /\ \A g \in Nat : g # fd => (Isset(d, g) <=> Isset(v, g))
      BY <1>1, <2>2, <3>1, SetBit
    <3> QED
      BY <3>2, Zenon DEF v
  <2> HIDE DEF ri, wi
  <2>6. /\ z \in [ev : Good(n), back : SelectBack] /\ z.ev = x.ev
        /\ z.back.ri = ri /\ z.back.wi = wi
        /\ z.back.result = x.back.result /\ z.back.errno = x.back.errno
    BY <1>1, <2>4, <2>5 DEF SelectBack
  <2> HIDE DEF z
  <2>7. Len(ri) = Len(wi)
    BY <2>4, <2>5 DEF SelectAgrees
  <2>8. \A g \in Nat : Isset(ri, g) <=> g \in Fd /\ "READ" \in x.ev.events[g]
    <3> SUFFICES ASSUME NEW g \in Nat
                 PROVE  Isset(ri, g) <=> g \in Fd /\ "READ" \in x.ev.events[g]
      OBVIOUS
    <3>1. CASE g = fd
      BY <2>3, <2>4, <3>1
    <3>2. CASE g # fd
      BY <2>4, <3>2 DEF SelectAgrees
    <3> QED
      BY <3>1, <3>2
  <2>9. \A g \in Nat : Isset(wi, g) <=> g \in Fd /\ "WRITE" \in x.ev.events[g]
    <3> SUFFICES ASSUME NEW g \in Nat
                 PROVE  Isset(wi, g) <=> g \in Fd /\ "WRITE" \in x.ev.events[g]
      OBVIOUS
    <3>1. CASE g = fd
      BY <2>3, <2>5, <3>1
    <3>2. CASE g # fd
      BY <2>5, <3>2 DEF SelectAgrees
    <3> QED
      BY <3>1, <3>2
  <2>10. SelectAgrees(x.ev.events, z.back)
    BY <2>6, <2>7, <2>8, <2>9 DEF SelectAgrees
  <2> QED
    BY <2>1, <2>6, <2>10
<1> QED
  BY <1>2, <1>3

\* The bits are those of the masks after fd_reify.
LEMMA SelectReify ==
    ASSUME NEW x0 \in [ev : Good(0), back : SelectBack], SelectAgrees(x0.ev.events, x0.back)
    PROVE  LET z == fd_reify(x0, select_modify)
           IN  /\ z \in [ev : Good(0), back : SelectBack] /\ Tells(x0.ev, z.ev)
               /\ SelectAgrees(z.ev.events, z.back)
               /\ z.back.result = x0.back.result /\ z.back.errno = x0.back.errno
<1> DEFINE e == x0.ev
<1> DEFINE s == x0.ev.changes
           L == Len(s)
           op(d, w) == LET oev == d.ev.events[w]
                           y   == anfd_reify(d, w)
                           nev == y.ev.events[w]
                       IN  IF "IOFDSET" \in d.ev.reify[w] \/ oev # nev
                           THEN select_modify(y, w, oev, nev) ELSE y
           D(f) == [n \in 0 .. L |-> IF n = 0 THEN x0
                        ELSE CHOOSE z \in {op(v, s[n]) : v \in {f[n - 1]}} : TRUE]
           after == CHOOSE f : f = D(f)
           S == [n \in 0 .. L |-> {d \in [ev : Good(n), back : SelectBack] : Follows(e, d.ev) /\ SelectAgrees(d.ev.events, d.back) /\ d.back.result = x0.back.result /\ d.back.errno = x0.back.errno}]
           g == [p \in (1 .. L) \X [ev : Ev, back : SelectBack] |-> op(p[2], s[p[1]])]
<1>1. fd_reify(x0, select_modify) = [after[L] EXCEPT !.ev.changes = SubSeq(@, L + 1, Len(@))]
  BY Zenon DEF fd_reify, Steps
<1>11. e \in Good(0) /\ e \in Ev /\ e.changes \in Seq(Fd)
  BY DEF Good, Ev
<1>2. /\ L \in Nat /\ L \in 0 .. L /\ \A n \in 0 .. L : n = 0 \/ n \in 1 .. L
      /\ \A n \in 1 .. L : n \in 0 .. L /\ n - 1 \in 0 .. L /\ s[n] \in Fd
  BY <1>11
<1>3. /\ x0 \in S[0] /\ \A n \in 0 .. L : S[n] \subseteq [ev : Ev, back : SelectBack]
      /\ \A n \in 1 .. L : \A d \in S[n - 1] : op(d, s[n]) \in S[n]
  <2>1. ASSUME NEW n \in 1 .. L, NEW x \in S[n - 1]
        PROVE  op(x, s[n]) \in S[n]
    <3> DEFINE m  == n - 1
               fd == s[n]
               y  == anfd_reify(x, fd)
               z  == select_modify(y, fd, x.ev.events[fd], y.ev.events[fd])
    <3>1. n \in Nat /\ m \in Nat /\ n = m + 1 /\ n \in 0 .. L /\ m \in 0 .. L
      BY <1>2
    <3>2. /\ x \in [ev : Good(m), back : SelectBack] /\ x.ev \in Good(m) /\ Follows(e, x.ev) /\ SelectAgrees(x.ev.events, x.back) /\ x.back.result = x0.back.result /\ x.back.errno = x0.back.errno
      BY <3>1
    <3>3. fd \in Fd /\ n \in 1 .. Len(x.ev.changes) /\ x.ev.changes[n] = fd
      <4>1. Len(x.ev.changes) \in Nat /\ L <= Len(x.ev.changes) /\ x.ev.changes[n] = s[n]
        <5>1. Len(x.ev.changes) \in Nat
          BY <3>2 DEF Good, Ev
        <5>2. e.changes = s /\ L = Len(e.changes)
          OBVIOUS
        <5> HIDE DEF s, L, S, e
        <5> QED
          BY <1>2, <3>2, <5>1, <5>2 DEF Follows
      <4> QED
        BY <1>2, <4>1
    <3>4. op(x, fd) = y \/ op(x, fd) = z
      OBVIOUS
    <3>5. op(x, fd) = y => x.ev.events[fd] = y.ev.events[fd] \/ y = z
      OBVIOUS
    <3> HIDE DEF s, L, op, S, e, m, fd
    <3>6. /\ y \in [ev : Good(n), back : SelectBack] /\ y.ev \in Good(n) /\ y.back = x.back /\ Follows(x.ev, y.ev)
          /\ y.ev.events = [x.ev.events EXCEPT ![fd] = Want(x.ev, fd)]
      <4>1. /\ y \in [ev : Good(n), back : SelectBack] /\ y.back = x.back
            /\ Follows(x.ev, y.ev) /\ y.ev.io = x.ev.io /\ y.ev.head = x.ev.head
            /\ y.ev.events = [x.ev.events EXCEPT ![fd] = Want(x.ev, fd)]
            /\ y.ev.reify = [x.ev.reify EXCEPT ![fd] = {}]
        BY <3>1, <3>2, <3>3, AnfdReify
      <4> HIDE DEF y
      <4> QED
        BY <4>1
    <3>7. x.ev.events \in [Fd -> SUBSET RW] /\ y.ev.events \in [Fd -> SUBSET RW]
      BY <3>2, <3>6 DEF Good, Ev
    <3> DEFINE w == Want(x.ev, fd)
    <3>8. y.ev.events[fd] = w /\ w \in SUBSET RW
      BY <3>3, <3>6, <3>7
    <3> HIDE DEF y, w
    <3>9. z \in [ev : Good(n), back : SelectBack] /\ Follows(y.ev, z.ev) /\ SelectAgrees(z.ev.events, z.back) /\ z.back.result = x0.back.result /\ z.back.errno = x0.back.errno
      <4>1. SelectAgrees(x.ev.events, y.back) /\ y.ev.events = [x.ev.events EXCEPT ![fd] = w]
        BY <3>2, <3>6 DEF w
      <4>2. z \in [ev : Good(n), back : SelectBack] /\ z.ev = y.ev
            /\ SelectAgrees(y.ev.events, z.back)
            /\ z.back.result = y.back.result /\ z.back.errno = y.back.errno
        <5> DEFINE v == x.ev.events
        <5>1. /\ z = select_modify(y, fd, v[fd], w) /\ v \in [Fd -> SUBSET RW]
              /\ SelectAgrees(v, y.back) /\ y.ev.events[fd] = w
              /\ \A h \in Fd \ {fd} : y.ev.events[h] = v[h]
          BY <3>3, <3>7, <3>8, <4>1
        <5>2. y \in [ev : Good(n), back : SelectBack] /\ n \in Nat /\ fd \in Fd /\ w \in SUBSET RW
          BY <3>1, <3>3, <3>6, <3>8
        <5> HIDE DEF z, v
        <5> QED
          BY <5>1, <5>2, SelectModify
      <4> HIDE DEF z
      <4>3. y.ev \in Ev
        BY <3>6 DEF Good
      <4> QED
        BY <3>2, <3>6, <4>2, <4>3, FollowsItself
    <3> HIDE DEF z
    <3>10. op(x, fd) = y => SelectAgrees(y.ev.events, y.back) /\ y.back.result = x0.back.result /\ y.back.errno = x0.back.errno
      BY <3>2, <3>5, <3>6, <3>7, <3>9
    <3>11. e \in Ev /\ x.ev \in Ev /\ y.ev \in Ev /\ z.ev \in Ev
      BY <1>11, <3>2, <3>6, <3>9 DEF Good
    <3>12. Follows(e, y.ev)
      BY <3>2, <3>6, <3>11, FollowsOn
    <3>13. Follows(e, z.ev)
      BY <3>9, <3>11, <3>12, FollowsOn
    <3>14. S[n] = {d \in [ev : Good(n), back : SelectBack] : Follows(e, d.ev) /\ SelectAgrees(d.ev.events, d.back) /\ d.back.result = x0.back.result /\ d.back.errno = x0.back.errno}
      BY <3>1 DEF S
    <3> QED
      BY <3>4, <3>6, <3>9, <3>10, <3>12, <3>13, <3>14 DEF fd
  <2> HIDE DEF op
  <2>2. \A n \in 0 .. L : S[n] \subseteq [ev : Ev, back : SelectBack]
    BY DEF Good
  <2>3. x0 \in S[0]
    BY <1>2, <1>11, FollowsItself
  <2> HIDE DEF S
  <2> QED
    BY <2>1, <2>2, <2>3
<1>12. L \in 0 .. L => S[L] = {d \in [ev : Good(L), back : SelectBack] : Follows(e, d.ev) /\ SelectAgrees(d.ev.events, d.back) /\ d.back.result = x0.back.result /\ d.back.errno = x0.back.errno}
  OBVIOUS
<1> HIDE DEF s, L, op, S, e
<1>4. \A n \in 1 .. L : \A y \in S[n - 1] : g[<<n, y>>] = op(y, s[n])
  BY <1>2, <1>3
<1> HIDE DEF g
<1>5. Stays(L, x0, S, g)
  BY <1>2, <1>3, <1>4 DEF Stays
<1> HIDE DEF S
<1>6. PICK f : LoopRun(f, L, x0, g) /\ \A n \in 0 .. L : f[n] \in S[n]
  BY <1>2, <1>5, LoopRuns DEF RunStays
<1>7. f = D(f)
  <2>1. \A n \in 1 .. L : f[n] = g[<<n, f[n - 1]>>] /\ f[n - 1] \in S[n - 1]
    BY <1>2, <1>6 DEF LoopRun
  <2>2. \A n \in 1 .. L : f[n] = op(f[n - 1], s[n])
    BY <1>4, <2>1
  <2>3. \A n \in 1 .. L : f[n] = CHOOSE z \in {op(v, s[n]) : v \in {f[n - 1]}} : TRUE
    BY <2>2
  <2>4. \A n \in 0 .. L : f[n] = D(f)[n]
    BY <1>2, <1>6, <2>3 DEF LoopRun
  <2> QED
    BY <1>6, <2>4 DEF LoopRun
<1>8. after = D(after)
  BY <1>7
<1> HIDE DEF after
<1>9. after[0] = x0 /\ \A n \in 1 .. L : after[n] = op(after[n - 1], s[n])
  BY <1>2, <1>8
<1>10. after[L] \in S[L]
  <2>1. \A n \in 1 .. L : after[n - 1] \in S[n - 1] => after[n] = g[<<n, after[n - 1]>>]
    BY <1>4, <1>9
  <2> QED
    BY <1>2, <1>5, <1>9, <2>1, LoopStays
<1> DEFINE x == after[L]
           d == [x.ev EXCEPT !.changes = SubSeq(@, L + 1, Len(@))]
<1>13. x \in [ev : Good(L), back : SelectBack] /\ Follows(e, x.ev) /\ SelectAgrees(x.ev.events, x.back) /\ x.back.result = x0.back.result /\ x.back.errno = x0.back.errno
  BY <1>2, <1>10, <1>12
<1> HIDE DEF x
<1>14. x.ev \in Good(L) /\ x.back \in SelectBack
  BY <1>13
<1>15. d \in Good(0) /\ d.events = x.ev.events /\ Tells(x.ev, d)
  BY <1>2, <1>14, ReifyEnd
<1>16. Tells(e, d)
  BY <1>13, <1>15, FollowsTells, TellsOn
<1>17. [x EXCEPT !.ev.changes = SubSeq(@, L + 1, Len(@))] = [x EXCEPT !.ev = d]
  BY <1>13 DEF Good, Ev
<1> HIDE DEF d
<1> QED
  BY <1>1, <1>13, <1>14, <1>15, <1>16, <1>17 DEF x, e

\* The result of select() becomes events.
LEMMA SelectEvents ==
    ASSUME NEW x0 \in [ev : Good(0), back : SelectBack], SelectAgrees(x0.ev.events, x0.back),
           NEW ro, NEW wo, \A fd \in Nat : Isset(ro, fd) => Isset(x0.back.ri, fd),
           \A fd \in Nat : Isset(wo, fd) => Isset(x0.back.wi, fd)
    PROVE  select_events(x0, ro, wo) \in EvOnly(x0)
<1> DEFINE s == select_order(x0.back)
           L == Len(s)
           op(d, w) == LET got == (IF Isset(ro, w) THEN {"READ"} ELSE {})
                                  \cup (IF Isset(wo, w) THEN {"WRITE"} ELSE {})
                       IN  IF got = {} THEN d ELSE [d EXCEPT !.ev = fd_event(@, w, got)]
           D(f) == [n \in 0 .. L |-> IF n = 0 THEN x0
                        ELSE CHOOSE z \in {op(v, s[n]) : v \in {f[n - 1]}} : TRUE]
           after == CHOOSE f : f = D(f)
           S == [n \in 0 .. L |-> EvOnly(x0)]
           g == [p \in (1 .. L) \X EvOnly(x0) |-> op(p[2], s[p[1]])]
<1>1. select_events(x0, ro, wo) = after[L]
  BY Zenon DEF select_events, Steps
<1>2. /\ L \in Nat /\ L \in 0 .. L /\ \A n \in 0 .. L : n = 0 \/ n \in 1 .. L
      /\ \A n \in 1 .. L : n \in 0 .. L /\ n - 1 \in 0 .. L /\ s[n] \in Nat
  <2> DEFINE M == Len(x0.back.ri) * NFDBITS
  <2>1. M \in Nat
    <3>1. x0.back.ri \in Seq(Bits) /\ NFDBITS \in Nat
      BY BackendAssumption DEF SelectAssumption, SelectBack
    <3>2. \A a, b \in Nat : a * b \in Nat
      OBVIOUS
    <3>3. Len(x0.back.ri) \in Nat
      BY <3>1
    <3> QED
      BY <3>1, <3>2, <3>3
  <2>2. s = [i \in 1 .. M |-> M - i]
    BY DEF select_order, vec_max
  <2> HIDE DEF s, M
  <2> QED
    BY <2>1, <2>2
<1>3. /\ x0 \in S[0] /\ \A n \in 0 .. L : S[n] = EvOnly(x0)
      /\ \A n \in 1 .. L : \A d \in S[n - 1] : op(d, s[n]) \in S[n]
  <2>1. ASSUME NEW d \in EvOnly(x0), NEW w \in Nat
        PROVE  op(d, w) \in EvOnly(x0)
    <3>1. d.ev \in On(0, x0.ev) /\ d.ev \in Good(0) /\ d.back = x0.back /\ x0.ev \in Good(0)
      BY DEF On, After, EvOnly
    <3> DEFINE got == (IF Isset(ro, w) THEN {"READ"} ELSE {})
                      \cup (IF Isset(wo, w) THEN {"WRITE"} ELSE {})
               f == fd_event(d.ev, w, got)
    <3>2. got # {} => w \in Fd
      BY DEF SelectAgrees
    <3>3. got \in SUBSET Revents
      BY DEF Revents, RW
    <3>4. op(d, w) = IF got = {} THEN d ELSE [d EXCEPT !.ev = f]
      OBVIOUS
    <3> HIDE DEF got, op
    <3>5. got # {} => f \in On(0, d.ev)
      BY <3>1, <3>2, <3>3, FdEvent
    <3> HIDE DEF f
    <3>6. got # {} => f \in On(0, x0.ev)
      BY <3>1, <3>5, OnOn
    <3> QED
      BY <3>1, <3>4, <3>6 DEF EvOnly
  <2> HIDE DEF s, L, op
  <2>2. x0 \in S[0] /\ \A n \in 0 .. L : S[n] = EvOnly(x0)
    <3>1. x0.ev \in Good(0) /\ x0.ev \in On(0, x0.ev)
      BY OnItself
    <3>2. x0 \in EvOnly(x0)
      BY <3>1 DEF EvOnly
    <3> QED
      BY <1>2, <3>2
  <2> HIDE DEF S
  <2> QED
    BY <1>2, <2>1, <2>2
<1> HIDE DEF s, L, op, S
<1>4. \A n \in 1 .. L : \A y \in S[n - 1] : g[<<n, y>>] = op(y, s[n])
  BY <1>2, <1>3
<1> HIDE DEF g
<1>5. Stays(L, x0, S, g)
  BY <1>2, <1>3, <1>4 DEF Stays
<1> HIDE DEF S
<1>6. PICK f : LoopRun(f, L, x0, g) /\ \A n \in 0 .. L : f[n] \in S[n]
  BY <1>2, <1>5, LoopRuns DEF RunStays
<1>7. f = D(f)
  <2>1. \A n \in 1 .. L : f[n] = g[<<n, f[n - 1]>>] /\ f[n - 1] \in S[n - 1]
    BY <1>2, <1>6 DEF LoopRun
  <2>2. \A n \in 1 .. L : f[n] = op(f[n - 1], s[n])
    BY <1>4, <2>1
  <2>3. \A n \in 1 .. L : f[n] = CHOOSE z \in {op(v, s[n]) : v \in {f[n - 1]}} : TRUE
    BY <2>2
  <2>4. \A n \in 0 .. L : f[n] = D(f)[n]
    BY <1>2, <1>6, <2>3 DEF LoopRun
  <2> QED
    BY <1>6, <2>4 DEF LoopRun
<1>8. after = D(after)
  BY <1>7
<1> HIDE DEF after
<1>9. after[0] = x0 /\ \A n \in 1 .. L : after[n] = op(after[n - 1], s[n])
  BY <1>2, <1>8
<1>10. after[L] \in S[L]
  <2>1. \A n \in 1 .. L : after[n - 1] \in S[n - 1] => after[n] = g[<<n, after[n - 1]>>]
    BY <1>4, <1>9
  <2> QED
    BY <1>2, <1>5, <1>9, <2>1, LoopStays
<1> QED
  BY <1>1, <1>2, <1>3, <1>10

-------------------------------------------------------------------------------
(* The epoll back end *)

Files == tab \in [Fd -> File \cup {Closed}] /\ ready \in [File -> Readiness]

KernEntry == [mask : SUBSET RW, egen : Nat]
Keys == {K \in SUBSET (Fd \X File) : IsFiniteSet(K)}
Kern == UNION {[K -> KernEntry] : K \in Keys}
EpollResult == [fd : Fd, egen : Nat, got : SUBSET RW]
EpollBack == [emask : [Fd -> SUBSET (RW \cup EPERM)], egen : [Fd -> Nat], eperms : Seq(Fd),
              eventmax : Nat, postfork : SUBSET {1, 2}, kern : Kern, result : Seq(EpollResult)]

LEMMA KernIs == \A k : k \in Kern <=> DOMAIN k \in Keys /\ k \in [DOMAIN k -> KernEntry]
BY Zenon DEF Kern

LEMMA KernRestrict ==
    ASSUME NEW k \in Kern, NEW D \in SUBSET DOMAIN k
    PROVE  Restrict(k, D) \in Kern
<1>1. DOMAIN k \in Keys /\ k \in [DOMAIN k -> KernEntry]
  BY KernIs
<1>2. D \in Keys
  BY <1>1, FS_Subset DEF Keys
<1>3. [x \in D |-> k[x]] \in [D -> KernEntry]
  BY <1>1
<1> QED
  BY <1>2, <1>3, Zenon DEF Kern, Restrict

\* epoll_ctl has entered the descriptor.
LEMMA KernSet ==
    ASSUME NEW b \in EpollBack, NEW fd \in Fd, Files, tab[fd] # Closed,
           NEW mask \in SUBSET RW, NEW gen \in Nat
    PROVE  Set(b, fd, mask, gen) \in EpollBack
<1> DEFINE D == DOMAIN b.kern \cup {Key(fd)}
           r == [mask |-> mask, egen |-> gen]
           k == [x \in D |-> IF x = Key(fd) THEN r ELSE b.kern[x]]
<1>1. b.kern \in Kern
  BY DEF EpollBack
<1>2. DOMAIN b.kern \in Keys /\ b.kern \in [DOMAIN b.kern -> KernEntry]
  BY <1>1, KernIs
<1>3. D \in Keys
  <2>1. Key(fd) \in Fd \X File
    BY DEF Key, Files
  <2>2. IsFiniteSet(D)
    BY <1>2, FS_AddElement DEF Keys
  <2> QED
    BY <1>2, <2>1, <2>2 DEF Keys
<1>4. r \in KernEntry
  BY DEF KernEntry
<1> HIDE DEF D, r
<1>5. k \in [D -> KernEntry]
  <2>1. \A x \in D : (IF x = Key(fd) THEN r ELSE b.kern[x]) \in KernEntry
    BY <1>2, <1>4 DEF D
  <2> QED
    BY <2>1
<1>6. k \in Kern
  BY <1>3, <1>5, Zenon DEF Kern
<1>7. Set(b, fd, mask, gen) = [b EXCEPT !.kern = k]
  BY DEF Set, k, D, r
<1> HIDE DEF k
<1> QED
  BY <1>6, <1>7 DEF EpollBack

\* The kernel holds what libev takes it to hold of a descriptor: the
\* generation, and the mask unless emask says that it is not known.  A
\* descriptor that epoll has refused is on the list of those.
KnownOf(b, fd) ==
    /\ Key(fd) \in DOMAIN b.kern =>
         /\ b.kern[Key(fd)].egen = b.egen[fd]
         /\ b.emask[fd] = {} \/ b.kern[Key(fd)].mask = b.emask[fd]
    /\ b.emask[fd] = EPERM => Contains(b.eperms, fd)
Known(b) == (\A k \in DOMAIN b.kern : k[2] \notin Regular) /\ \A fd \in Fd : KnownOf(b, fd)

\* A descriptor counts as registered when the first start of a watcher after
\* ev_io_set (EV__IOFDSET) has been dealt with and one may go on waiting
\* without another ev_io_set: an active one, or any if watchers may restart.
Owed(e, fd) ==
    \E w \in Watcher : e.io[w].fd = fd /\ ~e.io[w].fresh /\ (Restart \/ Active(e, w))
Registered(e, fd) == "IOFDSET" \notin e.reify[fd] /\ e.events[fd] # {} /\ Owed(e, fd)

\* It is in the kernel's set with its mask and its generation, or epoll_poll
\* makes its events up.
Entered(e, b, fd) ==
    /\ Key(fd) \in DOMAIN b.kern
    /\ b.kern[Key(fd)] = [mask |-> e.events[fd], egen |-> b.egen[fd]]
Refused(b, fd) == b.emask[fd] = EPERM /\ Contains(b.eperms, fd)
InSet(e, b, fd) == Registered(e, fd) => Entered(e, b, fd) \/ Refused(b, fd)

\* Every registered descriptor is in the set, unless the set is to be made anew.
Right(x) == Known(x.back) /\ \A fd \in Fd : InSet(x.ev, x.back, fd)
Sound(x) == Known(x.back) /\ (x.back.postfork = {} => \A fd \in Fd : InSet(x.ev, x.back, fd))

\* What is assumed of the kernel and of the program: a descriptor does not come
\* to refer again to a file that it referred to before, and, where watchers may
\* start again without ev_io_set, the kernel grants all entries asked for.
Supposed == /\ ~DupBack
            /\ Restart => IsFiniteSet(File) /\ Cardinality(Fd \X File) <= MaxWatches

\* The program sets its watchers for open descriptors.
Opened(e) == \A w \in Watcher : e.io[w].fd # -1 => tab[e.io[w].fd] # Closed

\* Nothing is new in d: no watcher, no mask, and no change is forgotten.
Shrinks(e, d) == /\ Keeps(e, d) /\ d.events = e.events
                 /\ \A fd \in Fd : e.reify[fd] \subseteq d.reify[fd]

LEMMA InSetShrinks ==
    ASSUME NEW e, NEW d, Shrinks(e, d), NEW b, NEW fd \in Fd, InSet(e, b, fd)
    PROVE  InSet(d, b, fd)
<1>1. Owed(d, fd) => Owed(e, fd)
  BY Zenon DEF Owed, Shrinks, Keeps
<1>2. Registered(d, fd) => Registered(e, fd)
  BY <1>1 DEF Registered, Shrinks
<1>3. d.events = e.events
  BY DEF Shrinks
<1> QED
  BY <1>2, <1>3, Zenon DEF InSet, Entered

LEMMA OnShrinks == \A n, e : \A d \in On(n, e) : Shrinks(e, d)
BY Zenon DEF On, After, Follows, Shrinks

\* The two back ends are the same for the descriptor.
SameFor(b, d, fd) ==
    /\ Key(fd) \in DOMAIN d.kern <=> Key(fd) \in DOMAIN b.kern
    /\ Key(fd) \in DOMAIN b.kern => d.kern[Key(fd)] = b.kern[Key(fd)]
    /\ d.egen[fd] = b.egen[fd] /\ d.emask[fd] = b.emask[fd]
    /\ Contains(b.eperms, fd) => Contains(d.eperms, fd)

LEMMA SameForBoth ==
    ASSUME NEW b, NEW d, NEW fd, SameFor(b, d, fd)
    PROVE  /\ KnownOf(b, fd) => KnownOf(d, fd)
           /\ \A e : InSet(e, b, fd) => InSet(e, d, fd)
<1>1. KnownOf(b, fd) => KnownOf(d, fd)
  BY Zenon DEF SameFor, KnownOf
<1>2. ASSUME NEW e, InSet(e, b, fd) PROVE InSet(e, d, fd)
  BY <1>2, Zenon DEF SameFor, InSet, Entered, Refused
<1> QED
  BY <1>1, <1>2

LEMMA OtherKeys == \A fd, g : g # fd => Key(g) # Key(fd)
BY DEF Key

\* Whatever epoll_ctl says, libev's part is kept, or the descriptor is given up.
LEMMA EpollModify ==
    ASSUME NEW n \in Nat, NEW x \in [ev : Good(n), back : EpollBack], Files,
           NEW fd \in Fd, NEW oev, NEW nev \in SUBSET RW
    PROVE  LET z == epoll_modify(x, fd, oev, nev)
           IN  /\ z \in [ev : Good(n), back : EpollBack] /\ Follows(x.ev, z.ev)
               /\ z.back.postfork = x.back.postfork
<1> DEFINE b == x.back
           try == [b EXCEPT !.emask[fd] = nev, !.egen[fd] = @ + 1]
           res == epoll_ctl(b, fd, oev, nev)
           z == epoll_modify(x, fd, oev, nev)
           dec == dec_egen(try, fd)
           refused == [try EXCEPT !.emask[fd] = EPERM,
                          !.eperms = IF b.emask[fd] = EPERM THEN @ ELSE Append(@, fd)]
           k == fd_kill(x.ev, fd)
           s == Set(try, fd, nev, try.egen[fd])
<1>1. /\ b \in EpollBack /\ b.emask \in [Fd -> SUBSET (RW \cup EPERM)]
      /\ b.egen \in [Fd -> Nat] /\ b.eperms \in Seq(Fd)
  <2>1. b \in EpollBack
    OBVIOUS
  <2> QED
    BY <2>1 DEF EpollBack
<1>2. x.ev \in Good(n) /\ x.ev \in Ev
  BY DEF Good
<1>3. try \in EpollBack /\ try.egen[fd] \in Nat /\ try.egen[fd] - 1 \in Nat
  <2> DEFINE m == [b.emask EXCEPT ![fd] = nev]
             g == [b.egen EXCEPT ![fd] = @ + 1]
  <2>1. m \in [Fd -> SUBSET (RW \cup EPERM)] /\ g \in [Fd -> Nat] /\ g[fd] = b.egen[fd] + 1
    BY <1>1
  <2>2. try = [b EXCEPT !.emask = m, !.egen = g]
    BY <1>1 DEF EpollBack
  <2> HIDE DEF m, g, try, b
  <2>3. try \in EpollBack /\ try.egen = g
    BY <1>1, <2>1, <2>2 DEF EpollBack
  <2> QED
    BY <1>1, <2>1, <2>3
<1> HIDE DEF try, b
<1>4. dec \in EpollBack
  <2> DEFINE g == [try.egen EXCEPT ![fd] = @ - 1]
  <2>1. g \in [Fd -> Nat]
    <3>1. try.egen \in [Fd -> Nat]
      BY <1>3 DEF EpollBack
    <3> QED
      BY <1>3, <3>1
  <2>2. dec = [try EXCEPT !.egen = g]
    BY <1>3 DEF EpollBack, dec_egen
  <2> HIDE DEF g, dec
  <2> QED
    BY <1>3, <2>1, <2>2 DEF EpollBack
<1>5. refused \in EpollBack
  <2> DEFINE m == [try.emask EXCEPT ![fd] = EPERM]
             l == IF b.emask[fd] = EPERM THEN try.eperms ELSE Append(try.eperms, fd)
  <2>1. try.emask \in [Fd -> SUBSET (RW \cup EPERM)] /\ try.eperms \in Seq(Fd)
    BY <1>3 DEF EpollBack
  <2>2. m \in [Fd -> SUBSET (RW \cup EPERM)] /\ l \in Seq(Fd)
    BY <2>1
  <2>3. refused = [try EXCEPT !.emask = m, !.eperms = l]
    BY <1>3 DEF EpollBack
  <2> HIDE DEF m, l, refused
  <2> QED
    BY <1>3, <2>2, <2>3 DEF EpollBack
<1>6. k \in Good(n) /\ Follows(x.ev, k)
  BY <1>2, FdKill DEF On, After
<1>7. res = "OK" => s \in EpollBack
  <2>1. res = "OK" => tab[fd] # Closed
    BY DEF epoll_ctl, epoll_add, epoll_mod
  <2> HIDE DEF res
  <2> QED
    BY <1>3, <2>1, KernSet
<1>12. dec.postfork = b.postfork /\ refused.postfork = b.postfork /\ s.postfork = b.postfork
  <2>1. try.postfork = b.postfork
    BY <1>1 DEF try, EpollBack
  <2> QED
    BY <1>3, <2>1 DEF dec_egen, Set, EpollBack
<1>8. \/ z = x \/ z = [x EXCEPT !.back = dec] \/ z = [x EXCEPT !.back = refused]
      \/ z = [x EXCEPT !.ev = k, !.back = dec]
      \/ z = [x EXCEPT !.back = s] /\ res = "OK"
  <2> HIDE DEF res, dec, refused, k, s
  <2>1. z = IF nev = {} THEN x
            ELSE CASE res = "OK" -> [x EXCEPT !.back = s]
                   [] res = "EEXIST" -> [x EXCEPT !.back = dec]
                   [] res = "EPERM" -> [x EXCEPT !.back = refused]
                   [] OTHER -> [x EXCEPT !.ev = k, !.back = dec]
    BY Zenon DEF epoll_modify, res, dec, refused, k, s, try, b
  <2> HIDE DEF z
  <2> QED
    BY <2>1
<1> HIDE DEF z, res, dec, refused, k, s
<1>9. z \in [ev : Good(n), back : EpollBack]
  BY <1>2, <1>4, <1>5, <1>6, <1>7, <1>8
<1>10. z.ev = x.ev \/ z.ev = k
  BY <1>8
<1>11. Follows(x.ev, z.ev)
  BY <1>2, <1>6, <1>10, FollowsItself
<1>13. z.back.postfork = x.back.postfork
  BY <1>8, <1>12 DEF b
<1> QED
  BY <1>9, <1>11, <1>13 DEF z

\* What epoll_ctl says of an open descriptor.
LEMMA EpollCtl ==
    ASSUME NEW b, NEW fd, tab[fd] # Closed, NEW oev, NEW nev
    PROVE  LET res == epoll_ctl(b, fd, oev, nev)
           IN  \/ res = "OK" /\ tab[fd] \notin Regular
               \/ res = "EEXIST" /\ Key(fd) \in DOMAIN b.kern /\ b.emask[fd] = nev
               \/ res = "EPERM" /\ tab[fd] \in Regular
               \/ /\ res = "ENOSPC" /\ Key(fd) \notin DOMAIN b.kern
                  /\ Cardinality(DOMAIN b.kern) >= MaxWatches
BY DEF epoll_ctl, epoll_add, epoll_mod

\* A kernel that has room for all descriptors and files does not refuse one.
LEMMA RoomForAll ==
    ASSUME IsFiniteSet(File), Cardinality(Fd \X File) <= MaxWatches,
           NEW K \in SUBSET (Fd \X File), NEW k \in (Fd \X File) \ K
    PROVE  ~(Cardinality(K) >= MaxWatches)
<1>1. IsFiniteSet(Fd)
  BY FdAssumption, FS_Interval DEF Fd
<1>2. IsFiniteSet(Fd \X File)
  BY <1>1, FS_Product
<1>3. IsFiniteSet(K) /\ IsFiniteSet(K \cup {k}) /\ Cardinality(K \cup {k}) = Cardinality(K) + 1
  BY <1>2, FS_Subset, FS_AddElement
<1>4. Cardinality(K \cup {k}) <= Cardinality(Fd \X File)
  BY <1>2, FS_Subset
<1>5. Cardinality(K) \in Nat /\ Cardinality(Fd \X File) \in Nat /\ MaxWatches \in Nat
  BY <1>2, <1>3, FS_CardinalityType, BackendAssumption DEF EpollAssumption
<1> QED
  BY <1>3, <1>4, <1>5

\* epoll_modify has registered the descriptor, or nothing is owed to it.
LEMMA EpollModifySets ==
    ASSUME NEW n \in Nat, NEW x \in [ev : Good(n), back : EpollBack], Files, Supposed,
           NEW fd \in Fd, NEW oev, NEW nev \in SUBSET RW, x.ev.events[fd] = nev,
           nev # {} => tab[fd] # Closed,
           Known(x.back), \A g \in Fd : g # fd => InSet(x.ev, x.back, g)
    PROVE  Right(epoll_modify(x, fd, oev, nev))
<1> DEFINE e == x.ev
           b == x.back
           try == [b EXCEPT !.emask[fd] = nev, !.egen[fd] = @ + 1]
           res == epoll_ctl(b, fd, oev, nev)
           z == epoll_modify(x, fd, oev, nev)
           dec == dec_egen(try, fd)
           refused == [try EXCEPT !.emask[fd] = EPERM,
                          !.eperms = IF b.emask[fd] = EPERM THEN @ ELSE Append(@, fd)]
           k == fd_kill(e, fd)
           s == Set(try, fd, nev, try.egen[fd])
<1> SUFFICES Right(z)
  OBVIOUS
<1>1. /\ b \in EpollBack /\ b.emask \in [Fd -> SUBSET (RW \cup EPERM)]
      /\ b.egen \in [Fd -> Nat] /\ b.eperms \in Seq(Fd) /\ b.kern \in Kern
      /\ DOMAIN b.kern \subseteq Fd \X File
  <2>1. b \in EpollBack
    OBVIOUS
  <2>2. b.kern \in Kern /\ b.emask \in [Fd -> SUBSET (RW \cup EPERM)]
        /\ b.egen \in [Fd -> Nat] /\ b.eperms \in Seq(Fd)
    BY <2>1 DEF EpollBack
  <2>3. DOMAIN b.kern \in Keys
    BY <2>2, KernIs
  <2> QED
    BY <2>1, <2>2, <2>3 DEF Keys
<1>2. e \in Good(n) /\ e.events[fd] = nev /\ Known(b)
      /\ \A g \in Fd : g # fd => InSet(e, b, g)
  OBVIOUS
<1>3. z = IF nev = {} THEN x
          ELSE CASE res = "OK" -> [x EXCEPT !.back = s]
                 [] res = "EEXIST" -> [x EXCEPT !.back = dec]
                 [] res = "EPERM" -> [x EXCEPT !.back = refused]
                 [] OTHER -> [x EXCEPT !.ev = k, !.back = dec]
  BY Zenon DEF epoll_modify
<1>4. x = [ev |-> e, back |-> b]
  OBVIOUS
<1>5. /\ b = [emask |-> b.emask, egen |-> b.egen, eperms |-> b.eperms,
              eventmax |-> b.eventmax, postfork |-> b.postfork, kern |-> b.kern,
              result |-> b.result]
  BY <1>1 DEF EpollBack
<1> DEFINE m == [b.emask EXCEPT ![fd] = nev]
           a == [b.egen EXCEPT ![fd] = @ + 1]
<1>6. try = [b EXCEPT !.emask = m, !.egen = a]
  BY <1>5
<1>7. /\ m[fd] = nev /\ a[fd] = b.egen[fd] + 1
      /\ \A g \in Fd : g # fd => m[g] = b.emask[g] /\ a[g] = b.egen[g]
      /\ m \in [Fd -> SUBSET (RW \cup EPERM)] /\ a \in [Fd -> Nat]
  BY <1>1
<1>8. /\ try.emask = m /\ try.egen = a /\ try.kern = b.kern /\ try.eperms = b.eperms
  BY <1>5, <1>6
<1>9. nev # EPERM
  BY DEF RW, EPERM
<1>10. Key(fd) \in DOMAIN b.kern => tab[fd] \notin Regular
  BY <1>2 DEF Known, Key
<1>11. \A g \in Fd : g # fd => Key(g) # Key(fd)
  BY OtherKeys
<1>12. \A g \in Fd : KnownOf(b, g)
  BY <1>2 DEF Known
<1> HIDE DEF m, a, e, b
<1>13. ASSUME NEW y, NEW d, KnownOf(d, fd), InSet(y, d, fd), Shrinks(e, y),
              \A g \in Fd : g # fd => SameFor(b, d, g),
              \A q \in DOMAIN d.kern : q[2] \notin Regular
       PROVE  Right([ev |-> y, back |-> d])
  <2>1. ASSUME NEW g \in Fd, g # fd PROVE KnownOf(d, g) /\ InSet(y, d, g)
    <3>1. InSet(e, d, g) /\ KnownOf(d, g)
      BY <1>2, <1>12, <1>13, <2>1, SameForBoth
    <3> QED
      BY <1>13, <3>1, InSetShrinks
  <2> QED
    BY <1>13, <2>1 DEF Right, Known
<1>14. Shrinks(e, e)
  BY Zenon DEF Shrinks, Keeps
<1>15. CASE nev = {}
  <2>1. InSet(e, b, fd)
    BY <1>2, <1>15 DEF InSet, Registered
  <2> QED
    BY <1>2, <1>3, <1>15, <2>1, Zenon DEF Right, e, b
<1>16. CASE nev # {} /\ res = "OK" /\ tab[fd] \notin Regular
  <2> DEFINE q == [r \in DOMAIN b.kern \cup {Key(fd)} |->
                    IF r = Key(fd) THEN [mask |-> nev, egen |-> a[fd]] ELSE b.kern[r]]
  <2>1. s = [try EXCEPT !.kern = q]
    BY <1>8, Zenon DEF Set
  <2>2. /\ s.emask = m /\ s.egen = a /\ s.kern = q /\ s.eperms = b.eperms
    <3> HIDE DEF s, q, try
    <3> QED
      BY <1>5, <1>6, <2>1
  <2>3. /\ DOMAIN q = DOMAIN b.kern \cup {Key(fd)}
        /\ q[Key(fd)] = [mask |-> nev, egen |-> a[fd]]
        /\ \A r \in DOMAIN b.kern : r # Key(fd) => q[r] = b.kern[r]
    OBVIOUS
  <2> HIDE DEF s, q, try
  <2>4. KnownOf(s, fd)
    <3>1. s.kern[Key(fd)].mask = nev /\ s.kern[Key(fd)].egen = a[fd]
      BY <2>2, <2>3
    <3> QED
      BY <1>7, <1>9, <2>2, <3>1 DEF KnownOf
  <2>5. InSet(e, s, fd)
    BY <1>2, <2>2, <2>3 DEF InSet, Entered
  <2>6. ASSUME NEW g \in Fd, g # fd PROVE SameFor(b, s, g)
    BY <1>7, <1>11, <2>2, <2>3, <2>6, Zenon DEF SameFor
  <2>7. \A r \in DOMAIN s.kern : r[2] \notin Regular
    BY <1>2, <1>16, <2>2, <2>3 DEF Known, Key
  <2>8. z = [ev |-> e, back |-> s]
    BY <1>3, <1>4, <1>16
  <2> HIDE DEF z
  <2> QED
    BY <1>13, <1>14, <2>4, <2>5, <2>6, <2>7, <2>8
<1> DEFINE g1 == [a EXCEPT ![fd] = @ - 1]
<1>17. g1 = b.egen
  <2>1. g1[fd] = b.egen[fd] /\ \A g \in Fd : g # fd => g1[g] = b.egen[g]
    <3>1. b.egen[fd] \in Nat /\ a[fd] - 1 = b.egen[fd]
      BY <1>1, <1>7
    <3> QED
      BY <1>7, <3>1
  <2>2. DOMAIN g1 = Fd /\ DOMAIN b.egen = Fd
    BY <1>1, <1>7
  <2> QED
    BY <1>1, <1>7, <2>1, <2>2
<1>18. /\ dec.emask = m /\ dec.egen = b.egen /\ dec.kern = b.kern /\ dec.eperms = b.eperms
  <2>1. dec = [try EXCEPT !.egen = g1]
    BY <1>5, <1>6, <1>8 DEF dec_egen
  <2> HIDE DEF dec, g1
  <2> QED
    BY <1>5, <1>6, <1>17, <2>1
<1>19. \A g \in Fd : g # fd => SameFor(b, dec, g)
  BY <1>7, <1>18, Zenon DEF SameFor
<1>20. CASE nev # {} /\ res = "EEXIST" /\ Key(fd) \in DOMAIN b.kern /\ b.emask[fd] = nev
  <2>1. b.kern[Key(fd)].egen = b.egen[fd] /\ b.kern[Key(fd)].mask = nev
    BY <1>12, <1>20 DEF KnownOf
  <2>2. b.kern[Key(fd)] = [mask |-> nev, egen |-> b.egen[fd]]
    <3>1. b.kern[Key(fd)] \in KernEntry
      BY <1>1, <1>20, KernIs
    <3> QED
      BY <2>1, <3>1 DEF KernEntry
  <2> HIDE DEF dec, try
  <2>3. KnownOf(dec, fd)
    BY <1>7, <1>9, <1>18, <2>1 DEF KnownOf
  <2>4. InSet(e, dec, fd)
    BY <1>2, <1>18, <1>20, <2>2 DEF InSet, Entered
  <2>5. z = [ev |-> e, back |-> dec]
    BY <1>3, <1>4, <1>20
  <2>6. \A q \in DOMAIN dec.kern : q[2] \notin Regular
    BY <1>2, <1>18 DEF Known
  <2> HIDE DEF z
  <2> QED
    BY <1>13, <1>14, <1>19, <2>3, <2>4, <2>5, <2>6
<1>21. CASE nev # {} /\ res = "EPERM" /\ tab[fd] \in Regular
  <2> DEFINE m1 == [m EXCEPT ![fd] = EPERM]
             l == IF b.emask[fd] = EPERM THEN b.eperms ELSE Append(b.eperms, fd)
  <2>1. refused = [try EXCEPT !.emask = m1, !.eperms = l]
    BY <1>5, <1>6, <1>8
  <2>2. /\ refused.emask = m1 /\ refused.egen = a /\ refused.kern = b.kern /\ refused.eperms = l
    <3> HIDE DEF refused, m1, l
    <3> QED
      BY <1>5, <1>6, <2>1
  <2>3. m1[fd] = EPERM /\ \A g \in Fd : g # fd => m1[g] = b.emask[g]
    BY <1>7
  <2>4. Contains(l, fd) /\ \A g \in Fd : Contains(b.eperms, g) => Contains(l, g)
    <3>1. CASE b.emask[fd] = EPERM
      BY <1>12, <3>1, Zenon DEF KnownOf
    <3>2. CASE b.emask[fd] # EPERM
      <4>1. l = Append(b.eperms, fd)
        BY <3>2
      <4>2. Len(b.eperms) \in Nat /\ Len(l) = Len(b.eperms) + 1 /\ l[Len(l)] = fd
            /\ \A i \in 1 .. Len(b.eperms) : l[i] = b.eperms[i]
        BY <1>1, <4>1
      <4> HIDE DEF l
      <4>3. Len(l) \in 1 .. Len(l) /\ \A i \in 1 .. Len(b.eperms) : i \in 1 .. Len(l)
        BY <4>2
      <4> QED
        BY <4>2, <4>3, Zenon DEF Contains
    <3> QED
      BY <3>1, <3>2
  <2> HIDE DEF refused, m1, l, try
  <2>5. Key(fd) \notin DOMAIN refused.kern
    BY <1>10, <1>21, <2>2
  <2>6. KnownOf(refused, fd)
    BY <2>2, <2>4, <2>5, Zenon DEF KnownOf
  <2>7. InSet(e, refused, fd)
    BY <2>2, <2>3, <2>4, Zenon DEF InSet, Refused
  <2>8. ASSUME NEW g \in Fd, g # fd PROVE SameFor(b, refused, g)
    BY <1>7, <2>2, <2>3, <2>4, <2>8, Zenon DEF SameFor
  <2>9. z = [ev |-> e, back |-> refused]
    BY <1>3, <1>4, <1>21
  <2>10. \A q \in DOMAIN refused.kern : q[2] \notin Regular
    BY <1>2, <2>2 DEF Known
  <2> HIDE DEF z
  <2> QED
    BY <1>13, <1>14, <2>6, <2>7, <2>8, <2>9, <2>10
<1>22. CASE /\ nev # {} /\ res = "ENOSPC" /\ Key(fd) \notin DOMAIN b.kern
            /\ Cardinality(DOMAIN b.kern) >= MaxWatches
  <2>1. k \in On(n, e) /\ \A w \in Watcher : Active(k, w) => e.io[w].fd # fd
    BY <1>2, FdKill
  <2>2. ~Restart
    <3>1. Key(fd) \in Fd \X File
      BY <1>22 DEF Files, Key
    <3> QED
      BY <1>1, <1>22, <3>1, RoomForAll DEF Supposed
  <2> HIDE DEF dec, try, k
  <2>3. Shrinks(e, k) /\ k.io = e.io
    BY <2>1, OnShrinks DEF Shrinks, Keeps
  <2>4. ~Owed(k, fd)
    BY <2>1, <2>2, <2>3, Zenon DEF Owed
  <2>5. InSet(k, dec, fd)
    BY <2>4, Zenon DEF InSet, Registered
  <2>6. KnownOf(dec, fd)
    BY <1>7, <1>9, <1>18, <1>22 DEF KnownOf
  <2>7. z = [ev |-> k, back |-> dec]
    BY <1>3, <1>4, <1>22
  <2>8. \A q \in DOMAIN dec.kern : q[2] \notin Regular
    BY <1>2, <1>18 DEF Known
  <2> HIDE DEF z
  <2> QED
    BY <1>13, <1>19, <2>3, <2>5, <2>6, <2>7, <2>8
<1> HIDE DEF z, dec, try, k, s, refused, res
<1>23. nev # {} =>
          \/ res = "OK" /\ tab[fd] \notin Regular
          \/ res = "EEXIST" /\ Key(fd) \in DOMAIN b.kern /\ b.emask[fd] = nev
          \/ res = "EPERM" /\ tab[fd] \in Regular
          \/ /\ res = "ENOSPC" /\ Key(fd) \notin DOMAIN b.kern
             /\ Cardinality(DOMAIN b.kern) >= MaxWatches
  BY EpollCtl, Zenon DEF res
<1> QED
  BY <1>15, <1>16, <1>20, <1>21, <1>22, <1>23

\* A new set, with every descriptor to be registered anew.
LEMMA EpollFork ==
    ASSUME NEW x \in [ev : Good(0), back : EpollBack]
    PROVE  LET z == epoll_fork(x)
           IN  /\ z \in [ev : Good(0), back : EpollBack] /\ Tells(x.ev, z.ev)
               /\ z.back.postfork = {}
               /\ Known(x.back) => Right(z)
<1> DEFINE b == x.back
           m == [fd \in Fd |-> IF x.ev.events[fd] = {} THEN b.emask[fd] ELSE {}]
           d == [b EXCEPT !.kern = <<>>, !.postfork = {}, !.emask = m]
           f == fd_rearm_all(x.ev)
<1>1. b \in EpollBack /\ x.ev \in Good(0)
  OBVIOUS
<1>2. m \in [Fd -> SUBSET (RW \cup EPERM)]
  <2>1. b.emask \in [Fd -> SUBSET (RW \cup EPERM)]
    BY <1>1 DEF EpollBack
  <2> QED
    BY <2>1
<1>3. <<>> \in Kern
  <2>1. DOMAIN <<>> = {} /\ <<>> \in [{} -> KernEntry]
    OBVIOUS
  <2>2. {} \in Keys
    BY FS_EmptySet DEF Keys
  <2> QED
    BY <2>1, <2>2, Zenon DEF Kern
<1>4. epoll_fork(x) = [x EXCEPT !.ev = f, !.back = d]
  <2>1. epoll_fork(x) = [x EXCEPT !.back = d, !.ev = f]
    BY Zenon DEF epoll_fork
  <2> HIDE DEF d, f
  <2> QED
    BY <2>1
<1> HIDE DEF m, b
<1>5. d \in EpollBack
  BY <1>1, <1>2, <1>3 DEF EpollBack
<1>6. f \in Good(0) /\ Tells(x.ev, f) /\ \A fd \in Fd : f.events[fd] = {}
  BY <1>1, FdRearmAll, FollowsTells DEF After
<1>7. d.postfork = {} /\ d.kern = <<>> /\ d.emask = m /\ d.eperms = b.eperms
  BY <1>1 DEF EpollBack
<1> HIDE DEF d, f
<1>8. ASSUME Known(b)
      PROVE  Known(d) /\ \A fd \in Fd : InSet(f, d, fd)
  <2>1. DOMAIN d.kern = {}
    BY <1>7
  <2>2. ASSUME NEW fd \in Fd PROVE KnownOf(d, fd)
    <3>1. m[fd] = EPERM => b.emask[fd] = EPERM
      BY DEF m, EPERM
    <3>2. KnownOf(b, fd)
      BY <1>8 DEF Known
    <3> QED
      BY <1>7, <2>1, <3>1, <3>2, Zenon DEF KnownOf
  <2>3. \A fd \in Fd : InSet(f, d, fd)
    BY <1>6, Zenon DEF InSet, Registered
  <2> QED
    BY <2>1, <2>2, <2>3 DEF Known
<1> QED
  BY <1>4, <1>5, <1>6, <1>7, <1>8 DEF Right, b

\* One turn of fd_reify: a descriptor with the same mask, and without a new
\* start after ev_io_set, is in the set already.
LEMMA EpollReifyStep ==
    ASSUME NEW n \in Nat, NEW m \in Nat, m = n + 1,
           NEW x \in [ev : Good(n), back : EpollBack], Files, NEW fd \in Fd,
           m \in 1 .. Len(x.ev.changes), x.ev.changes[m] = fd,
           Supposed, Opened(x.ev), Right(x)
    PROVE  LET y == anfd_reify(x, fd)
           IN  /\ Right(epoll_modify(y, fd, x.ev.events[fd], y.ev.events[fd]))
               /\ "IOFDSET" \notin x.ev.reify[fd] /\ x.ev.events[fd] = y.ev.events[fd] => Right(y)
<1> DEFINE y == anfd_reify(x, fd)
           nev == y.ev.events[fd]
<1>1. /\ y \in [ev : Good(m), back : EpollBack] /\ y.back = x.back
      /\ y.ev.io = x.ev.io /\ y.ev.head = x.ev.head
      /\ y.ev.events = [x.ev.events EXCEPT ![fd] = Want(x.ev, fd)]
      /\ y.ev.reify = [x.ev.reify EXCEPT ![fd] = {}]
  <2>1. x \in [ev : Good(n), back : EpollBack]
    OBVIOUS
  <2> QED
    BY <2>1, AnfdReify
<1> HIDE DEF y
<1>2. x.ev \in Good(n) /\ y.ev \in Good(m)
  BY <1>1
<1>3. x.ev.events \in [Fd -> SUBSET RW] /\ y.ev.events \in [Fd -> SUBSET RW]
      /\ x.ev.reify \in [Fd -> SUBSET {"IOFDSET", "REIFY"}]
  BY <1>2 DEF Good, Ev
<1>4. \A g \in Fd : Owed(y.ev, g) => Owed(x.ev, g)
  BY <1>1, Zenon DEF Owed, Active
<1>5. ASSUME NEW g \in Fd, g # fd PROVE InSet(y.ev, y.back, g)
  <2>1. y.ev.events[g] = x.ev.events[g] /\ y.ev.reify[g] = x.ev.reify[g]
    BY <1>1, <1>3, <1>5
  <2>2. InSet(x.ev, x.back, g)
    BY DEF Right
  <2> QED
    BY <1>1, <1>4, <2>1, <2>2, Zenon DEF InSet, Registered, Entered
<1>6. nev # {} => tab[fd] # Closed
  <2>1. nev = Want(x.ev, fd)
    BY <1>1, <1>3
  <2> HIDE DEF nev
  <2>2. ASSUME nev # {} PROVE tab[fd] # Closed
    <3>1. PICK w \in ToSet(x.ev.head[fd]) : TRUE
      BY <2>1, <2>2 DEF Want
    <3>2. PICK i \in DOMAIN x.ev.head[fd] : x.ev.head[fd][i] = w
      BY <3>1 DEF ToSet
    <3>3. x.ev.head[fd] \in Seq(Watcher)
      BY <1>2 DEF Good, Ev
    <3>4. w \in Watcher
      BY <3>2, <3>3
    <3>5. x.ev.io[w].fd = fd
      BY <1>2, <3>2 DEF Good, HeadsInv
    <3>6. fd # -1
      BY FdAssumption DEF Fd
    <3> QED
      BY <3>4, <3>5, <3>6, Zenon DEF Opened
  <2> QED
    BY <2>2
<1>7. Right(epoll_modify(y, fd, x.ev.events[fd], nev))
  <2>1. nev \in SUBSET RW /\ y.ev.events[fd] = nev
    BY <1>3
  <2>2. Known(y.back)
    BY <1>1 DEF Right
  <2> HIDE DEF nev
  <2> QED
    BY <1>1, <1>5, <1>6, <2>1, <2>2, EpollModifySets
<1>8. ASSUME "IOFDSET" \notin x.ev.reify[fd], x.ev.events[fd] = y.ev.events[fd]
      PROVE  Right(y)
  <2>1. InSet(x.ev, x.back, fd)
    BY DEF Right
  <2>2. InSet(y.ev, y.back, fd)
    BY <1>1, <1>4, <1>8, <2>1, Zenon DEF InSet, Registered, Entered
  <2>3. \A g \in Fd : InSet(y.ev, y.back, g)
    BY <1>5, <2>2
  <2> QED
    BY <1>1, <2>3, Zenon DEF Right
<1> QED
  BY <1>7, <1>8 DEF y

\* What fd_reify keeps.
Carries(x, d) == /\ d.back.postfork = x.back.postfork
                 /\ Supposed /\ Opened(x.ev) /\ Right(x) => Right(d)

LEMMA EpollReify ==
    ASSUME NEW x0 \in [ev : Good(0), back : EpollBack], Files
    PROVE  LET z == fd_reify(x0, epoll_modify)
           IN  /\ z \in [ev : Good(0), back : EpollBack] /\ Tells(x0.ev, z.ev)
               /\ Carries(x0, z)
<1> DEFINE e == x0.ev
<1> DEFINE s == x0.ev.changes
           L == Len(s)
           op(d, w) == LET oev == d.ev.events[w]
                           y   == anfd_reify(d, w)
                           nev == y.ev.events[w]
                       IN  IF "IOFDSET" \in d.ev.reify[w] \/ oev # nev
                           THEN epoll_modify(y, w, oev, nev) ELSE y
           D(f) == [n \in 0 .. L |-> IF n = 0 THEN x0
                        ELSE CHOOSE z \in {op(v, s[n]) : v \in {f[n - 1]}} : TRUE]
           after == CHOOSE f : f = D(f)
           S == [n \in 0 .. L |-> {d \in [ev : Good(n), back : EpollBack] :
                                    Follows(e, d.ev) /\ Carries(x0, d)}]
           g == [p \in (1 .. L) \X [ev : Ev, back : EpollBack] |-> op(p[2], s[p[1]])]
<1>1. fd_reify(x0, epoll_modify) = [after[L] EXCEPT !.ev.changes = SubSeq(@, L + 1, Len(@))]
  BY Zenon DEF fd_reify, Steps
<1>11. e \in Good(0) /\ e \in Ev /\ e.changes \in Seq(Fd)
  BY DEF Good, Ev
<1>2. /\ L \in Nat /\ L \in 0 .. L /\ \A n \in 0 .. L : n = 0 \/ n \in 1 .. L
      /\ \A n \in 1 .. L : n \in 0 .. L /\ n - 1 \in 0 .. L /\ s[n] \in Fd
  BY <1>11
<1>3. /\ x0 \in S[0] /\ \A n \in 0 .. L : S[n] \subseteq [ev : Ev, back : EpollBack]
      /\ \A n \in 1 .. L : \A d \in S[n - 1] : op(d, s[n]) \in S[n]
  <2>1. ASSUME NEW n \in 1 .. L, NEW x \in S[n - 1]
        PROVE  op(x, s[n]) \in S[n]
    <3> DEFINE m  == n - 1
               fd == s[n]
               y  == anfd_reify(x, fd)
               z  == epoll_modify(y, fd, x.ev.events[fd], y.ev.events[fd])
    <3>1. n \in Nat /\ m \in Nat /\ n = m + 1 /\ n \in 0 .. L /\ m \in 0 .. L
      BY <1>2
    <3>2. /\ x \in [ev : Good(m), back : EpollBack] /\ x.ev \in Good(m) /\ Follows(e, x.ev)
          /\ Carries(x0, x)
      BY <3>1
    <3>3. fd \in Fd /\ n \in 1 .. Len(x.ev.changes) /\ x.ev.changes[n] = fd
      <4>1. Len(x.ev.changes) \in Nat /\ L <= Len(x.ev.changes) /\ x.ev.changes[n] = s[n]
        <5>1. Len(x.ev.changes) \in Nat
          BY <3>2 DEF Good, Ev
        <5>2. e.changes = s /\ L = Len(e.changes)
          OBVIOUS
        <5> HIDE DEF s, L, S, e
        <5> QED
          BY <1>2, <3>2, <5>1, <5>2 DEF Follows
      <4> QED
        BY <1>2, <4>1
    <3>4. \/ op(x, fd) = y /\ "IOFDSET" \notin x.ev.reify[fd] /\ x.ev.events[fd] = y.ev.events[fd]
          \/ op(x, fd) = z
      OBVIOUS
    <3> HIDE DEF s, L, op, S, e, m, fd
    <3>6. /\ y \in [ev : Good(n), back : EpollBack] /\ y.ev \in Good(n) /\ y.back = x.back /\ Follows(x.ev, y.ev)
          /\ y.ev.events = [x.ev.events EXCEPT ![fd] = Want(x.ev, fd)]
      <4>1. /\ y \in [ev : Good(n), back : EpollBack] /\ y.back = x.back
            /\ Follows(x.ev, y.ev) /\ y.ev.io = x.ev.io /\ y.ev.head = x.ev.head
            /\ y.ev.events = [x.ev.events EXCEPT ![fd] = Want(x.ev, fd)]
            /\ y.ev.reify = [x.ev.reify EXCEPT ![fd] = {}]
        BY <3>1, <3>2, <3>3, AnfdReify
      <4> HIDE DEF y
      <4> QED
        BY <4>1
    <3>7. x.ev.events \in [Fd -> SUBSET RW] /\ y.ev.events \in [Fd -> SUBSET RW]
      BY <3>2, <3>6 DEF Good, Ev
    <3> DEFINE w == Want(x.ev, fd)
    <3>8. y.ev.events[fd] = w /\ w \in SUBSET RW
      BY <3>3, <3>6, <3>7
    <3>5. ASSUME Supposed, Opened(e), Right(x0)
          PROVE  /\ Right(z)
                 /\ "IOFDSET" \notin x.ev.reify[fd] /\ x.ev.events[fd] = y.ev.events[fd] => Right(y)
      <4>1. Right(x)
        BY <3>2, <3>5 DEF Carries, e
      <4>2. Opened(x.ev)
        BY <3>2, <3>5, Zenon DEF Opened, Follows, Keeps
      <4> HIDE DEF z, y
      <4> QED
        BY <3>1, <3>2, <3>3, <3>5, <4>1, <4>2, EpollReifyStep DEF z, y
    <3> HIDE DEF y, w
    <3>9. /\ z \in [ev : Good(n), back : EpollBack] /\ Follows(y.ev, z.ev)
          /\ z.back.postfork = y.back.postfork
      BY <3>1, <3>3, <3>6, <3>8, EpollModify
    <3> HIDE DEF z
    <3>10. Carries(x0, op(x, fd))
      BY <3>2, <3>4, <3>5, <3>6, <3>9, Zenon DEF Carries, e
    <3>11. e \in Ev /\ x.ev \in Ev /\ y.ev \in Ev /\ z.ev \in Ev
      BY <1>11, <3>2, <3>6, <3>9 DEF Good
    <3>12. Follows(e, y.ev)
      BY <3>2, <3>6, <3>11, FollowsOn
    <3>13. Follows(e, z.ev)
      BY <3>9, <3>11, <3>12, FollowsOn
    <3>14. S[n] = {d \in [ev : Good(n), back : EpollBack] : Follows(e, d.ev) /\ Carries(x0, d)}
      BY <3>1 DEF S
    <3> QED
      BY <3>4, <3>6, <3>9, <3>10, <3>12, <3>13, <3>14 DEF fd
  <2> HIDE DEF op
  <2>2. \A n \in 0 .. L : S[n] \subseteq [ev : Ev, back : EpollBack]
    BY DEF Good
  <2>3. x0 \in S[0]
    BY <1>2, <1>11, FollowsItself DEF Carries
  <2> HIDE DEF S
  <2> QED
    BY <2>1, <2>2, <2>3
<1>12. L \in 0 .. L =>
          S[L] = {d \in [ev : Good(L), back : EpollBack] : Follows(e, d.ev) /\ Carries(x0, d)}
  OBVIOUS
<1> HIDE DEF s, L, op, S, e
<1>4. \A n \in 1 .. L : \A y \in S[n - 1] : g[<<n, y>>] = op(y, s[n])
  BY <1>2, <1>3
<1> HIDE DEF g
<1>5. Stays(L, x0, S, g)
  BY <1>2, <1>3, <1>4 DEF Stays
<1> HIDE DEF S
<1>6. PICK f : LoopRun(f, L, x0, g) /\ \A n \in 0 .. L : f[n] \in S[n]
  BY <1>2, <1>5, LoopRuns DEF RunStays
<1>7. f = D(f)
  <2>1. \A n \in 1 .. L : f[n] = g[<<n, f[n - 1]>>] /\ f[n - 1] \in S[n - 1]
    BY <1>2, <1>6 DEF LoopRun
  <2>2. \A n \in 1 .. L : f[n] = op(f[n - 1], s[n])
    BY <1>4, <2>1
  <2>3. \A n \in 1 .. L : f[n] = CHOOSE z \in {op(v, s[n]) : v \in {f[n - 1]}} : TRUE
    BY <2>2
  <2>4. \A n \in 0 .. L : f[n] = D(f)[n]
    BY <1>2, <1>6, <2>3 DEF LoopRun
  <2> QED
    BY <1>6, <2>4 DEF LoopRun
<1>8. after = D(after)
  BY <1>7
<1> HIDE DEF after
<1>9. after[0] = x0 /\ \A n \in 1 .. L : after[n] = op(after[n - 1], s[n])
  BY <1>2, <1>8
<1>10. after[L] \in S[L]
  <2>1. \A n \in 1 .. L : after[n - 1] \in S[n - 1] => after[n] = g[<<n, after[n - 1]>>]
    BY <1>4, <1>9
  <2> QED
    BY <1>2, <1>5, <1>9, <2>1, LoopStays
<1> DEFINE x == after[L]
           d == [x.ev EXCEPT !.changes = SubSeq(@, L + 1, Len(@))]
<1>13. x \in [ev : Good(L), back : EpollBack] /\ Follows(e, x.ev) /\ Carries(x0, x)
  BY <1>2, <1>10, <1>12
<1> HIDE DEF x
<1>14. x.ev \in Good(L) /\ x.back \in EpollBack
  BY <1>13
<1>15. /\ d \in Good(0) /\ Tells(x.ev, d)
       /\ d.io = x.ev.io /\ d.head = x.ev.head /\ d.events = x.ev.events
       /\ d.reify = x.ev.reify
  BY <1>2, <1>14, ReifyEnd
<1>16. Tells(e, d)
  BY <1>13, <1>15, FollowsTells, TellsOn
<1>17. [x EXCEPT !.ev.changes = SubSeq(@, L + 1, Len(@))] = [x EXCEPT !.ev = d]
  BY <1>13 DEF Good, Ev
<1> HIDE DEF d
<1>18. [x EXCEPT !.ev = d] = [ev |-> d, back |-> x.back]
  BY <1>13
<1>19. ASSUME Right(x) PROVE Right([ev |-> d, back |-> x.back])
  <2>1. Shrinks(x.ev, d)
    BY <1>15, Zenon DEF Shrinks, Keeps, Active
  <2>2. \A fd \in Fd : InSet(d, x.back, fd)
    BY <1>19, <2>1, InSetShrinks DEF Right
  <2> QED
    BY <1>19, <2>2 DEF Right
<1>20. Carries(x0, [ev |-> d, back |-> x.back])
  BY <1>13, <1>19 DEF Carries
<1> QED
  BY <1>1, <1>14, <1>15, <1>16, <1>17, <1>18, <1>20 DEF x, e

-------------------------------------------------------------------------------
(* The result of epoll_wait *)

\* What the loop over the events of epoll_wait, and the one over the
\* descriptors that epoll refuses, make of libev and of the back end.
EpollAfter(e) == [ev : On(0, e), back : EpollBack]

\* Of these, the states in which the registered descriptors still are in the set.
EpollKept(x) == {z \in EpollAfter(x.ev) : Sound(x) => Sound(z)}

\* Nothing that matters to the registered descriptors is different.
LEMMA SoundSame ==
    ASSUME NEW x, NEW e, NEW d, Sound(x), Shrinks(x.ev, e),
           d.kern = x.back.kern, d.egen = x.back.egen, d.emask = x.back.emask,
           d.eperms = x.back.eperms, d.postfork = x.back.postfork
    PROVE  Sound([ev |-> e, back |-> d])
<1>1. \A fd : SameFor(x.back, d, fd)
  BY Zenon DEF SameFor
<1>2. Known(d)
  <2>1. \A fd \in Fd : KnownOf(d, fd)
    BY <1>1, SameForBoth DEF Sound, Known
  <2> QED
    BY <2>1 DEF Sound, Known
<1>3. ASSUME x.back.postfork = {}, NEW fd \in Fd PROVE InSet(e, d, fd)
  <2>1. InSet(x.ev, d, fd)
    BY <1>1, <1>3, SameForBoth DEF Sound
  <2> QED
    BY <2>1, InSetShrinks
<1> QED
  BY <1>2, <1>3 DEF Sound

\* Sound says the same of the next state.
LEMMA SoundNext ==
    ASSUME NEW STATE z, c' = z, tab' = tab, Sound(z)
    PROVE  Sound(c)'
BY Zenon DEF Sound, Known, KnownOf, InSet, Registered, Owed, Entered, Refused, Key

\* The kernel tells of events a watcher can wait for.
LEMMA LevelIs ==
    ASSUME Files, NEW f \in File \cup {Closed}
    PROVE  Level(f) \in SUBSET RW
<1>1. f \in File => ready[f] \in SUBSET RW \/ ready[f] = {"HUP"}
  BY FdAssumption DEF Files, RW
<1>2. f \in File => Levels(ready[f]) \in SUBSET RW
  BY <1>1 DEF Levels
<1> QED
  BY <1>2 DEF Level

LEMMA EpollEvent ==
    ASSUME NEW x \in [ev : Good(0), back : EpollBack], NEW r \in EpollResult, Files
    PROVE  epoll_event(x, r) \in EpollKept(x)
<1> DEFINE b == x.back
           want == x.ev.events[r.fd]
           t == fd_event(x.ev, r.fd, r.got)
           told == [x EXCEPT !.ev = t]
           gone == Restrict(b.kern, DOMAIN b.kern \ {Key(r.fd)})
           less == [b.kern EXCEPT ![Key(r.fd)].mask = want]
           kern == IF want = {} THEN gone ELSE less
           m == [b.emask EXCEPT ![r.fd] = want]
           d1 == [b EXCEPT !.postfork = {2}]
           d2 == [b EXCEPT !.postfork = {2}, !.emask = m]
           d3 == [b EXCEPT !.emask = m, !.kern = kern]
           z == epoll_event(x, r)
<1>1. /\ b \in EpollBack /\ b.emask \in [Fd -> SUBSET (RW \cup EPERM)] /\ b.kern \in Kern
      /\ r.fd \in Fd /\ r.got \in SUBSET RW /\ x.ev \in Good(0) /\ want \in SUBSET RW
  <2>1. b \in EpollBack /\ x.ev \in Good(0)
    OBVIOUS
  <2>2. b.emask \in [Fd -> SUBSET (RW \cup EPERM)] /\ b.kern \in Kern
    BY <2>1 DEF EpollBack
  <2>3. r.fd \in Fd /\ r.got \in SUBSET RW
    BY DEF EpollResult
  <2>4. x.ev.events \in [Fd -> SUBSET RW]
    BY <2>1 DEF Good, Ev
  <2> QED
    BY <2>1, <2>2, <2>3, <2>4
<1>2. t \in On(0, x.ev)
  <2>1. r.got \in SUBSET Revents
    BY <1>1 DEF Revents
  <2> QED
    BY <1>1, <2>1, FdEvent
<1>3. x.ev \in On(0, x.ev)
  BY <1>1, OnItself
<1>4. kern \in Kern
  <2>1. gone \in Kern
    BY <1>1, KernRestrict
  <2>2. DOMAIN b.kern \in Keys /\ b.kern \in [DOMAIN b.kern -> KernEntry]
    BY <1>1, KernIs
  <2> DEFINE D == DOMAIN b.kern
  <2>3. less \in [D -> KernEntry]
    BY <1>1, <2>2 DEF KernEntry
  <2>4. less \in Kern
    BY <2>2, <2>3, Zenon DEF Kern
  <2> QED
    BY <2>1, <2>4
<1>5. m \in [Fd -> SUBSET (RW \cup EPERM)]
  BY <1>1
<1>6. \/ z = [x EXCEPT !.back = d1]
      \/ z = told
      \/ z = [x EXCEPT !.back = d2] /\ epoll_mod(b, r.fd) # "OK"
      \/ z = [told EXCEPT !.back = d3] /\ epoll_mod(b, r.fd) = "OK"
  <2>1. [[x EXCEPT !.back.postfork = {2}] EXCEPT !.back.emask[r.fd] = want] = [x EXCEPT !.back = d2]
    BY <1>1 DEF EpollBack
  <2>2. [b EXCEPT !.emask[r.fd] = want, !.kern = kern] = d3
    BY <1>1 DEF EpollBack
  <2>3. [x EXCEPT !.back.postfork = {2}] = [x EXCEPT !.back = d1]
    OBVIOUS
  <2> HIDE DEF d1, d2, d3
  <2>4. z = IF spurious(b, r) THEN [x EXCEPT !.back.postfork = {2}]
            ELSE IF r.got \subseteq want THEN told
            ELSE IF ~(epoll_mod(b, r.fd) = "OK")
                 THEN [[x EXCEPT !.back.postfork = {2}] EXCEPT !.back.emask[r.fd] = want]
            ELSE [told EXCEPT !.back = [b EXCEPT !.emask[r.fd] = want, !.kern = kern]]
    BY Zenon DEF epoll_event
  <2> HIDE DEF z, told, kern, want
  <2> QED
    BY <2>1, <2>2, <2>3, <2>4
<1>9. /\ d1.kern = b.kern /\ d1.egen = b.egen /\ d1.emask = b.emask /\ d1.eperms = b.eperms
      /\ d1.postfork = {2}
      /\ d2.kern = b.kern /\ d2.egen = b.egen /\ d2.emask = m /\ d2.eperms = b.eperms
      /\ d2.postfork = {2}
      /\ d3.kern = kern /\ d3.egen = b.egen /\ d3.emask = m /\ d3.eperms = b.eperms
      /\ d3.postfork = b.postfork
  <2> HIDE DEF m, kern, b
  <2> QED
    BY <1>1 DEF EpollBack
<1>10. /\ m[r.fd] = want /\ want # EPERM /\ \A g \in Fd : g # r.fd => m[g] = b.emask[g]
  <2>1. m[r.fd] = want /\ \A g \in Fd : g # r.fd => m[g] = b.emask[g]
    BY <1>1
  <2>2. want # EPERM
    BY <1>1 DEF RW, EPERM
  <2> QED
    BY <2>1, <2>2
<1>11. ASSUME Sound(x) PROVE Sound([x EXCEPT !.back = d1])
  <2>1. Known(b)
    BY <1>11 DEF Sound
  <2> HIDE DEF d1, b
  <2>2. \A g : SameFor(b, d1, g)
    BY <1>9, Zenon DEF SameFor
  <2>3. \A g \in Fd : KnownOf(d1, g)
    BY <2>1, <2>2, SameForBoth DEF Known
  <2>4. Known(d1)
    BY <1>9, <2>1, <2>3 DEF Known
  <2> QED
    BY <1>9, <2>4 DEF Sound
<1>12. ASSUME Sound(x) PROVE Sound(told)
  <2>1. Shrinks(x.ev, t)
    BY <1>2, OnShrinks
  <2> HIDE DEF t
  <2>2. told = [ev |-> t, back |-> x.back]
    OBVIOUS
  <2> QED
    BY <1>12, <2>1, <2>2, SoundSame
<1>13. ASSUME Sound(x), epoll_mod(b, r.fd) # "OK" PROVE Sound([x EXCEPT !.back = d2])
  <2>1. Known(b)
    BY <1>13 DEF Sound
  <2> HIDE DEF d2, b, m, want
  <2>2. Key(r.fd) \notin DOMAIN b.kern
    <3>1. DOMAIN b.kern \subseteq Fd \X File
      BY <1>1, KernIs DEF Keys
    <3>2. Key(r.fd) \in DOMAIN b.kern => tab[r.fd] \in File /\ tab[r.fd] \notin Regular
      BY <2>1, <3>1 DEF Known, Key
    <3> QED
      BY <1>13, <3>2, FdAssumption DEF epoll_mod
  <2>3. KnownOf(d2, r.fd)
    BY <1>9, <1>10, <2>2 DEF KnownOf
  <2>4. ASSUME NEW g \in Fd, g # r.fd PROVE SameFor(b, d2, g)
    BY <1>9, <1>10, <2>4, Zenon DEF SameFor
  <2>5. \A g \in Fd : KnownOf(d2, g)
    BY <2>1, <2>3, <2>4, SameForBoth DEF Known
  <2>6. Known(d2)
    BY <1>9, <2>1, <2>5 DEF Known
  <2> QED
    BY <1>9, <2>6 DEF Sound
<1>14. ASSUME Sound(x), epoll_mod(b, r.fd) = "OK" PROVE Sound([told EXCEPT !.back = d3])
  <2>1. Known(b) /\ (b.postfork = {} => \A g \in Fd : InSet(x.ev, b, g))
    BY <1>14 DEF Sound
  <2>2. Shrinks(x.ev, t)
    BY <1>2, OnShrinks
  <2>3. [told EXCEPT !.back = d3] = [ev |-> t, back |-> d3]
    <3> HIDE DEF t, d3
    <3>1. told = [ev |-> t, back |-> x.back]
      OBVIOUS
    <3> HIDE DEF told
    <3> QED
      BY <3>1
  <2> HIDE DEF d3, b, m, t
  <2>4. Key(r.fd) \in DOMAIN b.kern
    BY <1>14 DEF epoll_mod
  <2>5. b.kern[Key(r.fd)] = [mask |-> b.kern[Key(r.fd)].mask, egen |-> b.egen[r.fd]]
    <3>1. b.kern[Key(r.fd)] \in KernEntry
      BY <1>1, <2>4, KernIs
    <3>2. b.kern[Key(r.fd)].egen = b.egen[r.fd]
      BY <1>1, <2>1, <2>4 DEF Known, KnownOf
    <3> QED
      BY <3>1, <3>2 DEF KernEntry
  <2>6. /\ DOMAIN kern \subseteq DOMAIN b.kern
        /\ \A q \in DOMAIN b.kern : q # Key(r.fd) => q \in DOMAIN kern /\ kern[q] = b.kern[q]
        /\ Key(r.fd) \in DOMAIN kern =>
             want # {} /\ kern[Key(r.fd)] = [mask |-> want, egen |-> b.egen[r.fd]]
        /\ want # {} => Key(r.fd) \in DOMAIN kern
    <3>1. CASE want = {}
      <4>1. kern = [q \in DOMAIN b.kern \ {Key(r.fd)} |-> b.kern[q]]
        BY <3>1 DEF Restrict
      <4> HIDE DEF kern, want
      <4> QED
        BY <3>1, <4>1
    <3>2. CASE want # {}
      <4> HIDE DEF want
      <4>1. kern = [b.kern EXCEPT ![Key(r.fd)].mask = want]
        BY <3>2
      <4>2. DOMAIN kern = DOMAIN b.kern
            /\ \A q \in DOMAIN b.kern : q # Key(r.fd) => kern[q] = b.kern[q]
        BY <4>1
      <4>3. kern[Key(r.fd)] = [b.kern[Key(r.fd)] EXCEPT !.mask = want]
        BY <2>4, <4>1
      <4> HIDE DEF kern
      <4>4. kern[Key(r.fd)] = [mask |-> want, egen |-> b.egen[r.fd]]
        BY <2>5, <4>3
      <4> QED
        BY <2>4, <3>2, <4>2, <4>4
    <3> QED
      BY <3>1, <3>2
  <2> HIDE DEF kern, want
  <2>7. KnownOf(d3, r.fd)
    <3>1. Key(r.fd) \in DOMAIN d3.kern =>
             d3.kern[Key(r.fd)].egen = d3.egen[r.fd] /\ d3.kern[Key(r.fd)].mask = d3.emask[r.fd]
      BY <1>9, <1>10, <2>6
    <3>2. d3.emask[r.fd] # EPERM
      BY <1>9, <1>10
    <3> QED
      BY <3>1, <3>2 DEF KnownOf
  <2>8. InSet(x.ev, d3, r.fd)
    <3>1. want # {} => Entered(x.ev, d3, r.fd)
      BY <1>9, <2>6 DEF Entered, want
    <3> QED
      BY <3>1, Zenon DEF InSet, Registered, want
  <2>9. \A g : g # r.fd => Key(g) # Key(r.fd)
    BY OtherKeys
  <2>10. ASSUME NEW g \in Fd, g # r.fd PROVE SameFor(b, d3, g)
    <3>1. Key(g) \in DOMAIN kern <=> Key(g) \in DOMAIN b.kern
      BY <2>6, <2>9, <2>10
    <3>2. Key(g) \in DOMAIN b.kern => kern[Key(g)] = b.kern[Key(g)]
      BY <2>6, <2>9, <2>10
    <3> QED
      BY <1>9, <1>10, <2>10, <3>1, <3>2, Zenon DEF SameFor
  <2>11. Known(d3)
    <3>1. \A g \in Fd : KnownOf(d3, g)
      BY <2>1, <2>7, <2>10, SameForBoth DEF Known
    <3> QED
      BY <1>9, <2>1, <2>6, <3>1 DEF Known
  <2>12. ASSUME d3.postfork = {}, NEW g \in Fd PROVE InSet(t, d3, g)
    <3>1. InSet(x.ev, d3, g)
      BY <1>9, <2>1, <2>8, <2>10, <2>12, SameForBoth
    <3> QED
      BY <2>2, <3>1, InSetShrinks
  <2> QED
    BY <2>3, <2>11, <2>12 DEF Sound
<1>15. Sound(x) => Sound(z)
  <2> HIDE DEF b, z, told, d1, d2, d3
  <2> QED
    BY <1>6, <1>11, <1>12, <1>13, <1>14
<1> HIDE DEF b, z, want, kern, m, t
<1>7. d1 \in EpollBack /\ d2 \in EpollBack /\ d3 \in EpollBack
  <2>1. {2} \in SUBSET {1, 2}
    OBVIOUS
  <2> QED
    BY <1>1, <1>4, <1>5, <2>1 DEF EpollBack
<1> HIDE DEF d1, d2, d3
<1>8. z \in EpollAfter(x.ev)
  BY <1>1, <1>2, <1>3, <1>6, <1>7 DEF EpollAfter, b
<1> QED
  BY <1>8, <1>15 DEF z, EpollKept

\* The events of epoll_wait.
LEMMA EpollEvents ==
    ASSUME NEW x0 \in [ev : Good(0), back : EpollBack], NEW res \in Seq(EpollResult), Files
    PROVE  Steps(epoll_event, x0, res) \in EpollKept(x0)
<1> DEFINE s == res
           L == Len(s)
           op(d, w) == epoll_event(d, w)
           D(f) == [n \in 0 .. L |-> IF n = 0 THEN x0
                        ELSE CHOOSE z \in {op(v, s[n]) : v \in {f[n - 1]}} : TRUE]
           after == CHOOSE f : f = D(f)
           S == [n \in 0 .. L |-> EpollKept(x0)]
           g == [p \in (1 .. L) \X EpollKept(x0) |-> op(p[2], s[p[1]])]
<1>1. Steps(epoll_event, x0, res) = after[L]
  BY Zenon DEF Steps
<1>2. /\ L \in Nat /\ L \in 0 .. L /\ \A n \in 0 .. L : n = 0 \/ n \in 1 .. L
      /\ \A n \in 1 .. L : n \in 0 .. L /\ n - 1 \in 0 .. L /\ s[n] \in EpollResult
  OBVIOUS
<1>3. /\ x0 \in S[0] /\ \A n \in 0 .. L : S[n] = EpollKept(x0)
      /\ \A n \in 1 .. L : \A d \in S[n - 1] : op(d, s[n]) \in S[n]
  <2>1. ASSUME NEW d \in EpollKept(x0), NEW w \in EpollResult
        PROVE  op(d, w) \in EpollKept(x0)
    <3>1. /\ d.ev \in On(0, x0.ev) /\ d.ev \in Good(0) /\ d.back \in EpollBack /\ x0.ev \in Good(0)
          /\ d \in [ev : Good(0), back : EpollBack]
      BY DEF On, After, EpollAfter, EpollKept
    <3>2. op(d, w) \in EpollKept(d)
      BY <3>1, EpollEvent
    <3> HIDE DEF op
    <3>3. op(d, w).ev \in On(0, x0.ev)
      BY <3>1, <3>2, OnOn DEF EpollAfter, EpollKept
    <3> QED
      BY <3>2, <3>3 DEF EpollAfter, EpollKept
  <2> HIDE DEF s, L, op
  <2>2. x0 \in S[0] /\ \A n \in 0 .. L : S[n] = EpollKept(x0)
    <3>1. x0.ev \in Good(0) /\ x0.ev \in On(0, x0.ev)
      BY OnItself
    <3>2. x0 \in EpollKept(x0)
      BY <3>1 DEF EpollAfter, EpollKept
    <3> QED
      BY <1>2, <3>2
  <2> HIDE DEF S
  <2> QED
    BY <1>2, <2>1, <2>2
<1> HIDE DEF s, L, op, S
<1>4. \A n \in 1 .. L : \A y \in S[n - 1] : g[<<n, y>>] = op(y, s[n])
  BY <1>2, <1>3
<1> HIDE DEF g
<1>5. Stays(L, x0, S, g)
  BY <1>2, <1>3, <1>4 DEF Stays
<1> HIDE DEF S
<1>6. PICK f : LoopRun(f, L, x0, g) /\ \A n \in 0 .. L : f[n] \in S[n]
  BY <1>2, <1>5, LoopRuns DEF RunStays
<1>7. f = D(f)
  <2>1. \A n \in 1 .. L : f[n] = g[<<n, f[n - 1]>>] /\ f[n - 1] \in S[n - 1]
    BY <1>2, <1>6 DEF LoopRun
  <2>2. \A n \in 1 .. L : f[n] = op(f[n - 1], s[n])
    BY <1>4, <2>1
  <2>3. \A n \in 1 .. L : f[n] = CHOOSE z \in {op(v, s[n]) : v \in {f[n - 1]}} : TRUE
    BY <2>2
  <2>4. \A n \in 0 .. L : f[n] = D(f)[n]
    BY <1>2, <1>6, <2>3 DEF LoopRun
  <2> QED
    BY <1>6, <2>4 DEF LoopRun
<1>8. after = D(after)
  BY <1>7
<1> HIDE DEF after
<1>9. after[0] = x0 /\ \A n \in 1 .. L : after[n] = op(after[n - 1], s[n])
  BY <1>2, <1>8
<1>10. after[L] \in S[L]
  <2>1. \A n \in 1 .. L : after[n - 1] \in S[n - 1] => after[n] = g[<<n, after[n - 1]>>]
    BY <1>4, <1>9
  <2> QED
    BY <1>2, <1>5, <1>9, <2>1, LoopStays
<1> QED
  BY <1>1, <1>2, <1>3, <1>10

\* The descriptors that epoll refuses: the list gets shorter behind the loop.
LEMMA EpollEperm ==
    ASSUME NEW x \in [ev : Good(0), back : EpollBack], NEW i \in 1 .. Len(x.back.eperms)
    PROVE  LET z == epoll_eperm(x, i)
           IN  z \in EpollKept(x) /\ Len(z.back.eperms) >= Len(x.back.eperms) - 1
<1> DEFINE p == x.back.eperms
           fd == p[i]
           n == Len(p)
           b == x.back
           q == [p EXCEPT ![i] = p[n]]
           t == fd_event(x.ev, fd, x.ev.events[fd])
           m == [b.emask EXCEPT ![fd] = {}]
           d == [b EXCEPT !.eperms = Front(q), !.emask = m]
           z == epoll_eperm(x, i)
<1>1. b \in EpollBack /\ p \in Seq(Fd) /\ b.emask \in [Fd -> SUBSET (RW \cup EPERM)] /\ x.ev \in Good(0)
  <2>1. b \in EpollBack /\ x.ev \in Good(0)
    OBVIOUS
  <2> QED
    BY <2>1 DEF EpollBack
<1>2. n \in Nat /\ n >= 1 /\ fd \in Fd /\ n \in 1 .. n /\ i \in 1 .. n
  <2>1. n \in Nat
    BY <1>1
  <2> HIDE DEF b
  <2> QED
    BY <1>1, <2>1
<1>3. Front(q) \in Seq(Fd) /\ Len(Front(q)) = n - 1
  <2>1. p[n] \in Fd
    BY <1>1, <1>2
  <2>2. q \in Seq(Fd) /\ Len(q) = n
    BY <1>1, <2>1
  <2> HIDE DEF q
  <2>3. Front(q) = SubSeq(q, 1, n - 1)
    BY <2>2 DEF Front
  <2> QED
    BY <1>2, <2>2, <2>3
<1>4. m \in [Fd -> SUBSET (RW \cup EPERM)]
  BY <1>1, <1>2
<1>5. t \in On(0, x.ev)
  <2>1. x.ev.events[fd] \in SUBSET RW
    BY <1>1, <1>2 DEF Good, Ev
  <2>2. x.ev.events[fd] \in SUBSET Revents
    BY <2>1 DEF Revents
  <2> QED
    BY <1>1, <1>2, <2>2, FdEvent
<1>6. \/ z = [x EXCEPT !.ev = t]
      \/ z = [x EXCEPT !.back = d] /\ (b.emask[fd] # EPERM \/ x.ev.events[fd] = {})
  <2>1. [x EXCEPT !.back.eperms = Front([@ EXCEPT ![i] = p[n]]), !.back.emask[fd] = {}] = [x EXCEPT !.back = d]
    BY <1>1 DEF EpollBack
  <2> HIDE DEF d
  <2> QED
    BY <2>1 DEF epoll_eperm
<1>12. m[fd] = {} /\ \A g \in Fd : g # fd => m[g] = b.emask[g]
  BY <1>1, <1>2
<1>13. /\ d.kern = b.kern /\ d.egen = b.egen /\ d.emask = m /\ d.eperms = Front(q)
       /\ d.postfork = b.postfork
  <2> HIDE DEF m, q
  <2> QED
    BY <1>1 DEF EpollBack
<1>14. ASSUME NEW g \in Fd, g # fd, Contains(p, g) PROVE Contains(Front(q), g)
  <2>1. PICK j \in 1 .. n : p[j] = g
    BY <1>14, Zenon DEF Contains
  <2>2. j # i
    BY <1>14, <2>1
  <2>3. \A v \in 1 .. n - 1 : Front(q)[v] = q[v]
    <3>1. p[n] \in Fd
      BY <1>1, <1>2
    <3>2. q \in Seq(Fd) /\ Len(q) = n
      BY <1>1, <3>1
    <3> HIDE DEF q
    <3> QED
      BY <1>2, <3>2 DEF Front
  <2>4. q[i] = p[n] /\ \A v \in 1 .. n : v # i => q[v] = p[v]
    BY <1>1, <1>2
  <2> HIDE DEF q, p
  <2>5. CASE j = n
    <3>1. i \in 1 .. n - 1
      <4>1. i # n /\ i \in 1 .. n /\ n \in Nat
        BY <1>2, <2>2, <2>5
      <4> HIDE DEF n
      <4> QED
        BY <4>1
    <3>2. Front(q)[i] = g
      BY <2>1, <2>3, <2>4, <2>5, <3>1
    <3>3. i \in 1 .. Len(Front(q))
      BY <1>3, <3>1
    <3> HIDE DEF n
    <3> QED
      BY <3>2, <3>3, Zenon DEF Contains
  <2>6. CASE j # n
    <3>1. j \in 1 .. n - 1
      <4>1. j # n /\ j \in 1 .. n /\ n \in Nat
        BY <1>2, <2>1, <2>6
      <4> HIDE DEF n
      <4> QED
        BY <4>1
    <3>2. Front(q)[j] = g
      BY <2>1, <2>2, <2>3, <2>4, <3>1
    <3>3. j \in 1 .. Len(Front(q))
      BY <1>3, <3>1
    <3> HIDE DEF n
    <3> QED
      BY <3>2, <3>3, Zenon DEF Contains
  <2> QED
    BY <2>5, <2>6
<1>15. ASSUME Sound(x) PROVE Sound([x EXCEPT !.ev = t])
  <2>1. Shrinks(x.ev, t)
    BY <1>5, OnShrinks
  <2> HIDE DEF t
  <2>2. [x EXCEPT !.ev = t] = [ev |-> t, back |-> x.back]
    OBVIOUS
  <2> QED
    BY <1>15, <2>1, <2>2, SoundSame
<1>16. ASSUME Sound(x), b.emask[fd] # EPERM \/ x.ev.events[fd] = {}
       PROVE  Sound([x EXCEPT !.back = d])
  <2>1. Known(b) /\ (b.postfork = {} => \A g \in Fd : InSet(x.ev, b, g))
    BY <1>16 DEF Sound
  <2>2. [x EXCEPT !.back = d] = [ev |-> x.ev, back |-> d]
    <3> HIDE DEF d
    <3> QED
      OBVIOUS
  <2> HIDE DEF b, d, m, q, fd, p
  <2>3. ASSUME NEW g \in Fd, g # fd PROVE SameFor(b, d, g)
    <3>1. Contains(b.eperms, g) => Contains(d.eperms, g)
      BY <1>13, <1>14, <2>3 DEF p, b
    <3> QED
      BY <1>12, <1>13, <2>3, <3>1, Zenon DEF SameFor
  <2>4. KnownOf(b, fd)
    BY <1>2, <2>1 DEF Known
  <2>5. KnownOf(d, fd)
    <3>1. {} # EPERM
      BY DEF EPERM
    <3> QED
      BY <1>12, <1>13, <2>4, <3>1, Zenon DEF KnownOf
  <2>6. ASSUME InSet(x.ev, b, fd) PROVE InSet(x.ev, d, fd)
    BY <1>13, <1>16, <2>6, Zenon DEF InSet, Registered, Entered, Refused
  <2>7. Known(d)
    <3>1. \A g \in Fd : KnownOf(d, g)
      BY <2>1, <2>3, <2>5, SameForBoth DEF Known
    <3> QED
      BY <1>13, <2>1, <3>1 DEF Known
  <2>8. ASSUME d.postfork = {}, NEW g \in Fd PROVE InSet(x.ev, d, g)
    BY <1>13, <2>1, <2>3, <2>6, <2>8, SameForBoth
  <2> QED
    BY <2>2, <2>7, <2>8 DEF Sound
<1>17. Sound(x) => Sound(z)
  <2> HIDE DEF z, t, d
  <2> QED
    BY <1>6, <1>15, <1>16
<1> HIDE DEF z, m, t, q
<1>7. d \in EpollBack /\ d.eperms = Front(q)
  BY <1>1, <1>3, <1>4 DEF EpollBack
<1>8. x.ev \in On(0, x.ev)
  BY <1>1, OnItself
<1> HIDE DEF d
<1>9. z \in EpollAfter(x.ev)
  BY <1>1, <1>5, <1>6, <1>7, <1>8 DEF EpollAfter
<1>10. z.back.eperms = p \/ z.back.eperms = Front(q)
  BY <1>6, <1>7
<1>11. Len(z.back.eperms) >= n - 1
  BY <1>2, <1>3, <1>10
<1> QED
  BY <1>9, <1>11, <1>17 DEF z, EpollKept

LEMMA EpollEperms ==
    ASSUME NEW x0 \in [ev : Good(0), back : EpollBack], NEW len, len = Len(x0.back.eperms)
    PROVE  Steps(epoll_eperm, x0, [i \in 1 .. len |-> len + 1 - i]) \in EpollKept(x0)
<1>11. len \in Nat
  <2>1. x0.back.eperms \in Seq(Fd)
    BY DEF EpollBack
  <2> QED
    BY <2>1
<1> DEFINE s == [i \in 1 .. len |-> len + 1 - i]
           L == Len(s)
           op(d, w) == epoll_eperm(d, w)
           D(f) == [n \in 0 .. L |-> IF n = 0 THEN x0
                        ELSE CHOOSE z \in {op(v, s[n]) : v \in {f[n - 1]}} : TRUE]
           after == CHOOSE f : f = D(f)
           S == [n \in 0 .. L |-> {d \in EpollKept(x0) : len - n <= Len(d.back.eperms)}]
           g == [p \in (1 .. L) \X EpollKept(x0) |-> op(p[2], s[p[1]])]
<1>1. Steps(epoll_eperm, x0, [i \in 1 .. len |-> len + 1 - i]) = after[L]
  BY Zenon DEF Steps
<1>2. /\ L \in Nat /\ L \in 0 .. L /\ \A n \in 0 .. L : n = 0 \/ n \in 1 .. L
      /\ \A n \in 1 .. L : n \in 0 .. L /\ n - 1 \in 0 .. L /\ s[n] \in 1 .. len
  BY <1>11
<1>3. /\ x0 \in S[0] /\ \A n \in 0 .. L : S[n] \subseteq EpollKept(x0)
      /\ \A n \in 1 .. L : \A d \in S[n - 1] : op(d, s[n]) \in S[n]
  <2>1. ASSUME NEW n \in 1 .. L, NEW d \in S[n - 1]
        PROVE  op(d, s[n]) \in S[n]
    <3> DEFINE i == s[n]
               z == op(d, i)
               k == Len(d.back.eperms)
    <3>1. n \in Nat /\ n - 1 \in 0 .. L /\ n \in 0 .. L /\ L = len /\ i = len + 1 - n
      BY <1>11, <1>2
    <3>2. d \in EpollKept(x0) /\ len - (n - 1) <= k
      BY <3>1
    <3>3. S[n] = {y \in EpollKept(x0) : len - n <= Len(y.back.eperms)}
      BY <3>1
    <3> HIDE DEF s, L, S
    <3>4. /\ d.ev \in On(0, x0.ev) /\ d.ev \in Good(0) /\ d.back \in EpollBack /\ x0.ev \in Good(0)
          /\ d \in [ev : Good(0), back : EpollBack]
      BY <3>2 DEF On, After, EpollAfter, EpollKept
    <3>5. k \in Nat
      <4>1. d.back.eperms \in Seq(Fd)
        BY <3>4 DEF EpollBack
      <4> QED
        BY <4>1
    <3>6. i \in 1 .. k
      <4>1. n \in 1 .. len
        BY <3>1
      <4> HIDE DEF i, k
      <4> QED
        BY <1>11, <3>1, <3>2, <3>5, <4>1
    <3>7. z \in EpollKept(d) /\ Len(z.back.eperms) >= k - 1
      <4> HIDE DEF i
      <4> QED
        BY <3>4, <3>6, EpollEperm
    <3> HIDE DEF z
    <3>8. z.ev \in On(0, x0.ev)
      BY <3>4, <3>7, OnOn DEF EpollKept, EpollAfter
    <3>9. z \in EpollKept(x0)
      BY <3>2, <3>7, <3>8 DEF EpollKept, EpollAfter
    <3>10. len - n <= Len(z.back.eperms)
      <4>1. z.back.eperms \in Seq(Fd)
        BY <3>7 DEF EpollKept, EpollAfter, EpollBack
      <4> DEFINE l == Len(z.back.eperms)
      <4>2. l \in Nat /\ l >= k - 1
        BY <3>7, <4>1
      <4>3. n \in Nat /\ len - (n - 1) <= k
        BY <3>1, <3>2
      <4> HIDE DEF k, l
      <4>4. len - n <= l
        BY <1>11, <3>5, <4>2, <4>3
      <4> QED
        BY <4>4 DEF l
    <3> QED
      BY <3>3, <3>9, <3>10 DEF z
  <2>2. x0 \in S[0] /\ \A n \in 0 .. L : S[n] \subseteq EpollKept(x0)
    <3> HIDE DEF s
    <3>1. x0.ev \in Good(0) /\ x0.ev \in On(0, x0.ev)
      BY OnItself
    <3>2. x0 \in EpollKept(x0)
      BY <3>1 DEF EpollKept, EpollAfter
    <3>3. S[0] = {y \in EpollKept(x0) : len - 0 <= Len(y.back.eperms)}
      BY <1>2
    <3>4. len - 0 <= Len(x0.back.eperms)
      BY <1>11
    <3>5. \A n \in 0 .. L : S[n] \subseteq EpollKept(x0)
      OBVIOUS
    <3> QED
      BY <3>2, <3>3, <3>4, <3>5
  <2> HIDE DEF s, L, op, S
  <2> QED
    BY <1>2, <2>1, <2>2
<1> HIDE DEF s, L, op, S
<1>4. \A n \in 1 .. L : \A y \in S[n - 1] : g[<<n, y>>] = op(y, s[n])
  BY <1>2, <1>3
<1> HIDE DEF g
<1>5. Stays(L, x0, S, g)
  BY <1>2, <1>3, <1>4 DEF Stays
<1> HIDE DEF S
<1>6. PICK f : LoopRun(f, L, x0, g) /\ \A n \in 0 .. L : f[n] \in S[n]
  BY <1>2, <1>5, LoopRuns DEF RunStays
<1>7. f = D(f)
  <2>1. \A n \in 1 .. L : f[n] = g[<<n, f[n - 1]>>] /\ f[n - 1] \in S[n - 1]
    BY <1>2, <1>6 DEF LoopRun
  <2>2. \A n \in 1 .. L : f[n] = op(f[n - 1], s[n])
    BY <1>4, <2>1
  <2>3. \A n \in 1 .. L : f[n] = CHOOSE z \in {op(v, s[n]) : v \in {f[n - 1]}} : TRUE
    BY <2>2
  <2>4. \A n \in 0 .. L : f[n] = D(f)[n]
    BY <1>2, <1>6, <2>3 DEF LoopRun
  <2> QED
    BY <1>6, <2>4 DEF LoopRun
<1>8. after = D(after)
  BY <1>7
<1> HIDE DEF after
<1>9. after[0] = x0 /\ \A n \in 1 .. L : after[n] = op(after[n - 1], s[n])
  BY <1>2, <1>8
<1>10. after[L] \in S[L]
  <2>1. \A n \in 1 .. L : after[n - 1] \in S[n - 1] => after[n] = g[<<n, after[n - 1]>>]
    BY <1>4, <1>9
  <2> QED
    BY <1>2, <1>5, <1>9, <2>1, LoopStays
<1> QED
  BY <1>1, <1>2, <1>3, <1>10

-------------------------------------------------------------------------------
(* The io_uring back end *)

SqeT == [op : {"POLL_ADD", "POLL_REMOVE"}, fd : Fd, gen : Nat, mask : SUBSET RW]
CqeT == [fd : Fd, gen : Nat, res : SUBSET (RW \cup {"EBADF", "ECANCELED"})] \cup {Removed}
Request == [fd : Fd, gen : Nat, file : File, mask : SUBSET RW]
Ring == [sq : Seq(SqeT), to_submit : Nat, reqs : SUBSET Request, cq : Seq(CqeT),
         backlog : Seq(CqeT), overflow : BOOLEAN]
UringRec == [ring : Ring, egen : [Fd -> Nat], entries : Nat, limit : BOOLEAN,
             postfork : BOOLEAN, refs : Nat, spins : BOOLEAN, switched : {FALSE}]

\* The rings have the room that they were set up with.
UringBack == {b \in UringRec :
    /\ b.entries \in 1 .. KernelMax - 1
    /\ b.ring.to_submit <= Len(b.ring.sq)
    /\ Len(b.ring.sq) <= b.entries
    /\ Len(b.ring.cq) <= 2 * b.entries}

\* io_uring has given up: an empty ring is left, and no descriptor is in force.
GoneBack == [ring : {ring}, egen : [Fd -> Nat], entries : 1 .. KernelMax - 1, limit : BOOLEAN,
             postfork : BOOLEAN, refs : Nat, spins : BOOLEAN, switched : {TRUE}]
UringStates ==
    [ev : Good(0), back : UringBack]
    \cup {x \in [ev : Good(0), back : GoneBack] : \A fd \in Fd : x.ev.events[fd] = {}}

\* States with the submissions of b: the kernel takes them from the ring.
Consumed(b) == {d \in UringBack : d.ring.sq = b.ring.sq}

LEMMA UringTypes ==
    ASSUME NEW b \in UringBack
    PROVE  /\ b \in UringRec /\ b.ring \in Ring /\ b.egen \in [Fd -> Nat]
           /\ b.ring.sq \in Seq(SqeT) /\ b.ring.to_submit \in Nat /\ b.ring.reqs \in SUBSET Request
           /\ b.ring.cq \in Seq(CqeT) /\ b.ring.backlog \in Seq(CqeT) /\ b.ring.overflow \in BOOLEAN
           /\ b.entries \in Nat /\ b.entries >= 1 /\ b.entries <= KernelMax - 1
           /\ Len(b.ring.sq) \in Nat /\ Len(b.ring.cq) \in Nat /\ Len(b.ring.backlog) \in Nat
           /\ b.ring.to_submit <= Len(b.ring.sq) /\ Len(b.ring.sq) <= b.entries
           /\ Len(b.ring.cq) <= 2 * b.entries
<1>1. b \in UringRec /\ b.entries \in 1 .. KernelMax - 1
  BY DEF UringBack
<1>2. b.ring \in Ring /\ b.egen \in [Fd -> Nat]
  BY <1>1 DEF UringRec
<1>3. /\ b.ring.sq \in Seq(SqeT) /\ b.ring.to_submit \in Nat /\ b.ring.reqs \in SUBSET Request
      /\ b.ring.cq \in Seq(CqeT) /\ b.ring.backlog \in Seq(CqeT) /\ b.ring.overflow \in BOOLEAN
  BY <1>2 DEF Ring
<1>4. b.entries \in Nat /\ b.entries >= 1 /\ b.entries <= KernelMax - 1
  BY <1>1, BackendAssumption DEF UringAssumption
<1>5. Len(b.ring.sq) \in Nat /\ Len(b.ring.cq) \in Nat /\ Len(b.ring.backlog) \in Nat
  BY <1>3
<1> QED
  BY <1>1, <1>2, <1>3, <1>4, <1>5 DEF UringBack

\* A ring that is changed, and nothing else.
LEMMA NewRing ==
    ASSUME NEW b \in UringBack, NEW r \in Ring,
           r.to_submit <= Len(r.sq), Len(r.sq) <= b.entries, Len(r.cq) <= 2 * b.entries
    PROVE  LET d == [b EXCEPT !.ring = r]
           IN  d \in UringBack /\ d.ring = r /\ d.entries = b.entries
<1> DEFINE d == [b EXCEPT !.ring = r]
<1>1. b \in UringRec /\ b.entries \in 1 .. KernelMax - 1
  BY DEF UringBack
<1>2. d \in UringRec /\ d.ring = r /\ d.entries = b.entries
  BY <1>1 DEF UringRec
<1> HIDE DEF d
<1>3. d \in UringBack
  BY <1>1, <1>2 DEF UringBack
<1> QED
  BY <1>2, <1>3 DEF d

\* A completion has a place in the ring, in the backlog, or none.
LEMMA Post ==
    ASSUME NEW b \in UringBack, NEW cqe \in CqeT
    PROVE  LET d == post(b, cqe)
           IN  d \in Consumed(b) /\ d.entries = b.entries
<1> DEFINE r1 == [b.ring EXCEPT !.cq = Append(@, cqe)]
           r2 == [b.ring EXCEPT !.backlog = Append(@, cqe)]
           r3 == [b.ring EXCEPT !.overflow = TRUE]
           d == post(b, cqe)
<1>1. b \in UringRec /\ b.ring \in Ring
  BY UringTypes
<1>2. /\ b.ring.sq \in Seq(SqeT) /\ b.ring.to_submit \in Nat /\ b.ring.reqs \in SUBSET Request
      /\ b.ring.cq \in Seq(CqeT) /\ b.ring.backlog \in Seq(CqeT) /\ b.ring.overflow \in BOOLEAN
      /\ b.entries \in Nat /\ Len(b.ring.cq) \in Nat
      /\ b.ring.to_submit <= Len(b.ring.sq) /\ Len(b.ring.sq) <= b.entries
      /\ Len(b.ring.cq) <= 2 * b.entries
  BY UringTypes
<1>3. \/ d = [b EXCEPT !.ring = r1] /\ Len(b.ring.cq) < 2 * b.entries
      \/ d = [b EXCEPT !.ring = r2] \/ d = [b EXCEPT !.ring = r3]
  <2>1. /\ [b EXCEPT !.ring.cq = Append(@, cqe)] = [b EXCEPT !.ring = r1]
        /\ [b EXCEPT !.ring.backlog = Append(@, cqe)] = [b EXCEPT !.ring = r2]
        /\ [b EXCEPT !.ring.overflow = TRUE] = [b EXCEPT !.ring = r3]
    BY <1>1 DEF UringRec
  <2> HIDE DEF r1, r2, r3
  <2> QED
    BY <2>1 DEF post
<1>4. r1 \in Ring /\ r1.sq = b.ring.sq /\ r1.to_submit = b.ring.to_submit /\ Len(r1.cq) = Len(b.ring.cq) + 1
  <2> DEFINE q == Append(b.ring.cq, cqe)
  <2>1. q \in Seq(CqeT) /\ Len(q) = Len(b.ring.cq) + 1
    BY <1>2
  <2> HIDE DEF q
  <2> QED
    BY <1>1, <2>1 DEF Ring, q
<1>5. r2 \in Ring /\ r2.sq = b.ring.sq /\ r2.to_submit = b.ring.to_submit /\ r2.cq = b.ring.cq
  <2> DEFINE q == Append(b.ring.backlog, cqe)
  <2>1. q \in Seq(CqeT)
    BY <1>2
  <2> HIDE DEF q
  <2> QED
    BY <1>1, <2>1 DEF Ring, q
<1>6. r3 \in Ring /\ r3.sq = b.ring.sq /\ r3.to_submit = b.ring.to_submit /\ r3.cq = b.ring.cq
  BY <1>1, <1>2 DEF Ring
<1> HIDE DEF d, r1, r2, r3
<1>7. CASE d = [b EXCEPT !.ring = r1] /\ Len(b.ring.cq) < 2 * b.entries
  <2>1. Len(r1.cq) <= 2 * b.entries
    BY <1>2, <1>4, <1>7
  <2>2. r1.to_submit <= Len(r1.sq) /\ Len(r1.sq) <= b.entries
    BY <1>2, <1>4
  <2>3. d \in UringBack /\ d.ring = r1 /\ d.entries = b.entries
    <3>1. r1 \in Ring /\ d = [b EXCEPT !.ring = r1]
      BY <1>4, <1>7
    <3> QED
      BY <2>1, <2>2, <3>1, NewRing
  <2> QED
    BY <1>4, <2>3 DEF Consumed, d
<1>8. CASE d = [b EXCEPT !.ring = r2]
  <2>1. r2.to_submit <= Len(r2.sq) /\ Len(r2.sq) <= b.entries /\ Len(r2.cq) <= 2 * b.entries
    BY <1>2, <1>5
  <2>2. d \in UringBack /\ d.ring = r2 /\ d.entries = b.entries
    <3>1. r2 \in Ring
      BY <1>5
    <3> QED
      BY <1>8, <2>1, <3>1, NewRing
  <2> QED
    BY <1>5, <2>2 DEF Consumed, d
<1>9. CASE d = [b EXCEPT !.ring = r3]
  <2>1. r3.to_submit <= Len(r3.sq) /\ Len(r3.sq) <= b.entries /\ Len(r3.cq) <= 2 * b.entries
    BY <1>2, <1>6
  <2>2. d \in UringBack /\ d.ring = r3 /\ d.entries = b.entries
    <3>1. r3 \in Ring
      BY <1>6
    <3> QED
      BY <1>9, <2>1, <3>1, NewRing
  <2> QED
    BY <1>6, <2>2 DEF Consumed, d
<1> QED
  BY <1>3, <1>7, <1>8, <1>9

-------------------------------------------------------------------------------
(* Requests of io_uring on their way *)

\* What is on its way for a descriptor's present generation: the poll requests
\* that libev has not submitted, of the ring after its first k entries, those
\* that wait in the kernel, and completions.
Unsent(b, k, fd) == {i \in k + 1 .. Len(b.ring.sq) :
    b.ring.sq[i].op = "POLL_ADD" /\ b.ring.sq[i].fd = fd /\ b.ring.sq[i].gen = b.egen[fd]}
Waiting(b, fd) == {r \in b.ring.reqs : r.fd = fd /\ r.gen = b.egen[fd]}
Answered(b, fd) == {i \in 1 .. Len(b.ring.cq) : b.ring.cq[i].fd = fd /\ b.ring.cq[i].gen = b.egen[fd]}

None(b, k, fd) == Unsent(b, k, fd) = {} /\ Waiting(b, fd) = {} /\ Answered(b, fd) = {}
One(b, k, fd) ==
    \E t : \/ Unsent(b, k, fd) = {t} /\ Waiting(b, fd) = {} /\ Answered(b, fd) = {}
           \/ Unsent(b, k, fd) = {} /\ Waiting(b, fd) = {t} /\ Answered(b, fd) = {}
           \/ Unsent(b, k, fd) = {} /\ Waiting(b, fd) = {} /\ Answered(b, fd) = {t}

\* No completion is kept outside of the ring, and all that is in the ring of
\* submissions is counted, so that a search for a free entry comes to its end.
Plain(b) == b.ring.backlog = <<>> /\ ~b.spins /\ b.ring.to_submit = Len(b.ring.sq)

\* Nothing has a generation to come, a removal has one of the past, and
\* requests are for open descriptors.
DatedSqe(b, q) ==
    /\ q.gen <= b.egen[q.fd]
    /\ q.op = "POLL_ADD" => tab[q.fd] # Closed
    /\ q.op # "POLL_ADD" => q.gen < b.egen[q.fd]
DatedCqe(b, q) == (q # Removed => q.gen <= b.egen[q.fd]) /\ q.res # {"EBADF"}
Dated(b) ==
    /\ \A i \in 1 .. Len(b.ring.sq) : DatedSqe(b, b.ring.sq[i])
    /\ \A r \in b.ring.reqs : r.gen <= b.egen[r.fd]
    /\ \A i \in 1 .. Len(b.ring.cq) : DatedCqe(b, b.ring.cq[i])

\* With the masks m: a descriptor in force has one request on its way, another
\* has none; or completions were lost.
Flow(m, b, k) ==
    /\ Plain(b)
    /\ ~b.ring.overflow =>
         Dated(b) /\ \A fd \in Fd : IF m[fd] = {} THEN None(b, k, fd) ELSE One(b, k, fd)
FlowsOn(b, j, d, k) == \A m : Flow(m, b, j) => Flow(m, d, k)

\* The kernel changes requests and completions only.
Alike(b, d) ==
    /\ d.ring.sq = b.ring.sq /\ d.ring.to_submit = b.ring.to_submit
    /\ d.ring.backlog = b.ring.backlog /\ d.egen = b.egen /\ d.spins = b.spins
    /\ b.ring.overflow => d.ring.overflow

\* A completion is in the ring, or is lost.
LEMMA PostIs ==
    ASSUME ~NoDrop, NEW b \in UringBack, NEW cqe \in CqeT
    PROVE  LET d == post(b, cqe)
           IN  /\ d \in UringBack /\ Alike(b, d) /\ d.ring.reqs = b.ring.reqs
               /\ d.ring.overflow \/ d.ring.cq = Append(b.ring.cq, cqe)
<1> DEFINE q == Append(b.ring.cq, cqe)
           r1 == [b.ring EXCEPT !.cq = q]
           r3 == [b.ring EXCEPT !.overflow = TRUE]
           d == post(b, cqe)
<1>1. b \in UringRec /\ b.ring \in Ring
  BY UringTypes
<1>2. d = [b EXCEPT !.ring = r1] \/ d = [b EXCEPT !.ring = r3]
  <2>1. /\ [b EXCEPT !.ring.cq = Append(@, cqe)] = [b EXCEPT !.ring = r1]
        /\ [b EXCEPT !.ring.overflow = TRUE] = [b EXCEPT !.ring = r3]
    BY <1>1 DEF UringRec, Ring
  <2> HIDE DEF r1, r3
  <2> QED
    BY <2>1 DEF post
<1>3. d \in UringBack
  BY Post DEF Consumed
<1> HIDE DEF d, q
<1>4. CASE d = [b EXCEPT !.ring = r1]
  <2>1. d.ring = r1 /\ d.egen = b.egen /\ d.spins = b.spins
    BY <1>1, <1>4 DEF UringRec
  <2>2. /\ r1.sq = b.ring.sq /\ r1.to_submit = b.ring.to_submit /\ r1.backlog = b.ring.backlog
        /\ r1.overflow = b.ring.overflow /\ r1.reqs = b.ring.reqs /\ r1.cq = q
    BY <1>1 DEF Ring
  <2> HIDE DEF r1
  <2> QED
    BY <1>3, <2>1, <2>2 DEF Alike, d, q
<1>5. CASE d = [b EXCEPT !.ring = r3]
  <2>1. d.ring = r3 /\ d.egen = b.egen /\ d.spins = b.spins
    BY <1>1, <1>5 DEF UringRec
  <2>2. /\ r3.sq = b.ring.sq /\ r3.to_submit = b.ring.to_submit /\ r3.backlog = b.ring.backlog
        /\ r3.overflow = TRUE /\ r3.reqs = b.ring.reqs
    BY <1>1 DEF Ring
  <2> HIDE DEF r3
  <2> QED
    BY <1>3, <2>1, <2>2 DEF Alike, d
<1> QED
  BY <1>2, <1>4, <1>5

\* A completion of a generation that is past.
LEMMA PostOld ==
    ASSUME ~NoDrop, NEW b \in UringBack, NEW cqe \in CqeT, NEW k \in Nat,
           cqe.res # {"EBADF"}, cqe = Removed \/ cqe.gen < b.egen[cqe.fd]
    PROVE  FlowsOn(b, k, post(b, cqe), k)
<1> DEFINE d == post(b, cqe)
<1>1. /\ d \in UringBack /\ Alike(b, d) /\ d.ring.reqs = b.ring.reqs
      /\ d.ring.overflow \/ d.ring.cq = Append(b.ring.cq, cqe)
  BY PostIs
<1> HIDE DEF d
<1> SUFFICES ASSUME NEW m, Flow(m, b, k) PROVE Flow(m, d, k)
  BY DEF FlowsOn, d
<1>2. Plain(d)
  BY <1>1 DEF Alike, Plain, Flow
<1> SUFFICES ASSUME ~d.ring.overflow
             PROVE  Dated(d) /\ \A fd \in Fd : IF m[fd] = {} THEN None(d, k, fd) ELSE One(d, k, fd)
  BY <1>2 DEF Flow
<1>3. /\ ~b.ring.overflow /\ d.ring.cq = Append(b.ring.cq, cqe)
      /\ d.ring.sq = b.ring.sq /\ d.egen = b.egen /\ b.ring.cq \in Seq(CqeT) /\ b.egen \in [Fd -> Nat]
  BY <1>1, UringTypes DEF Alike
<1> DEFINE q == b.ring.cq  p == d.ring.cq  n == Len(q)
<1>4. /\ n \in Nat /\ Len(p) = n + 1 /\ p[n + 1] = cqe /\ \A i \in 1 .. n : p[i] = q[i]
      /\ \A i \in 1 .. n + 1 : i \in 1 .. n \/ i = n + 1
  <2>1. n \in Nat /\ Len(Append(q, cqe)) = n + 1 /\ Append(q, cqe)[n + 1] = cqe
        /\ \A i \in 1 .. n : Append(q, cqe)[i] = q[i]
    BY <1>3
  <2> QED
    BY <1>3, <2>1
<1>5. Dated(b)
  BY <1>3 DEF Flow
<1>6. DatedCqe(b, cqe)
  <2>1. CASE cqe = Removed
    BY <2>1 DEF DatedCqe
  <2>2. CASE cqe # Removed
    <3>1. cqe.fd \in Fd /\ cqe.gen \in Nat
      BY <2>2 DEF CqeT
    <3> QED
      BY <1>3, <2>2, <3>1 DEF DatedCqe
  <2> QED
    BY <2>1, <2>2
<1>7. Dated(d)
  <2>1. \A i \in 1 .. Len(p) : DatedCqe(b, p[i])
    BY <1>4, <1>5, <1>6 DEF Dated
  <2>2. \A x : (DatedCqe(b, x) => DatedCqe(d, x)) /\ (DatedSqe(b, x) => DatedSqe(d, x))
    BY <1>3, Zenon DEF DatedCqe, DatedSqe
  <2> QED
    BY <1>1, <1>3, <1>5, <2>1, <2>2, Zenon DEF Dated
<1>8. ASSUME NEW fd \in Fd
      PROVE  Unsent(d, k, fd) = Unsent(b, k, fd) /\ Waiting(d, fd) = Waiting(b, fd)
             /\ Answered(d, fd) = Answered(b, fd)
  <2>1. Unsent(d, k, fd) = Unsent(b, k, fd) /\ Waiting(d, fd) = Waiting(b, fd)
    BY <1>1, <1>3 DEF Unsent, Waiting
  <2>2. ~(cqe.fd = fd /\ cqe.gen = b.egen[fd])
    <3>1. Removed.fd # fd
      BY DEF Removed, Cqe, Fd
    <3>2. cqe # Removed => cqe.gen \in Nat /\ cqe.fd \in Fd
      BY DEF CqeT
    <3> QED
      BY <1>3, <3>1, <3>2
  <2>3. \A i \in 1 .. Len(p) : (p[i].fd = fd /\ p[i].gen = b.egen[fd]) <=>
                                  (i \in 1 .. n /\ q[i].fd = fd /\ q[i].gen = b.egen[fd])
    BY <1>4, <2>2
  <2>4. 1 .. n \subseteq 1 .. Len(p)
    BY <1>4
  <2>5. Answered(d, fd) = Answered(b, fd)
    <3>1. Answered(d, fd) = {i \in 1 .. Len(p) : p[i].fd = fd /\ p[i].gen = b.egen[fd]}
      BY <1>3 DEF Answered
    <3>2. Answered(b, fd) = {i \in 1 .. n : q[i].fd = fd /\ q[i].gen = b.egen[fd]}
      BY DEF Answered
    <3> HIDE DEF p, q, n
    <3> QED
      BY <2>3, <2>4, <3>1, <3>2
  <2> QED
    BY <2>1, <2>5
<1>9. ASSUME NEW fd \in Fd
      PROVE  IF m[fd] = {} THEN None(d, k, fd) ELSE One(d, k, fd)
  <2>1. IF m[fd] = {} THEN None(b, k, fd) ELSE One(b, k, fd)
    BY <1>3 DEF Flow
  <2> QED
    BY <1>8, <2>1 DEF None, One
<1> QED
  BY <1>7, <1>9

\* Requests that are gone from the kernel, none of the present generation.
LEMMA DropOld ==
    ASSUME NEW b \in UringBack, NEW old \in SUBSET Request, NEW k \in Nat,
           \A r \in old : r.gen # b.egen[r.fd]
    PROVE  LET d == [b EXCEPT !.ring.reqs = @ \ old]
           IN  d \in UringBack /\ Alike(b, d) /\ d.ring.cq = b.ring.cq /\ FlowsOn(b, k, d, k)
<1> DEFINE r2 == [b.ring EXCEPT !.reqs = @ \ old]
           d == [b EXCEPT !.ring.reqs = @ \ old]
<1>1. /\ b \in UringRec /\ b.ring \in Ring /\ b.ring.reqs \in SUBSET Request
      /\ b.ring.to_submit <= Len(b.ring.sq) /\ Len(b.ring.sq) <= b.entries
      /\ Len(b.ring.cq) <= 2 * b.entries
  BY UringTypes
<1>2. d = [b EXCEPT !.ring = r2]
  BY <1>1 DEF UringRec, Ring
<1> HIDE DEF d
<1>3. /\ r2 \in Ring /\ r2.sq = b.ring.sq /\ r2.to_submit = b.ring.to_submit /\ r2.cq = b.ring.cq
      /\ r2.backlog = b.ring.backlog /\ r2.overflow = b.ring.overflow
      /\ r2.reqs = b.ring.reqs \ old
  BY <1>1 DEF Ring
<1> HIDE DEF r2
<1>4. d \in UringBack /\ d.ring = r2
  BY <1>1, <1>2, <1>3, NewRing
<1>5. d.egen = b.egen /\ d.spins = b.spins
  BY <1>1, <1>2 DEF UringRec
<1>6. Alike(b, d)
  BY <1>3, <1>4, <1>5 DEF Alike
<1>7. \A fd \in Fd : /\ Unsent(d, k, fd) = Unsent(b, k, fd) /\ Waiting(d, fd) = Waiting(b, fd)
                     /\ Answered(d, fd) = Answered(b, fd)
  BY <1>3, <1>4, <1>5 DEF Unsent, Waiting, Answered
<1>8. ASSUME NEW m, Flow(m, b, k) PROVE Flow(m, d, k)
  <2>1. Plain(d)
    BY <1>6, <1>8 DEF Alike, Plain, Flow
  <2>2. d.ring.overflow = b.ring.overflow
    BY <1>3, <1>4
  <2>3. Dated(b) => Dated(d)
    <3>1. \A x : (DatedCqe(b, x) => DatedCqe(d, x)) /\ (DatedSqe(b, x) => DatedSqe(d, x))
      BY <1>5, Zenon DEF DatedCqe, DatedSqe
    <3> QED
      BY <1>3, <1>4, <1>5, <3>1 DEF Dated
  <2>4. \A fd \in Fd : /\ None(b, k, fd) => None(d, k, fd)
                       /\ One(b, k, fd) => One(d, k, fd)
    BY <1>7 DEF None, One
  <2> QED
    BY <1>8, <2>1, <2>2, <2>3, <2>4 DEF Flow
<1> QED
  BY <1>3, <1>4, <1>6, <1>8 DEF FlowsOn, d

\* The kernel has lost a completion: nothing is claimed of the others.
LEMMA LostFlow ==
    ASSUME NEW b, NEW d, NEW j, NEW k, Alike(b, d), d.ring.overflow
    PROVE  FlowsOn(b, j, d, k)
BY DEF FlowsOn, Flow, Plain, Alike

\* The submission after the k before it is consumed.
LEMMA ConsumeFlow ==
    ASSUME ~NoDrop, Files, NEW b \in UringBack, NEW k \in 1 .. Len(b.ring.sq)
    PROVE  LET d == consume(b, b.ring.sq[k])
           IN  Alike(b, d) /\ FlowsOn(b, k - 1, d, k)
<1> DEFINE sqe == b.ring.sq[k]
           q == [fd |-> sqe.fd, gen |-> sqe.gen, file |-> tab[sqe.fd], mask |-> sqe.mask]
           old == {r \in b.ring.reqs : r.fd = sqe.fd /\ r.gen = sqe.gen}
           d1 == [b EXCEPT !.ring.reqs = @ \cup {q}]
           d2 == [b EXCEPT !.ring.reqs = @ \ old]
           bad == Cqe(sqe.fd, sqe.gen, {"EBADF"})
           gone == Cqe(sqe.fd, sqe.gen, {"ECANCELED"})
           d3 == post(d2, gone)
           d == consume(b, sqe)
<1>1. /\ b \in UringRec /\ b.ring \in Ring /\ b.ring.reqs \in SUBSET Request
      /\ b.ring.sq \in Seq(SqeT) /\ b.egen \in [Fd -> Nat] /\ Len(b.ring.sq) \in Nat
  BY UringTypes
<1>2. sqe \in SqeT /\ sqe.fd \in Fd /\ sqe.gen \in Nat /\ k \in Nat /\ k - 1 \in Nat
  <2>1. sqe \in SqeT /\ k \in Nat /\ k - 1 \in Nat
    BY <1>1
  <2> QED
    BY <2>1 DEF SqeT
<1>3. bad \in CqeT /\ gone \in CqeT /\ Removed \in CqeT /\ gone.res # {"EBADF"} /\ Removed.res # {"EBADF"}
      /\ gone.fd = sqe.fd /\ gone.gen = sqe.gen
  BY <1>2 DEF CqeT, Cqe, Removed
<1>4. d = IF sqe.op = "POLL_ADD"
          THEN IF tab[sqe.fd] = Closed THEN post(b, bad) ELSE d1
          ELSE post(IF old = {} THEN d2 ELSE d3, Removed)
  BY Zenon DEF consume
<1> HIDE DEF d
<1>5. CASE sqe.op = "POLL_ADD" /\ tab[sqe.fd] = Closed
  <2>1. d = post(b, bad)
    BY <1>4, <1>5
  <2>2. Alike(b, d)
    BY <1>3, <2>1, PostIs
  <2>3. ASSUME NEW m, Flow(m, b, k - 1) PROVE Flow(m, d, k)
    <3>1. b.ring.overflow
      <4> SUFFICES ASSUME ~b.ring.overflow PROVE FALSE
        OBVIOUS
      <4>1. Dated(b)
        BY <2>3 DEF Flow
      <4>2. DatedSqe(b, sqe)
        BY <4>1 DEF Dated
      <4> QED
        BY <1>5, <4>2 DEF DatedSqe
    <3>2. d.ring.overflow
      BY <2>2, <3>1 DEF Alike
    <3> QED
      BY <2>2, <2>3, <3>2, LostFlow DEF FlowsOn
  <2> QED
    BY <2>2, <2>3 DEF FlowsOn, d
<1>6. CASE sqe.op = "POLL_ADD" /\ tab[sqe.fd] # Closed
  <2>1. d = d1
    BY <1>4, <1>6
  <2>2. /\ d.ring.sq = b.ring.sq /\ d.ring.to_submit = b.ring.to_submit /\ d.ring.cq = b.ring.cq
        /\ d.ring.backlog = b.ring.backlog /\ d.ring.overflow = b.ring.overflow
        /\ d.ring.reqs = b.ring.reqs \cup {q} /\ d.egen = b.egen /\ d.spins = b.spins
    <3> HIDE DEF q
    <3> QED
      BY <1>1, <2>1 DEF UringRec, Ring
  <2>3. Alike(b, d)
    BY <2>2 DEF Alike
  <2>4. ASSUME NEW m, Flow(m, b, k - 1), ~b.ring.overflow
        PROVE  Dated(d) /\ \A fd \in Fd : IF m[fd] = {} THEN None(d, k, fd) ELSE One(d, k, fd)
    <3>1. Dated(b) /\ \A fd \in Fd : IF m[fd] = {} THEN None(b, k - 1, fd) ELSE One(b, k - 1, fd)
      BY <2>4 DEF Flow
    <3>2. sqe.gen <= b.egen[sqe.fd] /\ q.fd = sqe.fd /\ q.gen = sqe.gen
      BY <3>1 DEF Dated, DatedSqe
    <3>3. Dated(d)
      <4>1. \A x : (DatedCqe(b, x) => DatedCqe(d, x)) /\ (DatedSqe(b, x) => DatedSqe(d, x))
        BY <2>2, Zenon DEF DatedCqe, DatedSqe
      <4> HIDE DEF q, sqe
      <4> QED
        BY <2>2, <3>1, <3>2, <4>1 DEF Dated
    <3>4. ASSUME NEW fd \in Fd
          PROVE  IF m[fd] = {} THEN None(d, k, fd) ELSE One(d, k, fd)
      <4>1. Answered(d, fd) = Answered(b, fd)
        BY <2>2 DEF Answered
      <4>2. CASE sqe.fd = fd /\ sqe.gen = b.egen[fd]
        <5>1. k \in Unsent(b, k - 1, fd)
          BY <1>1, <1>2, <1>6, <4>2 DEF Unsent
        <5>2. m[fd] # {} /\ One(b, k - 1, fd)
          BY <3>1, <5>1 DEF None
        <5>3. Unsent(b, k - 1, fd) = {k} /\ Waiting(b, fd) = {} /\ Answered(b, fd) = {}
          BY <5>1, <5>2 DEF One
        <5>4. Unsent(d, k, fd) = {}
          <6>1. \A i \in k + 1 .. Len(b.ring.sq) : i \in (k - 1) + 1 .. Len(b.ring.sq) /\ i # k
            BY <1>1, <1>2
          <6>2. \A i \in Unsent(d, k, fd) : i \in Unsent(b, k - 1, fd) /\ i # k
            BY <2>2, <6>1 DEF Unsent
          <6> QED
            BY <5>3, <6>2
        <5>5. Waiting(d, fd) = {q}
          <6>1. Waiting(d, fd) = Waiting(b, fd) \cup {q}
            <7> HIDE DEF q, sqe
            <7> QED
              BY <2>2, <3>2, <4>2 DEF Waiting
          <6> QED
            BY <5>3, <6>1
        <5> QED
          BY <4>1, <5>2, <5>3, <5>4, <5>5 DEF One
      <4>3. CASE ~(sqe.fd = fd /\ sqe.gen = b.egen[fd])
        <5>1. Waiting(d, fd) = Waiting(b, fd)
          <6> HIDE DEF q, sqe
          <6> QED
            BY <2>2, <3>2, <4>3 DEF Waiting
        <5>2. Unsent(d, k, fd) = Unsent(b, k - 1, fd)
          <6>1. /\ k + 1 .. Len(b.ring.sq) \subseteq (k - 1) + 1 .. Len(b.ring.sq)
                /\ \A i \in (k - 1) + 1 .. Len(b.ring.sq) : i # k => i \in k + 1 .. Len(b.ring.sq)
            BY <1>1, <1>2
          <6> QED
            BY <2>2, <4>3, <6>1 DEF Unsent
        <5> QED
          BY <3>1, <4>1, <5>1, <5>2 DEF None, One
      <4> QED
        BY <4>2, <4>3
    <3> QED
      BY <3>3, <3>4
  <2>5. ASSUME NEW m, Flow(m, b, k - 1) PROVE Flow(m, d, k)
    <3>1. Plain(d)
      BY <2>2, <2>5 DEF Plain, Flow
    <3> QED
      BY <2>2, <2>4, <2>5, <3>1 DEF Flow
  <2> QED
    BY <2>3, <2>5 DEF FlowsOn, d
<1>7. CASE sqe.op # "POLL_ADD"
  <2> DEFINE e == IF old = {} THEN d2 ELSE d3
  <2>1. d = post(e, Removed)
    BY <1>4, <1>7
  <2>2. ASSUME NEW m, Flow(m, b, k - 1), ~b.ring.overflow
        PROVE  sqe.gen < b.egen[sqe.fd] /\ Flow(m, b, k)
    <3>1. Dated(b)
      BY <2>2 DEF Flow
    <3>2. sqe.gen < b.egen[sqe.fd]
      BY <1>7, <3>1 DEF Dated, DatedSqe
    <3>3. \A fd \in Fd : Unsent(b, k, fd) = Unsent(b, k - 1, fd)
      <4>1. /\ k + 1 .. Len(b.ring.sq) \subseteq (k - 1) + 1 .. Len(b.ring.sq)
            /\ \A i \in (k - 1) + 1 .. Len(b.ring.sq) : i # k => i \in k + 1 .. Len(b.ring.sq)
        BY <1>1, <1>2
      <4> QED
        BY <1>7, <4>1 DEF Unsent
    <3>4. \A fd \in Fd : /\ None(b, k - 1, fd) => None(b, k, fd)
                         /\ One(b, k - 1, fd) => One(b, k, fd)
      BY <3>3 DEF None, One
    <3> QED
      BY <2>2, <3>2, <3>4 DEF Flow
  <2>3. d2 \in UringBack /\ Alike(b, d2)
    <3> DEFINE r2 == [b.ring EXCEPT !.reqs = @ \ old]
    <3> HIDE DEF old
    <3>1. d2 = [b EXCEPT !.ring = r2]
      BY <1>1 DEF UringRec, Ring
    <3>2. /\ r2 \in Ring /\ r2.sq = b.ring.sq /\ r2.to_submit = b.ring.to_submit /\ r2.cq = b.ring.cq
          /\ r2.backlog = b.ring.backlog /\ r2.overflow = b.ring.overflow
      BY <1>1 DEF Ring
    <3> HIDE DEF r2, d2
    <3>3. d2.ring = r2 /\ d2.egen = b.egen /\ d2.spins = b.spins
      BY <1>1, <3>1 DEF UringRec
    <3>4. d2 \in UringBack
      BY <1>1, <3>1, <3>2, UringTypes, NewRing
    <3> QED
      BY <3>2, <3>3, <3>4 DEF Alike
  <2>4. sqe.gen < b.egen[sqe.fd] => FlowsOn(b, k, d2, k)
    <3> SUFFICES ASSUME sqe.gen < b.egen[sqe.fd] PROVE FlowsOn(b, k, d2, k)
      OBVIOUS
    <3>1. old \in SUBSET Request /\ \A r \in old : r.gen # b.egen[r.fd]
      BY <1>1, <1>2
    <3> HIDE DEF old
    <3> QED
      BY <1>2, <3>1, DropOld
  <2> HIDE DEF d2
  <2>5. d3 \in UringBack /\ Alike(d2, d3)
    BY <1>3, <2>3, PostIs
  <2>6. sqe.gen < b.egen[sqe.fd] => FlowsOn(d2, k, d3, k)
    BY <1>2, <1>3, <2>3, PostOld DEF Alike
  <2> HIDE DEF d3, bad, gone
  <2>7. e \in UringBack /\ Alike(b, e)
    BY <2>3, <2>5 DEF Alike
  <2>8. sqe.gen < b.egen[sqe.fd] => FlowsOn(b, k, e, k)
    BY <2>4, <2>6 DEF FlowsOn
  <2> HIDE DEF e
  <2>9. Alike(e, d) /\ FlowsOn(e, k, d, k)
    BY <1>2, <1>3, <2>1, <2>7, PostIs, PostOld
  <2>10. Alike(b, d)
    BY <2>7, <2>9 DEF Alike
  <2>11. ASSUME NEW m, Flow(m, b, k - 1) PROVE Flow(m, d, k)
    <3>1. CASE b.ring.overflow
      BY <2>10, <2>11, <3>1, LostFlow DEF FlowsOn, Alike
    <3>2. CASE ~b.ring.overflow
      BY <2>2, <2>8, <2>9, <2>11, <3>2 DEF FlowsOn
    <3> QED
      BY <3>1, <3>2
  <2> QED
    BY <2>10, <2>11 DEF FlowsOn, d
<1> QED
  BY <1>5, <1>6, <1>7

-------------------------------------------------------------------------------
(* Submissions *)

\* The kernel takes one submission.
LEMMA Consume ==
    ASSUME NEW b \in UringBack, NEW sqe \in SqeT, Files
    PROVE  consume(b, sqe) \in Consumed(b)
<1> DEFINE q == [fd |-> sqe.fd, gen |-> sqe.gen, file |-> tab[sqe.fd], mask |-> sqe.mask]
           old == {r \in b.ring.reqs : r.fd = sqe.fd /\ r.gen = sqe.gen}
           r1 == [b.ring EXCEPT !.reqs = @ \cup {q}]
           r2 == [b.ring EXCEPT !.reqs = @ \ old]
           d1 == [b EXCEPT !.ring = r1]
           d2 == [b EXCEPT !.ring = r2]
           bad == Cqe(sqe.fd, sqe.gen, {"EBADF"})
           gone == Cqe(sqe.fd, sqe.gen, {"ECANCELED"})
           d3 == post(d2, gone)
<1>1. /\ b \in UringRec /\ b.ring \in Ring /\ b.ring.reqs \in SUBSET Request
      /\ b.ring.to_submit <= Len(b.ring.sq) /\ Len(b.ring.sq) <= b.entries
      /\ Len(b.ring.cq) <= 2 * b.entries
  BY UringTypes
<1>2. sqe.fd \in Fd /\ sqe.gen \in Nat /\ sqe.mask \in SUBSET RW
  BY DEF SqeT
<1>3. bad \in CqeT /\ gone \in CqeT /\ Removed \in CqeT
  BY <1>2 DEF CqeT, Cqe
<1>4. tab[sqe.fd] # Closed => d1 \in Consumed(b)
  <2> SUFFICES ASSUME tab[sqe.fd] # Closed PROVE d1 \in Consumed(b)
    OBVIOUS
  <2>1. q \in Request
    BY <1>2 DEF Request, Files
  <2> HIDE DEF q
  <2>2. r1 \in Ring /\ r1.sq = b.ring.sq /\ r1.to_submit = b.ring.to_submit /\ r1.cq = b.ring.cq
    BY <1>1, <2>1 DEF Ring
  <2> HIDE DEF r1
  <2> QED
    BY <1>1, <2>2, NewRing DEF Consumed
<1>5. d2 \in Consumed(b)
  <2>1. r2 \in Ring /\ r2.sq = b.ring.sq /\ r2.to_submit = b.ring.to_submit /\ r2.cq = b.ring.cq
    BY <1>1 DEF Ring
  <2> HIDE DEF r2
  <2> QED
    BY <1>1, <2>1, NewRing DEF Consumed
<1>6. /\ [b EXCEPT !.ring.reqs = @ \cup {q}] = d1 /\ [b EXCEPT !.ring.reqs = @ \ old] = d2
  BY <1>1 DEF UringRec
<1> HIDE DEF d1, d2, q, old, bad, gone
<1>7. d3 \in Consumed(b)
  BY <1>3, <1>5, Post DEF Consumed
<1>8. consume(b, sqe) \in {post(b, bad), d1, post(d2, Removed), post(d3, Removed)}
      /\ (consume(b, sqe) = d1 => tab[sqe.fd] # Closed \/ d1 = post(b, bad)
            \/ d1 = post(d2, Removed) \/ d1 = post(d3, Removed))
  <2>1. consume(b, sqe) = IF sqe.op = "POLL_ADD"
                          THEN IF tab[sqe.fd] = Closed THEN post(b, bad) ELSE d1
                          ELSE post(IF old = {} THEN d2 ELSE d3, Removed)
    BY <1>6, Zenon DEF consume, q, old, bad, gone
  <2> HIDE DEF d3
  <2> QED
    BY <2>1
<1> HIDE DEF d3
<1>9. /\ post(b, bad) \in Consumed(b) /\ post(d2, Removed) \in Consumed(b)
      /\ post(d3, Removed) \in Consumed(b)
  <2>1. /\ post(b, bad) \in Consumed(b) /\ post(d2, Removed) \in Consumed(d2)
        /\ post(d3, Removed) \in Consumed(d3)
    BY <1>3, <1>5, <1>7, Post DEF Consumed
  <2> QED
    BY <1>5, <1>7, <2>1 DEF Consumed
<1> QED
  BY <1>4, <1>8, <1>9

\* What the kernel makes of b when it takes the first n submissions of l.
First(l, b) == Len(l) <= Len(b.ring.sq) /\ \A i \in 1 .. Len(l) : l[i] = b.ring.sq[i]
Taken(b, l, n) == {d \in Consumed(b) :
    First(l, b) /\ ~NoDrop => Alike(b, d) /\ FlowsOn(b, 0, d, n)}

\* The kernel takes submissions.
LEMMA ConsumeAll ==
    ASSUME NEW x0 \in UringBack, NEW l \in Seq(SqeT), Files
    PROVE  Steps(consume, x0, l) \in Taken(x0, l, Len(l))
<1> DEFINE s == l
           L == Len(s)
           op(d, w) == consume(d, w)
           D(f) == [n \in 0 .. L |-> IF n = 0 THEN x0
                        ELSE CHOOSE z \in {op(v, s[n]) : v \in {f[n - 1]}} : TRUE]
           after == CHOOSE f : f = D(f)
           S == [n \in 0 .. L |-> Taken(x0, s, n)]
           g == [p \in (1 .. L) \X Consumed(x0) |-> op(p[2], s[p[1]])]
<1>1. Steps(consume, x0, l) = after[L]
  BY Zenon DEF Steps
<1>2. /\ L \in Nat /\ L \in 0 .. L /\ \A n \in 0 .. L : n = 0 \/ n \in 1 .. L
      /\ \A n \in 1 .. L : n \in 0 .. L /\ n - 1 \in 0 .. L /\ s[n] \in SqeT
  OBVIOUS
<1>3. /\ x0 \in S[0] /\ \A n \in 0 .. L : S[n] \subseteq Consumed(x0)
      /\ \A n \in 1 .. L : \A d \in S[n - 1] : op(d, s[n]) \in S[n]
  <2>1. ASSUME NEW d \in Consumed(x0), NEW w \in SqeT
        PROVE  op(d, w) \in Consumed(x0)
    <3>1. op(d, w) \in Consumed(d)
      BY Consume DEF Consumed
    <3> HIDE DEF op
    <3> QED
      BY <3>1 DEF Consumed
  <2>2. ASSUME NEW n \in 1 .. L, NEW d \in Taken(x0, s, n - 1), First(s, x0), ~NoDrop
        PROVE  Alike(d, op(d, s[n])) /\ FlowsOn(d, n - 1, op(d, s[n]), n)
    <3>1. d \in UringBack /\ d.ring.sq = x0.ring.sq
      BY DEF Taken, Consumed
    <3>2. n \in 1 .. Len(d.ring.sq) /\ s[n] = d.ring.sq[n]
      <4>1. Len(x0.ring.sq) \in Nat
        BY UringTypes
      <4> HIDE DEF s
      <4> QED
        BY <1>2, <2>2, <3>1, <4>1 DEF First
    <3>3. Alike(d, consume(d, d.ring.sq[n])) /\ FlowsOn(d, n - 1, consume(d, d.ring.sq[n]), n)
      BY <2>2, <3>1, <3>2, ConsumeFlow
    <3> HIDE DEF s, L
    <3> QED
      BY <3>2, <3>3
  <2> HIDE DEF s, L, op
  <2>3. x0 \in Taken(x0, s, 0)
    BY DEF Taken, Consumed, Alike, FlowsOn
  <2>4. ASSUME NEW n \in 1 .. L, NEW d \in Taken(x0, s, n - 1)
        PROVE  op(d, s[n]) \in Taken(x0, s, n)
    <3>1. d \in Consumed(x0) /\ s[n] \in SqeT
      BY <1>2 DEF Taken
    <3>2. op(d, s[n]) \in Consumed(x0)
      BY <2>1, <3>1
    <3>3. First(s, x0) /\ ~NoDrop => /\ Alike(d, op(d, s[n])) /\ FlowsOn(d, n - 1, op(d, s[n]), n)
                                      /\ Alike(x0, d) /\ FlowsOn(x0, 0, d, n - 1)
      BY <2>2 DEF Taken
    <3> QED
      BY <3>2, <3>3 DEF Taken, Alike, FlowsOn
  <2> QED
    BY <1>2, <2>3, <2>4 DEF Taken
<1>11. L \in 0 .. L => S[L] = Taken(x0, l, Len(l))
  OBVIOUS
<1> HIDE DEF s, L, op, S
<1>4. \A n \in 1 .. L : \A y \in S[n - 1] : g[<<n, y>>] = op(y, s[n])
  BY <1>2, <1>3
<1> HIDE DEF g
<1>5. Stays(L, x0, S, g)
  BY <1>2, <1>3, <1>4 DEF Stays
<1> HIDE DEF S
<1>6. PICK f : LoopRun(f, L, x0, g) /\ \A n \in 0 .. L : f[n] \in S[n]
  BY <1>2, <1>5, LoopRuns DEF RunStays
<1>7. f = D(f)
  <2>1. \A n \in 1 .. L : f[n] = g[<<n, f[n - 1]>>] /\ f[n - 1] \in S[n - 1]
    BY <1>2, <1>6 DEF LoopRun
  <2>2. \A n \in 1 .. L : f[n] = op(f[n - 1], s[n])
    BY <1>4, <2>1
  <2>3. \A n \in 1 .. L : f[n] = CHOOSE z \in {op(v, s[n]) : v \in {f[n - 1]}} : TRUE
    BY <2>2
  <2>4. \A n \in 0 .. L : f[n] = D(f)[n]
    BY <1>2, <1>6, <2>3 DEF LoopRun
  <2> QED
    BY <1>6, <2>4 DEF LoopRun
<1>8. after = D(after)
  BY <1>7
<1> HIDE DEF after
<1>9. after[0] = x0 /\ \A n \in 1 .. L : after[n] = op(after[n - 1], s[n])
  BY <1>2, <1>8
<1>10. after[L] \in S[L]
  <2>1. \A n \in 1 .. L : after[n - 1] \in S[n - 1] => after[n] = g[<<n, after[n - 1]>>]
    BY <1>4, <1>9
  <2>2. L \in Nat /\ after[0] = x0
    BY <1>2, <1>9
  <2> QED
    BY <1>5, <2>1, <2>2, LoopStays
<1> QED
  BY <1>1, <1>2, <1>10, <1>11

\* io_uring_enter brings back what did not fit.
LEMMA Flush ==
    ASSUME NEW b \in UringBack
    PROVE  flush(b) \in Consumed(b) /\ flush(b).ring.to_submit = b.ring.to_submit
<1> DEFINE cq == b.ring.cq
           log == b.ring.backlog
           R == {2 * b.entries - Len(cq), Len(log)}
           room == Min(R)
           first == SubSeq(log, 1, room)
           rest == SubSeq(log, room + 1, Len(log))
           r == [b.ring EXCEPT !.cq = cq \o first, !.backlog = rest]
<1>1. /\ b \in UringRec /\ b.ring \in Ring /\ cq \in Seq(CqeT) /\ log \in Seq(CqeT)
      /\ b.entries \in Nat /\ Len(cq) \in Nat /\ Len(log) \in Nat /\ Len(cq) <= 2 * b.entries
      /\ b.ring.to_submit <= Len(b.ring.sq) /\ Len(b.ring.sq) <= b.entries
  BY UringTypes
<1>2. room \in Nat /\ room <= Len(log) /\ room <= 2 * b.entries - Len(cq)
  <2>1. R \in SUBSET Nat /\ R # {}
    BY <1>1
  <2>2. room \in R /\ \A n \in R : room <= n
    <3> HIDE DEF R
    <3> QED
      BY <2>1, MinNat
  <2> HIDE DEF room
  <2> QED
    BY <1>1, <2>1, <2>2
<1>3. flush(b) = [b EXCEPT !.ring = r]
  <2>1. [b EXCEPT !.ring.cq = @ \o first, !.ring.backlog = SubSeq(@, room + 1, Len(@))]
          = [b EXCEPT !.ring = r]
    BY <1>1 DEF UringRec, Ring
  <2> HIDE DEF r
  <2> QED
    BY <2>1, Zenon DEF flush
<1> HIDE DEF room, cq, log
<1>4. first \in Seq(CqeT) /\ Len(first) = room /\ rest \in Seq(CqeT)
  BY <1>1, <1>2
<1> HIDE DEF first, rest
<1>5. cq \o first \in Seq(CqeT) /\ Len(cq \o first) = Len(cq) + room
  <2>1. cq \in Seq(CqeT) /\ first \in Seq(CqeT)
    BY <1>1, <1>4
  <2>2. cq \o first \in Seq(CqeT) /\ Len(cq \o first) = Len(cq) + Len(first)
    BY <2>1
  <2> QED
    BY <1>4, <2>2
<1> DEFINE q == cq \o first
<1>6. q \in Seq(CqeT) /\ Len(q) <= 2 * b.entries
  <2>1. Len(q) = Len(cq) + room
    BY <1>5
  <2> HIDE DEF q
  <2> QED
    BY <1>1, <1>2, <1>5, <2>1 DEF q
<1> HIDE DEF q
<1>7. r = [b.ring EXCEPT !.cq = q, !.backlog = rest]
  BY DEF q
<1> HIDE DEF r
<1>8. r \in Ring /\ r.sq = b.ring.sq /\ r.to_submit = b.ring.to_submit /\ r.cq = q
  BY <1>1, <1>4, <1>6, <1>7 DEF Ring
<1> QED
  BY <1>1, <1>3, <1>6, <1>8, NewRing DEF Consumed

\* What is submitted leaves the ring; if the kernel refuses, it stays.
LEMMA Enter ==
    ASSUME NEW b \in UringBack, Files
    PROVE  iouring_enter(b) \in UringBack
<1> DEFINE f == flush(b)
           n == b.ring.to_submit
           l == SubSeq(b.ring.sq, 1, n)
           d == Steps(consume, f, l)
           rest == SubSeq(d.ring.sq, n + 1, Len(d.ring.sq))
           r1 == [f.ring EXCEPT !.to_submit = 0]
           r2 == [d.ring EXCEPT !.sq = rest, !.to_submit = 0]
<1>1. /\ n \in Nat /\ b.ring.sq \in Seq(SqeT) /\ Len(b.ring.sq) \in Nat /\ n <= Len(b.ring.sq)
  BY UringTypes
<1>2. f \in Consumed(b)
  BY Flush
<1>3. l \in Seq(SqeT)
  BY <1>1
<1> HIDE DEF l, n, f
<1>4. d \in Consumed(f)
  BY <1>2, <1>3, ConsumeAll DEF Consumed, Taken
<1>5. f \in UringBack /\ d \in UringBack /\ d.ring.sq = b.ring.sq /\ f.ring.sq = b.ring.sq
  BY <1>2, <1>4 DEF Consumed
<1> HIDE DEF d
<1>6. rest \in Seq(SqeT) /\ Len(rest) \in Nat /\ Len(rest) <= Len(b.ring.sq)
  BY <1>1, <1>5
<1> HIDE DEF rest
<1>7. [f EXCEPT !.ring = r1] \in UringBack
  <2>1. /\ f.ring \in Ring /\ Len(f.ring.sq) \in Nat /\ Len(f.ring.sq) <= f.entries
        /\ Len(f.ring.cq) <= 2 * f.entries
    BY <1>5, UringTypes
  <2>2. r1 \in Ring /\ r1.sq = f.ring.sq /\ r1.to_submit = 0 /\ r1.cq = f.ring.cq
    BY <2>1 DEF Ring
  <2> HIDE DEF r1
  <2>3. r1.to_submit <= Len(r1.sq)
    BY <2>1, <2>2
  <2> QED
    BY <1>5, <2>1, <2>2, <2>3, NewRing
<1>8. [d EXCEPT !.ring = r2] \in UringBack
  <2>1. /\ d.ring \in Ring /\ Len(d.ring.sq) \in Nat /\ Len(d.ring.sq) <= d.entries
        /\ Len(d.ring.cq) <= 2 * d.entries /\ d.entries \in Nat
    BY <1>5, UringTypes
  <2>2. r2 \in Ring /\ r2.sq = rest /\ r2.to_submit = 0 /\ r2.cq = d.ring.cq
    BY <1>6, <2>1 DEF Ring
  <2> HIDE DEF r2
  <2>3. r2.to_submit <= Len(r2.sq) /\ Len(r2.sq) <= d.entries
    BY <1>5, <1>6, <2>1, <2>2
  <2> QED
    BY <1>5, <2>1, <2>2, <2>3, NewRing
<1>9. iouring_enter(b) = [f EXCEPT !.ring = r1] \/ iouring_enter(b) = [d EXCEPT !.ring = r2]
  <2>1. [f EXCEPT !.ring.to_submit = 0] = [f EXCEPT !.ring = r1]
    BY <1>5 DEF UringBack, UringRec
  <2>2. [d EXCEPT !.ring.sq = SubSeq(@, n + 1, Len(@)), !.ring.to_submit = 0] = [d EXCEPT !.ring = r2]
    <3>1. d \in UringRec /\ d.ring \in Ring
      BY <1>5, UringTypes
    <3> QED
      BY <3>1 DEF UringRec, Ring, rest
  <2> HIDE DEF r1, r2
  <2>3. iouring_entered(d, n) = [d EXCEPT !.ring = r2]
    BY <2>2, Zenon DEF iouring_entered
  <2>4. iouring_enter(b) = IF busy(b) THEN [f EXCEPT !.ring = r1] ELSE iouring_entered(d, n)
    BY <2>1, Zenon DEF iouring_enter, f, d, l, n
  <2> QED
    BY <2>3, <2>4
<1> QED
  BY <1>7, <1>8, <1>9

\* Without a backlog there is nothing to bring back.
LEMMA FlushPlain ==
    ASSUME NEW b \in UringBack, b.ring.backlog = <<>>
    PROVE  flush(b) = b
<1> DEFINE R == {2 * b.entries - Len(b.ring.cq), Len(b.ring.backlog)}
           room == Min(R)
           first == SubSeq(b.ring.backlog, 1, room)
           rest == SubSeq(b.ring.backlog, room + 1, Len(b.ring.backlog))
<1>1. /\ b \in UringRec /\ b.ring \in Ring /\ b.ring.cq \in Seq(CqeT) /\ b.ring.backlog \in Seq(CqeT)
      /\ b.entries \in Nat /\ Len(b.ring.cq) \in Nat /\ Len(b.ring.cq) <= 2 * b.entries
  BY UringTypes
<1>2. room = 0
  <2>1. R \in SUBSET Nat /\ R # {} /\ 0 \in R
    BY <1>1
  <2>2. room \in R /\ \A n \in R : room <= n
    <3> HIDE DEF R
    <3> QED
      BY <2>1, MinNat
  <2> HIDE DEF room, R
  <2> QED
    BY <2>1, <2>2
<1>3. first = <<>> /\ rest = <<>>
  <2> HIDE DEF room
  <2> QED
    BY <1>1, <1>2
<1>4. b.ring.cq \o <<>> = b.ring.cq
  BY <1>1
<1>5. flush(b) = [b EXCEPT !.ring.cq = @ \o first, !.ring.backlog = rest]
  BY Zenon DEF flush
<1> HIDE DEF first, rest, room
<1>6. flush(b) = [b EXCEPT !.ring.cq = b.ring.cq, !.ring.backlog = b.ring.backlog]
  <2> DEFINE q == b.ring.cq \o first
  <2>1. q = b.ring.cq
    BY <1>3, <1>4
  <2>2. flush(b) = [b EXCEPT !.ring.cq = q, !.ring.backlog = rest]
    BY <1>1, <1>5 DEF UringRec, Ring
  <2> HIDE DEF q
  <2> QED
    BY <1>3, <2>1, <2>2
<1> QED
  BY <1>1, <1>6 DEF UringRec, Ring

\* The kernel takes all that is in the ring.
LEMMA EnterFlow ==
    ASSUME ~NoDrop, Files, NEW b \in UringBack, Plain(b)
    PROVE  LET z == iouring_enter(b)
           IN  /\ z.ring.sq = <<>> /\ Plain(z) /\ z.egen = b.egen
               /\ FlowsOn(b, 0, z, 0)
<1> DEFINE n == Len(b.ring.sq)
           l == SubSeq(b.ring.sq, 1, n)
           d == Steps(consume, b, l)
           z == iouring_enter(b)
<1>1. b.ring.sq \in Seq(SqeT) /\ n \in Nat /\ b.ring.to_submit = n
  BY UringTypes DEF Plain
<1>2. l \in Seq(SqeT) /\ Len(l) = n /\ First(l, b)
  BY <1>1 DEF First
<1>3. flush(b) = b /\ ~busy(b)
  BY FlushPlain DEF busy, Plain
<1>4. z = iouring_entered(d, n)
  <2>1. z = IF busy(b) THEN [flush(b) EXCEPT !.ring.to_submit = 0]
            ELSE iouring_entered(Steps(consume, flush(b), SubSeq(b.ring.sq, 1, b.ring.to_submit)), b.ring.to_submit)
    BY Zenon DEF iouring_enter
  <2>2. Steps(consume, flush(b), SubSeq(b.ring.sq, 1, b.ring.to_submit)) = d
    BY <1>1, <1>3, Zenon
  <2> HIDE DEF z, d, l
  <2> QED
    BY <1>1, <1>3, <2>1, <2>2
<1> HIDE DEF z
<1>5. d \in Taken(b, l, n)
  <2> HIDE DEF l
  <2> QED
    BY <1>2, ConsumeAll
<1> HIDE DEF d, l
<1>6. d \in UringBack /\ Alike(b, d) /\ FlowsOn(b, 0, d, n)
  BY <1>2, <1>5 DEF Taken, Consumed
<1>7. d \in UringRec /\ d.ring \in Ring /\ d.ring.sq = b.ring.sq /\ d.egen = b.egen
  BY <1>6, UringTypes DEF Alike
<1>8. SubSeq(d.ring.sq, n + 1, Len(d.ring.sq)) = <<>>
  BY <1>1, <1>7
<1>9. /\ z.ring.sq = <<>> /\ z.ring.to_submit = 0 /\ z.ring.backlog = d.ring.backlog
      /\ z.ring.reqs = d.ring.reqs /\ z.ring.cq = d.ring.cq /\ z.ring.overflow = d.ring.overflow
      /\ z.egen = d.egen /\ z.spins = d.spins
  <2> DEFINE q == SubSeq(d.ring.sq, n + 1, Len(d.ring.sq))
  <2>1. z = [d EXCEPT !.ring.sq = q, !.ring.to_submit = 0]
    <3>1. z = [d EXCEPT !.ring.sq = SubSeq(@, n + 1, Len(@)), !.ring.to_submit = 0]
      BY <1>4, Zenon DEF iouring_entered
    <3> QED
      BY <1>7, <3>1 DEF UringRec, Ring
  <2> HIDE DEF q
  <2>2. q = <<>>
    BY <1>8 DEF q
  <2> QED
    BY <1>7, <2>1, <2>2 DEF UringRec, Ring
<1>10. Plain(z)
  BY <1>6, <1>9 DEF Plain, Alike
<1>11. ASSUME NEW m, Flow(m, b, 0) PROVE Flow(m, z, 0)
  <2> SUFFICES ASSUME ~z.ring.overflow
               PROVE  Dated(z) /\ \A fd \in Fd : IF m[fd] = {} THEN None(z, 0, fd) ELSE One(z, 0, fd)
    BY <1>10 DEF Flow
  <2>1. Dated(d) /\ \A fd \in Fd : IF m[fd] = {} THEN None(d, n, fd) ELSE One(d, n, fd)
    BY <1>6, <1>9, <1>11 DEF FlowsOn, Flow
  <2>2. Dated(z)
    <3>1. \A x : (DatedCqe(d, x) => DatedCqe(z, x)) /\ (DatedSqe(d, x) => DatedSqe(z, x))
      BY <1>9, Zenon DEF DatedCqe, DatedSqe
    <3> QED
      BY <1>9, <2>1, <3>1 DEF Dated
  <2>3. \A fd \in Fd : Unsent(d, n, fd) = {} /\ Unsent(z, 0, fd) = {}
    BY <1>1, <1>7, <1>9 DEF Unsent
  <2>4. \A fd \in Fd : Waiting(z, fd) = Waiting(d, fd) /\ Answered(z, fd) = Answered(d, fd)
    BY <1>9 DEF Waiting, Answered
  <2>5. \A fd \in Fd : (None(d, n, fd) => None(z, 0, fd)) /\ (One(d, n, fd) => One(z, 0, fd))
    BY <2>3, <2>4 DEF None, One
  <2> QED
    BY <2>1, <2>2, <2>5
<1> QED
  BY <1>7, <1>9, <1>10, <1>11 DEF FlowsOn, z

-------------------------------------------------------------------------------
(* Requests and completions *)

\* A submission has a free entry, or libev searches for one for ever.
LEMMA Submit ==
    ASSUME NEW b \in UringBack, NEW sqe \in SqeT, Files
    PROVE  iouring_sqe(b, sqe) \in UringBack
<1> DEFINE d == IF iouring_sqe_free(b) THEN b ELSE iouring_enter(b)
           r == [d.ring EXCEPT !.sq = Append(@, sqe), !.to_submit = @ + 1]
           z == iouring_sqe(b, sqe)
<1>1. d \in UringBack
  BY Enter
<1> HIDE DEF d
<1>2. /\ d \in UringRec /\ d.ring \in Ring /\ d.ring.sq \in Seq(SqeT) /\ d.ring.to_submit \in Nat
      /\ Len(d.ring.sq) \in Nat /\ d.entries \in Nat /\ d.ring.to_submit <= Len(d.ring.sq)
      /\ Len(d.ring.cq) <= 2 * d.entries
  BY <1>1, UringTypes
<1>3. \/ z = [d EXCEPT !.spins = TRUE]
      \/ z = [d EXCEPT !.ring = r] /\ Len(d.ring.sq) < d.entries
  <2> DEFINE f(v) == IF b.spins \/ ~iouring_sqe_free(v) THEN [v EXCEPT !.spins = TRUE]
                     ELSE [v EXCEPT !.ring.sq = Append(@, sqe), !.ring.to_submit = @ + 1]
  <2>1. z = CHOOSE y \in {f(v) : v \in {d}} : TRUE
    BY Zenon DEF iouring_sqe, d
  <2>2. z = f(d)
    <3> HIDE DEF f
    <3> QED
      BY <2>1
  <2>3. [d EXCEPT !.ring.sq = Append(@, sqe), !.ring.to_submit = @ + 1] = [d EXCEPT !.ring = r]
    BY <1>2 DEF UringRec, Ring
  <2> HIDE DEF r, z
  <2>4. \/ f(d) = [d EXCEPT !.spins = TRUE]
        \/ f(d) = [d EXCEPT !.ring = r] /\ iouring_sqe_free(d)
    BY <2>3
  <2> QED
    BY <2>2, <2>4 DEF iouring_sqe_free
<1> HIDE DEF z
<1>4. [d EXCEPT !.spins = TRUE] \in UringBack
  <2> DEFINE y == [d EXCEPT !.spins = TRUE]
  <2>1. y \in UringRec /\ y.ring = d.ring /\ y.entries = d.entries
    BY <1>2 DEF UringRec
  <2> HIDE DEF y
  <2>2. y \in UringBack
    BY <1>1, <2>1 DEF UringBack
  <2> QED
    BY <2>2 DEF y
<1>5. Len(d.ring.sq) < d.entries => [d EXCEPT !.ring = r] \in UringBack
  <2> SUFFICES ASSUME Len(d.ring.sq) < d.entries PROVE [d EXCEPT !.ring = r] \in UringBack
    OBVIOUS
  <2> DEFINE q == Append(d.ring.sq, sqe)
             k == d.ring.to_submit + 1
  <2>1. q \in Seq(SqeT) /\ Len(q) = Len(d.ring.sq) + 1
    BY <1>2
  <2>2. k \in Nat
    BY <1>2
  <2>3. r = [d.ring EXCEPT !.sq = q, !.to_submit = k]
    BY <1>2 DEF Ring
  <2>4. k <= Len(q) /\ Len(q) <= d.entries
    <3> HIDE DEF q
    <3> QED
      BY <1>2, <2>1
  <2> HIDE DEF q, k, r
  <2>5. r \in Ring /\ r.sq = q /\ r.to_submit = k /\ r.cq = d.ring.cq
    BY <1>2, <2>1, <2>2, <2>3 DEF Ring
  <2> QED
    BY <1>1, <1>2, <2>4, <2>5, NewRing
<1> QED
  BY <1>3, <1>4, <1>5 DEF z

\* A request of the descriptor.
LEMMA MakeRequest ==
    ASSUME NEW b \in UringBack, NEW sqe \in SqeT, Files
    PROVE  iouring_request(b, sqe) \in UringBack
<1> DEFINE q == [sqe EXCEPT !.gen = b.egen[sqe.fd]]
           d == iouring_sqe(b, q)
           g == [d.egen EXCEPT ![sqe.fd] = IF sqe.op = "POLL_REMOVE" THEN @ + 1 ELSE @]
           z == [d EXCEPT !.egen = g]
<1>1. b.egen \in [Fd -> Nat] /\ sqe.fd \in Fd
  BY UringTypes DEF SqeT
<1>2. q \in SqeT
  <2>1. b.egen[sqe.fd] \in Nat
    BY <1>1
  <2> QED
    BY <2>1 DEF SqeT
<1> HIDE DEF q
<1>3. d \in UringBack
  BY <1>2, Submit
<1> HIDE DEF d
<1>4. d \in UringRec /\ d.egen \in [Fd -> Nat]
  BY <1>3, UringTypes
<1>5. g \in [Fd -> Nat]
  BY <1>1, <1>4
<1>6. iouring_request(b, sqe) = z
  <2>1. [d EXCEPT !.egen[sqe.fd] = IF sqe.op = "POLL_REMOVE" THEN @ + 1 ELSE @] = z
    BY <1>4 DEF UringRec
  <2> HIDE DEF z
  <2> QED
    BY <2>1, Zenon DEF iouring_request, d, q
<1> HIDE DEF g
<1>7. z \in UringRec /\ z.ring = d.ring /\ z.entries = d.entries
  BY <1>4, <1>5 DEF UringRec
<1> HIDE DEF z
<1>8. z \in UringBack
  BY <1>3, <1>7 DEF UringBack
<1> QED
  BY <1>6, <1>8

\* The entry is put after the submissions of d.
Pushed(d, z, sqe) ==
    /\ z.ring.sq = Append(d.ring.sq, sqe) /\ z.ring.to_submit = d.ring.to_submit + 1
    /\ z.ring.reqs = d.ring.reqs /\ z.ring.cq = d.ring.cq /\ z.ring.backlog = d.ring.backlog
    /\ z.ring.overflow = d.ring.overflow /\ z.egen = d.egen /\ z.spins = d.spins

\* There is a free entry once the kernel has taken what was in the ring.
LEMMA SubmitFlow ==
    ASSUME ~NoDrop, Files, NEW b \in UringBack, NEW sqe \in SqeT, Plain(b)
    PROVE  \E d \in UringBack : /\ Plain(d) /\ d.egen = b.egen /\ FlowsOn(b, 0, d, 0)
                                /\ Pushed(d, iouring_sqe(b, sqe), sqe)
<1> DEFINE d == IF iouring_sqe_free(b) THEN b ELSE iouring_enter(b)
           z == iouring_sqe(b, sqe)
<1>1. d \in UringBack
  BY Enter
<1>2. Plain(d) /\ d.egen = b.egen /\ FlowsOn(b, 0, d, 0)
  <2>1. FlowsOn(b, 0, b, 0)
    BY DEF FlowsOn
  <2>2. Plain(iouring_enter(b)) /\ iouring_enter(b).egen = b.egen /\ FlowsOn(b, 0, iouring_enter(b), 0)
    BY EnterFlow
  <2> QED
    BY <2>1, <2>2
<1>3. iouring_sqe_free(d)
  <2>1. CASE iouring_sqe_free(b)
    BY <2>1
  <2>2. CASE ~iouring_sqe_free(b)
    <3>1. d = iouring_enter(b) /\ d.ring.sq = <<>>
      BY <2>2, EnterFlow
    <3>2. d.entries \in Nat /\ d.entries >= 1
      BY <1>1, UringTypes
    <3> HIDE DEF d
    <3> QED
      BY <3>1, <3>2 DEF iouring_sqe_free
  <2> QED
    BY <2>1, <2>2
<1> DEFINE f(v) == IF b.spins \/ ~iouring_sqe_free(v) THEN [v EXCEPT !.spins = TRUE]
                   ELSE [v EXCEPT !.ring.sq = Append(@, sqe), !.ring.to_submit = @ + 1]
<1>4. z = CHOOSE y \in {f(v) : v \in {d}} : TRUE
  BY Zenon DEF iouring_sqe
<1> HIDE DEF d, z
<1>5. z = f(d)
  <2> HIDE DEF f
  <2> QED
    BY <1>4
<1>6. z = [d EXCEPT !.ring.sq = Append(@, sqe), !.ring.to_submit = @ + 1]
  BY <1>3, <1>5 DEF Plain
<1>7. d \in UringRec /\ d.ring \in Ring
  BY <1>1, UringTypes
<1> DEFINE q == Append(d.ring.sq, sqe)
           n == d.ring.to_submit + 1
<1>8. z = [d EXCEPT !.ring.sq = q, !.ring.to_submit = n]
  BY <1>6, <1>7 DEF UringRec, Ring
<1> HIDE DEF q, n
<1>9. /\ z.ring.sq = q /\ z.ring.to_submit = n /\ z.ring.reqs = d.ring.reqs /\ z.ring.cq = d.ring.cq
      /\ z.ring.backlog = d.ring.backlog /\ z.ring.overflow = d.ring.overflow
      /\ z.egen = d.egen /\ z.spins = d.spins
  BY <1>7, <1>8 DEF UringRec, Ring
<1>10. Pushed(d, z, sqe)
  BY <1>9 DEF Pushed, q, n
<1> QED
  BY <1>1, <1>2, <1>10 DEF z

\* The generation of the new entry, and of the descriptor after a removal.
Requested(d, z, sqe) ==
    LET q == [sqe EXCEPT !.gen = d.egen[sqe.fd]]
    IN  /\ z.ring.sq = Append(d.ring.sq, q) /\ z.ring.to_submit = d.ring.to_submit + 1
        /\ z.ring.reqs = d.ring.reqs /\ z.ring.cq = d.ring.cq /\ z.ring.backlog = d.ring.backlog
        /\ z.ring.overflow = d.ring.overflow /\ z.spins = d.spins
        /\ z.egen = [d.egen EXCEPT ![sqe.fd] = IF sqe.op = "POLL_REMOVE" THEN @ + 1 ELSE @]

LEMMA RequestIs ==
    ASSUME ~NoDrop, Files, NEW b \in UringBack, NEW sqe \in SqeT, Plain(b)
    PROVE  \E d \in UringBack : /\ Plain(d) /\ d.egen = b.egen /\ FlowsOn(b, 0, d, 0)
                                /\ Requested(d, iouring_request(b, sqe), sqe)
<1> DEFINE q == [sqe EXCEPT !.gen = b.egen[sqe.fd]]
           y == iouring_sqe(b, q)
           z == iouring_request(b, sqe)
<1>1. b.egen \in [Fd -> Nat] /\ sqe.fd \in Fd
  BY UringTypes DEF SqeT
<1>2. q \in SqeT
  <2>1. b.egen[sqe.fd] \in Nat
    BY <1>1
  <2> QED
    BY <2>1 DEF SqeT
<1>3. z = [y EXCEPT !.egen[sqe.fd] = IF sqe.op = "POLL_REMOVE" THEN @ + 1 ELSE @]
  BY Zenon DEF iouring_request
<1> HIDE DEF z, q
<1>4. y \in UringBack
  BY <1>2, Submit
<1>5. PICK d \in UringBack : Plain(d) /\ d.egen = b.egen /\ FlowsOn(b, 0, d, 0) /\ Pushed(d, y, q)
  BY <1>2, SubmitFlow
<1> HIDE DEF y
<1> DEFINE g == [y.egen EXCEPT ![sqe.fd] = IF sqe.op = "POLL_REMOVE" THEN @ + 1 ELSE @]
<1>6. y \in UringRec /\ z = [y EXCEPT !.egen = g]
  BY <1>3, <1>4, UringTypes DEF UringRec
<1>7. g = [d.egen EXCEPT ![sqe.fd] = IF sqe.op = "POLL_REMOVE" THEN @ + 1 ELSE @]
  BY <1>5 DEF Pushed
<1> HIDE DEF g
<1>8. z.ring = y.ring /\ z.egen = g /\ z.spins = y.spins
  BY <1>6 DEF UringRec
<1>9. Requested(d, z, sqe)
  BY <1>5, <1>7, <1>8 DEF Pushed, Requested, q
<1> QED
  BY <1>5, <1>9 DEF z

\* A removal: the old request and its answers are of a past generation.
LEMMA RemoveFlow ==
    ASSUME ~NoDrop, Files, NEW b \in UringBack, NEW sqe \in SqeT, sqe.op = "POLL_REMOVE",
           NEW m \in [Fd -> SUBSET RW], Flow(m, b, 0)
    PROVE  Flow([m EXCEPT ![sqe.fd] = {}], iouring_request(b, sqe), 0)
<1> DEFINE z == iouring_request(b, sqe)
           f == sqe.fd
<1>1. PICK d \in UringBack : Plain(d) /\ d.egen = b.egen /\ FlowsOn(b, 0, d, 0) /\ Requested(d, z, sqe)
  BY RequestIs DEF Flow
<1> HIDE DEF z
<1>2. Flow(m, d, 0)
  BY <1>1 DEF FlowsOn
<1> DEFINE q == [sqe EXCEPT !.gen = d.egen[f]]
           s == d.ring.sq
           n == Len(s)
<1>3. d.egen \in [Fd -> Nat] /\ f \in Fd /\ s \in Seq(SqeT) /\ n \in Nat /\ d.ring.cq \in Seq(CqeT)
      /\ d.ring.reqs \in SUBSET Request /\ d.egen[f] \in Nat
  BY UringTypes DEF SqeT
<1>4. q.fd = f /\ q.gen = d.egen[f] /\ q.op = "POLL_REMOVE" /\ q \in SqeT
  BY <1>3 DEF SqeT
<1> HIDE DEF q
<1>5. /\ z.ring.sq = Append(s, q) /\ z.ring.to_submit = d.ring.to_submit + 1
      /\ z.ring.reqs = d.ring.reqs /\ z.ring.cq = d.ring.cq /\ z.ring.backlog = d.ring.backlog
      /\ z.ring.overflow = d.ring.overflow /\ z.spins = d.spins
      /\ z.egen = [d.egen EXCEPT ![f] = d.egen[f] + 1]
  BY <1>1 DEF Requested, q
<1>6. Len(z.ring.sq) = n + 1 /\ z.ring.sq[n + 1] = q /\ (\A i \in 1 .. n : z.ring.sq[i] = s[i])
      /\ \A i \in 1 .. n + 1 : i \in 1 .. n \/ i = n + 1
  <2>1. /\ Len(Append(s, q)) = n + 1 /\ Append(s, q)[n + 1] = q
        /\ \A i \in 1 .. n : Append(s, q)[i] = s[i]
    BY <1>3
  <2> QED
    BY <1>3, <1>5, <2>1
<1>7. Plain(z)
  BY <1>1, <1>3, <1>5, <1>6 DEF Plain
<1> SUFFICES ASSUME ~z.ring.overflow
             PROVE  /\ Dated(z)
                    /\ \A fd \in Fd : IF [m EXCEPT ![f] = {}][fd] = {} THEN None(z, 0, fd) ELSE One(z, 0, fd)
  BY <1>7 DEF Flow, z
<1>8. Dated(d) /\ \A fd \in Fd : IF m[fd] = {} THEN None(d, 0, fd) ELSE One(d, 0, fd)
  BY <1>2, <1>5 DEF Flow
<1>9. /\ z.egen[f] = d.egen[f] + 1 /\ \A g \in Fd : g # f => z.egen[g] = d.egen[g]
      /\ \A g \in Fd : d.egen[g] <= z.egen[g] /\ d.egen[g] \in Nat /\ z.egen[g] \in Nat
  BY <1>3, <1>5
<1>10. ASSUME NEW i \in 1 .. Len(z.ring.sq) PROVE DatedSqe(z, z.ring.sq[i])
  <2>1. CASE i \in 1 .. n
    <3>1. z.ring.sq[i] = s[i] /\ s[i] \in SqeT /\ DatedSqe(d, s[i])
      BY <1>3, <1>6, <1>8, <2>1 DEF Dated
    <3>2. s[i].fd \in Fd /\ s[i].gen \in Nat
      BY <3>1 DEF SqeT
    <3> QED
      BY <1>9, <3>1, <3>2 DEF DatedSqe
  <2>2. CASE i = n + 1
    <3> DEFINE g == d.egen[f]
    <3>1. z.egen[f] = g + 1 /\ g \in Nat /\ q.gen = g
      BY <1>3, <1>4, <1>9
    <3> HIDE DEF g
    <3>2. q.gen <= z.egen[f] /\ q.gen < z.egen[f]
      BY <3>1
    <3>3. DatedSqe(z, q)
      BY <1>4, <3>2 DEF DatedSqe
    <3> QED
      BY <1>6, <2>2, <3>3
  <2> QED
    BY <1>6, <2>1, <2>2
<1>11. ASSUME NEW r \in z.ring.reqs PROVE r.gen <= z.egen[r.fd] /\ r.gen <= d.egen[r.fd] /\ r.gen \in Nat
  <2>1. r \in Request /\ r.gen <= d.egen[r.fd]
    BY <1>3, <1>5, <1>8 DEF Dated
  <2>2. r.fd \in Fd /\ r.gen \in Nat
    BY <2>1 DEF Request
  <2> QED
    BY <1>9, <2>1, <2>2
<1>12. ASSUME NEW i \in 1 .. Len(z.ring.cq) PROVE DatedCqe(z, z.ring.cq[i])
  <2> DEFINE p == z.ring.cq[i]
  <2>1. p \in CqeT /\ DatedCqe(d, p)
    BY <1>3, <1>5, <1>8 DEF Dated
  <2> HIDE DEF p
  <2>2. p # Removed => p.fd \in Fd /\ p.gen \in Nat
    BY <2>1 DEF CqeT
  <2>3. DatedCqe(z, p)
    BY <1>9, <2>1, <2>2 DEF DatedCqe
  <2> QED
    BY <2>3 DEF p
<1>13. Dated(z)
  BY <1>10, <1>11, <1>12 DEF Dated
<1>14. None(z, 0, f)
  <2>1. Unsent(z, 0, f) = {}
    <3>1. ASSUME NEW i \in 1 .. Len(z.ring.sq), z.ring.sq[i].op = "POLL_ADD", z.ring.sq[i].fd = f
          PROVE  z.ring.sq[i].gen # z.egen[f]
      <4>1. i \in 1 .. n /\ z.ring.sq[i] = s[i]
        BY <1>4, <1>6, <3>1
      <4>2. DatedSqe(d, s[i]) /\ s[i] \in SqeT
        BY <1>3, <1>8, <4>1 DEF Dated
      <4>3. s[i].gen <= d.egen[f] /\ s[i].gen \in Nat
        BY <3>1, <4>1, <4>2 DEF DatedSqe, SqeT
      <4> QED
        BY <1>3, <1>9, <4>1, <4>3 DEF Fd
    <3>2. 0 + 1 = 1
      OBVIOUS
    <3> QED
      BY <3>1, <3>2 DEF Unsent
  <2>2. Waiting(z, f) = {}
    BY <1>3, <1>5, <1>9, <1>11 DEF Waiting
  <2>3. Answered(z, f) = {}
    <3>1. ASSUME NEW i \in 1 .. Len(z.ring.cq), z.ring.cq[i].fd = f
          PROVE  z.ring.cq[i].gen # z.egen[f]
      <4> DEFINE p == z.ring.cq[i]
      <4>1. p \in CqeT /\ DatedCqe(d, p) /\ p.fd = f
        BY <1>3, <1>5, <1>8, <3>1 DEF Dated
      <4> HIDE DEF p
      <4>2. p # Removed
        BY <1>3, <4>1 DEF Removed, Cqe, Fd
      <4>3. p.gen \in Nat /\ p.gen <= d.egen[f]
        BY <4>1, <4>2 DEF CqeT, DatedCqe
      <4> QED
        BY <1>3, <1>9, <4>3 DEF p
    <3> QED
      BY <3>1 DEF Answered
  <2> QED
    BY <2>1, <2>2, <2>3 DEF None
<1>15. ASSUME NEW fd \in Fd, fd # f
       PROVE  (None(d, 0, fd) => None(z, 0, fd)) /\ (One(d, 0, fd) => One(z, 0, fd))
  <2>1. Unsent(z, 0, fd) = Unsent(d, 0, fd)
    <3>1. \A i \in 1 .. n + 1 : z.ring.sq[i].fd = fd => i \in 1 .. n /\ z.ring.sq[i] = s[i]
      BY <1>4, <1>6, <1>15
    <3>2. 1 .. n \subseteq 1 .. n + 1 /\ 0 + 1 = 1
      BY <1>3
    <3>3. z.egen[fd] = d.egen[fd]
      BY <1>9, <1>15
    <3> QED
      BY <1>6, <3>1, <3>2, <3>3 DEF Unsent
  <2>2. Waiting(z, fd) = Waiting(d, fd) /\ Answered(z, fd) = Answered(d, fd)
    BY <1>5, <1>9, <1>15 DEF Waiting, Answered
  <2> QED
    BY <2>1, <2>2 DEF None, One
<1> QED
  BY <1>3, <1>8, <1>13, <1>14, <1>15

\* A request for a descriptor that has none.
LEMMA AddFlow ==
    ASSUME ~NoDrop, Files, NEW b \in UringBack, NEW sqe \in SqeT, sqe.op = "POLL_ADD",
           NEW m \in [Fd -> SUBSET RW], Flow(m, b, 0),
           m[sqe.fd] = {}, sqe.mask # {}, tab[sqe.fd] # Closed
    PROVE  Flow([m EXCEPT ![sqe.fd] = sqe.mask], iouring_request(b, sqe), 0)
<1> DEFINE z == iouring_request(b, sqe)
           f == sqe.fd
<1>1. PICK d \in UringBack : Plain(d) /\ d.egen = b.egen /\ FlowsOn(b, 0, d, 0) /\ Requested(d, z, sqe)
  BY RequestIs DEF Flow
<1> HIDE DEF z
<1>2. Flow(m, d, 0)
  BY <1>1 DEF FlowsOn
<1> DEFINE q == [sqe EXCEPT !.gen = d.egen[f]]
           s == d.ring.sq
           n == Len(s)
<1>3. d.egen \in [Fd -> Nat] /\ f \in Fd /\ s \in Seq(SqeT) /\ n \in Nat /\ d.egen[f] \in Nat
  BY UringTypes DEF SqeT
<1>4. q.fd = f /\ q.gen = d.egen[f] /\ q.op = "POLL_ADD" /\ q \in SqeT
  BY <1>3 DEF SqeT
<1> HIDE DEF q
<1>5. /\ z.ring.sq = Append(s, q) /\ z.ring.to_submit = d.ring.to_submit + 1
      /\ z.ring.reqs = d.ring.reqs /\ z.ring.cq = d.ring.cq /\ z.ring.backlog = d.ring.backlog
      /\ z.ring.overflow = d.ring.overflow /\ z.spins = d.spins /\ z.egen = d.egen
  <2>1. z.egen = [d.egen EXCEPT ![f] = d.egen[f]]
    BY <1>1 DEF Requested
  <2>2. z.egen = d.egen
    BY <1>3, <2>1
  <2> QED
    BY <1>1, <2>2 DEF Requested, q
<1>6. Len(z.ring.sq) = n + 1 /\ z.ring.sq[n + 1] = q /\ (\A i \in 1 .. n : z.ring.sq[i] = s[i])
      /\ \A i \in 1 .. n + 1 : i \in 1 .. n \/ i = n + 1
  <2>1. /\ Len(Append(s, q)) = n + 1 /\ Append(s, q)[n + 1] = q
        /\ \A i \in 1 .. n : Append(s, q)[i] = s[i]
    BY <1>3
  <2> QED
    BY <1>3, <1>5, <2>1
<1>7. Plain(z)
  BY <1>1, <1>3, <1>5, <1>6 DEF Plain
<1> SUFFICES ASSUME ~z.ring.overflow
             PROVE  /\ Dated(z)
                    /\ \A fd \in Fd : IF [m EXCEPT ![f] = sqe.mask][fd] = {}
                                      THEN None(z, 0, fd) ELSE One(z, 0, fd)
  BY <1>7 DEF Flow, z
<1>8. Dated(d) /\ \A fd \in Fd : IF m[fd] = {} THEN None(d, 0, fd) ELSE One(d, 0, fd)
  BY <1>2, <1>5 DEF Flow
<1>9. Dated(z)
  <2>1. \A x : (DatedCqe(d, x) => DatedCqe(z, x)) /\ (DatedSqe(d, x) => DatedSqe(z, x))
    BY <1>5, Zenon DEF DatedCqe, DatedSqe
  <2>2. DatedSqe(z, q)
    BY <1>3, <1>4, <1>5 DEF DatedSqe
  <2>3. \A i \in 1 .. Len(z.ring.sq) : DatedSqe(z, z.ring.sq[i])
    BY <1>6, <1>8, <2>1, <2>2 DEF Dated
  <2> QED
    BY <1>5, <1>8, <2>1, <2>3 DEF Dated
<1>10. \A fd \in Fd : Waiting(z, fd) = Waiting(d, fd) /\ Answered(z, fd) = Answered(d, fd)
  BY <1>5 DEF Waiting, Answered
<1>11. One(z, 0, f)
  <2>1. None(d, 0, f)
    BY <1>3, <1>8
  <2>2. Unsent(z, 0, f) = {n + 1}
    <3>1. 0 + 1 = 1 /\ n + 1 \in 1 .. n + 1
      BY <1>3
    <3>2. \A i \in 1 .. n : ~(s[i].op = "POLL_ADD" /\ s[i].fd = f /\ s[i].gen = d.egen[f])
      BY <2>1, <3>1 DEF None, Unsent
    <3>3. \A i \in 1 .. n + 1 : (z.ring.sq[i].op = "POLL_ADD" /\ z.ring.sq[i].fd = f
                                   /\ z.ring.sq[i].gen = z.egen[f]) <=> i = n + 1
      BY <1>4, <1>5, <1>6, <3>2
    <3> QED
      BY <1>6, <3>1, <3>3 DEF Unsent
  <2> QED
    BY <1>3, <1>10, <2>1, <2>2 DEF None, One
<1>12. ASSUME NEW fd \in Fd, fd # f
       PROVE  (None(d, 0, fd) => None(z, 0, fd)) /\ (One(d, 0, fd) => One(z, 0, fd))
  <2>1. Unsent(z, 0, fd) = Unsent(d, 0, fd)
    <3>1. \A i \in 1 .. n + 1 : z.ring.sq[i].fd = fd => i \in 1 .. n /\ z.ring.sq[i] = s[i]
      BY <1>4, <1>6, <1>12
    <3>2. 1 .. n \subseteq 1 .. n + 1 /\ 0 + 1 = 1
      BY <1>3
    <3> QED
      BY <1>5, <1>6, <3>1, <3>2 DEF Unsent
  <2> QED
    BY <1>10, <2>1 DEF None, One
<1> QED
  BY <1>3, <1>8, <1>9, <1>11, <1>12

\* The masks M follow the requests l one by one; what the first n of them make of b.
Chain(M, l) == \A n \in 1 .. Len(l) :
    /\ M[n - 1] \in [Fd -> SUBSET RW]
    /\ \/ l[n].op = "POLL_REMOVE" /\ M[n] = [M[n - 1] EXCEPT ![l[n].fd] = {}]
       \/ /\ l[n].op = "POLL_ADD" /\ M[n - 1][l[n].fd] = {} /\ l[n].mask # {} /\ tab[l[n].fd] # Closed
          /\ M[n] = [M[n - 1] EXCEPT ![l[n].fd] = l[n].mask]
Made(b, l, n) == {d \in UringBack :
    ~NoDrop => \A M : Chain(M, l) /\ Flow(M[0], b, 0) => Flow(M[n], d, 0)}

LEMMA MakeRequests ==
    ASSUME NEW x0 \in UringBack, NEW l \in Seq(SqeT), Files
    PROVE  Steps(iouring_request, x0, l) \in Made(x0, l, Len(l))
<1> DEFINE s == l
           L == Len(s)
           op(d, w) == iouring_request(d, w)
           D(f) == [n \in 0 .. L |-> IF n = 0 THEN x0
                        ELSE CHOOSE z \in {op(v, s[n]) : v \in {f[n - 1]}} : TRUE]
           after == CHOOSE f : f = D(f)
           S == [n \in 0 .. L |-> Made(x0, s, n)]
           g == [p \in (1 .. L) \X UringBack |-> op(p[2], s[p[1]])]
<1>1. Steps(iouring_request, x0, l) = after[L]
  BY Zenon DEF Steps
<1>2. /\ L \in Nat /\ L \in 0 .. L /\ \A n \in 0 .. L : n = 0 \/ n \in 1 .. L
      /\ \A n \in 1 .. L : n \in 0 .. L /\ n - 1 \in 0 .. L /\ s[n] \in SqeT
  OBVIOUS
<1>3. /\ x0 \in S[0] /\ \A n \in 0 .. L : S[n] \subseteq UringBack
      /\ \A n \in 1 .. L : \A d \in S[n - 1] : op(d, s[n]) \in S[n]
  <2>1. x0 \in Made(x0, s, 0)
    BY DEF Made
  <2>2. ASSUME NEW n \in 1 .. L, NEW d \in Made(x0, s, n - 1)
        PROVE  op(d, s[n]) \in Made(x0, s, n)
    <3>1. d \in UringBack /\ s[n] \in SqeT
      BY <1>2 DEF Made
    <3>2. op(d, s[n]) \in UringBack
      BY <3>1, MakeRequest
    <3>3. ASSUME ~NoDrop, NEW M, Chain(M, s), Flow(M[0], x0, 0)
          PROVE  Flow(M[n], op(d, s[n]), 0)
      <4> DEFINE m == M[n - 1]
                 q == s[n]
      <4>1. Flow(m, d, 0)
        BY <3>3 DEF Made
      <4>2. /\ m \in [Fd -> SUBSET RW]
            /\ \/ q.op = "POLL_REMOVE" /\ M[n] = [m EXCEPT ![q.fd] = {}]
               \/ /\ q.op = "POLL_ADD" /\ m[q.fd] = {} /\ q.mask # {} /\ tab[q.fd] # Closed
                  /\ M[n] = [m EXCEPT ![q.fd] = q.mask]
        BY <3>3 DEF Chain
      <4> HIDE DEF m, q
      <4>3. q \in SqeT
        BY <3>1 DEF q
      <4>5. ASSUME q.op = "POLL_REMOVE", M[n] = [m EXCEPT ![q.fd] = {}]
            PROVE  Flow(M[n], iouring_request(d, q), 0)
        <5>1. Flow([m EXCEPT ![q.fd] = {}], iouring_request(d, q), 0)
          BY <3>1, <3>3, <4>1, <4>2, <4>3, <4>5, RemoveFlow
        <5> QED
          BY <4>5, <5>1
      <4>6. ASSUME q.op = "POLL_ADD", m[q.fd] = {}, q.mask # {}, tab[q.fd] # Closed,
                   M[n] = [m EXCEPT ![q.fd] = q.mask]
            PROVE  Flow(M[n], iouring_request(d, q), 0)
        <5>1. Flow([m EXCEPT ![q.fd] = q.mask], iouring_request(d, q), 0)
          BY <3>1, <3>3, <4>1, <4>2, <4>3, <4>6, AddFlow
        <5> QED
          BY <4>6, <5>1
      <4>4. Flow(M[n], iouring_request(d, q), 0)
        BY <4>2, <4>5, <4>6
      <4> QED
        BY <4>4 DEF q, op
    <3> HIDE DEF op, s
    <3> QED
      BY <3>2, <3>3 DEF Made
  <2> HIDE DEF s, L, op
  <2> QED
    BY <1>2, <2>1, <2>2 DEF Made
<1>11. L \in 0 .. L => S[L] = Made(x0, l, Len(l))
  OBVIOUS
<1> HIDE DEF s, L, op, S
<1>4. \A n \in 1 .. L : \A y \in S[n - 1] : g[<<n, y>>] = op(y, s[n])
  BY <1>2, <1>3
<1> HIDE DEF g
<1>5. Stays(L, x0, S, g)
  BY <1>2, <1>3, <1>4 DEF Stays
<1> HIDE DEF S
<1>6. PICK f : LoopRun(f, L, x0, g) /\ \A n \in 0 .. L : f[n] \in S[n]
  BY <1>2, <1>5, LoopRuns DEF RunStays
<1>7. f = D(f)
  <2>1. \A n \in 1 .. L : f[n] = g[<<n, f[n - 1]>>] /\ f[n - 1] \in S[n - 1]
    BY <1>2, <1>6 DEF LoopRun
  <2>2. \A n \in 1 .. L : f[n] = op(f[n - 1], s[n])
    BY <1>4, <2>1
  <2>3. \A n \in 1 .. L : f[n] = CHOOSE z \in {op(v, s[n]) : v \in {f[n - 1]}} : TRUE
    BY <2>2
  <2>4. \A n \in 0 .. L : f[n] = D(f)[n]
    BY <1>2, <1>6, <2>3 DEF LoopRun
  <2> QED
    BY <1>6, <2>4 DEF LoopRun
<1>8. after = D(after)
  BY <1>7
<1> HIDE DEF after
<1>9. after[0] = x0 /\ \A n \in 1 .. L : after[n] = op(after[n - 1], s[n])
  BY <1>2, <1>8
<1>10. after[L] \in S[L]
  <2>1. \A n \in 1 .. L : after[n - 1] \in S[n - 1] => after[n] = g[<<n, after[n - 1]>>]
    BY <1>4, <1>9
  <2>2. L \in Nat /\ after[0] = x0
    BY <1>2, <1>9
  <2> QED
    BY <1>5, <2>1, <2>2, LoopStays
<1> QED
  BY <1>1, <1>2, <1>10, <1>11

\* Only the back end is changed.
LEMMA UringModify ==
    ASSUME NEW n \in Nat, NEW x \in [ev : Good(n), back : UringBack], Files,
           NEW fd \in Fd, NEW oev, NEW nev \in SUBSET RW
    PROVE  LET z == iouring_modify(x, fd, oev, nev)
           IN  /\ z \in [ev : Good(n), back : UringBack] /\ Follows(x.ev, z.ev) /\ z.ev = x.ev
               /\ \A m \in [Fd -> SUBSET RW] :
                    ~NoDrop /\ Flow(m, x.back, 0) /\ m[fd] = oev /\ (nev # {} => tab[fd] # Closed)
                      => Flow([m EXCEPT ![fd] = nev], z.back, 0)
<1> DEFINE Sqe(op, mask) == [op |-> op, fd |-> fd, gen |-> 0, mask |-> mask]
           remove == IF oev = {} THEN <<>> ELSE <<Sqe("POLL_REMOVE", {})>>
           add    == IF nev = {} THEN <<>> ELSE <<Sqe("POLL_ADD", nev)>>
           l == remove \o add
           b == Steps(iouring_request, x.back, l)
<1>1. Sqe("POLL_REMOVE", {}) \in SqeT /\ Sqe("POLL_ADD", nev) \in SqeT
  BY DEF SqeT
<1>2. remove \in Seq(SqeT) /\ add \in Seq(SqeT)
  <2> HIDE DEF Sqe
  <2> QED
    BY <1>1
<1>12. ASSUME NEW m \in [Fd -> SUBSET RW], Flow(m, x.back, 0), m[fd] = oev, nev # {} => tab[fd] # Closed
       PROVE  \E M : Chain(M, l) /\ M[0] = m /\ M[Len(l)] = [m EXCEPT ![fd] = nev]
  <2> DEFINE m1 == [m EXCEPT ![fd] = {}]
             m2 == [m EXCEPT ![fd] = nev]
             p == Sqe("POLL_REMOVE", {})
             q == Sqe("POLL_ADD", nev)
             M == [i \in 0 .. 2 |-> IF i = 0 THEN m ELSE IF i = 1 /\ oev # {} THEN m1 ELSE m2]
  <2>1. /\ p.op = "POLL_REMOVE" /\ p.fd = fd /\ q.op = "POLL_ADD" /\ q.fd = fd /\ q.mask = nev
    OBVIOUS
  <2>2. m1 \in [Fd -> SUBSET RW] /\ m1[fd] = {} /\ [m1 EXCEPT ![fd] = nev] = m2
        /\ (oev = {} => m1 = m)
    BY <1>12
  <2>3. M[0] = m /\ M[1] = (IF oev # {} THEN m1 ELSE m2) /\ M[2] = m2
    OBVIOUS
  <2>4. l = (IF oev = {} THEN <<>> ELSE <<p>>) \o (IF nev = {} THEN <<>> ELSE <<q>>)
    OBVIOUS
  <2>5. nev = {} => m2 = m1
    OBVIOUS
  <2> HIDE DEF p, q, M, l, Sqe
  <2>6. CASE oev = {} /\ nev = {}
    <3>1. Len(l) = 0
      BY <2>4, <2>6
    <3>2. Chain(M, l)
      BY <3>1 DEF Chain
    <3>3. M[Len(l)] = m2
      BY <2>2, <2>3, <2>5, <2>6, <3>1
    <3> QED
      BY <2>3, <3>2, <3>3
  <2>7. CASE oev # {} /\ nev = {}
    <3>1. Len(l) = 1 /\ l[1] = p
      BY <2>4, <2>7
    <3>2. M[1] = m1
      BY <2>3, <2>7
    <3>3. \A i \in 1 .. Len(l) : i = 1 /\ l[i] = p /\ i - 1 = 0
      BY <3>1
    <3> HIDE DEF m1, m2
    <3>4. Chain(M, l)
      BY <1>12, <2>1, <2>3, <3>1, <3>2, <3>3 DEF Chain, m1
    <3> QED
      BY <2>3, <2>5, <2>7, <3>1, <3>2, <3>4 DEF m2
  <2>8. CASE oev = {} /\ nev # {}
    <3>1. Len(l) = 1 /\ l[1] = q
      BY <2>4, <2>8
    <3>2. M[1] = m2
      BY <2>3, <2>8
    <3>3. \A i \in 1 .. Len(l) : i = 1 /\ l[i] = q /\ i - 1 = 0
      BY <3>1
    <3> HIDE DEF m1, m2
    <3>4. Chain(M, l)
      BY <1>12, <2>1, <2>3, <2>8, <3>1, <3>2, <3>3 DEF Chain, m2
    <3> QED
      BY <2>3, <3>1, <3>2, <3>4 DEF m2
  <2>9. CASE oev # {} /\ nev # {}
    <3>1. Len(l) = 2 /\ l[1] = p /\ l[2] = q
      BY <2>4, <2>9
    <3>2. M[1] = m1 /\ M[2] = m2
      BY <2>3, <2>9
    <3>3. \A i \in 1 .. Len(l) : (i = 1 /\ l[i] = p /\ i - 1 = 0) \/ (i = 2 /\ l[i] = q /\ i - 1 = 1)
      BY <3>1
    <3>5. m1 = [m EXCEPT ![fd] = {}]
      OBVIOUS
    <3> HIDE DEF m1, m2
    <3>4. Chain(M, l)
      BY <1>12, <2>1, <2>2, <2>3, <2>9, <3>1, <3>2, <3>3, <3>5 DEF Chain
    <3> QED
      BY <2>3, <3>1, <3>2, <3>4 DEF m2
  <2> QED
    BY <2>6, <2>7, <2>8, <2>9
<1> HIDE DEF remove, add
<1>3. l \in Seq(SqeT)
  BY <1>2
<1> HIDE DEF l
<1>4. x.back \in UringBack /\ x.ev \in Good(n) /\ x.ev \in Ev
  BY DEF Good
<1>5. b \in UringBack /\ b \in Made(x.back, l, Len(l))
  BY <1>3, <1>4, MakeRequests DEF Made
<1>6. iouring_modify(x, fd, oev, nev) = [x EXCEPT !.back = b]
  BY Zenon DEF iouring_modify, b, l, remove, add
<1> HIDE DEF b
<1>7. Follows(x.ev, x.ev)
  BY <1>4, FollowsItself
<1>8. ASSUME NEW m \in [Fd -> SUBSET RW], ~NoDrop, Flow(m, x.back, 0), m[fd] = oev,
             nev # {} => tab[fd] # Closed
      PROVE  Flow([m EXCEPT ![fd] = nev], b, 0)
  <2>1. PICK M : Chain(M, l) /\ M[0] = m /\ M[Len(l)] = [m EXCEPT ![fd] = nev]
    BY <1>8, <1>12
  <2> QED
    BY <1>5, <1>8, <2>1 DEF Made
<1> QED
  BY <1>4, <1>5, <1>6, <1>7, <1>8

\* From x0 on, what is on its way is kept.
FlowsFrom(x0, d) ==
    ~NoDrop /\ Opened(x0.ev) /\ Flow(x0.ev.events, x0.back, 0) => Flow(d.ev.events, d.back, 0)

\* The watchers of a closed descriptor want nothing.
LEMMA WantOpen ==
    ASSUME NEW n \in Nat, NEW e \in Good(n), NEW fd \in Fd, Opened(e), Want(e, fd) # {}
    PROVE  tab[fd] # Closed
<1>1. PICK w \in ToSet(e.head[fd]) : TRUE
  BY DEF Want
<1>2. e.head[fd] \in Seq(Watcher)
  BY DEF Good, Ev
<1>3. PICK i \in DOMAIN e.head[fd] : e.head[fd][i] = w
  BY <1>1 DEF ToSet
<1>4. w \in Watcher /\ e.io[w].fd = fd /\ fd # -1
  BY <1>2, <1>3 DEF Good, HeadsInv, Fd
<1> QED
  BY <1>4 DEF Opened

LEMMA UringReify ==
    ASSUME NEW x0 \in [ev : Good(0), back : UringBack], Files
    PROVE  LET z == fd_reify(x0, iouring_modify)
           IN  z \in [ev : Good(0), back : UringBack] /\ Tells(x0.ev, z.ev) /\ FlowsFrom(x0, z)
<1> DEFINE e == x0.ev
<1> DEFINE s == x0.ev.changes
           L == Len(s)
           op(d, w) == LET oev == d.ev.events[w]
                           y   == anfd_reify(d, w)
                           nev == y.ev.events[w]
                       IN  IF "IOFDSET" \in d.ev.reify[w] \/ oev # nev
                           THEN iouring_modify(y, w, oev, nev) ELSE y
           D(f) == [n \in 0 .. L |-> IF n = 0 THEN x0
                        ELSE CHOOSE z \in {op(v, s[n]) : v \in {f[n - 1]}} : TRUE]
           after == CHOOSE f : f = D(f)
           S == [n \in 0 .. L |-> {d \in [ev : Good(n), back : UringBack] : Follows(e, d.ev) /\ FlowsFrom(x0, d)}]
           g == [p \in (1 .. L) \X [ev : Ev, back : UringBack] |-> op(p[2], s[p[1]])]
<1>1. fd_reify(x0, iouring_modify) = [after[L] EXCEPT !.ev.changes = SubSeq(@, L + 1, Len(@))]
  BY Zenon DEF fd_reify, Steps
<1>11. e \in Good(0) /\ e \in Ev /\ e.changes \in Seq(Fd)
  BY DEF Good, Ev
<1>2. /\ L \in Nat /\ L \in 0 .. L /\ \A n \in 0 .. L : n = 0 \/ n \in 1 .. L
      /\ \A n \in 1 .. L : n \in 0 .. L /\ n - 1 \in 0 .. L /\ s[n] \in Fd
  BY <1>11
<1>3. /\ x0 \in S[0] /\ \A n \in 0 .. L : S[n] \subseteq [ev : Ev, back : UringBack]
      /\ \A n \in 1 .. L : \A d \in S[n - 1] : op(d, s[n]) \in S[n]
  <2>1. ASSUME NEW n \in 1 .. L, NEW x \in S[n - 1]
        PROVE  op(x, s[n]) \in S[n]
    <3> DEFINE m  == n - 1
               fd == s[n]
               y  == anfd_reify(x, fd)
               z  == iouring_modify(y, fd, x.ev.events[fd], y.ev.events[fd])
    <3>1. n \in Nat /\ m \in Nat /\ n = m + 1 /\ n \in 0 .. L /\ m \in 0 .. L
      BY <1>2
    <3>2. /\ x \in [ev : Good(m), back : UringBack] /\ x.ev \in Good(m) /\ Follows(e, x.ev)
          /\ FlowsFrom(x0, x)
      BY <3>1
    <3>3. fd \in Fd /\ n \in 1 .. Len(x.ev.changes) /\ x.ev.changes[n] = fd
      <4>1. Len(x.ev.changes) \in Nat /\ L <= Len(x.ev.changes) /\ x.ev.changes[n] = s[n]
        <5>1. Len(x.ev.changes) \in Nat
          BY <3>2 DEF Good, Ev
        <5>2. e.changes = s /\ L = Len(e.changes)
          OBVIOUS
        <5> HIDE DEF s, L, S, e
        <5> QED
          BY <1>2, <3>2, <5>1, <5>2 DEF Follows
      <4> QED
        BY <1>2, <4>1
    <3>4. op(x, fd) = y \/ op(x, fd) = z
      OBVIOUS
    <3>5. op(x, fd) = y => x.ev.events[fd] = y.ev.events[fd] \/ y = z
      OBVIOUS
    <3> HIDE DEF s, L, op, S, e, m, fd
    <3>6. /\ y \in [ev : Good(n), back : UringBack] /\ y.ev \in Good(n) /\ y.back = x.back /\ Follows(x.ev, y.ev)
          /\ y.ev.events = [x.ev.events EXCEPT ![fd] = Want(x.ev, fd)]
      <4>1. /\ y \in [ev : Good(n), back : UringBack] /\ y.back = x.back
            /\ Follows(x.ev, y.ev) /\ y.ev.io = x.ev.io /\ y.ev.head = x.ev.head
            /\ y.ev.events = [x.ev.events EXCEPT ![fd] = Want(x.ev, fd)]
            /\ y.ev.reify = [x.ev.reify EXCEPT ![fd] = {}]
        BY <3>1, <3>2, <3>3, AnfdReify
      <4> HIDE DEF y
      <4> QED
        BY <4>1
    <3>7. x.ev.events \in [Fd -> SUBSET RW] /\ y.ev.events \in [Fd -> SUBSET RW]
      BY <3>2, <3>6 DEF Good, Ev
    <3> DEFINE w == Want(x.ev, fd)
    <3>8. y.ev.events[fd] = w /\ w \in SUBSET RW
      BY <3>3, <3>6, <3>7
    <3> HIDE DEF y, w
    <3>9. /\ z \in [ev : Good(n), back : UringBack] /\ Follows(y.ev, z.ev) /\ z.ev = y.ev
          /\ \A v \in [Fd -> SUBSET RW] :
               ~NoDrop /\ Flow(v, y.back, 0) /\ v[fd] = x.ev.events[fd] /\ (y.ev.events[fd] # {} => tab[fd] # Closed)
                 => Flow([v EXCEPT ![fd] = y.ev.events[fd]], z.back, 0)
      BY <3>1, <3>3, <3>6, <3>8, UringModify
    <3> HIDE DEF z
    <3>10. ASSUME ~NoDrop, Opened(x0.ev), Flow(x0.ev.events, x0.back, 0)
           PROVE  Flow(z.ev.events, z.back, 0) /\ (op(x, fd) = y => Flow(y.ev.events, y.back, 0))
      <4>1. Flow(x.ev.events, x.back, 0) /\ Opened(x.ev)
        BY <3>2, <3>10 DEF FlowsFrom, Follows, Keeps, Opened, e
      <4>2. y.ev.events[fd] # {} => tab[fd] # Closed
        BY <3>1, <3>2, <3>3, <3>8, <4>1, WantOpen DEF w
      <4>3. Flow([x.ev.events EXCEPT ![fd] = y.ev.events[fd]], z.back, 0)
        BY <3>6, <3>7, <3>9, <3>10, <4>1, <4>2
      <4>4. y.ev.events = [x.ev.events EXCEPT ![fd] = y.ev.events[fd]]
        BY <3>6, <3>8 DEF w
      <4>5. ASSUME op(x, fd) = y
            PROVE  Flow(y.ev.events, y.back, 0)
        <5>1. CASE y = z
          BY <3>9, <4>3, <4>4, <5>1
        <5>2. CASE x.ev.events[fd] = y.ev.events[fd]
          <6>1. y.ev.events = x.ev.events
            BY <3>7, <4>4, <5>2
          <6> QED
            BY <3>6, <4>1, <6>1
        <5> QED
          BY <3>5, <4>5, <5>1, <5>2
      <4> QED
        BY <3>9, <4>3, <4>4, <4>5
    <3>11. e \in Ev /\ x.ev \in Ev /\ y.ev \in Ev /\ z.ev \in Ev
      BY <1>11, <3>2, <3>6, <3>9 DEF Good
    <3>12. Follows(e, y.ev)
      BY <3>2, <3>6, <3>11, FollowsOn
    <3>13. Follows(e, z.ev)
      BY <3>9, <3>11, <3>12, FollowsOn
    <3>14. S[n] = {d \in [ev : Good(n), back : UringBack] : Follows(e, d.ev) /\ FlowsFrom(x0, d)}
      BY <3>1 DEF S
    <3>15. FlowsFrom(x0, op(x, fd))
      BY <3>4, <3>10 DEF FlowsFrom
    <3> QED
      BY <3>4, <3>6, <3>9, <3>12, <3>13, <3>14, <3>15 DEF fd
  <2> HIDE DEF op
  <2>2. \A n \in 0 .. L : S[n] \subseteq [ev : Ev, back : UringBack]
    BY DEF Good
  <2>3. x0 \in S[0]
    BY <1>2, <1>11, FollowsItself DEF FlowsFrom
  <2> HIDE DEF S
  <2> QED
    BY <2>1, <2>2, <2>3
<1>12. L \in 0 .. L => S[L] = {d \in [ev : Good(L), back : UringBack] :
                               Follows(e, d.ev) /\ FlowsFrom(x0, d)}
  OBVIOUS
<1> HIDE DEF s, L, op, S, e
<1>4. \A n \in 1 .. L : \A y \in S[n - 1] : g[<<n, y>>] = op(y, s[n])
  BY <1>2, <1>3
<1> HIDE DEF g
<1>5. Stays(L, x0, S, g)
  BY <1>2, <1>3, <1>4 DEF Stays
<1> HIDE DEF S
<1>6. PICK f : LoopRun(f, L, x0, g) /\ \A n \in 0 .. L : f[n] \in S[n]
  BY <1>2, <1>5, LoopRuns DEF RunStays
<1>7. f = D(f)
  <2>1. \A n \in 1 .. L : f[n] = g[<<n, f[n - 1]>>] /\ f[n - 1] \in S[n - 1]
    BY <1>2, <1>6 DEF LoopRun
  <2>2. \A n \in 1 .. L : f[n] = op(f[n - 1], s[n])
    BY <1>4, <2>1
  <2>3. \A n \in 1 .. L : f[n] = CHOOSE z \in {op(v, s[n]) : v \in {f[n - 1]}} : TRUE
    BY <2>2
  <2>4. \A n \in 0 .. L : f[n] = D(f)[n]
    BY <1>2, <1>6, <2>3 DEF LoopRun
  <2> QED
    BY <1>6, <2>4 DEF LoopRun
<1>8. after = D(after)
  BY <1>7
<1> HIDE DEF after
<1>9. after[0] = x0 /\ \A n \in 1 .. L : after[n] = op(after[n - 1], s[n])
  BY <1>2, <1>8
<1>10. after[L] \in S[L]
  <2>1. \A n \in 1 .. L : after[n - 1] \in S[n - 1] => after[n] = g[<<n, after[n - 1]>>]
    BY <1>4, <1>9
  <2>2. L \in Nat /\ after[0] = x0
    BY <1>2, <1>9
  <2> QED
    BY <1>5, <2>1, <2>2, LoopStays
<1> DEFINE x == after[L]
           d == [x.ev EXCEPT !.changes = SubSeq(@, L + 1, Len(@))]
<1>13. x \in [ev : Good(L), back : UringBack] /\ Follows(e, x.ev) /\ FlowsFrom(x0, x)
  BY <1>2, <1>10, <1>12
<1> HIDE DEF x
<1>14. x.ev \in Good(L) /\ x.back \in UringBack
  BY <1>13
<1>15. d \in Good(0) /\ d.events = x.ev.events /\ Tells(x.ev, d)
  BY <1>2, <1>14, ReifyEnd
<1>16. Tells(e, d)
  BY <1>13, <1>15, FollowsTells, TellsOn
<1>17. [x EXCEPT !.ev.changes = SubSeq(@, L + 1, Len(@))] = [x EXCEPT !.ev = d]
  BY <1>13 DEF Good, Ev
<1> HIDE DEF d
<1> DEFINE z == [x EXCEPT !.ev = d]
<1>18. z \in [ev : Good(0), back : UringBack] /\ z.ev = d /\ z.back = x.back
  BY <1>13, <1>15
<1>19. fd_reify(x0, iouring_modify) = z
  BY <1>1, <1>17 DEF x
<1> HIDE DEF z
<1>20. FlowsFrom(x0, z)
  BY <1>13, <1>15, <1>18 DEF FlowsFrom
<1> QED
  BY <1>16, <1>18, <1>19, <1>20 DEF e

-------------------------------------------------------------------------------
(* A new ring, and what completions do to the watchers *)

LEMMA RingIs == ring \in Ring /\ ring.to_submit = 0 /\ Len(ring.sq) = 0 /\ Len(ring.cq) = 0
<1>1. <<>> \in Seq(SqeT) /\ <<>> \in Seq(CqeT) /\ {} \in SUBSET Request
  OBVIOUS
<1> QED
  BY <1>1 DEF ring, Ring

\* A ring never gets as large as the kernel refuses.
LEMMA InternalInit ==
    ASSUME NEW b \in UringRec, b.entries \in 1 .. 2 * (KernelMax - 1)
    PROVE  LET d == iouring_internal_init(b)
           IN  d \in UringBack /\ d.ring = ring /\ d.spins = b.spins
<1> DEFINE over == b.entries >= KernelMax
           e == IF over THEN b.entries \div 2 ELSE b.entries
           l == b.limit \/ over
           d == [b EXCEPT !.ring = ring, !.entries = e, !.limit = l]
<1>1. KernelMax \in Nat /\ KernelMax >= 2 /\ b.entries \in Nat
  BY BackendAssumption DEF UringAssumption
<1>2. e \in 1 .. KernelMax - 1
  BY <1>1
<1>3. l \in BOOLEAN
  <2> HIDE DEF over
  <2>1. CASE b.limit \/ over
    BY <2>1
  <2>2. CASE ~(b.limit \/ over)
    BY <2>2
  <2> QED
    BY <2>1, <2>2
<1>4. iouring_internal_init(b) = d
  <2>1. d = [b EXCEPT !.ring = ring, !.entries = IF over THEN @ \div 2 ELSE @, !.limit = @ \/ over]
    BY DEF UringRec
  <2> HIDE DEF d
  <2> QED
    BY <2>1, Zenon DEF iouring_internal_init
<1>5. e \in Nat
  BY <1>1, <1>2
<1> HIDE DEF e, l
<1>6. d \in UringRec /\ d.ring = ring /\ d.entries = e /\ d.spins = b.spins
  BY <1>3, <1>5, RingIs DEF UringRec
<1> HIDE DEF d
<1>7. d \in UringBack
  BY <1>1, <1>2, <1>6, RingIs DEF UringBack
<1> QED
  BY <1>4, <1>6, <1>7

\* A new ring for a state whose ring may still have to be halved.
LEMMA UringFork ==
    ASSUME NEW x \in [ev : Good(0), back : UringRec], x.back.entries \in 1 .. 2 * (KernelMax - 1)
    PROVE  LET z == iouring_fork(x)
           IN  /\ z \in [ev : After(0, x.ev), back : UringBack]
               /\ z.back.ring = ring /\ z.back.spins = x.back.spins
               /\ \A fd \in Fd : z.ev.events[fd] = {}
<1> DEFINE e == fd_rearm_all(x.ev)
           b == iouring_internal_init(x.back)
           d == [b EXCEPT !.refs = @ + 1, !.postfork = FALSE]
           z == [x EXCEPT !.ev = e, !.back = d]
<1>1. x.ev \in Good(0) /\ x.back \in UringRec
  OBVIOUS
<1>2. e \in After(0, x.ev) /\ \A fd \in Fd : e.events[fd] = {}
  BY <1>1, FdRearmAll
<1>3. b \in UringBack /\ b.ring = ring /\ b.spins = x.back.spins
  BY <1>1, InternalInit
<1>4. iouring_fork(x) = z
  BY Zenon DEF iouring_fork
<1> HIDE DEF b, e
<1>5. d \in UringBack /\ d.ring = b.ring /\ d.spins = b.spins
  <2>1. b \in UringRec /\ b.refs \in Nat
    BY <1>3 DEF UringBack, UringRec
  <2> DEFINE k == b.refs + 1
  <2>3. k \in Nat /\ d = [b EXCEPT !.refs = k, !.postfork = FALSE]
    BY <2>1 DEF UringRec
  <2> HIDE DEF k, d
  <2>2. d \in UringRec /\ d.ring = b.ring /\ d.entries = b.entries /\ d.spins = b.spins
    BY <2>1, <2>3 DEF UringRec
  <2> HIDE DEF d
  <2> QED
    BY <1>3, <2>2 DEF UringBack
<1> HIDE DEF d
<1>6. z \in [ev : After(0, x.ev), back : UringBack] /\ z.ev = e /\ z.back = d
  BY <1>2, <1>5
<1> HIDE DEF z
<1> QED
  BY <1>2, <1>3, <1>4, <1>5, <1>6

\* Nothing is on its way in a new ring, and no descriptor is in force.
LEMMA FreshFlow ==
    ASSUME NEW b, NEW m, b.ring = ring, ~b.spins, \A fd \in Fd : m[fd] = {}
    PROVE  Flow(m, b, 0) /\ b.ring.sq = <<>>
<1>1. /\ ring.sq = <<>> /\ ring.cq = <<>> /\ ring.reqs = {} /\ ring.backlog = <<>>
      /\ ring.to_submit = 0
  BY DEF ring
<1>2. \A i \in Nat : i \notin 1 .. 0 /\ i \notin 0 + 1 .. 0
  OBVIOUS
<1>3. Len(<<>>) = 0
  OBVIOUS
<1>4. Plain(b)
  BY <1>1, <1>3 DEF Plain
<1>5. Dated(b)
  BY <1>1, <1>3 DEF Dated
<1>6. \A fd \in Fd : None(b, 0, fd)
  BY <1>1, <1>3 DEF None, Unsent, Waiting, Answered
<1> QED
  BY <1>1, <1>4, <1>5, <1>6 DEF Flow

\* States that differ from x in libev's part only.
EvAfter(x) == [ev : After(0, x.ev), back : {x.back}]

\* A completion.
LEMMA ProcessCqe ==
    ASSUME NEW x \in [ev : Good(0), back : UringBack], NEW cqe \in CqeT
    PROVE  LET z == iouring_process_cqe(x, cqe)
           IN  /\ z \in EvAfter(x)
               /\ cqe.res # {"EBADF"} =>
                    \A g \in Fd : z.ev.events[g] =
                        IF iouring_current(x.back, cqe) /\ cqe.fd = g THEN {} ELSE x.ev.events[g]
<1> DEFINE fd == cqe.fd
           r == cqe.res \cap RW
           k == fd_kill(x.ev, fd)
           t == fd_event(x.ev, fd, r)
           a == iouring_rearm(t, fd)
           z == iouring_process_cqe(x, cqe)
<1>1. x.ev \in Good(0)
  OBVIOUS
<1>2. x.ev \in After(0, x.ev)
  BY <1>1, AfterItself
<1>3. cqe # Removed => fd \in Fd
  BY DEF CqeT
<1>4. r \in SUBSET Revents
  BY DEF Revents
<1>5. \/ z = x /\ ~iouring_current(x.back, cqe)
      \/ z = [x EXCEPT !.ev = k] /\ cqe # Removed /\ cqe.res = {"EBADF"}
      \/ z = [x EXCEPT !.ev = a] /\ cqe # Removed /\ iouring_current(x.back, cqe)
  <2>1. z = IF ~iouring_current(x.back, cqe) THEN x
            ELSE IF cqe.res = {"EBADF"} THEN [x EXCEPT !.ev = k] ELSE [x EXCEPT !.ev = a]
    BY Zenon DEF iouring_process_cqe
  <2>2. iouring_current(x.back, cqe) => cqe # Removed
    BY Zenon DEF iouring_current
  <2> HIDE DEF z, k, a
  <2> QED
    BY <2>1, <2>2
<1> HIDE DEF fd, r, z
<1>6. cqe # Removed => k \in After(0, x.ev) /\ t \in After(0, x.ev) /\ t.events = x.ev.events
  BY <1>1, <1>3, <1>4, FdKill, FdEvent DEF On
<1> HIDE DEF k, t
<1>7. cqe # Removed => a \in After(0, x.ev) /\ \A g \in Fd : a.events[g] =
                         IF fd = g THEN {} ELSE x.ev.events[g]
  <2> SUFFICES ASSUME cqe # Removed
               PROVE  a \in After(0, x.ev) /\ \A g \in Fd : a.events[g] =
                         IF fd = g THEN {} ELSE x.ev.events[g]
    OBVIOUS
  <2>1. fd \in Fd /\ t \in Good(0) /\ t \in After(0, x.ev)
    BY <1>3, <1>6 DEF After
  <2> DEFINE flags == {"REIFY"}
  <2>2. flags \in SUBSET {"IOFDSET", "REIFY"} /\ flags # {}
    OBVIOUS
  <2> HIDE DEF flags
  <2> DEFINE v == fd_change([t EXCEPT !.events[fd] = {}], fd, flags)
  <2>3. v \in After(0, t) /\ v.events[fd] = {} /\ \A g \in Fd : g # fd => v.events[g] = t.events[g]
    BY <2>1, <2>2, Rearm
  <2>4. a = v
    BY Zenon DEF iouring_rearm, flags
  <2> HIDE DEF a, v
  <2> QED
    BY <1>1, <1>6, <2>1, <2>3, <2>4, AfterAfter
<1> HIDE DEF a
<1>8. z \in EvAfter(x)
  BY <1>1, <1>2, <1>5, <1>6, <1>7 DEF EvAfter
<1>9. ASSUME cqe.res # {"EBADF"}, NEW g \in Fd
      PROVE  z.ev.events[g] = IF iouring_current(x.back, cqe) /\ fd = g THEN {} ELSE x.ev.events[g]
  <2>1. CASE z = x /\ ~iouring_current(x.back, cqe)
    BY <2>1
  <2>2. CASE z = [x EXCEPT !.ev = a] /\ cqe # Removed /\ iouring_current(x.back, cqe)
    <3>1. z.ev = a
      BY <2>2
    <3> QED
      BY <1>7, <2>2, <3>1
  <2> QED
    BY <1>5, <1>9, <2>1, <2>2
<1> QED
  BY <1>8, <1>9 DEF z, fd

\* The completions of the present generation take their descriptors out of force.
Settled(x, l, n) == {d \in EvAfter(x) :
    (\A i \in 1 .. Len(l) : l[i].res # {"EBADF"}) =>
        \A fd \in Fd : d.ev.events[fd] =
            IF \E i \in 1 .. n : iouring_current(x.back, l[i]) /\ l[i].fd = fd
            THEN {} ELSE x.ev.events[fd]}

LEMMA ProcessCqes ==
    ASSUME NEW x0 \in [ev : Good(0), back : UringBack], NEW l \in Seq(CqeT)
    PROVE  Steps(iouring_process_cqe, x0, l) \in Settled(x0, l, Len(l))
<1> DEFINE s == l
           L == Len(s)
           op(d, w) == iouring_process_cqe(d, w)
           D(f) == [n \in 0 .. L |-> IF n = 0 THEN x0
                        ELSE CHOOSE z \in {op(v, s[n]) : v \in {f[n - 1]}} : TRUE]
           after == CHOOSE f : f = D(f)
           S == [n \in 0 .. L |-> Settled(x0, s, n)]
           g == [p \in (1 .. L) \X EvAfter(x0) |-> op(p[2], s[p[1]])]
<1>1. Steps(iouring_process_cqe, x0, l) = after[L]
  BY Zenon DEF Steps
<1>2. /\ L \in Nat /\ L \in 0 .. L /\ \A n \in 0 .. L : n = 0 \/ n \in 1 .. L
      /\ \A n \in 1 .. L : n \in 0 .. L /\ n - 1 \in 0 .. L /\ s[n] \in CqeT
  OBVIOUS
<1>3. /\ x0 \in S[0] /\ \A n \in 0 .. L : S[n] \subseteq EvAfter(x0)
      /\ \A n \in 1 .. L : \A d \in S[n - 1] : op(d, s[n]) \in S[n]
  <2>1. ASSUME NEW n \in 1 .. L, NEW d \in Settled(x0, s, n - 1)
        PROVE  op(d, s[n]) \in Settled(x0, s, n)
    <3> DEFINE cqe == s[n]
               z == op(d, cqe)
               Hit(fd) == \E i \in 1 .. n - 1 : iouring_current(x0.back, s[i]) /\ s[i].fd = fd
    <3>1. /\ d.ev \in After(0, x0.ev) /\ d.ev \in Good(0) /\ d.back = x0.back /\ x0.ev \in Good(0)
          /\ d \in [ev : Good(0), back : UringBack]
      BY DEF After, EvAfter, Settled
    <3>2. /\ z \in EvAfter(d)
          /\ cqe.res # {"EBADF"} =>
               \A fd \in Fd : z.ev.events[fd] =
                   IF iouring_current(d.back, cqe) /\ cqe.fd = fd THEN {} ELSE d.ev.events[fd]
      BY <1>2, <3>1, ProcessCqe
    <3>4. (\A i \in 1 .. Len(s) : s[i].res # {"EBADF"}) =>
             /\ cqe.res # {"EBADF"}
             /\ \A fd \in Fd : d.ev.events[fd] = IF Hit(fd) THEN {} ELSE x0.ev.events[fd]
      BY <1>2 DEF Settled
    <3>5. \A fd : (\E i \in 1 .. n : iouring_current(x0.back, s[i]) /\ s[i].fd = fd)
                   <=> Hit(fd) \/ (iouring_current(x0.back, cqe) /\ cqe.fd = fd)
      <4>1. /\ n \in 1 .. n /\ \A i \in 1 .. n : i = n \/ i \in 1 .. n - 1
            /\ \A i \in 1 .. n - 1 : i \in 1 .. n
        BY <1>2
      <4> HIDE DEF s
      <4> QED
        BY <4>1
    <3> HIDE DEF op, z, Hit, cqe
    <3>3. z \in EvAfter(x0)
      BY <3>1, <3>2, AfterAfter DEF EvAfter
    <3>6. (\A i \in 1 .. Len(s) : s[i].res # {"EBADF"}) =>
             \A fd \in Fd : z.ev.events[fd] =
                 IF \E i \in 1 .. n : iouring_current(x0.back, s[i]) /\ s[i].fd = fd
                 THEN {} ELSE x0.ev.events[fd]
      BY <3>1, <3>2, <3>4, <3>5
    <3> QED
      BY <3>3, <3>6 DEF Settled, z, cqe
  <2> HIDE DEF op
  <2>2. x0 \in Settled(x0, s, 0)
    <3>1. x0.ev \in Good(0) /\ x0.ev \in After(0, x0.ev)
      BY AfterItself
    <3>2. x0 \in EvAfter(x0)
      BY <3>1 DEF EvAfter
    <3> QED
      BY <3>2 DEF Settled
  <2>3. \A n \in 0 .. L : Settled(x0, s, n) \subseteq EvAfter(x0)
    BY DEF Settled
  <2> QED
    BY <1>2, <2>1, <2>2, <2>3
<1>11. L \in 0 .. L => S[L] = Settled(x0, l, Len(l))
  OBVIOUS
<1> HIDE DEF s, L, op, S
<1>4. \A n \in 1 .. L : \A y \in S[n - 1] : g[<<n, y>>] = op(y, s[n])
  BY <1>2, <1>3
<1> HIDE DEF g
<1>5. Stays(L, x0, S, g)
  BY <1>2, <1>3, <1>4 DEF Stays
<1> HIDE DEF S
<1>6. PICK f : LoopRun(f, L, x0, g) /\ \A n \in 0 .. L : f[n] \in S[n]
  BY <1>2, <1>5, LoopRuns DEF RunStays
<1>7. f = D(f)
  <2>1. \A n \in 1 .. L : f[n] = g[<<n, f[n - 1]>>] /\ f[n - 1] \in S[n - 1]
    BY <1>2, <1>6 DEF LoopRun
  <2>2. \A n \in 1 .. L : f[n] = op(f[n - 1], s[n])
    BY <1>4, <2>1
  <2>3. \A n \in 1 .. L : f[n] = CHOOSE z \in {op(v, s[n]) : v \in {f[n - 1]}} : TRUE
    BY <2>2
  <2>4. \A n \in 0 .. L : f[n] = D(f)[n]
    BY <1>2, <1>6, <2>3 DEF LoopRun
  <2> QED
    BY <1>6, <2>4 DEF LoopRun
<1>8. after = D(after)
  BY <1>7
<1> HIDE DEF after
<1>9. after[0] = x0 /\ \A n \in 1 .. L : after[n] = op(after[n - 1], s[n])
  BY <1>2, <1>8
<1>10. after[L] \in S[L]
  <2>1. \A n \in 1 .. L : after[n - 1] \in S[n - 1] => after[n] = g[<<n, after[n - 1]>>]
    BY <1>4, <1>9
  <2>2. L \in Nat /\ after[0] = x0
    BY <1>2, <1>9
  <2> QED
    BY <1>5, <2>1, <2>2, LoopStays
<1> QED
  BY <1>1, <1>2, <1>10, <1>11

\* When all completions have been dealt with, those descriptors have nothing
\* on its way, and the others what they had.
LEMMA SettledFlow ==
    ASSUME NEW x \in [ev : Good(0), back : UringBack], NEW b \in UringBack,
           NEW p \in Settled(x, x.back.ring.cq, Len(x.back.ring.cq)),
           Flow(x.ev.events, x.back, 0), ~x.back.ring.overflow,
           b.egen = x.back.egen, b.spins = x.back.spins, b.ring.sq = x.back.ring.sq,
           b.ring.to_submit = x.back.ring.to_submit, b.ring.reqs = x.back.ring.reqs,
           b.ring.backlog = x.back.ring.backlog, b.ring.cq = <<>>
    PROVE  Flow(p.ev.events, b, 0)
<1> DEFINE a == x.back
           l == a.ring.cq
<1>1. Dated(a) /\ Plain(a) /\ \A fd \in Fd : IF x.ev.events[fd] = {} THEN None(a, 0, fd) ELSE One(a, 0, fd)
  BY DEF Flow
<1>2. Plain(b)
  BY <1>1 DEF Plain
<1>3. Dated(b)
  <2>1. Len(b.ring.cq) = 0
    OBVIOUS
  <2> QED
    BY <1>1, <2>1 DEF Dated, DatedSqe
<1>4. \A i \in 1 .. Len(l) : l[i].res # {"EBADF"}
  BY <1>1 DEF Dated, DatedCqe
<1>5. ASSUME NEW fd \in Fd
      PROVE  IF p.ev.events[fd] = {} THEN None(b, 0, fd) ELSE One(b, 0, fd)
  <2>1. p.ev.events[fd] = IF \E i \in 1 .. Len(l) : iouring_current(a, l[i]) /\ l[i].fd = fd
                          THEN {} ELSE x.ev.events[fd]
    BY <1>4 DEF Settled
  <2>2. \A i \in 1 .. Len(l) : (iouring_current(a, l[i]) /\ l[i].fd = fd)
                                <=> (l[i].fd = fd /\ l[i].gen = a.egen[fd])
    BY DEF iouring_current, Removed, Cqe, Fd
  <2>3. p.ev.events[fd] = IF Answered(a, fd) # {} THEN {} ELSE x.ev.events[fd]
    BY <2>1, <2>2 DEF Answered
  <2>4. /\ Unsent(b, 0, fd) = Unsent(a, 0, fd) /\ Waiting(b, fd) = Waiting(a, fd)
    BY DEF Unsent, Waiting
  <2>5. Answered(b, fd) = {}
    <3>1. Len(b.ring.cq) = 0
      OBVIOUS
    <3> QED
      BY <3>1 DEF Answered
  <2>6. IF x.ev.events[fd] = {} THEN None(a, 0, fd) ELSE One(a, 0, fd)
    BY <1>1
  <2> QED
    BY <2>3, <2>4, <2>5, <2>6 DEF None, One
<1> QED
  BY <1>2, <1>3, <1>5 DEF Flow

\* All completions, or a larger ring, or epoll.
LEMMA HandleCq ==
    ASSUME NEW x \in [ev : Good(0), back : UringBack]
    PROVE  LET z == iouring_handle_cq(x)
           IN  /\ z \in UringStates /\ Tells(x.ev, z.ev)
               /\ Flow(x.ev.events, x.back, 0) =>
                    \/ z.back.switched
                    \/ /\ Flow(z.ev.events, z.back, 0)
                       /\ z.back.ring.sq = x.back.ring.sq \/ z.back.ring.sq = <<>>
<1> DEFINE l == x.back.ring.cq
           p == Steps(iouring_process_cqe, x, l)
           e == fd_rearm_all(x.ev)
           y == [x EXCEPT !.ev = e]
           b2 == [x.back EXCEPT !.entries = 2 * @]
           y2 == [x EXCEPT !.ev = e, !.back = b2]
           f == iouring_fork(y2)
           b3 == [x.back EXCEPT !.ring = ring, !.switched = TRUE]
           b4 == [x.back EXCEPT !.ring = [@ EXCEPT !.cq = <<>>]]
           z == iouring_handle_cq(x)
<1>1. x.ev \in Good(0) /\ x.back \in UringBack
  OBVIOUS
<1>2. /\ x.back \in UringRec /\ x.back.ring \in Ring /\ l \in Seq(CqeT) /\ x.back.entries \in Nat
      /\ x.back.entries >= 1 /\ x.back.entries <= KernelMax - 1
      /\ Len(x.back.ring.sq) <= x.back.entries /\ x.back.ring.to_submit <= Len(x.back.ring.sq)
  BY <1>1, UringTypes
<1>3. \/ z = x \/ z = f \/ z = [y EXCEPT !.back = b3]
      \/ z = [p EXCEPT !.back.ring.cq = <<>>] /\ ~x.back.ring.overflow
  <2>1. [y EXCEPT !.back.entries = 2 * @] = y2
    BY <1>1 DEF y
  <2>2. [y EXCEPT !.back.ring = ring, !.back.switched = TRUE] = [y EXCEPT !.back = b3]
    BY <1>1
  <2>3. iouring_overflow(x) = IF ~y.back.limit THEN iouring_fork([y EXCEPT !.back.entries = 2 * @])
                              ELSE [y EXCEPT !.back.ring = ring, !.back.switched = TRUE]
    BY Zenon DEF iouring_overflow
  <2> HIDE DEF y, y2, b3
  <2>4. iouring_overflow(x) = f \/ iouring_overflow(x) = [y EXCEPT !.back = b3]
    BY <2>1, <2>2, <2>3
  <2>5. z = IF x.back.ring.cq = <<>> THEN x
            ELSE IF iouring_overflown(x.back) THEN iouring_overflow(x)
            ELSE [p EXCEPT !.back.ring.cq = <<>>]
    BY Zenon DEF iouring_handle_cq
  <2> HIDE DEF p, z, f, l
  <2> QED
    BY <2>4, <2>5 DEF iouring_overflown
<1>4. e \in After(0, x.ev) /\ e \in Good(0) /\ \A fd \in Fd : e.events[fd] = {}
  BY <1>1, FdRearmAll DEF After
<1> HIDE DEF e, l, z
<1>5. p \in EvAfter(x) /\ p \in Settled(x, l, Len(l))
  BY <1>2, ProcessCqes DEF Settled
<1> HIDE DEF p
<1>6. /\ f \in [ev : After(0, e), back : UringBack]
      /\ f.back.ring = ring /\ f.back.spins = x.back.spins /\ \A fd \in Fd : f.ev.events[fd] = {}
  <2>1. b2 \in UringRec /\ b2.entries \in 1 .. 2 * (KernelMax - 1) /\ b2.spins = x.back.spins
    <3>1. KernelMax \in Nat
      BY BackendAssumption DEF UringAssumption
    <3> DEFINE k == 2 * x.back.entries
    <3>2. k \in Nat /\ k \in 1 .. 2 * (KernelMax - 1)
      BY <1>2, <3>1
    <3>3. b2 = [x.back EXCEPT !.entries = k]
      BY <1>2 DEF UringRec
    <3> HIDE DEF k, b2
    <3> QED
      BY <1>2, <3>2, <3>3 DEF UringRec
  <2> HIDE DEF b2
  <2>2. y2 \in [ev : Good(0), back : UringRec] /\ y2.ev = e /\ y2.back = b2
    BY <1>1, <1>4, <2>1
  <2> HIDE DEF y2
  <2> QED
    BY <2>1, <2>2, UringFork
<1> HIDE DEF f
<1>7. b3 \in GoneBack /\ b3.switched
  <2>1. x.back.entries \in 1 .. KernelMax - 1
    BY <1>1 DEF UringBack
  <2> QED
    BY <1>2, <2>1 DEF UringRec, GoneBack
<1>8. /\ b4 \in UringBack /\ b4.ring.sq = x.back.ring.sq
      /\ Flow(x.ev.events, x.back, 0) /\ ~x.back.ring.overflow => Flow(p.ev.events, b4, 0)
  <2> DEFINE r == [x.back.ring EXCEPT !.cq = <<>>]
  <2>1. r \in Ring /\ r.sq = x.back.ring.sq /\ r.to_submit = x.back.ring.to_submit /\ r.cq = <<>>
    <3>1. <<>> \in Seq(CqeT)
      OBVIOUS
    <3> DEFINE q == <<>>
    <3>2. q \in Seq(CqeT) /\ r = [x.back.ring EXCEPT !.cq = q] /\ q = <<>>
      BY <3>1
    <3> HIDE DEF q, r
    <3> QED
      BY <1>2, <3>2 DEF Ring
  <2>2. b4 = [x.back EXCEPT !.ring = r]
    BY <1>2 DEF UringRec
  <2>4. b4.ring = r /\ b4.egen = x.back.egen /\ b4.spins = x.back.spins
    BY <1>2, <2>2 DEF UringRec
  <2>5. /\ r.backlog = x.back.ring.backlog /\ r.reqs = x.back.ring.reqs
        /\ r.overflow = x.back.ring.overflow
    BY <1>2 DEF Ring
  <2> HIDE DEF r, b4
  <2>3. Len(r.cq) <= 2 * x.back.entries
    BY <1>2, <2>1
  <2>6. b4 \in UringBack
    BY <1>1, <1>2, <2>1, <2>2, <2>3, NewRing
  <2>7. ASSUME Flow(x.ev.events, x.back, 0), ~x.back.ring.overflow
        PROVE  Flow(p.ev.events, b4, 0)
    BY <1>1, <1>5, <2>1, <2>4, <2>5, <2>6, <2>7, SettledFlow DEF l
  <2> QED
    BY <2>1, <2>4, <2>6, <2>7
<1>9. [p EXCEPT !.back.ring.cq = <<>>] = [p EXCEPT !.back = b4]
  BY <1>1, <1>5 DEF EvAfter
<1> HIDE DEF b3, b4
<1>10. z \in UringStates
  <2>1. [y EXCEPT !.back = b3] \in UringStates
    <3>1. [y EXCEPT !.back = b3] = [ev |-> e, back |-> b3]
      <4>1. y \in [ev : Good(0), back : UringBack] /\ y.ev = e
        BY <1>1, <1>4
      <4> HIDE DEF y
      <4> QED
        BY <4>1
    <3> DEFINE w == [ev |-> e, back |-> b3]
    <3>2. w \in [ev : Good(0), back : GoneBack] /\ w.ev = e
      BY <1>4, <1>7
    <3> HIDE DEF w
    <3>3. w \in UringStates
      BY <1>4, <3>2, Zenon DEF UringStates
    <3> QED
      BY <3>1, <3>3 DEF w
  <2>2. [p EXCEPT !.back = b4] \in [ev : Good(0), back : UringBack]
    BY <1>5, <1>8 DEF EvAfter, After
  <2>3. f \in [ev : Good(0), back : UringBack]
    BY <1>6 DEF After
  <2> HIDE DEF y
  <2> QED
    BY <1>1, <1>3, <1>9, <2>1, <2>2, <2>3 DEF UringStates
<1>11. z.ev = x.ev \/ z.ev \in After(0, e) \/ z.ev \in After(0, x.ev)
  <2>1. [y EXCEPT !.back = b3].ev = e
    BY <1>1
  <2>2. [p EXCEPT !.back = b4].ev \in After(0, x.ev)
    BY <1>5 DEF EvAfter
  <2>3. f.ev \in After(0, e)
    BY <1>6
  <2> HIDE DEF y
  <2> QED
    BY <1>3, <1>4, <1>9, <2>1, <2>2, <2>3
<1>12. Tells(x.ev, z.ev)
  <2>1. x.ev \in After(0, x.ev)
    BY <1>1, AfterItself
  <2>2. z.ev \in After(0, x.ev)
    BY <1>1, <1>4, <1>11, <2>1, AfterAfter
  <2> QED
    BY <2>2, FollowsTells DEF After
<1>13. ASSUME Flow(x.ev.events, x.back, 0)
       PROVE  \/ z.back.switched
              \/ /\ Flow(z.ev.events, z.back, 0)
                 /\ z.back.ring.sq = x.back.ring.sq \/ z.back.ring.sq = <<>>
  <2>1. CASE z = x
    BY <1>13, <2>1
  <2>2. CASE z = f
    <3>1. ~f.back.spins
      BY <1>6, <1>13 DEF Flow, Plain
    <3> QED
      BY <1>6, <2>2, <3>1, FreshFlow
  <2>3. CASE z = [y EXCEPT !.back = b3]
    BY <1>7, <2>3
  <2>4. CASE z = [p EXCEPT !.back.ring.cq = <<>>] /\ ~x.back.ring.overflow
    <3>1. z.ev = p.ev /\ z.back = b4
      BY <1>5, <1>9, <2>4 DEF EvAfter
    <3> QED
      BY <1>8, <1>13, <2>4, <3>1
  <2> QED
    BY <1>3, <2>1, <2>2, <2>3, <2>4
<1> QED
  BY <1>10, <1>12, <1>13 DEF z

\* The kernel completes a request.
LEMMA Complete ==
    ASSUME NEW b \in UringBack, NEW r \in b.ring.reqs, NEW res \in SUBSET RW
    PROVE  post([b EXCEPT !.ring.reqs = @ \ {r}], Cqe(r.fd, r.gen, res)) \in UringBack
<1> DEFINE g == [b.ring EXCEPT !.reqs = @ \ {r}]
           d == [b EXCEPT !.ring = g]
           q == Cqe(r.fd, r.gen, res)
<1>1. /\ b \in UringRec /\ b.ring \in Ring /\ b.ring.reqs \in SUBSET Request
      /\ Len(b.ring.sq) <= b.entries /\ b.ring.to_submit <= Len(b.ring.sq)
      /\ Len(b.ring.cq) <= 2 * b.entries
  BY UringTypes
<1>2. g \in Ring /\ g.sq = b.ring.sq /\ g.to_submit = b.ring.to_submit /\ g.cq = b.ring.cq
  BY <1>1 DEF Ring
<1>3. [b EXCEPT !.ring.reqs = @ \ {r}] = d
  BY <1>1 DEF UringRec
<1> HIDE DEF g
<1>4. d \in UringBack
  BY <1>1, <1>2, NewRing
<1>5. q \in CqeT
  <2>1. r \in Request
    BY <1>1
  <2>2. r.fd \in Fd /\ r.gen \in Nat
    BY <2>1 DEF Request
  <2> QED
    BY <2>2 DEF CqeT, Cqe
<1> HIDE DEF d, q
<1>6. post(d, q) \in Consumed(d)
  BY <1>4, <1>5, Post
<1>7. post([b EXCEPT !.ring.reqs = @ \ {r}], Cqe(r.fd, r.gen, res)) = post(d, q)
  BY <1>3, Zenon DEF q
<1> QED
  BY <1>6, <1>7 DEF Consumed

\* A request that completes is a completion on its way.
LEMMA CompleteFlow ==
    ASSUME ~NoDrop, NEW b \in UringBack, NEW r \in b.ring.reqs, NEW res \in SUBSET RW
    PROVE  LET z == post([b EXCEPT !.ring.reqs = @ \ {r}], Cqe(r.fd, r.gen, res))
           IN  Alike(b, z) /\ FlowsOn(b, 0, z, 0)
<1> DEFINE g == [b.ring EXCEPT !.reqs = @ \ {r}]
           d == [b EXCEPT !.ring = g]
           q == Cqe(r.fd, r.gen, res)
           z == post([b EXCEPT !.ring.reqs = @ \ {r}], Cqe(r.fd, r.gen, res))
           fd == r.fd
           n == Len(b.ring.cq)
<1>1. /\ b \in UringRec /\ b.ring \in Ring /\ b.ring.reqs \in SUBSET Request
      /\ Len(b.ring.sq) <= b.entries /\ b.ring.to_submit <= Len(b.ring.sq)
      /\ Len(b.ring.cq) <= 2 * b.entries /\ b.egen \in [Fd -> Nat] /\ b.ring.cq \in Seq(CqeT)
  BY UringTypes
<1>2. /\ g \in Ring /\ g.sq = b.ring.sq /\ g.to_submit = b.ring.to_submit /\ g.cq = b.ring.cq
      /\ g.backlog = b.ring.backlog /\ g.overflow = b.ring.overflow /\ g.reqs = b.ring.reqs \ {r}
  BY <1>1 DEF Ring
<1>3. [b EXCEPT !.ring.reqs = @ \ {r}] = d
  BY <1>1 DEF UringRec
<1> HIDE DEF g
<1>4. d \in UringBack /\ d.ring = g /\ d.egen = b.egen /\ d.spins = b.spins
  <2>1. d \in UringBack
    BY <1>1, <1>2, NewRing
  <2> QED
    BY <1>1, <2>1 DEF UringRec
<1> HIDE DEF d
<1>5. Alike(b, d)
  BY <1>2, <1>4 DEF Alike
<1>6. fd \in Fd /\ r.gen \in Nat /\ r \in Request
  BY <1>1 DEF Request
<1>7. /\ q \in CqeT /\ q.fd = fd /\ q.gen = r.gen /\ q.res = res /\ q # Removed /\ q.res # {"EBADF"}
  BY <1>6 DEF CqeT, Cqe, Removed, Fd, RW
<1> HIDE DEF q
<1>8. z = post(d, q)
  BY <1>3, Zenon DEF q
<1> HIDE DEF z
<1>9. /\ z \in UringBack /\ Alike(d, z) /\ z.ring.reqs = d.ring.reqs
      /\ z.ring.overflow \/ z.ring.cq = Append(d.ring.cq, q)
  BY <1>4, <1>7, <1>8, PostIs
<1>10. Alike(b, z)
  BY <1>5, <1>9 DEF Alike
<1>11. CASE z.ring.overflow
  BY <1>10, <1>11, LostFlow DEF z
<1>12. CASE ~z.ring.overflow
  <2>1. ~b.ring.overflow
    BY <1>10, <1>12 DEF Alike
  <2> SUFFICES ASSUME NEW m, Flow(m, b, 0) PROVE Flow(m, z, 0)
    BY <1>10 DEF FlowsOn, z
  <2>2. /\ Dated(b) /\ Plain(b) /\ r.gen <= b.egen[fd]
        /\ \A h \in Fd : IF m[h] = {} THEN None(b, 0, h) ELSE One(b, 0, h)
    BY <2>1 DEF Flow, Dated
  <2>3. /\ z.ring.sq = b.ring.sq /\ z.egen = b.egen /\ z.ring.reqs = b.ring.reqs \ {r}
        /\ z.ring.cq = Append(b.ring.cq, q)
    BY <1>2, <1>4, <1>9, <1>10, <1>12 DEF Alike
  <2>4. Plain(z)
    BY <1>10, <2>2 DEF Plain, Alike
  <2>5. /\ n \in Nat /\ Len(z.ring.cq) = n + 1 /\ z.ring.cq[n + 1] = q
        /\ \A i \in 1 .. n : z.ring.cq[i] = b.ring.cq[i]
        /\ \A i \in 1 .. n + 1 : i \in 1 .. n \/ i = n + 1
        /\ \A i \in 1 .. n : i \in 1 .. n + 1 /\ i # n + 1
        /\ n + 1 \in 1 .. n + 1
    <3>1. n \in Nat /\ Len(Append(b.ring.cq, q)) = n + 1 /\ Append(b.ring.cq, q)[n + 1] = q
          /\ \A i \in 1 .. n : Append(b.ring.cq, q)[i] = b.ring.cq[i]
      BY <1>1
    <3> QED
      BY <2>3, <3>1
  <2>6. Dated(z)
    <3>1. DatedCqe(b, q)
      BY <1>7, <2>2 DEF DatedCqe
    <3>2. \A i \in 1 .. Len(z.ring.cq) : DatedCqe(b, z.ring.cq[i])
      BY <2>2, <2>5, <3>1 DEF Dated
    <3>3. \A x : (DatedCqe(b, x) => DatedCqe(z, x)) /\ (DatedSqe(b, x) => DatedSqe(z, x))
      BY <2>3, Zenon DEF DatedCqe, DatedSqe
    <3> QED
      BY <2>2, <2>3, <3>2, <3>3, Zenon DEF Dated
  <2> HIDE DEF n
  <2>7. ASSUME NEW h \in Fd
        PROVE  /\ Unsent(z, 0, h) = Unsent(b, 0, h)
               /\ Waiting(z, h) = Waiting(b, h) \ {r}
               /\ Answered(z, h) = IF h = fd /\ r.gen = b.egen[h]
                                   THEN Answered(b, h) \cup {n + 1} ELSE Answered(b, h)
    <3>1. Unsent(z, 0, h) = Unsent(b, 0, h)
      BY <2>3 DEF Unsent
    <3>2. Waiting(z, h) = Waiting(b, h) \ {r}
      BY <2>3 DEF Waiting
    <3>3. /\ Answered(z, h) = {i \in 1 .. n + 1 : z.ring.cq[i].fd = h /\ z.ring.cq[i].gen = b.egen[h]}
          /\ Answered(b, h) = {i \in 1 .. n : b.ring.cq[i].fd = h /\ b.ring.cq[i].gen = b.egen[h]}
      BY <2>3, <2>5 DEF Answered, n
    <3>4. \A i : i \in Answered(z, h) <=> i \in Answered(b, h) \/ (i = n + 1 /\ h = fd /\ r.gen = b.egen[h])
      BY <1>7, <2>5, <3>3
    <3> QED
      BY <3>1, <3>2, <3>4
  <2>8. ASSUME NEW h \in Fd
        PROVE  IF m[h] = {} THEN None(z, 0, h) ELSE One(z, 0, h)
    <3>1. CASE h = fd /\ r.gen = b.egen[h]
      <4>1. r \in Waiting(b, h)
        BY <3>1 DEF Waiting
      <4>2. m[h] # {} /\ Waiting(b, h) = {r} /\ Unsent(b, 0, h) = {} /\ Answered(b, h) = {}
        BY <2>2, <4>1 DEF None, One
      <4>3. Unsent(z, 0, h) = {} /\ Waiting(z, h) = {} /\ Answered(z, h) = {n + 1}
        BY <2>7, <3>1, <4>2
      <4> QED
        BY <4>2, <4>3 DEF One
    <3>2. CASE ~(h = fd /\ r.gen = b.egen[h])
      <4>1. r \notin Waiting(b, h)
        BY <3>2 DEF Waiting
      <4>2. Unsent(z, 0, h) = Unsent(b, 0, h) /\ Waiting(z, h) = Waiting(b, h) /\ Answered(z, h) = Answered(b, h)
        BY <2>7, <3>2, <4>1
      <4> QED
        BY <2>2, <4>2 DEF None, One
    <3> QED
      BY <3>1, <3>2
  <2> QED
    BY <2>4, <2>6, <2>8 DEF Flow
<1> QED
  BY <1>11, <1>12

-------------------------------------------------------------------------------
(* The program *)

\* The state is a record of the two parts.
Parts == c = [ev |-> c.ev, back |-> c.back]

\* The loop keeps libev's part right, with the same masks in force.
EvStep(b) == \E e \in Good(0) : e.events = c.ev.events /\ c' = [ev |-> e, back |-> b]

LEMMA StartStep ==
    ASSUME c.ev \in Good(0), Parts, NEW w \in Watcher, start(w)
    PROVE  EvStep(c.back)
<1>1. ~Active(c.ev, w)
  BY Zenon DEF start
<1>2. ASSUME NEW d \in Good(0), ~Active(d, w), d.io[w] # Unset
      PROVE  ev_io_start(d, w) \in Good(0) /\ ev_io_start(d, w).events = d.events
  <2>1. ev_io_start(d, w) \in Good(0)
    BY <1>2, IoStart
  <2>2. ev_io_start(d, w).events = d.events
    BY DEF Good, Ev, ev_io_start, fd_change
  <2> QED
    BY <2>1, <2>2
<1>3. CASE \E fd \in Fd, mask \in Masks :
             c' = [c EXCEPT !.ev = ev_io_start([@ EXCEPT !.io[w] =
                     [fd |-> fd, events |-> mask, fresh |-> TRUE]], w)]
  <2>1. PICK fd \in Fd, mask \in Masks :
             c' = [c EXCEPT !.ev = ev_io_start([@ EXCEPT !.io[w] =
                     [fd |-> fd, events |-> mask, fresh |-> TRUE]], w)]
    BY <1>3
  <2> DEFINE set == [fd |-> fd, events |-> mask, fresh |-> TRUE]
             d == [c.ev EXCEPT !.io[w] = set]
  <2>2. set \in [fd : Fd, events : SUBSET RW, fresh : BOOLEAN] /\ set # Unset
    <3>1. mask \in SUBSET RW
      BY FdAssumption DEF RW
    <3>2. fd # -1
      BY DEF Fd
    <3> QED
      BY <3>1, <3>2 DEF Unset
  <2> HIDE DEF set
  <2>3. set \in {Unset} \cup [fd : Fd, events : SUBSET RW, fresh : BOOLEAN]
    BY <2>2
  <2>4. d \in Good(0)
    BY <1>1, <2>3, IoSet
  <2>5. d.io[w] = set /\ d.events = c.ev.events /\ d.head = c.ev.head
    BY DEF Good, Ev
  <2>6. c' = [c EXCEPT !.ev = ev_io_start(d, w)]
    BY <2>1 DEF set
  <2> HIDE DEF d
  <2>7. ~Active(d, w)
    BY <1>1, <2>5, Zenon DEF Active
  <2>8. ev_io_start(d, w) \in Good(0) /\ ev_io_start(d, w).events = d.events
    BY <1>2, <2>2, <2>4, <2>5, <2>7
  <2> QED
    BY <2>5, <2>6, <2>8 DEF EvStep, Parts
<1>4. CASE c.ev.io[w] # Unset /\ c' = [c EXCEPT !.ev = ev_io_start(@, w)]
  <2>1. ev_io_start(c.ev, w) \in Good(0) /\ ev_io_start(c.ev, w).events = c.ev.events
    BY <1>1, <1>2, <1>4
  <2> QED
    BY <1>4, <2>1 DEF EvStep, Parts
<1> QED
  BY <1>3, <1>4, Zenon DEF start

LEMMA StopStep ==
    ASSUME c.ev \in Good(0), Parts, NEW w \in Watcher, stop(w)
    PROVE  EvStep(c.back)
<1> DEFINE d == ev_io_stop(c.ev, w)
<1>1. d \in Good(0) /\ d.events = c.ev.events
  BY IoStop
<1>2. c' = [c EXCEPT !.ev = d]
  BY Zenon DEF stop
<1> HIDE DEF d
<1> QED
  BY <1>1, <1>2 DEF EvStep, Parts

\* No watcher on a list is set for a descriptor whose list is empty.
LEMMA CloseStep ==
    ASSUME c.ev \in Good(0), Parts, NEW fd \in Fd, NEW STATE left, close(fd, left)
    PROVE  EvStep(left)
<1> DEFINE e == c.ev
           io == [w \in Watcher |-> IF e.io[w].fd = fd THEN Unset ELSE e.io[w]]
           d == [e EXCEPT !.io = io]
<1>1. c' = [c EXCEPT !.back = left, !.ev.io = io]
  BY Zenon DEF close
<1>2. e \in Good(0) /\ e \in Ev /\ e.head[fd] = <<>>
  BY Zenon DEF Good, close
<1>3. e.io \in [Watcher -> {Unset} \cup [fd : Fd, events : SUBSET RW, fresh : BOOLEAN]]
  BY <1>2 DEF Ev
<1>4. io \in [Watcher -> {Unset} \cup [fd : Fd, events : SUBSET RW, fresh : BOOLEAN]]
  BY <1>3
<1>5. \A g \in Fd : \A i \in DOMAIN e.head[g] : e.head[g][i] \in Watcher /\ io[e.head[g][i]] = e.io[e.head[g][i]]
  <2> SUFFICES ASSUME NEW g \in Fd, NEW i \in DOMAIN e.head[g]
               PROVE  e.head[g][i] \in Watcher /\ io[e.head[g][i]] = e.io[e.head[g][i]]
    OBVIOUS
  <2>1. e.head[g] \in Seq(Watcher) /\ e.head[g][i] \in Watcher
    BY <1>2 DEF Ev
  <2>2. e.io[e.head[g][i]].fd = g
    BY <1>2 DEF Good, HeadsInv
  <2>3. g # fd
    BY <1>2
  <2> QED
    BY <2>1, <2>2, <2>3
<1> HIDE DEF io
<1>6. /\ d \in Ev /\ d.io = io /\ d.head = e.head /\ d.events = e.events /\ d.reify = e.reify
      /\ d.changes = e.changes
  BY <1>2, <1>4 DEF Ev
<1> HIDE DEF d, e
<1>7. \A g \in Fd : Want(d, g) = Want(e, g)
  <2> SUFFICES ASSUME NEW g \in Fd PROVE Want(d, g) = Want(e, g)
    OBVIOUS
  <2>1. \A v \in ToSet(e.head[g]) : d.io[v] = e.io[v]
    BY <1>5, <1>6 DEF ToSet
  <2>2. {d.io[v].events : v \in ToSet(e.head[g])} = {e.io[v].events : v \in ToSet(e.head[g])}
    BY <2>1
  <2> QED
    BY <1>6, <2>2, Zenon DEF Want
<1>8. HeadsInv(d)
  BY <1>2, <1>5, <1>6 DEF Good, HeadsInv
<1>9. ListInv(d, 0)
  BY <1>2, <1>6 DEF Good, ListInv
<1>10. \A g \in Fd : MaskInv(d, g)
  BY <1>2, <1>6, <1>7, Zenon DEF Good, MaskInv
<1>11. d \in Good(0)
  BY <1>6, <1>8, <1>9, <1>10 DEF Good
<1>12. c' = [ev |-> d, back |-> left]
  <2>1. c = [ev |-> e, back |-> c.back]
    BY DEF Parts, e
  <2>2. ASSUME NEW x, NEW p, NEW q, x = [ev |-> p, back |-> q]
        PROVE  [x EXCEPT !.back = left, !.ev.io = io] = [x EXCEPT !.back = left, !.ev = [p EXCEPT !.io = io]]
    BY <2>2
  <2>3. [c EXCEPT !.back = left, !.ev.io = io] = [c EXCEPT !.back = left, !.ev = d]
    BY <2>1, <2>2, Zenon DEF d
  <2>4. [c EXCEPT !.back = left, !.ev = d] = [ev |-> d, back |-> left]
    <3> DEFINE y == [c EXCEPT !.back = left, !.ev = d]
    <3> HIDE DEF d
    <3>1. c \in [ev : {e}, back : {c.back}]
      <4> HIDE DEF e
      <4>1. \A p, q : [ev |-> p, back |-> q] \in [ev : {p}, back : {q}]
        OBVIOUS
      <4> QED
        BY <2>1, <4>1, Zenon
    <3>2. y \in [ev : {d}, back : {left}]
      BY <3>1
    <3> HIDE DEF y
    <3>3. y = [ev |-> d, back |-> left]
      BY <3>2
    <3> QED
      BY <3>3 DEF y
  <2> QED
    BY <1>1, <2>3, <2>4, Zenon
<1> QED
  BY <1>6, <1>11, <1>12 DEF EvStep, e

\* A callback runs.
LEMMA InvokeStep ==
    ASSUME c.ev \in Good(0), Parts, invoke
    PROVE  EvStep(c.back)
<1> DEFINE e == c.ev
           l == Front(e.pend)
           d == [e EXCEPT !.pend = l]
<1>1. e \in Good(0) /\ e \in Ev /\ e.pend \in Seq(Event) /\ e.pend # <<>>
  BY DEF Good, Ev, invoke
<1>2. l \in Seq(Event)
  <2>1. l = SubSeq(e.pend, 1, Len(e.pend) - 1)
    BY <1>1 DEF Front
  <2>2. Len(e.pend) \in Nat /\ Len(e.pend) >= 1
    BY <1>1
  <2> QED
    BY <1>1, <2>1, <2>2
<1> HIDE DEF l
<1>3. d \in Ev /\ Same(e, d) /\ d.events = e.events
  BY <1>1, <1>2 DEF Ev, Same
<1>4. c' = [c EXCEPT !.ev = d]
  <2>1. c' = [c EXCEPT !.ev.pend = l]
    BY Zenon DEF invoke, l
  <2> QED
    BY <2>1 DEF Parts
<1> HIDE DEF d
<1>5. d \in Good(0)
  BY <1>1, <1>3, SameGood
<1> QED
  BY <1>3, <1>4, <1>5 DEF EvStep, Parts

\* What the program does to files and descriptors keeps their types.
LEMMA OpenFiles ==
    ASSUME Files, NEW fd \in Fd, NEW f \in File, open(fd, f)
    PROVE  Files' /\ c' = c /\ phase' = phase
BY DEF Files, open

LEMMA CloseFiles ==
    ASSUME Files, NEW fd \in Fd, NEW STATE left, close(fd, left)
    PROVE  Files' /\ phase' = phase
BY DEF Files, close

LEMMA BecomesFiles ==
    ASSUME Files, NEW f \in File, becomes(f)
    PROVE  Files' /\ c' = c /\ phase' = phase
BY DEF Files, becomes

\* What the program does when the kernel keeps nothing of the descriptors.
LEMMA ForgetStep ==
    ASSUME c.ev \in Good(0), Parts, Files, Program(forget)
    PROVE  EvStep(c.back) /\ Files' /\ phase' = phase
<1>1. ASSUME NEW w \in Watcher, start(w)
      PROVE  EvStep(c.back) /\ Files' /\ phase' = phase
  <2>1. UNCHANGED <<tab, ready, phase>>
    BY <1>1, Zenon DEF start
  <2> QED
    BY <1>1, <2>1, StartStep DEF Files
<1>2. ASSUME NEW w \in Watcher, stop(w)
      PROVE  EvStep(c.back) /\ Files' /\ phase' = phase
  <2>1. UNCHANGED <<tab, ready, phase>>
    BY <1>2, Zenon DEF stop
  <2> QED
    BY <1>2, <2>1, StopStep DEF Files
<1>3. ASSUME NEW fd \in Fd, close(fd, forget(c.back, fd))
      PROVE  EvStep(c.back) /\ Files' /\ phase' = phase
  <2>1. close(fd, c.back)
    BY <1>3, Zenon DEF forget
  <2> QED
    BY <2>1, CloseStep, CloseFiles
<1>4. c' = c => EvStep(c.back)
  BY DEF EvStep, Parts
<1>5. ASSUME NEW fd \in Fd, NEW f \in File, open(fd, f)
      PROVE  EvStep(c.back) /\ Files' /\ phase' = phase
  BY <1>4, <1>5, OpenFiles
<1>6. ASSUME NEW f \in File, becomes(f)
      PROVE  EvStep(c.back) /\ Files' /\ phase' = phase
  BY <1>4, <1>6, BecomesFiles
<1> QED
  BY <1>1, <1>2, <1>3, <1>5, <1>6, Zenon DEF Program

-------------------------------------------------------------------------------
(* The steps of epoll *)

\* The state with back ends of B.
OfBack(B) == c \in [ev : Good(0), back : B]

Phases == {"user", "polling", "polled"}
\* What holds after a step of the program.
Quiet == Files' /\ phase' = phase
\* What holds after a step of the loop.
Loud == Files' /\ phase' \in Phases /\ (phase' = phase \/ Tells(c.ev, c'.ev))

LEMMA OfBackParts ==
    ASSUME NEW B, OfBack(B)
    PROVE  c.ev \in Good(0) /\ c.back \in B /\ Parts
BY DEF OfBack, Parts

\* The events that epoll_wait returns.
LEMMA EpollWaitResult ==
    ASSUME NEW b \in EpollBack, Files, NEW n, NEW s \in kSubset(n, EpollFires(b))
    PROVE  [i \in 1 .. n |-> LET k == SetToSeq(s)[i]
                              IN  [fd |-> k[1], egen |-> b.kern[k].egen, got |-> Level(k[2])]]
             \in Seq(EpollResult)
<1> DEFINE K == DOMAIN b.kern
           q == SetToSeq(s)
           entry(k) == [fd |-> k[1], egen |-> b.kern[k].egen, got |-> Level(k[2])]
           r == [i \in 1 .. n |-> entry(q[i])]
<1>1. s \subseteq K /\ Cardinality(s) = n
  BY DEF kSubset, EpollFires
<1>2. K \in Keys /\ b.kern \in [K -> KernEntry]
  <2>1. b.kern \in Kern
    BY DEF EpollBack
  <2> QED
    BY <2>1, KernIs
<1>3. IsFiniteSet(s) /\ K \subseteq Fd \X File
  BY <1>1, <1>2, FS_Subset DEF Keys
<1>4. n \in Nat /\ ExistsBijection(1 .. n, s)
  BY <1>1, <1>3, FS_CardinalityType
<1>5. q \in [1 .. n -> s]
  <2>1. \E f \in [1 .. n -> s] : IsInjective(f)
    <3>1. PICK f \in [1 .. n -> s] : f \in Bijection(1 .. n, s)
      BY <1>4 DEF ExistsBijection, Bijection, Injection
    <3>2. IsInjective(f)
      BY <3>1 DEF Bijection, Injection, IsInjective
    <3> QED
      BY <3>2
  <2> QED
    BY <1>1, <2>1, Zenon DEF SetToSeq
<1> HIDE DEF q
<1>6. ASSUME NEW i \in 1 .. n
      PROVE  entry(q[i]) \in EpollResult
  <2> DEFINE k == q[i]
  <2>1. k \in s
    BY <1>5
  <2> HIDE DEF k
  <2>2. k \in K /\ k[1] \in Fd /\ k[2] \in File
    BY <1>1, <1>3, <2>1
  <2>3. b.kern[k].egen \in Nat
    BY <1>2, <2>2 DEF KernEntry
  <2>4. Level(k[2]) \in SUBSET RW
    BY <2>2, LevelIs
  <2> QED
    BY <2>2, <2>3, <2>4 DEF EpollResult, k
<1> HIDE DEF entry
<1>7. r \in [1 .. n -> EpollResult]
  BY <1>6
<1>8. r \in Seq(EpollResult)
  BY <1>4, <1>7
<1> QED
  BY <1>8 DEF r, q, entry

LEMMA EpollClient ==
    ASSUME OfBack(EpollBack), Files, epoll_client
    PROVE  OfBack(EpollBack)' /\ Quiet
<1>1. c.ev \in Good(0) /\ c.back \in EpollBack /\ Parts
  BY OfBackParts
<1>2. ASSUME NEW STATE left, EvStep(left), left \in EpollBack
      PROVE  OfBack(EpollBack)'
  BY <1>2 DEF EvStep, OfBack
<1>3. ASSUME NEW w \in Watcher, start(w)
      PROVE  OfBack(EpollBack)' /\ Quiet
  <2>1. UNCHANGED <<tab, ready, phase>>
    BY <1>3, Zenon DEF start
  <2> QED
    BY <1>1, <1>2, <1>3, <2>1, StartStep DEF Files, Quiet
<1>4. ASSUME NEW w \in Watcher, stop(w)
      PROVE  OfBack(EpollBack)' /\ Quiet
  <2>1. UNCHANGED <<tab, ready, phase>>
    BY <1>4, Zenon DEF stop
  <2> QED
    BY <1>1, <1>2, <1>4, <2>1, StopStep DEF Files, Quiet
<1>5. ASSUME NEW fd \in Fd, close(fd, forget_file(c.back, fd))
      PROVE  OfBack(EpollBack)' /\ Quiet
  <2> DEFINE left == forget_file(c.back, fd)
  <2>1. left \in EpollBack
    <3>1. c.back.kern \in Kern
      BY <1>1 DEF EpollBack
    <3> DEFINE k == Restrict(c.back.kern, {x \in DOMAIN c.back.kern : x[2] # tab[fd]})
    <3>2. k \in Kern
      BY <3>1, KernRestrict
    <3>3. left = c.back \/ left = [c.back EXCEPT !.kern = k]
      BY Zenon DEF forget_file
    <3> HIDE DEF k, left
    <3> QED
      BY <1>1, <3>2, <3>3 DEF EpollBack
  <2>2. close(fd, left)
    BY <1>5
  <2> HIDE DEF left
  <2> QED
    BY <1>1, <1>2, <2>1, <2>2, CloseStep, CloseFiles DEF Quiet
<1>6. c' = c => OfBack(EpollBack)'
  BY DEF OfBack
<1>7. ASSUME NEW fd \in Fd, NEW f \in File, open(fd, f)
      PROVE  OfBack(EpollBack)' /\ Quiet
  BY <1>6, <1>7, OpenFiles DEF Quiet
<1>8. ASSUME NEW f \in File, becomes(f)
      PROVE  OfBack(EpollBack)' /\ Quiet
  BY <1>6, <1>8, BecomesFiles DEF Quiet
<1>9. ASSUME epoll_loop_fork
      PROVE  OfBack(EpollBack)' /\ Quiet
  <2>1. c' = [c EXCEPT !.back = [@ EXCEPT !.postfork = {1}]] /\ UNCHANGED <<tab, ready, phase>>
    BY <1>9 DEF epoll_loop_fork
  <2> QED
    BY <1>1, <2>1 DEF OfBack, EpollBack, Files, Quiet, Parts
<1> QED
  BY <1>3, <1>4, <1>5, <1>7, <1>8, <1>9, Zenon DEF epoll_client, Program

-------------------------------------------------------------------------------
(* The steps of the loop *)

LEMMA EvStepOfBack ==
    ASSUME NEW B, NEW STATE left, left \in B, EvStep(left)
    PROVE  OfBack(B)' /\ c'.back = left /\ c'.ev.events = c.ev.events
BY DEF EvStep, OfBack

\* A callback changes neither files nor phase.
LEMMA InvokeQuiet ==
    ASSUME Files, phase \in Phases, invoke
    PROVE  Loud
BY DEF Files, invoke, Loud

\* The three steps of an iteration of the loop.
LEMMA EnterFiles ==
    ASSUME Files, enter_poll
    PROVE  Files' /\ phase' \in Phases
BY DEF Files, enter_poll, Phases

LEMMA ReturnFiles ==
    ASSUME Files, poll_returns
    PROVE  Files' /\ phase' \in Phases
BY DEF Files, poll_returns, Phases

LEMMA AfterFiles ==
    ASSUME Files, after_poll
    PROVE  Files' /\ phase' \in Phases
BY DEF Files, after_poll, Phases

\* A set that is to be made anew is, and the changes are dealt with.
LEMMA EpollBegins ==
    ASSUME OfBack(EpollBack), Files, epoll_begins
    PROVE  /\ OfBack(EpollBack)' /\ Loud
           /\ c'.back.postfork = {}
           /\ Supposed /\ Opened(c.ev) /\ Sound(c) => Sound(c)'
<1> DEFINE f == epoll_fork(c)
           x == IF c.back.postfork # {} THEN f ELSE c
           z == fd_reify(x, epoll_modify)
<1>1. c \in [ev : Good(0), back : EpollBack]
  BY DEF OfBack
<1>2. /\ f \in [ev : Good(0), back : EpollBack] /\ Tells(c.ev, f.ev)
      /\ f.back.postfork = {} /\ (Known(c.back) => Right(f))
  BY <1>1, EpollFork
<1>3. Tells(c.ev, c.ev)
  BY DEF Tells, Keeps
<1> HIDE DEF f
<1>4. /\ x \in [ev : Good(0), back : EpollBack] /\ Tells(c.ev, x.ev)
      /\ x.back.postfork = {} /\ (Sound(c) => Right(x))
  BY <1>1, <1>2, <1>3 DEF Sound, Right
<1> HIDE DEF x
<1>5. z \in [ev : Good(0), back : EpollBack] /\ Tells(x.ev, z.ev) /\ Carries(x, z)
  BY <1>4, EpollReify
<1>6. c' = z /\ enter_poll /\ tab' = tab
  BY Zenon DEF epoll_begins, enter_poll, x, f
<1> HIDE DEF z
<1>7. Tells(c.ev, z.ev)
  BY <1>4, <1>5, TellsOn
<1>8. OfBack(EpollBack)' /\ Loud
  BY <1>5, <1>6, <1>7, EnterFiles DEF OfBack, Loud
<1>9. c'.back.postfork = {}
  BY <1>4, <1>5, <1>6 DEF Carries
<1>10. ASSUME Supposed, Opened(c.ev), Sound(c) PROVE Sound(c)'
  <2>1. Opened(x.ev)
    BY <1>4, <1>10, Zenon DEF Opened, Tells, Keeps
  <2>2. Right(z)
    BY <1>4, <1>5, <1>10, <2>1, Zenon DEF Carries
  <2>3. Sound(z)
    BY <2>2, Zenon DEF Right, Sound
  <2> QED
    BY <1>6, <2>3, SoundNext DEF z
<1> QED
  BY <1>8, <1>9, <1>10

LEMMA EpollWaits ==
    ASSUME OfBack(EpollBack), Files, NEW n, epoll_wait(n)
    PROVE  /\ OfBack(EpollBack)' /\ Loud
           /\ c'.back.postfork = c.back.postfork /\ (Sound(c) => Sound(c)')
<1>1. PICK s \in kSubset(n, EpollFires(c.back)) :
         c' = [c EXCEPT !.back.result =
                [i \in 1 .. n |-> LET k == SetToSeq(s)[i]
                                  IN  [fd |-> k[1], egen |-> c.back.kern[k].egen,
                                       got |-> Level(k[2])]]]
  BY Zenon DEF epoll_wait
<1> DEFINE r == [i \in 1 .. n |-> LET k == SetToSeq(s)[i]
                                  IN  [fd |-> k[1], egen |-> c.back.kern[k].egen,
                                       got |-> Level(k[2])]]
<1>2. c.back \in EpollBack /\ c.ev \in Good(0) /\ Parts /\ c \in [ev : Good(0), back : EpollBack]
  BY OfBackParts DEF OfBack
<1>3. r \in Seq(EpollResult)
  BY <1>2, EpollWaitResult
<1>4. c' = [c EXCEPT !.back.result = r]
  BY <1>1
<1> HIDE DEF r
<1> DEFINE b == [c.back EXCEPT !.result = r]
<1>5. /\ b \in EpollBack
      /\ b.kern = c.back.kern /\ b.egen = c.back.egen /\ b.emask = c.back.emask
      /\ b.eperms = c.back.eperms /\ b.postfork = c.back.postfork
  BY <1>2, <1>3 DEF EpollBack
<1>6. c' = [c EXCEPT !.back = b]
  BY <1>2, <1>4
<1> HIDE DEF b
<1>7. c' \in [ev : Good(0), back : EpollBack] /\ c'.ev = c.ev /\ c'.back = b
  BY <1>2, <1>5, <1>6
<1>8. Tells(c.ev, c'.ev)
  BY <1>7 DEF Tells, Keeps
<1>9. OfBack(EpollBack)' /\ Loud
  BY <1>7, <1>8, ReturnFiles DEF OfBack, Loud, epoll_wait
<1>10. ASSUME Sound(c) PROVE Sound(c)'
  <2> DEFINE z == [ev |-> c.ev, back |-> b]
  <2>1. Shrinks(c.ev, c.ev)
    BY DEF Shrinks, Keeps
  <2>2. Sound(z)
    BY <1>5, <1>10, <2>1, SoundSame
  <2>3. c' = z
    BY <1>2, <1>6 DEF Parts
  <2>4. tab' = tab
    BY DEF epoll_wait, poll_returns
  <2> HIDE DEF z
  <2> QED
    BY <2>2, <2>3, <2>4, SoundNext DEF z, b, r
<1> QED
  BY <1>5, <1>7, <1>9, <1>10

LEMMA EpollPolls ==
    ASSUME OfBack(EpollBack), Files, epoll_poll
    PROVE  /\ OfBack(EpollBack)' /\ Loud
           /\ phase' = "user" /\ (Sound(c) => Sound(c)')
<1> DEFINE res == c.back.result
           b0 == [c.back EXCEPT !.result = <<>>]
           x0 == [c EXCEPT !.back = b0]
           x == Steps(epoll_event, x0, res)
           a == array_nextsize(x.back, Len(res))
           y == [x EXCEPT !.back = a]
           len == Len(y.back.eperms)
           z == Steps(epoll_eperm, y, [i \in 1 .. len |-> len + 1 - i])
<1>1. c.back \in EpollBack /\ c.ev \in Good(0) /\ Parts /\ c \in [ev : Good(0), back : EpollBack]
  BY OfBackParts DEF OfBack
<1>2. res \in Seq(EpollResult) /\ b0 \in EpollBack
  <2>1. <<>> \in Seq(EpollResult)
    OBVIOUS
  <2> QED
    BY <1>1, <2>1 DEF EpollBack
<1>3. c' = z
  <2>1. [c EXCEPT !.back.result = <<>>] = x0
    BY <1>1
  <2> QED
    BY <2>1, Zenon DEF epoll_poll
<1>12. /\ b0.kern = c.back.kern /\ b0.egen = c.back.egen /\ b0.emask = c.back.emask
       /\ b0.eperms = c.back.eperms /\ b0.postfork = c.back.postfork
  BY <1>1 DEF EpollBack
<1> HIDE DEF z, b0
<1>4. /\ x0 \in [ev : Good(0), back : EpollBack] /\ x0.ev = c.ev
      /\ x0 = [ev |-> c.ev, back |-> b0]
  BY <1>1, <1>2
<1>13. Sound(c) => Sound(x0)
  <2>1. Shrinks(c.ev, c.ev)
    BY DEF Shrinks, Keeps
  <2>2. Sound(c) => Sound([ev |-> c.ev, back |-> b0])
    BY <1>12, <2>1, SoundSame
  <2> HIDE DEF x0
  <2> QED
    BY <1>4, <2>2
<1> HIDE DEF x0, res
<1>5. x \in EpollKept(x0) /\ x \in EpollAfter(c.ev)
  <2>1. x \in EpollKept(x0)
    BY <1>2, <1>4, EpollEvents
  <2> QED
    BY <1>4, <2>1, Zenon DEF EpollKept
<1> HIDE DEF x
<1>6. x.ev \in On(0, c.ev) /\ x.back \in EpollBack /\ x \in [ev : Good(0), back : EpollBack]
  BY <1>5 DEF EpollAfter, On, After
<1>7. /\ a \in EpollBack
      /\ a.kern = x.back.kern /\ a.egen = x.back.egen /\ a.emask = x.back.emask
      /\ a.eperms = x.back.eperms /\ a.postfork = x.back.postfork
  <2>1. x.back.eventmax \in Nat
    BY <1>6 DEF EpollBack
  <2> DEFINE k == 2 * x.back.eventmax
  <2>2. k \in Nat
    BY <2>1
  <2>3. a = x.back \/ a = [x.back EXCEPT !.eventmax = k]
    BY DEF array_nextsize
  <2> HIDE DEF k, a
  <2> QED
    BY <1>6, <2>2, <2>3 DEF EpollBack
<1> HIDE DEF a
<1>8. /\ y \in [ev : Good(0), back : EpollBack] /\ y.ev = x.ev
      /\ y = [ev |-> x.ev, back |-> a]
  BY <1>6, <1>7
<1> HIDE DEF y
<1>14. Sound(x) => Sound(y)
  <2>1. Shrinks(x.ev, x.ev)
    BY DEF Shrinks, Keeps
  <2>2. Sound(x) => Sound([ev |-> x.ev, back |-> a])
    BY <1>7, <2>1, SoundSame
  <2> QED
    BY <1>8, <2>2
<1>9. z \in EpollKept(y) /\ z \in EpollAfter(y.ev)
  <2>1. len = Len(y.back.eperms)
    OBVIOUS
  <2> HIDE DEF len
  <2>2. z \in EpollKept(y)
    BY <1>8, <2>1, EpollEperms DEF z
  <2> QED
    BY <2>2, Zenon DEF EpollKept
<1> HIDE DEF len
<1>10. z.ev \in On(0, c.ev) /\ z.back \in EpollBack /\ z \in [ev : Good(0), back : EpollBack]
  <2>1. z.ev \in On(0, x.ev)
    BY <1>8, <1>9 DEF EpollAfter
  <2>2. z.ev \in On(0, c.ev)
    BY <1>1, <1>6, <2>1, OnOn
  <2> QED
    BY <1>9, <2>2 DEF EpollAfter, On, After
<1>11. Tells(c.ev, z.ev)
  BY <1>10, FollowsTells DEF On, After
<1>15. Sound(c) => Sound(z)
  BY <1>5, <1>9, <1>13, <1>14, Zenon DEF EpollKept
<1>16. tab' = tab /\ phase' = "user"
  BY DEF epoll_poll, after_poll
<1>17. Sound(c) => Sound(c)'
  BY <1>3, <1>15, <1>16, SoundNext
<1> QED
  BY <1>3, <1>10, <1>11, <1>16, <1>17, AfterFiles DEF OfBack, Loud, epoll_poll

LEMMA EpollLoop ==
    ASSUME OfBack(EpollBack), Files, phase \in Phases, epoll_loop
    PROVE  OfBack(EpollBack)' /\ Loud
<1>1. ASSUME invoke PROVE OfBack(EpollBack)' /\ Loud
  <2>1. c.back \in EpollBack /\ EvStep(c.back)
    BY <1>1, OfBackParts, InvokeStep
  <2> QED
    BY <1>1, <2>1, EvStepOfBack, InvokeQuiet
<1> QED
  BY <1>1, EpollBegins, EpollWaits, EpollPolls DEF epoll_loop

LEMMA NewEpoll ==
    ASSUME NEW g \in [Fd -> Nat]
    PROVE  epoll_init \in EpollBack /\ [epoll_init EXCEPT !.egen = g] \in EpollBack
<1>1. <<>> \in Kern
  <2>1. DOMAIN <<>> = {} /\ <<>> \in [{} -> KernEntry]
    OBVIOUS
  <2>2. {} \in Keys
    BY FS_EmptySet DEF Keys
  <2> QED
    BY <2>1, <2>2, Zenon DEF Kern
<1>2. [fd \in Fd |-> {}] \in [Fd -> SUBSET (RW \cup EPERM)]
  OBVIOUS
<1>3. <<>> \in Seq(Fd) /\ <<>> \in Seq(EpollResult) /\ {} \in SUBSET {1, 2} /\ StartMax \in Nat
  BY BackendAssumption DEF EpollAssumption
<1>4. [fd \in Fd |-> 0] \in [Fd -> Nat]
  OBVIOUS
<1>5. epoll_init \in EpollBack
  BY <1>1, <1>2, <1>3, <1>4 DEF EpollBack, epoll_init
<1> QED
  BY <1>5 DEF EpollBack

-------------------------------------------------------------------------------
(* The steps of poll *)

PollState ==
    /\ OfBack(PollBack)
    /\ PollAgrees(c.ev.events, c.back)
    /\ phase # "polled" => c.back.result = <<>>
    /\ Len(c.back.result) <= Len(c.back.polls)

LEMMA PollFacts ==
    ASSUME PollState
    PROVE  /\ c.ev \in Good(0) /\ c.back \in PollBack /\ Parts /\ c \in [ev : Good(0), back : PollBack]
           /\ Len(c.back.polls) \in Nat /\ c.back.polls \in Seq(PollEntry)
<1>1. c.back \in PollBack
  BY OfBackParts DEF PollState
<1>2. c.back.polls \in Seq(PollEntry)
  BY <1>1 DEF PollBack
<1>3. Len(c.back.polls) \in Nat
  BY <1>2
<1> QED
  BY <1>1, <1>2, <1>3, OfBackParts DEF PollState, OfBack

LEMMA PollSame ==
    ASSUME PollState, EvStep(c.back), phase' = phase
    PROVE  PollState'
<1>1. c.back \in PollBack
  BY PollFacts
<1>2. OfBack(PollBack)' /\ c'.back = c.back /\ c'.ev.events = c.ev.events
  BY <1>1, EvStepOfBack
<1> QED
  BY <1>2, Zenon DEF PollState

LEMMA PollClient ==
    ASSUME PollState, Files, poll_client
    PROVE  PollState' /\ Quiet
BY PollFacts, ForgetStep, PollSame DEF poll_client, Quiet

LEMMA PollBegins ==
    ASSUME PollState, Files, poll_begins
    PROVE  PollState' /\ Loud
<1> DEFINE z == fd_reify(c, poll_modify)
<1>1. /\ z \in [ev : Good(0), back : PollBack] /\ Tells(c.ev, z.ev)
      /\ PollAgrees(z.ev.events, z.back) /\ z.back.result = c.back.result
  BY PollFacts, PollReify DEF PollState
<1>2. c' = z /\ enter_poll
  BY Zenon DEF poll_begins
<1> HIDE DEF z
<1>3. c.back.result = <<>> /\ phase' = "polling"
  BY <1>2 DEF PollState, enter_poll
<1>4. Len(z.back.polls) \in Nat
  <2>1. z.back.polls \in Seq(PollEntry)
    BY <1>1 DEF PollBack
  <2> QED
    BY <2>1
<1>5. Len(z.back.result) <= Len(z.back.polls)
  BY <1>1, <1>3, <1>4
<1> QED
  BY <1>1, <1>2, <1>3, <1>5, EnterFiles DEF PollState, OfBack, Loud

\* Only array and index count.
LEMMA PollReturned ==
    ASSUME NEW events, NEW d, PollAgrees(events, d), NEW b, b.polls = d.polls, b.idxs = d.idxs
    PROVE  PollAgrees(events, b)
BY Zenon DEF PollAgrees

LEMMA PollOk ==
    ASSUME PollState, Files, poll_ok
    PROVE  PollState' /\ Loud
<1> DEFINE r == [i \in DOMAIN c.back.polls |-> poll_revents(c.back.polls[i])]
           b == [c.back EXCEPT !.result = r, !.errno = c.back.errno]
<1>1. /\ c.ev \in Good(0) /\ c.back \in PollBack /\ Parts /\ c \in [ev : Good(0), back : PollBack]
      /\ Len(c.back.polls) \in Nat /\ c.back.polls \in Seq(PollEntry)
  BY PollFacts
<1>2. \A p \in PollEntry : poll_revents(p) \in PollResult
  <2> SUFFICES ASSUME NEW p \in PollEntry PROVE poll_revents(p) \in PollResult
    OBVIOUS
  <2>1. p.fd \in Fd /\ p.events \in SUBSET RW
    BY DEF PollEntry
  <2>2. poll_revents(p) = {"NVAL"} \/ poll_revents(p) = RW \/ poll_revents(p) = p.events \cap ready[tab[p.fd]]
    BY DEF poll_revents
  <2>3. RW \in SUBSET RW /\ p.events \cap ready[tab[p.fd]] \in SUBSET RW
    BY <2>1
  <2> QED
    BY <2>2, <2>3 DEF PollResult, Nval
<1>3. r \in Seq(PollResult) /\ Len(r) = Len(c.back.polls)
  <2> DEFINE m == Len(c.back.polls)
  <2>1. \A i \in 1 .. m : poll_revents(c.back.polls[i]) \in PollResult
    BY <1>1, <1>2
  <2>2. DOMAIN c.back.polls = 1 .. m
    BY <1>1
  <2>3. r \in [1 .. m -> PollResult]
    BY <2>1, <2>2
  <2> HIDE DEF r
  <2> QED
    BY <1>1, <2>3
<1>4. c' = [c EXCEPT !.back = b]
  <2>1. c' = [c EXCEPT !.back.result = r]
    BY Zenon DEF poll_ok
  <2> HIDE DEF r
  <2> QED
    BY <1>1, <2>1 DEF PollBack
<1> HIDE DEF r
<1>5. b \in PollBack /\ b.polls = c.back.polls /\ b.result = r /\ PollAgrees(c.ev.events, b)
  <2>1. c.back.errno \in {"", "EINTR", "ENOMEM"}
    BY <1>1 DEF PollBack
  <2>2. /\ b \in PollBack /\ b.polls = c.back.polls /\ b.idxs = c.back.idxs /\ b.result = r
    BY <1>1, <1>3, <2>1 DEF PollBack
  <2> HIDE DEF b
  <2> QED
    BY <2>2, PollReturned DEF PollState
<1> HIDE DEF b
<1>6. c' \in [ev : Good(0), back : PollBack] /\ c'.ev = c.ev /\ c'.back = b
  BY <1>1, <1>4, <1>5
<1>7. phase' = "polled" /\ poll_returns
  BY DEF poll_ok, poll_returns
<1>8. Len(b.result) <= Len(b.polls)
  BY <1>1, <1>3, <1>5
<1>9. Tells(c.ev, c'.ev)
  BY <1>6 DEF Tells, Keeps
<1> QED
  BY <1>5, <1>6, <1>7, <1>8, <1>9, ReturnFiles DEF PollState, OfBack, Loud

LEMMA PollFails ==
    ASSUME PollState, Files, poll_fails
    PROVE  PollState' /\ Loud
<1>1. PICK errno \in {"EINTR", "ENOMEM"} : c' = [c EXCEPT !.back.errno = errno]
  BY Zenon DEF poll_fails
<1> DEFINE r == c.back.result
           b == [c.back EXCEPT !.result = r, !.errno = errno]
<1>2. /\ c.ev \in Good(0) /\ c.back \in PollBack /\ Parts /\ c \in [ev : Good(0), back : PollBack]
  BY PollFacts
<1>3. r \in Seq(PollResult) /\ Len(r) <= Len(c.back.polls)
  BY <1>2 DEF PollState, PollBack
<1>4. c' = [c EXCEPT !.back = b]
  BY <1>1, <1>2 DEF PollBack
<1> HIDE DEF r
<1>5. b \in PollBack /\ b.polls = c.back.polls /\ b.result = r /\ PollAgrees(c.ev.events, b)
  <2>1. /\ b \in PollBack /\ b.polls = c.back.polls /\ b.idxs = c.back.idxs /\ b.result = r
    BY <1>2, <1>3 DEF PollBack
  <2> HIDE DEF b
  <2> QED
    BY <2>1, PollReturned DEF PollState
<1> HIDE DEF b
<1>6. c' \in [ev : Good(0), back : PollBack] /\ c'.ev = c.ev /\ c'.back = b
  BY <1>2, <1>4, <1>5
<1>7. phase' = "polled" /\ poll_returns
  BY DEF poll_fails, poll_returns
<1>8. Tells(c.ev, c'.ev)
  BY <1>6 DEF Tells, Keeps
<1> QED
  BY <1>3, <1>5, <1>6, <1>7, <1>8, ReturnFiles DEF PollState, OfBack, Loud

LEMMA PollPolls ==
    ASSUME PollState, Files, poll_poll
    PROVE  PollState' /\ Loud
<1> DEFINE res == c.back.result
           b == [c.back EXCEPT !.result = <<>>, !.errno = ""]
           x == [c EXCEPT !.back = b]
           m == fd_enomem(c.ev)
           p == poll_events(x, res)
<1>1. /\ c.ev \in Good(0) /\ c.back \in PollBack /\ Parts /\ c \in [ev : Good(0), back : PollBack]
      /\ Len(c.back.polls) \in Nat
  BY PollFacts
<1>2. res \in Seq(PollResult) /\ Len(res) <= Len(c.back.polls)
  BY <1>1 DEF PollState, PollBack
<1>3. c' = x \/ c' = [x EXCEPT !.ev = m] \/ c' = p
  <2>1. [c EXCEPT !.back.result = <<>>, !.back.errno = ""] = x
    BY <1>1
  <2>2. x.ev = c.ev
    BY <1>1
  <2> HIDE DEF x
  <2>3. c' = CASE c.back.errno = "EINTR" -> x
               [] c.back.errno = "ENOMEM" -> [x EXCEPT !.ev = fd_enomem(@)]
               [] OTHER -> p
    BY <2>1, Zenon DEF poll_poll
  <2> HIDE DEF p, m
  <2> QED
    BY <2>2, <2>3 DEF m
<1> HIDE DEF res
<1>4. b \in PollBack /\ b.polls = c.back.polls /\ b.result = <<>> /\ PollAgrees(c.ev.events, b)
  <2>1. <<>> \in Seq(PollResult)
    OBVIOUS
  <2>2. /\ b \in PollBack /\ b.polls = c.back.polls /\ b.idxs = c.back.idxs /\ b.result = <<>>
    BY <1>1, <2>1 DEF PollBack
  <2> HIDE DEF b
  <2> QED
    BY <2>2, PollReturned DEF PollState
<1> HIDE DEF b
<1>5. x \in [ev : Good(0), back : PollBack] /\ x.ev = c.ev /\ x.back = b
  BY <1>1, <1>4
<1> HIDE DEF x
<1>6. m \in On(0, c.ev)
  BY <1>1, FdEnomem
<1>7. p \in EvOnly(x)
  BY <1>2, <1>4, <1>5, PollEvents
<1>8. c.ev \in On(0, c.ev)
  BY <1>1, OnItself
<1> HIDE DEF m, p
<1>9. c'.ev \in On(0, c.ev) /\ c'.back = b /\ c' \in [ev : Good(0), back : PollBack]
  BY <1>3, <1>4, <1>5, <1>6, <1>7, <1>8 DEF EvOnly, On, After
<1>10. c'.ev.events = c.ev.events /\ Tells(c.ev, c'.ev)
  BY <1>9, FollowsTells DEF On, After
<1>11. Len(b.result) <= Len(b.polls)
  BY <1>1, <1>4
<1>12. phase' = "user" /\ after_poll
  BY DEF poll_poll, after_poll
<1> QED
  BY <1>4, <1>9, <1>10, <1>11, <1>12, AfterFiles DEF PollState, OfBack, Loud

LEMMA PollLoop ==
    ASSUME PollState, Files, phase \in Phases, poll_loop
    PROVE  PollState' /\ Loud
<1>1. ASSUME invoke PROVE PollState' /\ Loud
  <2>1. EvStep(c.back) /\ phase' = phase
    BY <1>1, PollFacts, InvokeStep DEF invoke
  <2> QED
    BY <1>1, <2>1, PollSame, InvokeQuiet
<1> QED
  BY <1>1, PollBegins, PollOk, PollFails, PollPolls DEF poll_loop

-------------------------------------------------------------------------------
(* The steps of select *)

\* Only bits that were asked for come back.
SelectFits(b) ==
    \A fd \in Nat : /\ Isset(b.result[1], fd) => Isset(b.ri, fd)
                    /\ Isset(b.result[2], fd) => Isset(b.wi, fd)

SelectState ==
    /\ OfBack(SelectBack)
    /\ SelectAgrees(c.ev.events, c.back)
    /\ phase = "polled" /\ c.back.errno = "" => SelectFits(c.back)

LEMMA SelectFacts ==
    ASSUME SelectState
    PROVE  /\ c.ev \in Good(0) /\ c.back \in SelectBack /\ Parts
           /\ c \in [ev : Good(0), back : SelectBack]
BY OfBackParts DEF SelectState, OfBack

LEMMA SelectSame ==
    ASSUME SelectState, EvStep(c.back), phase' = phase
    PROVE  SelectState'
<1>1. c.back \in SelectBack
  BY SelectFacts
<1>2. OfBack(SelectBack)' /\ c'.back = c.back /\ c'.ev.events = c.ev.events
  BY <1>1, EvStepOfBack
<1>3. SelectAgrees(c.ev.events, c.back)'
  BY <1>2, Zenon DEF SelectState, SelectAgrees
<1>4. (phase = "polled" /\ c.back.errno = "" => SelectFits(c.back))'
  BY <1>2, Zenon DEF SelectState, SelectFits
<1> QED
  BY <1>2, <1>3, <1>4, Zenon DEF SelectState

LEMMA SelectClient ==
    ASSUME SelectState, Files, select_client
    PROVE  SelectState' /\ Quiet
BY SelectFacts, ForgetStep, SelectSame DEF select_client, Quiet

LEMMA SelectReturned ==
    ASSUME NEW events, NEW d, SelectAgrees(events, d), NEW b, b.ri = d.ri, b.wi = d.wi
    PROVE  SelectAgrees(events, b)
BY Zenon DEF SelectAgrees

LEMMA SelectBegins ==
    ASSUME SelectState, Files, select_begins
    PROVE  SelectState' /\ Loud
<1> DEFINE z == fd_reify(c, select_modify)
<1>1. /\ z \in [ev : Good(0), back : SelectBack] /\ Tells(c.ev, z.ev)
      /\ SelectAgrees(z.ev.events, z.back)
  BY SelectFacts, SelectReify DEF SelectState
<1>2. c' = z /\ enter_poll
  BY Zenon DEF select_begins
<1> HIDE DEF z
<1>3. phase' = "polling"
  BY <1>2 DEF enter_poll
<1> QED
  BY <1>1, <1>2, <1>3, EnterFiles DEF SelectState, OfBack, Loud

\* What select returns of a vector.
LEMMA SelectOut ==
    ASSUME NEW vec \in Seq(Bits), NEW out,
           out = [i \in DOMAIN vec |-> out[i]], \A i \in DOMAIN vec : out[i] \subseteq vec[i]
    PROVE  out \in Seq(Bits) /\ \A fd \in Nat : Isset(out, fd) => Isset(vec, fd)
<1> DEFINE m == Len(vec)
<1>1. m \in Nat /\ DOMAIN vec = 1 .. m /\ \A i \in 1 .. m : vec[i] \in Bits
  OBVIOUS
<1>2. \A i \in 1 .. m : out[i] \in Bits
  BY <1>1 DEF Bits
<1>3. out = [i \in 1 .. m |-> out[i]]
  BY <1>1
<1>4. out \in [1 .. m -> Bits]
  BY <1>2, <1>3
<1>5. out \in Seq(Bits) /\ Len(out) = m
  BY <1>1, <1>4
<1>6. ASSUME NEW fd \in Nat, Isset(out, fd)
      PROVE  Isset(vec, fd)
  <2>1. Word(fd) \in Int /\ Word(fd) >= 1
    <3>1. NFDBITS \in Nat /\ NFDBITS > 0
      BY BackendAssumption DEF SelectAssumption
    <3>2. fd \div NFDBITS \in Nat
      BY <3>1
    <3> QED
      BY <3>2 DEF Word
  <2>2. Word(fd) <= m /\ Bit(fd) \in out[Word(fd)]
    BY <1>5, <1>6 DEF Isset
  <2>3. Word(fd) \in 1 .. m
    BY <1>1, <2>1, <2>2
  <2>4. Bit(fd) \in vec[Word(fd)]
    BY <1>1, <2>2, <2>3
  <2> QED
    BY <2>2, <2>4 DEF Isset
<1> QED
  BY <1>5, <1>6

LEMMA SelectOk ==
    ASSUME SelectState, Files, select_ok
    PROVE  SelectState' /\ Loud
<1> DEFINE out(vec, event) ==
             [i \in DOMAIN vec |-> {bit \in vec[i] : event \in Level(tab[(i - 1) * NFDBITS + bit])}]
           ro == out(c.back.ri, "READ")
           wo == out(c.back.wi, "WRITE")
           b == [c.back EXCEPT !.result = <<ro, wo>>]
<1>1. /\ c.ev \in Good(0) /\ c.back \in SelectBack /\ Parts
      /\ c \in [ev : Good(0), back : SelectBack]
  BY SelectFacts
<1>2. c.back.ri \in Seq(Bits) /\ c.back.wi \in Seq(Bits)
  BY <1>1 DEF SelectBack
<1>3. ASSUME NEW vec \in Seq(Bits), NEW event
      PROVE  /\ out(vec, event) \in Seq(Bits)
             /\ \A fd \in Nat : Isset(out(vec, event), fd) => Isset(vec, fd)
  <2> DEFINE o == out(vec, event)
  <2>1. o = [i \in DOMAIN vec |-> o[i]] /\ \A i \in DOMAIN vec : o[i] \subseteq vec[i]
    OBVIOUS
  <2> HIDE DEF o
  <2> QED
    BY <2>1, SelectOut DEF o
<1>4. c' = [c EXCEPT !.back.result = <<ro, wo>>]
  BY Zenon DEF select_ok
<1> HIDE DEF out
<1>5. /\ ro \in Seq(Bits) /\ wo \in Seq(Bits)
      /\ \A fd \in Nat : Isset(ro, fd) => Isset(c.back.ri, fd)
      /\ \A fd \in Nat : Isset(wo, fd) => Isset(c.back.wi, fd)
  BY <1>2, <1>3
<1> HIDE DEF ro, wo
<1> DEFINE pair == <<ro, wo>>
<1>6. pair \in Seq(Seq(Bits)) /\ pair[1] = ro /\ pair[2] = wo
  BY <1>5
<1>7. c' = [c EXCEPT !.back = b]
  BY <1>1, <1>4
<1> HIDE DEF pair
<1>8. /\ b \in SelectBack /\ b.ri = c.back.ri /\ b.wi = c.back.wi /\ b.result = pair
  BY <1>1, <1>6 DEF SelectBack, pair
<1> HIDE DEF b
<1>9. SelectFits(b)
  BY <1>5, <1>6, <1>8, Zenon DEF SelectFits
<1>10. SelectAgrees(c.ev.events, b)
  BY <1>8, SelectReturned DEF SelectState
<1>11. c' \in [ev : Good(0), back : SelectBack] /\ c'.ev = c.ev /\ c'.back = b
  BY <1>1, <1>7, <1>8
<1>12. Tells(c.ev, c'.ev)
  BY <1>11 DEF Tells, Keeps
<1> QED
  BY <1>9, <1>10, <1>11, <1>12, ReturnFiles DEF SelectState, OfBack, Loud, select_ok

LEMMA SelectFails ==
    ASSUME SelectState, Files, select_fails
    PROVE  SelectState' /\ Loud
<1>1. PICK errno \in {"EINTR", "ENOMEM", "EBADF"} : c' = [c EXCEPT !.back.errno = errno]
  <2>1. PICK errno \in {"EINTR", "ENOMEM"}
                    \cup (IF \E fd \in Asked : tab[fd] = Closed THEN {"EBADF"} ELSE {}) :
         c' = [c EXCEPT !.back.errno = errno]
    BY Zenon DEF select_fails
  <2>2. errno \in {"EINTR", "ENOMEM", "EBADF"}
    BY <2>1
  <2> QED
    BY <2>1, <2>2
<1> DEFINE b == [c.back EXCEPT !.errno = errno]
<1>2. /\ c.ev \in Good(0) /\ c.back \in SelectBack /\ Parts
      /\ c \in [ev : Good(0), back : SelectBack]
  BY SelectFacts
<1>3. c' = [c EXCEPT !.back = b]
  BY <1>1, <1>2
<1>4. errno \in {"", "EINTR", "ENOMEM", "EBADF"} /\ errno # ""
  BY <1>1
<1>5. /\ b \in SelectBack /\ b.ri = c.back.ri /\ b.wi = c.back.wi /\ b.errno # ""
  BY <1>2, <1>4 DEF SelectBack
<1> HIDE DEF b
<1>6. SelectAgrees(c.ev.events, b)
  BY <1>5, SelectReturned DEF SelectState
<1>7. c' \in [ev : Good(0), back : SelectBack] /\ c'.ev = c.ev /\ c'.back = b
  BY <1>2, <1>3, <1>5
<1>8. Tells(c.ev, c'.ev)
  BY <1>7 DEF Tells, Keeps
<1> QED
  BY <1>5, <1>6, <1>7, <1>8, ReturnFiles DEF SelectState, OfBack, Loud, select_fails

LEMMA SelectPolls ==
    ASSUME SelectState, Files, select_poll
    PROVE  SelectState' /\ Loud
<1> DEFINE res == c.back.result
           b == [c.back EXCEPT !.result = <<>>, !.errno = ""]
           x == [c EXCEPT !.back = b]
           m == fd_enomem(c.ev)
           f == fd_ebadf(c.ev)
           p == select_events(x, res[1], res[2])
<1>1. /\ c.ev \in Good(0) /\ c.back \in SelectBack /\ Parts
      /\ c \in [ev : Good(0), back : SelectBack]
  BY SelectFacts
<1>2. \/ c' = x \/ c' = [x EXCEPT !.ev = m] \/ c' = [x EXCEPT !.ev = f]
      \/ c' = p /\ c.back.errno = ""
  <2>1. [c EXCEPT !.back.result = <<>>, !.back.errno = ""] = x
    BY <1>1
  <2>2. x.ev = c.ev
    BY <1>1
  <2> HIDE DEF x
  <2>3. c' = CASE c.back.errno = "EINTR" -> x
               [] c.back.errno = "ENOMEM" -> [x EXCEPT !.ev = fd_enomem(@)]
               [] c.back.errno = "EBADF" -> [x EXCEPT !.ev = fd_ebadf(@)]
               [] OTHER -> p
    BY <2>1, Zenon DEF select_poll
  <2>4. c.back.errno \in {"", "EINTR", "ENOMEM", "EBADF"}
    BY <1>1 DEF SelectBack
  <2> HIDE DEF p, m, f
  <2> QED
    BY <2>2, <2>3, <2>4 DEF m, f
<1>3. phase = "polled" /\ after_poll /\ phase' = "user"
  BY DEF select_poll, after_poll
<1>4. /\ b \in SelectBack /\ b.ri = c.back.ri /\ b.wi = c.back.wi
  <2>1. <<>> \in Seq(Seq(Bits)) /\ "" \in {"", "EINTR", "ENOMEM", "EBADF"}
    OBVIOUS
  <2> QED
    BY <1>1, <2>1 DEF SelectBack
<1> HIDE DEF b
<1>5. SelectAgrees(c.ev.events, b)
  BY <1>4, SelectReturned DEF SelectState
<1>6. x \in [ev : Good(0), back : SelectBack] /\ x.ev = c.ev /\ x.back = b
  BY <1>1, <1>4
<1> HIDE DEF x
<1>7. m \in On(0, c.ev) /\ f \in On(0, c.ev)
  BY <1>1, FdEnomem, FdEbadf
<1>8. c.back.errno = "" => p \in EvOnly(x)
  <2> SUFFICES ASSUME c.back.errno = "" PROVE p \in EvOnly(x)
    OBVIOUS
  <2> DEFINE ro == res[1]
             wo == res[2]
  <2>1. /\ \A fd \in Nat : Isset(ro, fd) => Isset(x.back.ri, fd)
        /\ \A fd \in Nat : Isset(wo, fd) => Isset(x.back.wi, fd)
    <3>1. SelectFits(c.back)
      BY <1>3 DEF SelectState
    <3>2. /\ \A fd \in Nat : Isset(ro, fd) => Isset(c.back.ri, fd)
          /\ \A fd \in Nat : Isset(wo, fd) => Isset(c.back.wi, fd)
      BY <3>1, Zenon DEF SelectFits
    <3> HIDE DEF ro, wo
    <3> QED
      BY <1>4, <1>6, <3>2
  <2>2. SelectAgrees(x.ev.events, x.back)
    BY <1>5, <1>6
  <2> HIDE DEF ro, wo
  <2>3. select_events(x, ro, wo) \in EvOnly(x)
    BY <1>6, <2>1, <2>2, SelectEvents
  <2> QED
    BY <2>3, Zenon DEF ro, wo
<1>9. c.ev \in On(0, c.ev)
  BY <1>1, OnItself
<1> HIDE DEF m, f, p
<1>10. c'.ev \in On(0, c.ev) /\ c'.back = b /\ c' \in [ev : Good(0), back : SelectBack]
  BY <1>2, <1>4, <1>6, <1>7, <1>8, <1>9 DEF EvOnly, On, After
<1>11. c'.ev.events = c.ev.events /\ Tells(c.ev, c'.ev)
  BY <1>10, FollowsTells DEF On, After
<1> QED
  BY <1>3, <1>5, <1>10, <1>11, AfterFiles DEF SelectState, OfBack, Loud

LEMMA SelectLoop ==
    ASSUME SelectState, Files, phase \in Phases, select_loop
    PROVE  SelectState' /\ Loud
<1>1. ASSUME invoke PROVE SelectState' /\ Loud
  <2>1. EvStep(c.back) /\ phase' = phase
    BY <1>1, SelectFacts, InvokeStep DEF invoke
  <2> QED
    BY <1>1, <2>1, SelectSame, InvokeQuiet
<1> QED
  BY <1>1, SelectBegins, SelectOk, SelectFails, SelectPolls DEF select_loop

-------------------------------------------------------------------------------
(* The steps of io_uring *)

UringState == c \in UringStates

LEMMA UringFacts ==
    ASSUME UringState
    PROVE  /\ c.ev \in Good(0) /\ c.back \in UringBack \cup GoneBack /\ Parts
           /\ c.back \in UringBack => OfBack(UringBack)
           /\ c.back \in GoneBack => \A fd \in Fd : c.ev.events[fd] = {}
           /\ c.back.egen \in [Fd -> Nat]
           /\ c.back.switched => c.back \in GoneBack
           /\ ~c.back.switched => c.back \in UringBack
           /\ c.back.ring.reqs # {} => c.back \in UringBack
<1>1. c.ev \in Good(0) /\ c.back \in UringBack \cup GoneBack /\ Parts
      /\ (c.back \in UringBack => OfBack(UringBack))
  BY DEF UringState, UringStates, Parts, OfBack
<1>2. c.back \in UringBack => ~c.back.switched /\ c.back.egen \in [Fd -> Nat]
  BY DEF UringBack, UringRec
<1>3. c.back \in GoneBack =>
        c.back.switched /\ c.back.egen \in [Fd -> Nat] /\ c.back.ring.reqs = {}
  <2> SUFFICES ASSUME NEW b \in GoneBack
               PROVE  b.switched /\ b.egen \in [Fd -> Nat] /\ b.ring.reqs = {}
    OBVIOUS
  <2>1. b.switched = TRUE /\ b.egen \in [Fd -> Nat] /\ b.ring = ring
    BY DEF GoneBack
  <2>2. ring.reqs = {}
    BY DEF ring
  <2> QED
    BY <2>1, <2>2
<1>4. ASSUME c.back \in GoneBack PROVE \A fd \in Fd : c.ev.events[fd] = {}
  <2>1. c.back \notin UringBack
    BY <1>2, <1>3, <1>4
  <2>2. c \notin [ev : Good(0), back : UringBack]
    BY <2>1
  <2> QED
    BY <2>2 DEF UringState, UringStates
<1> QED
  BY <1>1, <1>2, <1>3, <1>4

LEMMA UringClient ==
    ASSUME UringState, Files, iouring_client \/ iouring_loop_fork
    PROVE  UringState' /\ Quiet
<1>1. c.ev \in Good(0) /\ c.back \in UringBack \cup GoneBack /\ Parts
      /\ (c.back \in GoneBack => \A fd \in Fd : c.ev.events[fd] = {})
  BY UringFacts
<1>2. CASE iouring_client
  <2>1. EvStep(c.back) /\ Files' /\ phase' = phase
    BY <1>1, <1>2, ForgetStep DEF iouring_client
  <2> QED
    BY <1>1, <2>1 DEF Quiet, EvStep, UringState, UringStates
<1>3. CASE iouring_loop_fork
  <2> DEFINE b == [c.back EXCEPT !.postfork = TRUE]
  <2>1. c' = [c EXCEPT !.back = b] /\ UNCHANGED <<tab, ready, phase>>
    <3>1. c' = [c EXCEPT !.back.postfork = TRUE] /\ UNCHANGED <<tab, ready, phase>>
      BY <1>3, Zenon DEF iouring_loop_fork
    <3> QED
      BY <1>1, <3>1 DEF Parts
  <2>2. c.back \in UringBack => b \in UringBack
    <3> SUFFICES ASSUME c.back \in UringBack PROVE b \in UringBack
      OBVIOUS
    <3>1. b \in UringRec /\ b.ring = c.back.ring /\ b.entries = c.back.entries
      BY DEF UringBack, UringRec
    <3> HIDE DEF b
    <3> QED
      BY <3>1 DEF UringBack
  <2>3. c.back \in GoneBack => b \in GoneBack
    BY DEF GoneBack
  <2> HIDE DEF b
  <2>4. c' = [ev |-> c.ev, back |-> b]
    BY <2>1, <1>1 DEF Parts
  <2> QED
    BY <1>1, <2>1, <2>2, <2>3, <2>4 DEF UringState, UringStates, Files, Quiet
<1> QED
  BY <1>2, <1>3

LEMMA UringBegins ==
    ASSUME OfBack(UringBack), Files, iouring_begins
    PROVE  UringState' /\ Loud
<1> DEFINE f == iouring_fork(c)
           y == IF c.back.postfork THEN f ELSE c
           x == fd_reify(y, iouring_modify)
           h == iouring_handle_cq(x)
<1>1. c \in [ev : Good(0), back : UringBack] /\ c.ev \in Good(0) /\ c.back \in UringBack
  BY OfBackParts DEF OfBack
<1>2. f \in [ev : After(0, c.ev), back : UringBack]
  <2>1. c.back \in UringRec /\ c.back.entries \in 1 .. 2 * (KernelMax - 1)
    <3>1. KernelMax \in Nat
      BY BackendAssumption DEF UringAssumption
    <3> QED
      BY <1>1, <3>1 DEF UringBack
  <2>2. c \in [ev : Good(0), back : UringRec]
    BY <1>1, <2>1
  <2> QED
    BY <2>1, <2>2, UringFork
<1> HIDE DEF f
<1>3. y \in [ev : Good(0), back : UringBack] /\ Tells(c.ev, y.ev)
  <2>1. f \in [ev : Good(0), back : UringBack] /\ Tells(c.ev, f.ev)
    BY <1>2, FollowsTells DEF After
  <2>2. Tells(c.ev, c.ev)
    BY DEF Tells, Keeps
  <2> QED
    BY <1>1, <2>1, <2>2
<1> HIDE DEF y
<1>4. x \in [ev : Good(0), back : UringBack] /\ Tells(y.ev, x.ev)
  BY <1>3, UringReify
<1>5. (c' = x \/ c' = h) /\ enter_poll
  BY DEF iouring_begins, y, f
<1> HIDE DEF x
<1>6. h \in UringStates /\ Tells(x.ev, h.ev)
  BY <1>4, HandleCq
<1> HIDE DEF h
<1>7. Tells(c.ev, x.ev) /\ Tells(c.ev, h.ev)
  <2>1. Tells(c.ev, x.ev)
    BY <1>3, <1>4, TellsOn
  <2> QED
    BY <1>6, <2>1, TellsOn
<1> QED
  BY <1>4, <1>5, <1>6, <1>7, EnterFiles DEF UringState, UringStates, Loud

LEMMA UringEnters ==
    ASSUME OfBack(UringBack), Files, iouring_enters
    PROVE  UringState' /\ Loud
<1> DEFINE b == iouring_enter(c.back)
<1>1. c \in [ev : Good(0), back : UringBack] /\ c.ev \in Good(0) /\ c.back \in UringBack
  BY OfBackParts DEF OfBack
<1>2. b \in UringBack
  BY <1>1, Enter
<1>3. c' = c \/ c' = [c EXCEPT !.back = b]
  BY DEF iouring_enters
<1> HIDE DEF b
<1>4. c' \in [ev : Good(0), back : UringBack] /\ c'.ev = c.ev
  BY <1>1, <1>2, <1>3
<1>5. Tells(c.ev, c'.ev)
  BY <1>4 DEF Tells, Keeps
<1> QED
  BY <1>4, <1>5, ReturnFiles DEF UringState, UringStates, Loud, iouring_enters

LEMMA UringPolls ==
    ASSUME OfBack(UringBack), Files, iouring_poll
    PROVE  UringState' /\ Loud
<1> DEFINE h == iouring_handle_cq(c)
<1>1. c \in [ev : Good(0), back : UringBack]
  BY DEF OfBack
<1>2. h \in UringStates /\ Tells(c.ev, h.ev)
  BY <1>1, HandleCq
<1>3. c' = h /\ after_poll
  BY DEF iouring_poll
<1> HIDE DEF h
<1> QED
  BY <1>2, <1>3, AfterFiles DEF UringState, UringStates, Loud

LEMMA UringLoop ==
    ASSUME UringState, Files, phase \in Phases, iouring_loop
    PROVE  UringState' /\ Loud
<1>1. c.back \in UringBack /\ OfBack(UringBack)
  BY UringFacts DEF iouring_loop
<1>2. ASSUME invoke PROVE UringState' /\ Loud
  <2>1. EvStep(c.back)
    BY <1>1, <1>2, OfBackParts, InvokeStep
  <2>2. OfBack(UringBack)'
    BY <1>1, <2>1, EvStepOfBack
  <2> QED
    BY <1>2, <2>2, InvokeQuiet DEF OfBack, UringState, UringStates
<1> QED
  BY <1>1, <1>2, UringBegins, UringEnters, UringPolls DEF iouring_loop

LEMMA UringKernel ==
    ASSUME UringState, Files, iouring_kernel
    PROVE  UringState' /\ Quiet
<1>1. PICK r \in c.back.ring.reqs : complete(r)
  BY DEF iouring_kernel
<1> DEFINE res == Levels(ready[r.file]) \cap (IF "HUP" \in ready[r.file] THEN RW ELSE r.mask)
           b == post([c.back EXCEPT !.ring.reqs = @ \ {r}], Cqe(r.fd, r.gen, res))
<1>2. c \in [ev : Good(0), back : UringBack] /\ c.ev \in Good(0) /\ c.back \in UringBack
  BY <1>1, UringFacts, OfBackParts DEF OfBack
<1>3. res \in SUBSET RW
  <2>1. r.mask \in SUBSET RW
    BY <1>2, UringTypes DEF Request
  <2> QED
    BY <2>1
<1>4. c' = [c EXCEPT !.back = b] /\ UNCHANGED <<tab, ready, phase>>
  BY <1>1, Zenon DEF complete
<1> HIDE DEF res
<1>5. b \in UringBack
  BY <1>2, <1>3, Complete
<1> HIDE DEF b
<1> QED
  BY <1>2, <1>4, <1>5 DEF UringState, UringStates, Files, Quiet

-------------------------------------------------------------------------------
(* The loop with the back end it has chosen *)

IInv ==
    /\ Files /\ phase \in Phases /\ backend \in Backends \cup {"EPOLL"}
    /\ backend = "EPOLL" => OfBack(EpollBack)
    /\ backend = "POLL" => PollState
    /\ backend = "SELECT" => SelectState
    /\ backend = "IOURING" => UringState

LEMMA EvInit == ev_init \in Good(0) /\ ev_init.events = [fd \in Fd |-> {}]
<1>1. /\ [w \in Watcher |-> Unset] \in [Watcher -> {Unset} \cup [fd : Fd, events : SUBSET RW, fresh : BOOLEAN]]
      /\ [fd \in Fd |-> {}] \in [Fd -> SUBSET RW]
      /\ [fd \in Fd |-> {}] \in [Fd -> SUBSET {"IOFDSET", "REIFY"}]
      /\ <<>> \in Seq(Fd) /\ <<>> \in Seq(Event)
  OBVIOUS
<1>2. [fd \in Fd |-> <<>>] \in [Fd -> Seq(Watcher)]
  OBVIOUS
<1>3. ev_init \in Ev
  BY <1>1, <1>2 DEF ev_init, Ev
<1>4. HeadsInv(ev_init)
  BY DEF HeadsInv, ev_init, Distinct
<1>5. ListInv(ev_init, 0)
  BY DEF ListInv, ev_init
<1>6. \A fd \in Fd : MaskInv(ev_init, fd)
  <2> SUFFICES ASSUME NEW fd \in Fd PROVE Want(ev_init, fd) = {}
    BY DEF MaskInv, ev_init
  <2>1. ToSet(ev_init.head[fd]) = {}
    BY DEF ev_init, ToSet
  <2> QED
    BY <2>1 DEF Want
<1>7. ev_init.events = [fd \in Fd |-> {}]
  BY DEF ev_init
<1> QED
  BY <1>3, <1>4, <1>5, <1>6, <1>7 DEF Good

LEMMA InitIInv == Init => IInv
<1> SUFFICES ASSUME Init PROVE IInv
  OBVIOUS
<1>1. ASSUME NEW STATE b, FdInit(b)
      PROVE  /\ Files /\ phase = "user" /\ phase \in Phases /\ c = [ev |-> ev_init, back |-> b]
  BY <1>1 DEF FdInit, Files, Phases
<1>2. ASSUME NEW STATE b, NEW B, c = [ev |-> ev_init, back |-> b], b \in B
      PROVE  OfBack(B) /\ c.back = b /\ c.ev = ev_init
  BY <1>2, EvInit DEF OfBack
<1>3. CASE backend = "EPOLL" /\ EpollInit
  <2>1. epoll_init \in EpollBack
    <3>1. [fd \in Fd |-> 0] \in [Fd -> Nat]
      OBVIOUS
    <3> QED
      BY <3>1, NewEpoll
  <2> QED
    BY <1>1, <1>2, <1>3, <2>1 DEF EpollInit, IInv, Init
<1>4. CASE backend = "POLL" /\ PollInit
  <2>1. poll_init \in PollBack
    <3>1. <<>> \in Seq(PollEntry) /\ <<>> \in Seq(PollResult) /\ "" \in {"", "EINTR", "ENOMEM"}
      OBVIOUS
    <3>2. [fd \in Fd |-> -1] \in [Fd -> Int]
      OBVIOUS
    <3> QED
      BY <3>1, <3>2 DEF PollBack, poll_init
  <2>2. PollAgrees(ev_init.events, poll_init)
    BY EvInit DEF PollAgrees, poll_init
  <2>3. poll_init.result = <<>> /\ Len(poll_init.result) <= Len(poll_init.polls)
    BY DEF poll_init
  <2>4. FdInit(poll_init)
    BY <1>4 DEF PollInit
  <2> DEFINE b == poll_init
  <2> HIDE DEF b
  <2>5. c.back = b /\ c.ev = ev_init /\ OfBack(PollBack) /\ Files /\ phase = "user" /\ phase \in Phases
    BY <1>1, <1>2, <2>1, <2>4 DEF b
  <2>6. PollState
    BY <2>2, <2>3, <2>5 DEF PollState, b
  <2> QED
    BY <1>4, <2>5, <2>6 DEF IInv, Init
<1>5. CASE backend = "SELECT" /\ SelectInit
  <2>1. select_init \in SelectBack
    <3>1. <<>> \in Seq(Bits) /\ <<>> \in Seq(Seq(Bits)) /\ "" \in {"", "EINTR", "ENOMEM", "EBADF"}
      OBVIOUS
    <3> QED
      BY <3>1 DEF SelectBack, select_init
  <2>2. SelectAgrees(ev_init.events, select_init)
    <3>1. \A fd \in Nat : ~Isset(<<>>, fd)
      <4> SUFFICES ASSUME NEW fd \in Nat PROVE ~Isset(<<>>, fd)
        OBVIOUS
      <4>1. NFDBITS \in Nat /\ NFDBITS > 0
        BY BackendAssumption DEF SelectAssumption
      <4>2. fd \div NFDBITS \in Nat
        BY <4>1
      <4>3. ~(Word(fd) <= Len(<<>>))
        BY <4>2 DEF Word
      <4> QED
        BY <4>3 DEF Isset
    <3>2. select_init.ri = <<>> /\ select_init.wi = <<>>
      BY DEF select_init
    <3>3. \A fd \in Fd : ev_init.events[fd] = {}
      BY EvInit
    <3> QED
      BY <3>1, <3>2, <3>3 DEF SelectAgrees
  <2>4. FdInit(select_init)
    BY <1>5 DEF SelectInit
  <2>5. /\ c.back = select_init /\ c.ev = ev_init /\ OfBack(SelectBack) /\ Files
        /\ phase = "user" /\ phase \in Phases
    BY <1>1, <1>2, <2>1, <2>4
  <2>6. SelectState
    BY <2>2, <2>5 DEF SelectState
  <2> QED
    BY <1>5, <2>5, <2>6 DEF IInv, Init
<1>6. CASE backend = "IOURING" /\ UringInit
  <2>1. iouring_init \in UringBack
    <3>1. Entries \in Nat /\ Entries >= 1 /\ KernelMax \in Nat /\ Entries <= KernelMax - 1
      BY BackendAssumption DEF UringAssumption
    <3>2. [fd \in Fd |-> 0] \in [Fd -> Nat]
      OBVIOUS
    <3> DEFINE b == iouring_init
    <3>3. b \in UringRec /\ b.ring = ring /\ b.entries = Entries
      BY <3>1, <3>2, RingIs DEF UringRec, iouring_init
    <3> HIDE DEF b
    <3>4. b \in UringBack
      BY <3>1, <3>3, RingIs DEF UringBack
    <3> QED
      BY <3>4 DEF b
  <2>2. OfBack(UringBack)
    BY <1>1, <1>2, <1>6, <2>1 DEF UringInit
  <2> QED
    BY <1>1, <1>6, <2>2 DEF UringInit, IInv, Init, OfBack, UringState, UringStates
<1> QED
  BY <1>3, <1>4, <1>5, <1>6, Zenon DEF Init

\* A step keeps the invariant, and no watcher stops without being told.
LEMMA NextIInv ==
    ASSUME IInv, [Next]_allvars
    PROVE  IInv' /\ (phase' = phase \/ Tells(c.ev, c'.ev))
<1>1. CASE UNCHANGED allvars
  <2>1. c' = c /\ tab' = tab /\ ready' = ready /\ phase' = phase /\ backend' = backend
    BY <1>1 DEF allvars, vars
  <2> QED
    BY <2>1, Zenon DEF IInv, Files, OfBack, PollState, PollAgrees, SelectState, SelectAgrees, SelectFits,
                       UringState
<1>2. ASSUME UNCHANGED backend, Files', phase' \in Phases,
             phase' = phase \/ Tells(c.ev, c'.ev),
             backend = "EPOLL" => OfBack(EpollBack)', backend = "POLL" => PollState',
             backend = "SELECT" => SelectState', backend = "IOURING" => UringState'
      PROVE  IInv' /\ (phase' = phase \/ Tells(c.ev, c'.ev))
  BY <1>2 DEF IInv
<1>3. ASSUME client PROVE IInv' /\ (phase' = phase \/ Tells(c.ev, c'.ev))
  <2>1. UNCHANGED backend
    BY <1>3 DEF client
  <2>2. CASE backend = "EPOLL" /\ epoll_client
    <3>1. OfBack(EpollBack)' /\ Quiet
      BY <2>2, EpollClient DEF IInv
    <3> QED
      BY <1>2, <2>1, <2>2, <3>1 DEF Quiet, IInv
  <2>3. CASE backend = "POLL" /\ poll_client
    <3>1. PollState' /\ Quiet
      BY <2>3, PollClient DEF IInv
    <3> QED
      BY <1>2, <2>1, <2>3, <3>1 DEF Quiet, IInv
  <2>4. CASE backend = "SELECT" /\ select_client
    <3>1. SelectState' /\ Quiet
      BY <2>4, SelectClient DEF IInv
    <3> QED
      BY <1>2, <2>1, <2>4, <3>1 DEF Quiet, IInv
  <2>5. CASE backend = "IOURING" /\ (iouring_client \/ iouring_loop_fork)
    <3>1. UringState' /\ Quiet
      BY <2>5, UringClient DEF IInv
    <3> QED
      BY <1>2, <2>1, <2>5, <3>1 DEF Quiet, IInv
  <2> QED
    BY <1>3, <2>2, <2>3, <2>4, <2>5 DEF client
<1>4. ASSUME iouring_gives_up PROVE IInv' /\ (phase' = phase \/ Tells(c.ev, c'.ev))
  <2> DEFINE b == [epoll_init EXCEPT !.egen = c.back.egen]
  <2>1. c.ev \in Good(0) /\ c.back.egen \in [Fd -> Nat] /\ Parts /\ Files
    BY <1>4, UringFacts DEF iouring_gives_up, IInv
  <2>2. b \in EpollBack
    BY <2>1, NewEpoll
  <2>3. c' = [c EXCEPT !.back = b]
    BY <1>4 DEF iouring_gives_up
  <2> HIDE DEF b
  <2>4. c' \in [ev : Good(0), back : EpollBack] /\ c'.ev = c.ev
    BY <2>1, <2>2, <2>3 DEF Parts
  <2>5. /\ Files' /\ phase' \in Phases /\ backend' = "EPOLL"
    BY <1>4, <2>1 DEF iouring_gives_up, go_on, Files, Phases
  <2>6. Tells(c.ev, c'.ev)
    BY <2>4 DEF Tells, Keeps
  <2> QED
    BY <2>4, <2>5, <2>6 DEF IInv, OfBack
<1>5. ASSUME loop PROVE IInv' /\ (phase' = phase \/ Tells(c.ev, c'.ev))
  <2>2. CASE UNCHANGED backend /\ backend = "EPOLL" /\ epoll_loop
    <3>1. OfBack(EpollBack)' /\ Loud
      BY <2>2, EpollLoop DEF IInv
    <3> QED
      BY <1>2, <2>2, <3>1 DEF Loud, IInv
  <2>3. CASE UNCHANGED backend /\ backend = "POLL" /\ poll_loop
    <3>1. PollState' /\ Loud
      BY <2>3, PollLoop DEF IInv
    <3> QED
      BY <1>2, <2>3, <3>1 DEF Loud, IInv
  <2>4. CASE UNCHANGED backend /\ backend = "SELECT" /\ select_loop
    <3>1. SelectState' /\ Loud
      BY <2>4, SelectLoop DEF IInv
    <3> QED
      BY <1>2, <2>4, <3>1 DEF Loud, IInv
  <2>5. CASE UNCHANGED backend /\ backend = "IOURING" /\ iouring_loop
    <3>1. UringState' /\ Loud
      BY <2>5, UringLoop DEF IInv
    <3> QED
      BY <1>2, <2>5, <3>1 DEF Loud, IInv
  <2> QED
    BY <1>4, <1>5, <2>2, <2>3, <2>4, <2>5, Zenon DEF loop
<1>6. ASSUME kernel PROVE IInv' /\ (phase' = phase \/ Tells(c.ev, c'.ev))
  <2>1. UringState' /\ Quiet /\ backend = "IOURING" /\ UNCHANGED backend
    BY <1>6, UringKernel DEF kernel, IInv
  <2> QED
    BY <1>2, <2>1 DEF Quiet, IInv
<1> QED
  BY <1>1, <1>3, <1>5, <1>6 DEF Next

LEMMA IInvGood == IInv => c.ev \in Good(0) /\ Files /\ phase \in Phases
<1> SUFFICES ASSUME IInv PROVE c.ev \in Good(0)
  BY DEF IInv
<1>1. \A B : OfBack(B) => c.ev \in Good(0)
  BY OfBackParts
<1>2. backend \in {"EPOLL", "POLL", "SELECT", "IOURING"}
  BY BackendAssumption DEF IInv
<1> QED
  BY <1>1, <1>2, UringFacts DEF IInv, PollState, SelectState

LEMMA Inductive == Spec => []IInv
<1>1. IInv /\ [Next]_allvars => IInv'
  BY NextIInv
<1> QED
  BY InitIInv, <1>1, PTL DEF Spec

-------------------------------------------------------------------------------
(* The kernel's set of epoll: the program *)

\* An active watcher has been started since its last ev_io_set.
Worn(e) == \A w \in Watcher : Active(e, w) => ~e.io[w].fresh

\* A watcher that is set asks for something.
Asks(e) == \A w \in Watcher : e.io[w].fd # -1 => e.io[w].events # {}

Tidy == Worn(c.ev) /\ Opened(c.ev) /\ Asks(c.ev)

\* No descriptor becomes a registered one.
NoneRegistered(e, d) ==
    d.events = e.events /\ \A g \in Fd : Registered(d, g) => Registered(e, g)

LEMMA SoundRegistered ==
    ASSUME NEW x, NEW e, Sound(x), NoneRegistered(x.ev, e)
    PROVE  Sound([ev |-> e, back |-> x.back])
BY Zenon DEF Sound, NoneRegistered, InSet, Entered

\* A start makes the watcher worn; the first one has its descriptor registered anew.
LEMMA IoStartWorn ==
    ASSUME NEW d \in Good(0), NEW w \in Watcher, ~Active(d, w), d.io[w] # Unset,
           d.io[w].fresh \/ Restart, Worn(d), Opened(d)
    PROVE  LET e == ev_io_start(d, w)
           IN  Worn(e) /\ Opened(e) /\ NoneRegistered(d, e) /\ (Asks(d) => Asks(e))
<1> DEFINE fd == d.io[w].fd
           h == <<w>> \o d.head[fd]
           flags == IF d.io[w].fresh THEN {"IOFDSET", "REIFY"} ELSE {"REIFY"}
           e == ev_io_start(d, w)
<1>1. fd \in Fd /\ d.io[w].fd = fd /\ d.io[w] \in [fd : Fd, events : SUBSET RW, fresh : BOOLEAN]
  BY DEF Good, Ev
<1>2. /\ e.head = [d.head EXCEPT ![fd] = h] /\ e.events = d.events
      /\ e.io = [d.io EXCEPT ![w] = [d.io[w] EXCEPT !.fresh = FALSE]]
      /\ e.reify = [d.reify EXCEPT ![fd] = @ \cup flags]
  <2> DEFINE f == [d EXCEPT !.head[fd] = h, !.io[w].fresh = FALSE]
  <2>1. e = fd_change(f, fd, flags)
    BY Zenon DEF ev_io_start
  <2> HIDE DEF e, flags, h, fd
  <2>2. /\ f.head = [d.head EXCEPT ![fd] = h] /\ f.events = d.events /\ f.reify = d.reify
        /\ f.io = [d.io EXCEPT ![w] = [d.io[w] EXCEPT !.fresh = FALSE]]
        /\ f \in [io : {f.io}, head : {f.head}, events : {f.events}, reify : {f.reify},
                  changes : {f.changes}, pend : {f.pend}]
    BY DEF Good, Ev
  <2> HIDE DEF f
  <2> QED
    BY <2>1, <2>2 DEF fd_change
<1>3. /\ e.io[w].fd = fd /\ ~e.io[w].fresh
      /\ \A v \in Watcher : v # w => e.io[v] = d.io[v]
      /\ \A g \in Fd : g # fd => e.head[g] = d.head[g] /\ e.reify[g] = d.reify[g]
      /\ e.head[fd] = h /\ d.reify[fd] \subseteq e.reify[fd] /\ flags \subseteq e.reify[fd]
      /\ \A v \in Watcher : e.io[v].fd = d.io[v].fd /\ e.io[v].events = d.io[v].events
  <2>1. d.io \in [Watcher -> {Unset} \cup [fd : Fd, events : SUBSET RW, fresh : BOOLEAN]]
    BY DEF Good, Ev
  <2>2. d.head \in [Fd -> Seq(Watcher)] /\ d.reify \in [Fd -> SUBSET {"IOFDSET", "REIFY"}]
    BY DEF Good, Ev
  <2> HIDE DEF e, flags, h, fd
  <2> QED
    BY <1>1, <1>2, <2>1, <2>2
<1>4. ASSUME NEW v \in Watcher, v # w, NEW g \in Fd, Contains(e.head[g], v)
      PROVE  Contains(d.head[g], v)
  <2> HIDE DEF e, flags, fd
  <2>1. CASE g # fd
    BY <1>3, <1>4, <2>1
  <2>2. CASE g = fd
    <3>1. Contains(h, v)
      BY <1>3, <1>4, <2>2
    <3>2. d.head[fd] \in Seq(Watcher) /\ Len(d.head[fd]) \in Nat
      BY <1>1 DEF Good, Ev
    <3> DEFINE s == d.head[fd]
    <3> HIDE DEF s
    <3>3. ASSUME s \in Seq(Watcher), Contains(<<w>> \o s, v) PROVE Contains(s, v)
      BY <1>4, <3>3 DEF Contains
    <3> QED
      BY <2>2, <3>1, <3>2, <3>3 DEF s
  <2> QED
    BY <2>1, <2>2
<1> HIDE DEF e, flags, h, fd
<1>5. \A v \in Watcher : v # w /\ Active(e, v) => Active(d, v)
  BY <1>4, Zenon DEF Active
<1>6. Worn(e)
  BY <1>3, <1>5, Zenon DEF Worn
<1>7. Opened(e)
  BY <1>3, Zenon DEF Opened
<1>8. ASSUME NEW g \in Fd, Registered(e, g)
      PROVE  Registered(d, g)
  <2>1. CASE g # fd
    <3>1. PICK v \in Watcher : e.io[v].fd = g /\ ~e.io[v].fresh /\ (Restart \/ Active(e, v))
      BY <1>8, Zenon DEF Registered, Owed
    <3>2. v # w /\ d.io[v].fd = g /\ ~d.io[v].fresh /\ (Restart \/ Active(d, v))
      BY <1>3, <1>5, <2>1, <3>1
    <3> QED
      BY <1>2, <1>3, <1>8, <2>1, <3>2, Zenon DEF Registered, Owed
  <2>2. CASE g = fd
    <3>1. "IOFDSET" \notin flags /\ "IOFDSET" \notin d.reify[fd]
      BY <1>3, <1>8, <2>2 DEF Registered
    <3>2. ~d.io[w].fresh
      BY <3>1 DEF flags
    <3>3. Owed(d, fd)
      BY <1>1, <3>2 DEF Owed
    <3> QED
      BY <1>2, <1>8, <2>2, <3>1, <3>3 DEF Registered
  <2> QED
    BY <2>1, <2>2
<1>9. Asks(d) => Asks(e)
  BY <1>3, Zenon DEF Asks
<1> QED
  BY <1>2, <1>6, <1>7, <1>8, <1>9 DEF NoneRegistered, e

LEMMA StartTidy ==
    ASSUME c.ev \in Good(0), Parts, Tidy, NEW w \in Watcher, start(w)
    PROVE  /\ Tidy' /\ c'.back = c.back
           /\ Sound(c) => Sound(c)'
<1>1. ~Active(c.ev, w) /\ tab' = tab
  BY Zenon DEF start
<1>2. ASSUME NEW STATE d, d \in Good(0), ~Active(d, w), d.io[w] # Unset, d.io[w].fresh \/ Restart,
             Worn(d), Opened(d), Asks(d), NoneRegistered(c.ev, d), c' = [c EXCEPT !.ev = ev_io_start(d, w)]
      PROVE  Tidy' /\ c'.back = c.back /\ (Sound(c) => Sound(c)')
  <2> DEFINE e == ev_io_start(d, w)
             z == [ev |-> e, back |-> c.back]
  <2>1. Worn(e) /\ Opened(e) /\ Asks(e) /\ NoneRegistered(d, e)
    BY <1>2, IoStartWorn
  <2>2. NoneRegistered(c.ev, e)
    BY <1>2, <2>1, Zenon DEF NoneRegistered
  <2> HIDE DEF e
  <2>3. c' = z
    BY <1>2 DEF Parts, e
  <2>4. c'.ev = e /\ c'.back = c.back
    BY <2>3
  <2>5. Sound(c) => Sound(z)
    BY <2>2, SoundRegistered
  <2> HIDE DEF z
  <2>6. Sound(c) => Sound(c)'
    BY <1>1, <2>3, <2>5, SoundNext
  <2> QED
    BY <1>1, <2>1, <2>4, <2>6, Zenon DEF Tidy, Worn, Opened, Asks
<1>3. CASE \E fd \in Fd, mask \in Masks :
             /\ tab[fd] # Closed
             /\ c' = [c EXCEPT !.ev = ev_io_start([@ EXCEPT !.io[w] =
                        [fd |-> fd, events |-> mask, fresh |-> TRUE]], w)]
  <2>1. PICK fd \in Fd, mask \in Masks :
             /\ tab[fd] # Closed
             /\ c' = [c EXCEPT !.ev = ev_io_start([@ EXCEPT !.io[w] =
                        [fd |-> fd, events |-> mask, fresh |-> TRUE]], w)]
    BY <1>3
  <2> DEFINE set == [fd |-> fd, events |-> mask, fresh |-> TRUE]
             d == [c.ev EXCEPT !.io[w] = set]
  <2>2. set \in [fd : Fd, events : SUBSET RW, fresh : BOOLEAN] /\ set # Unset /\ set.fresh
        /\ set.fd = fd /\ fd # -1 /\ set.events # {}
    <3>1. mask \in SUBSET RW /\ mask # {}
      BY FdAssumption DEF RW
    <3>2. fd # -1
      BY DEF Fd
    <3> QED
      BY <3>1, <3>2 DEF Unset
  <2> HIDE DEF set
  <2>3. set \in {Unset} \cup [fd : Fd, events : SUBSET RW, fresh : BOOLEAN]
    BY <2>2
  <2>4. d \in Good(0)
    BY <1>1, <2>3, IoSet
  <2>5. /\ d.io[w] = set /\ d.events = c.ev.events /\ d.head = c.ev.head /\ d.reify = c.ev.reify
        /\ \A v \in Watcher : v # w => d.io[v] = c.ev.io[v]
    BY DEF Good, Ev
  <2>6. c' = [c EXCEPT !.ev = ev_io_start(d, w)]
    BY <2>1 DEF set
  <2> HIDE DEF d
  <2>7. \A v \in Watcher : Active(d, v) <=> Active(c.ev, v)
    BY <2>5, Zenon DEF Active
  <2>8. Worn(d)
    BY <1>1, <2>5, <2>7, Zenon DEF Worn, Tidy
  <2>9. Opened(d)
    BY <2>1, <2>2, <2>5, Zenon DEF Opened, Tidy
  <2>10. NoneRegistered(c.ev, d)
    <3>1. \A g \in Fd : Owed(d, g) => Owed(c.ev, g)
      <4> SUFFICES ASSUME NEW g \in Fd, Owed(d, g) PROVE Owed(c.ev, g)
        OBVIOUS
      <4>1. PICK v \in Watcher : d.io[v].fd = g /\ ~d.io[v].fresh /\ (Restart \/ Active(d, v))
        BY Zenon DEF Owed
      <4>2. v # w
        BY <2>2, <2>5, <4>1
      <4> QED
        BY <2>5, <2>7, <4>1, <4>2, Zenon DEF Owed
    <3> QED
      BY <2>5, <3>1, Zenon DEF NoneRegistered, Registered
  <2>11. Asks(d)
    BY <2>2, <2>5, Zenon DEF Asks, Tidy
  <2> QED
    BY <1>1, <1>2, <2>2, <2>4, <2>5, <2>6, <2>7, <2>8, <2>9, <2>10, <2>11
<1>4. CASE Restart /\ c.ev.io[w] # Unset /\ c' = [c EXCEPT !.ev = ev_io_start(@, w)]
  <2>1. NoneRegistered(c.ev, c.ev)
    BY DEF NoneRegistered
  <2> QED
    BY <1>1, <1>2, <1>4, <2>1 DEF Tidy
<1> QED
  BY <1>3, <1>4, Zenon DEF start

LEMMA StopTidy ==
    ASSUME c.ev \in Good(0), Parts, Tidy, NEW w \in Watcher, stop(w)
    PROVE  /\ Tidy' /\ c'.back = c.back
           /\ Sound(c) => Sound(c)'
<1> DEFINE d == ev_io_stop(c.ev, w)
           z == [ev |-> d, back |-> c.back]
<1>1. Shrinks(c.ev, d)
  BY IoStop DEF Shrinks
<1>2. c' = [c EXCEPT !.ev = d] /\ tab' = tab
  BY Zenon DEF stop
<1> HIDE DEF d
<1>3. c' = z /\ c'.ev = d /\ c'.back = c.back
  BY <1>2 DEF Parts
<1>4. Sound(c) => Sound(z)
  BY <1>1, SoundSame
<1> HIDE DEF z
<1>5. Sound(c) => Sound(c)'
  BY <1>2, <1>3, <1>4, SoundNext
<1>6. Tidy'
  BY <1>1, <1>2, <1>3, Zenon DEF Tidy, Worn, Opened, Asks, Shrinks, Keeps
<1> QED
  BY <1>3, <1>5, <1>6

\* What a close leaves of the kernel's set.
LEMMA ForgetFile ==
    ASSUME NEW b \in EpollBack, NEW fd \in Fd
    PROVE  LET d == forget_file(b, fd)
           IN  /\ d.emask = b.emask /\ d.egen = b.egen /\ d.eperms = b.eperms
               /\ d.postfork = b.postfork
               /\ \A k \in DOMAIN d.kern : k \in DOMAIN b.kern /\ d.kern[k] = b.kern[k]
               /\ \A k \in DOMAIN b.kern :
                    k \in DOMAIN d.kern \/ (k[2] = tab[fd] /\ \A g \in Fd : tab[g] = tab[fd] => g = fd)
<1> DEFINE D == {k \in DOMAIN b.kern : k[2] # tab[fd]}
           m == Restrict(b.kern, D)
<1>1. DOMAIN m = D /\ \A k \in D : m[k] = b.kern[k]
  BY DEF Restrict
<1>2. forget_file(b, fd) = IF \E g \in Fd \ {fd} : tab[g] = tab[fd] THEN b ELSE [b EXCEPT !.kern = m]
  BY Zenon DEF forget_file
<1> HIDE DEF m
<1>3. CASE \E g \in Fd \ {fd} : tab[g] = tab[fd]
  BY <1>2, <1>3
<1>4. CASE \A g \in Fd \ {fd} : tab[g] # tab[fd]
  <2> DEFINE d == [b EXCEPT !.kern = m]
  <2>1. /\ d.emask = b.emask /\ d.egen = b.egen /\ d.eperms = b.eperms
        /\ d.postfork = b.postfork /\ d.kern = m
    BY DEF EpollBack
  <2>2. forget_file(b, fd) = d
    BY <1>2, <1>4, Zenon
  <2> HIDE DEF d
  <2> QED
    BY <1>1, <1>4, <2>1, <2>2
<1> QED
  BY <1>3, <1>4

LEMMA CloseTidy ==
    ASSUME c.ev \in Good(0), Parts, Files, Tidy, NEW fd \in Fd, NEW STATE left, close(fd, left)
    PROVE  /\ Tidy' /\ c'.back = left
           /\ c.back \in EpollBack /\ left = forget_file(c.back, fd) /\ Sound(c) => Sound(c)'
<1> DEFINE e == c.ev
           b == c.back
           io == [w \in Watcher |-> IF e.io[w].fd = fd THEN Unset ELSE e.io[w]]
           d == c'.ev
<1>1. /\ d.io = io /\ d.head = e.head /\ d.events = e.events /\ d.reify = e.reify
      /\ c'.back = left
  <2>1. c' = [c EXCEPT !.back = left, !.ev.io = io]
    BY Zenon DEF close
  <2>2. e \in Ev /\ c = [ev |-> e, back |-> c.back]
    BY DEF Good, Parts
  <2> HIDE DEF io, e
  <2>3. ASSUME NEW p \in Ev, NEW q, NEW x, x = [ev |-> p, back |-> q]
        PROVE  LET y == [x EXCEPT !.back = left, !.ev.io = io]
               IN  /\ y.ev.io = io /\ y.ev.head = p.head /\ y.ev.events = p.events
                   /\ y.ev.reify = p.reify /\ y.back = left
    BY <2>3 DEF Ev
  <2> QED
    BY <2>1, <2>2, <2>3
<1>2. /\ e.io \in [Watcher -> {Unset} \cup [fd : Fd, events : SUBSET RW, fresh : BOOLEAN]]
      /\ Unset.fd = -1 /\ fd # -1
  BY DEF Good, Ev, Unset, Fd
<1>3. \A w \in Watcher : IF e.io[w].fd = fd THEN io[w] = Unset ELSE io[w] = e.io[w]
  OBVIOUS
<1>4. \A w \in Watcher : io[w].fd = -1 \/ (io[w] = e.io[w] /\ io[w].fd \in Fd /\ io[w].fd # fd)
  BY <1>2, <1>3
<1>5. tab' = [tab EXCEPT ![fd] = Closed] /\ tab \in [Fd -> File \cup {Closed}] /\ e.head[fd] = <<>>
  BY Zenon DEF close, Files
<1>6. tab'[fd] = Closed /\ \A g \in Fd : g # fd => tab'[g] = tab[g]
  BY <1>5
<1> HIDE DEF io, d, e
<1>7. \A w \in Watcher : Active(d, w) <=> Active(e, w)
  BY <1>1, Zenon DEF Active
<1>8. Tidy'
  <2>1. Worn(e) /\ Opened(e) /\ Asks(e) /\ e \in Good(0)
    BY DEF Tidy, e
  <2>2. \A w \in Watcher : d.io[w].fd # -1 => tab'[d.io[w].fd] # Closed
    BY <1>1, <1>4, <1>6, <2>1 DEF Opened
  <2>3. \A w \in Watcher : Active(d, w) => ~d.io[w].fresh
    <3> SUFFICES ASSUME NEW w \in Watcher, Active(d, w) PROVE ~d.io[w].fresh
      OBVIOUS
    <3>1. PICK g \in Fd : Contains(e.head[g], w)
      BY <1>7, Zenon DEF Active
    <3>2. PICK i \in 1 .. Len(e.head[g]) : e.head[g][i] = w
      BY <3>1, Zenon DEF Contains
    <3>3. e.head[g] \in Seq(Watcher)
      BY <2>1 DEF Good, Ev
    <3>4. e.io[w].fd = g
      BY <2>1, <3>2, <3>3 DEF Good, HeadsInv
    <3>5. g # fd
      BY <1>5, <3>2
    <3> QED
      BY <1>1, <1>3, <1>7, <2>1, <3>4, <3>5 DEF Worn
  <2>4. \A w \in Watcher : d.io[w].fd # -1 => d.io[w].events # {}
    BY <1>1, <1>4, <2>1 DEF Asks
  <2> QED
    BY <2>2, <2>3, <2>4, Zenon DEF Tidy, Worn, Opened, Asks, d
<1>9. ASSUME b \in EpollBack, left = forget_file(b, fd), Sound(c) PROVE Sound(c)'
  <2>1. /\ left.emask = b.emask /\ left.egen = b.egen /\ left.eperms = b.eperms
        /\ left.postfork = b.postfork
        /\ \A k \in DOMAIN left.kern : k \in DOMAIN b.kern /\ left.kern[k] = b.kern[k]
        /\ \A k \in DOMAIN b.kern :
             k \in DOMAIN left.kern \/ (k[2] = tab[fd] /\ \A g \in Fd : tab[g] = tab[fd] => g = fd)
    BY <1>9, ForgetFile
  <2>2. /\ Known(b) /\ (b.postfork = {} => \A g \in Fd : InSet(e, b, g))
    BY <1>9 DEF Sound, e
  <2>3. ASSUME NEW g \in Fd, g # fd PROVE Key(g)' = Key(g)
    BY <1>6, <2>3 DEF Key
  <2>4. Key(fd)' \notin DOMAIN b.kern
    <3>1. DOMAIN b.kern \subseteq Fd \X File
      BY <1>9, KernIs DEF EpollBack, Keys
    <3>2. Key(fd)' = <<fd, Closed>> /\ Closed \notin File
      BY <1>6, FdAssumption DEF Key
    <3> QED
      BY <3>1, <3>2
  <2>5. c'.back = left
    BY <1>1
  <2> HIDE DEF b
  <2>6. ASSUME NEW g \in Fd PROVE KnownOf(c.back, g)'
    <3>1. KnownOf(b, g)
      BY <2>2 DEF Known
    <3>2. CASE g = fd
      BY <2>1, <2>4, <2>5, <3>1, <3>2, Zenon DEF KnownOf
    <3>3. CASE g # fd
      BY <2>1, <2>3, <2>5, <3>1, <3>3, Zenon DEF KnownOf
    <3> QED
      BY <3>2, <3>3
  <2>7. Known(c.back)'
    BY <2>1, <2>2, <2>5, <2>6, Zenon DEF Known
  <2>8. ASSUME b.postfork = {}, NEW g \in Fd, Registered(d, g)
        PROVE  Entered(c.ev, c.back, g)' \/ Refused(c.back, g)'
    <3>1. PICK w \in Watcher : d.io[w].fd = g /\ ~d.io[w].fresh /\ (Restart \/ Active(d, w))
      BY <2>8, Zenon DEF Registered, Owed
    <3>2. g # -1
      BY DEF Fd
    <3>3. g # fd /\ e.io[w] = d.io[w]
      BY <1>1, <1>4, <3>1, <3>2
    <3>4. Registered(e, g)
      BY <1>1, <1>7, <2>8, <3>1, <3>3, Zenon DEF Registered, Owed
    <3>5. Entered(e, b, g) \/ Refused(b, g)
      BY <2>2, <2>8, <3>4, Zenon DEF InSet
    <3>6. CASE Refused(b, g)
      BY <2>1, <2>5, <3>6, Zenon DEF Refused
    <3>7. CASE Entered(e, b, g)
      <4>1. Key(g) \in DOMAIN b.kern /\ Key(g)[2] = tab[g]
        BY <3>7 DEF Entered, Key
      <4>2. Key(g) \in DOMAIN left.kern
        BY <2>1, <3>3, <4>1
      <4>3. Key(g)' = Key(g) /\ left.kern[Key(g)] = b.kern[Key(g)] /\ left.egen = b.egen
        BY <2>1, <2>3, <3>3, <4>2
      <4>4. d.events = e.events
        BY <1>1
      <4>5. Entered(c.ev, c.back, g)'
        BY <2>5, <3>7, <4>2, <4>3, <4>4, Zenon DEF Entered, d
      <4> QED
        BY <4>5
    <3> QED
      BY <3>5, <3>6, <3>7
  <2>9. left.postfork = {} => \A g \in Fd : InSet(c.ev, c.back, g)'
    BY <2>1, <2>8, Zenon DEF InSet, Registered, Owed, d
  <2> QED
    BY <2>5, <2>7, <2>9, Zenon DEF Sound
<1> QED
  BY <1>1, <1>8, <1>9

LEMMA OpenTidy ==
    ASSUME c.ev \in Good(0), Files, Tidy, NEW fd \in Fd, NEW f \in File, open(fd, f)
    PROVE  /\ Tidy' /\ c' = c
           /\ <<fd, f>> \notin DOMAIN c.back.kern /\ Sound(c) => Sound(c)'
<1>1. /\ tab' = [tab EXCEPT ![fd] = f] /\ tab \in [Fd -> File \cup {Closed}] /\ c' = c
      /\ tab[fd] = Closed
  BY Zenon DEF open, Files
<1>2. tab'[fd] = f /\ f # Closed /\ \A g \in Fd : g # fd => tab'[g] = tab[g]
  BY <1>1, FdAssumption
<1>3. \A w \in Watcher : c.ev.io[w].fd = -1 \/ (c.ev.io[w].fd \in Fd /\ c.ev.io[w].fd # fd)
  <2>1. c.ev.io \in [Watcher -> {Unset} \cup [fd : Fd, events : SUBSET RW, fresh : BOOLEAN]]
    BY DEF Good, Ev
  <2>2. \A w \in Watcher : c.ev.io[w].fd = -1 \/ c.ev.io[w].fd \in Fd
    BY <2>1 DEF Unset
  <2>3. \A w \in Watcher : c.ev.io[w].fd # -1 => tab[c.ev.io[w].fd] # Closed
    BY Zenon DEF Tidy, Opened
  <2> QED
    BY <1>1, <2>2, <2>3
<1>4. Tidy'
  <2>1. \A w \in Watcher : c'.ev.io[w].fd # -1 => tab'[c'.ev.io[w].fd] # Closed
    <3>1. \A w \in Watcher : c.ev.io[w].fd # -1 => tab[c.ev.io[w].fd] # Closed
      BY Zenon DEF Tidy, Opened
    <3> QED
      BY <1>1, <1>2, <1>3, <3>1
  <2>2. \A w \in Watcher : Active(c'.ev, w) => ~c'.ev.io[w].fresh
    BY <1>1, Zenon DEF Tidy, Worn
  <2>3. Asks(c.ev)'
    BY <1>1, Zenon DEF Tidy, Asks
  <2> QED
    BY <2>1, <2>2, <2>3, Zenon DEF Tidy, Opened, Worn, Asks
<1>5. ASSUME <<fd, f>> \notin DOMAIN c.back.kern, Sound(c) PROVE Sound(c)'
  <2>1. Key(fd)' = <<fd, f>> /\ \A g \in Fd : g # fd => Key(g)' = Key(g)
    BY <1>2 DEF Key
  <2>2. Known(c.back) /\ (c.back.postfork = {} => \A g \in Fd : InSet(c.ev, c.back, g))
    BY <1>5, Zenon DEF Sound
  <2>3. ASSUME NEW g \in Fd PROVE KnownOf(c.back, g)'
    <3>1. KnownOf(c.back, g)
      BY <2>2, Zenon DEF Known
    <3>2. CASE g = fd
      BY <1>1, <1>5, <2>1, <3>1, <3>2, Zenon DEF KnownOf
    <3>3. CASE g # fd
      BY <1>1, <2>1, <3>1, <3>3, Zenon DEF KnownOf
    <3> QED
      BY <3>2, <3>3
  <2>4. Known(c.back)'
    BY <1>1, <2>2, <2>3, Zenon DEF Known
  <2>5. ASSUME c.back.postfork = {}, NEW g \in Fd, Registered(c.ev, g)
        PROVE  Entered(c.ev, c.back, g)' \/ Refused(c.back, g)'
    <3>1. \E w \in Watcher : c.ev.io[w].fd = g
      BY <2>5, Zenon DEF Registered, Owed
    <3>2. g # fd /\ Key(g)' = Key(g)
      <4>1. g # -1
        BY DEF Fd
      <4> QED
        BY <1>3, <2>1, <3>1, <4>1
    <3>3. Entered(c.ev, c.back, g) \/ Refused(c.back, g)
      BY <2>2, <2>5, Zenon DEF InSet
    <3> QED
      BY <1>1, <3>2, <3>3, Zenon DEF Entered, Refused
  <2>6. c.back.postfork = {} => \A g \in Fd : InSet(c.ev, c.back, g)'
    BY <1>1, <2>5, Zenon DEF InSet, Registered, Owed
  <2> QED
    BY <1>1, <2>4, <2>6, Zenon DEF Sound
<1> QED
  BY <1>1, <1>4, <1>5

LEMMA BecomesTidy ==
    ASSUME Tidy, NEW f \in File, becomes(f)
    PROVE  Tidy' /\ c' = c /\ (Sound(c) => Sound(c)')
<1>1. c' = c /\ tab' = tab
  BY Zenon DEF becomes
<1>2. Tidy'
  BY <1>1, Zenon DEF Tidy, Worn, Opened, Asks
<1> QED
  BY <1>1, <1>2, SoundNext

LEMMA ProgramTidy ==
    ASSUME c.ev \in Good(0), Parts, Files, Tidy, Program(forget)
    PROVE  Tidy'
<1>1. ASSUME NEW fd \in Fd, close(fd, forget(c.back, fd)) PROVE Tidy'
  <2>1. close(fd, c.back)
    BY <1>1, Zenon DEF forget
  <2> QED
    BY <2>1, CloseTidy
<1> QED
  BY <1>1, StartTidy, StopTidy, OpenTidy, BecomesTidy, Zenon DEF Program

\* While the loop polls the kernel's set is the one that is in force.
MadeAnew == phase # "user" => c.back.postfork = {}

LEMMA EpollClientTidy ==
    ASSUME OfBack(EpollBack), Files, Tidy, epoll_client
    PROVE  Tidy' /\ (MadeAnew => MadeAnew') /\ (Supposed /\ Sound(c) => Sound(c)')
<1>1. c.ev \in Good(0) /\ c.back \in EpollBack /\ Parts
  BY OfBackParts
<1>2. phase' = phase
  BY EpollClient DEF Quiet
<1>3. c'.back.postfork = c.back.postfork => (MadeAnew => MadeAnew')
  BY <1>2 DEF MadeAnew
<1>4. ASSUME NEW w \in Watcher, start(w) \/ stop(w)
      PROVE  Tidy' /\ (MadeAnew => MadeAnew') /\ (Sound(c) => Sound(c)')
  BY <1>1, <1>3, <1>4, StartTidy, StopTidy
<1>5. ASSUME NEW fd \in Fd, close(fd, forget_file(c.back, fd))
      PROVE  Tidy' /\ (MadeAnew => MadeAnew') /\ (Sound(c) => Sound(c)')
  <2> DEFINE left == forget_file(c.back, fd)
  <2>1. close(fd, left)
    BY <1>5
  <2>2. left.postfork = c.back.postfork
    BY <1>1, ForgetFile
  <2>3. /\ Tidy' /\ c'.back = left
        /\ c.back \in EpollBack /\ left = forget_file(c.back, fd) /\ Sound(c) => Sound(c)'
    BY <1>1, <2>1, CloseTidy
  <2>4. left = forget_file(c.back, fd)
    OBVIOUS
  <2> HIDE DEF left
  <2> QED
    BY <1>1, <1>3, <2>2, <2>3, <2>4
<1>6. ASSUME NEW fd \in Fd, NEW f \in File, open(fd, f)
      PROVE  Tidy' /\ (MadeAnew => MadeAnew') /\ (Supposed /\ Sound(c) => Sound(c)')
  <2>1. /\ Tidy' /\ c' = c
        /\ <<fd, f>> \notin DOMAIN c.back.kern /\ Sound(c) => Sound(c)'
    BY <1>1, <1>6, OpenTidy
  <2>2. tab[fd] = Closed /\ tab'[fd] = f /\ f # Closed
    BY <1>6, FdAssumption DEF open, Files
  <2>3. DupBack \/ <<fd, f>> \notin DOMAIN c.back.kern
    BY <2>2 DEF epoll_client
  <2>4. Supposed => ~DupBack
    BY Zenon DEF Supposed
  <2> QED
    BY <1>3, <2>1, <2>3, <2>4
<1>7. ASSUME NEW f \in File, becomes(f)
      PROVE  Tidy' /\ (MadeAnew => MadeAnew') /\ (Sound(c) => Sound(c)')
  BY <1>3, <1>7, BecomesTidy
<1>8. ASSUME phase = "user", epoll_loop_fork
      PROVE  Tidy' /\ MadeAnew' /\ (Sound(c) => Sound(c)')
  <2> DEFINE b == [c.back EXCEPT !.postfork = {1}]
             z == [ev |-> c.ev, back |-> b]
  <2>1. c' = [c EXCEPT !.back.postfork = {1}] /\ tab' = tab
    BY <1>8, Zenon DEF epoll_loop_fork
  <2>2. c' = [c EXCEPT !.back = b]
    BY <1>1, <2>1
  <2>3. /\ b.kern = c.back.kern /\ b.egen = c.back.egen /\ b.emask = c.back.emask
        /\ b.eperms = c.back.eperms /\ b.postfork = {1}
    BY <1>1 DEF EpollBack
  <2> HIDE DEF b
  <2>4. c' = z /\ c'.ev = c.ev
    BY <1>1, <2>2 DEF Parts
  <2>5. Tidy'
    BY <2>1, <2>4, Zenon DEF Tidy, Worn, Opened, Asks
  <2>6. Sound(c) => Sound(z)
    <3> SUFFICES ASSUME Sound(c) PROVE Sound(z)
      OBVIOUS
    <3>1. \A fd : SameFor(c.back, b, fd)
      BY <2>3, Zenon DEF SameFor
    <3>2. \A fd \in Fd : KnownOf(b, fd)
      BY <3>1, SameForBoth, Zenon DEF Sound, Known
    <3>3. Known(b)
      BY <2>3, <3>2, Zenon DEF Sound, Known
    <3>4. z.back = b /\ b.postfork # {}
      BY <2>3
    <3> QED
      BY <3>3, <3>4, Zenon DEF Sound
  <2> HIDE DEF z
  <2>7. Sound(c) => Sound(c)'
    BY <2>1, <2>4, <2>6, SoundNext
  <2> QED
    BY <1>2, <1>8, <2>5, <2>7 DEF MadeAnew
<1> QED
  BY <1>4, <1>5, <1>6, <1>7, <1>8, Zenon DEF epoll_client, Program

-------------------------------------------------------------------------------
(* The kernel's set of epoll: the loop *)

LEMMA InvokeKeeps ==
    ASSUME c.ev \in Good(0), Parts, invoke
    PROVE  /\ tab' = tab /\ Shrinks(c.ev, c'.ev)
           /\ c' = [ev |-> c'.ev, back |-> c.back]
<1> DEFINE e == c.ev
           l == Front(e.pend)
           d == [e EXCEPT !.pend = l]
<1>1. c' = [c EXCEPT !.ev.pend = l] /\ tab' = tab
  BY Zenon DEF invoke
<1> HIDE DEF l
<1>2. c' = [c EXCEPT !.ev = d]
  BY <1>1 DEF Parts
<1>3. d.io = e.io /\ d.head = e.head /\ d.events = e.events /\ d.reify = e.reify
  BY DEF Good, Ev
<1> HIDE DEF d
<1>4. c' = [ev |-> d, back |-> c.back] /\ c'.ev = d
  BY <1>2 DEF Parts
<1>5. \A w \in Watcher : Active(d, w) <=> Active(e, w)
  BY <1>3, Zenon DEF Active
<1>6. Shrinks(c.ev, d)
  BY <1>3, <1>5 DEF Shrinks, Keeps
<1> QED
  BY <1>1, <1>4, <1>6

\* The loop starts no watcher, opens no descriptor and closes none.
LEMMA LoopKeeps ==
    ASSUME IInv, loop \/ kernel
    PROVE  tab' = tab /\ Keeps(c.ev, c'.ev)
<1>1. c.ev \in Good(0) /\ Parts
  <2>1. \A B : OfBack(B) => Parts
    BY OfBackParts
  <2>2. backend \in {"EPOLL", "POLL", "SELECT", "IOURING"}
    BY BackendAssumption DEF IInv
  <2> QED
    BY <2>1, <2>2, IInvGood, UringFacts DEF IInv, PollState, SelectState
<1>2. Keeps(c.ev, c.ev)
  BY DEF Keeps
<1>3. phase' = phase \/ Keeps(c.ev, c'.ev)
  BY NextIInv DEF Next, Tells
<1>4. CASE invoke
  BY <1>1, <1>4, InvokeKeeps DEF Shrinks
<1>5. CASE enter_poll \/ poll_returns \/ after_poll
  BY <1>3, <1>5 DEF enter_poll, poll_returns, after_poll
<1>6. CASE iouring_gives_up
  <2>1. c' = [c EXCEPT !.back = [epoll_init EXCEPT !.egen = c.back.egen]] /\ tab' = tab
    BY <1>6, Zenon DEF iouring_gives_up, go_on
  <2>2. c'.ev = c.ev
    BY <1>1, <2>1 DEF Parts
  <2> QED
    BY <1>2, <2>1, <2>2
<1>7. CASE kernel
  <2>1. PICK r : complete(r)
    BY <1>7, Zenon DEF kernel, iouring_kernel
  <2> DEFINE b == post([c.back EXCEPT !.ring.reqs = @ \ {r}],
                       Cqe(r.fd, r.gen, Levels(ready[r.file]) \cap
                             (IF "HUP" \in ready[r.file] THEN RW ELSE r.mask)))
  <2>2. c' = [c EXCEPT !.back = b] /\ tab' = tab
    BY <2>1, Zenon DEF complete
  <2> HIDE DEF b
  <2>3. c'.ev = c.ev
    BY <1>1, <2>2 DEF Parts
  <2> QED
    BY <1>2, <2>2, <2>3
<1>8. loop => invoke \/ enter_poll \/ poll_returns \/ after_poll \/ iouring_gives_up
  <2>1. epoll_loop => invoke \/ enter_poll \/ poll_returns \/ after_poll
    BY Zenon DEF epoll_loop, epoll_begins, epoll_wait, epoll_poll
  <2>2. poll_loop => invoke \/ enter_poll \/ poll_returns \/ after_poll
    BY Zenon DEF poll_loop, poll_begins, poll_ok, poll_fails, poll_poll
  <2>3. select_loop => invoke \/ enter_poll \/ poll_returns \/ after_poll
    BY Zenon DEF select_loop, select_begins, select_ok, select_fails, select_poll
  <2>4. iouring_loop => invoke \/ enter_poll \/ poll_returns \/ after_poll
    BY Zenon DEF iouring_loop, iouring_begins, iouring_enters, iouring_poll
  <2> QED
    BY <2>1, <2>2, <2>3, <2>4, Zenon DEF loop
<1> QED
  BY <1>4, <1>5, <1>6, <1>7, <1>8

LEMMA EpollLoopSound ==
    ASSUME OfBack(EpollBack), Files, Opened(c.ev), epoll_loop
    PROVE  (MadeAnew => MadeAnew') /\ (Supposed /\ Sound(c) => Sound(c)')
<1>1. c.ev \in Good(0) /\ c.back \in EpollBack /\ Parts
  BY OfBackParts
<1>2. ASSUME invoke
      PROVE  (MadeAnew => MadeAnew') /\ (Sound(c) => Sound(c)')
  <2>1. tab' = tab /\ Shrinks(c.ev, c'.ev) /\ c' = [ev |-> c'.ev, back |-> c.back]
    BY <1>1, <1>2, InvokeKeeps
  <2>2. c'.back = c.back /\ phase' = phase
    BY <1>2, <2>1 DEF invoke
  <2>3. Sound(c) => Sound(c)'
    <3> DEFINE l == Front(c.ev.pend)
               d == [c.ev EXCEPT !.pend = l]
               z == [ev |-> d, back |-> c.back]
    <3>1. c' = z
      <4>1. c' = [c EXCEPT !.ev.pend = l]
        BY <1>2, Zenon DEF invoke
      <4> HIDE DEF l
      <4>2. c' = [c EXCEPT !.ev = d]
        BY <1>1, <4>1 DEF Parts
      <4> HIDE DEF d
      <4> QED
        BY <1>1, <4>2 DEF Parts
    <3>2. d = c'.ev
      BY <3>1
    <3> HIDE DEF d
    <3>3. Sound(c) => Sound(z)
      BY <2>1, <3>2, SoundSame
    <3> QED
      BY <2>1, <3>1, <3>3, SoundNext DEF d
  <2> QED
    BY <2>2, <2>3 DEF MadeAnew
<1>3. ASSUME epoll_begins
      PROVE  MadeAnew' /\ (Supposed /\ Sound(c) => Sound(c)')
  BY <1>3, EpollBegins DEF MadeAnew
<1>4. ASSUME NEW n, epoll_wait(n)
      PROVE  (MadeAnew => MadeAnew') /\ (Sound(c) => Sound(c)')
  <2>1. c'.back.postfork = c.back.postfork /\ (Sound(c) => Sound(c)')
    BY <1>4, EpollWaits
  <2>2. phase = "polling"
    BY <1>4 DEF epoll_wait, poll_returns
  <2> QED
    BY <2>1, <2>2 DEF MadeAnew
<1>5. ASSUME epoll_poll
      PROVE  MadeAnew' /\ (Sound(c) => Sound(c)')
  BY <1>5, EpollPolls DEF MadeAnew
<1> QED
  BY <1>2, <1>3, <1>4, <1>5, Zenon DEF epoll_loop

\* A set that has just been created is empty.
LEMMA NewSound ==
    ASSUME NEW e, \A fd \in Fd : e.events[fd] = {}, NEW g
    PROVE  Sound([ev |-> e, back |-> [epoll_init EXCEPT !.egen = g]])
<1> DEFINE b == [epoll_init EXCEPT !.egen = g]
<1>1. DOMAIN b.kern = {} /\ \A fd \in Fd : b.emask[fd] = {}
  BY DEF epoll_init
<1> HIDE DEF b
<1>2. \A fd \in Fd : b.emask[fd] # EPERM
  BY <1>1 DEF EPERM
<1>3. Known(b)
  BY <1>1, <1>2 DEF Known, KnownOf
<1>4. \A fd \in Fd : InSet(e, b, fd)
  BY DEF InSet, Registered
<1>5. Sound([ev |-> e, back |-> b])
  BY <1>3, <1>4 DEF Sound
<1> QED
  BY <1>5 DEF b

-------------------------------------------------------------------------------
(* The kernel's set of epoll: the invariant *)

Armed == /\ Tidy
         /\ backend = "EPOLL" /\ Supposed => Sound(c) /\ MadeAnew

LEMMA InitArmed == Init => Armed
<1> SUFFICES ASSUME Init PROVE Armed
  OBVIOUS
<1>1. c.ev = ev_init /\ phase = "user"
  BY DEF Init, EpollInit, PollInit, SelectInit, UringInit, FdInit
<1>2. \A w \in Watcher : ev_init.io[w].fd = -1 /\ ~Active(ev_init, w)
  BY DEF ev_init, Unset, Active, Contains
<1>3. Tidy
  BY <1>1, <1>2, Zenon DEF Tidy, Worn, Opened, Asks
<1>4. ASSUME backend = "EPOLL" PROVE Sound(c)
  <2> DEFINE g == epoll_init.egen
  <2>1. c = [ev |-> ev_init, back |-> epoll_init]
    BY <1>4 DEF Init, EpollInit, FdInit
  <2>2. [epoll_init EXCEPT !.egen = g] = epoll_init
    BY DEF epoll_init
  <2>3. \A fd \in Fd : ev_init.events[fd] = {}
    BY EvInit
  <2>4. Sound([ev |-> ev_init, back |-> [epoll_init EXCEPT !.egen = g]])
    BY <2>3, NewSound
  <2> HIDE DEF g
  <2> QED
    BY <2>1, <2>2, <2>4
<1> QED
  BY <1>1, <1>3, <1>4 DEF Armed, MadeAnew

LEMMA NextArmed ==
    ASSUME IInv, Armed, [Next]_allvars
    PROVE  Armed'
<1>1. CASE UNCHANGED allvars
  <2>1. c' = c /\ tab' = tab /\ phase' = phase /\ backend' = backend
    BY <1>1 DEF allvars, vars
  <2>2. Sound(c) => Sound(c)'
    BY <2>1, SoundNext
  <2> QED
    BY <2>1, <2>2, Zenon DEF Armed, Tidy, Worn, Opened, Asks, MadeAnew
<1>2. c.ev \in Good(0) /\ Files /\ Parts
  <2>1. \A B : OfBack(B) => Parts
    BY OfBackParts
  <2>2. backend \in {"EPOLL", "POLL", "SELECT", "IOURING"}
    BY BackendAssumption DEF IInv
  <2> QED
    BY <2>1, <2>2, IInvGood, UringFacts DEF IInv, PollState, SelectState
<1>3. Tidy
  BY DEF Armed
<1>4. ASSUME client PROVE Armed'
  <2>1. backend' = backend
    BY <1>4 DEF client
  <2>2. CASE backend = "EPOLL"
    <3>1. epoll_client /\ OfBack(EpollBack)
      BY <1>4, <2>2 DEF client, IInv
    <3>2. Tidy' /\ (MadeAnew => MadeAnew') /\ (Supposed /\ Sound(c) => Sound(c)')
      BY <1>2, <1>3, <3>1, EpollClientTidy
    <3> QED
      BY <2>1, <3>2 DEF Armed
  <2>3. CASE backend # "EPOLL"
    <3>1. Program(forget) \/ iouring_loop_fork
      BY <1>4, <2>3, Zenon DEF client, poll_client, select_client, iouring_client
    <3>2. ASSUME iouring_loop_fork PROVE Tidy'
      <4>1. c' = [c EXCEPT !.back.postfork = TRUE] /\ tab' = tab
        BY <3>2, Zenon DEF iouring_loop_fork
      <4>2. c'.ev = c.ev
        BY <1>2, <4>1 DEF Parts
      <4> QED
        BY <1>3, <4>1, <4>2, Zenon DEF Tidy, Worn, Opened, Asks
    <3>3. Tidy'
      BY <1>2, <1>3, <3>1, <3>2, ProgramTidy
    <3> QED
      BY <2>1, <2>3, <3>3 DEF Armed
  <2> QED
    BY <2>2, <2>3
<1>5. ASSUME loop \/ kernel PROVE Armed'
  <2>1. Tidy'
    <3>1. tab' = tab /\ Keeps(c.ev, c'.ev)
      BY <1>5, LoopKeeps
    <3> QED
      BY <1>3, <3>1, Zenon DEF Tidy, Worn, Opened, Asks, Keeps
  <2>2. ASSUME backend' = "EPOLL", Supposed PROVE Sound(c)' /\ MadeAnew'
    <3>1. CASE backend = "EPOLL"
      <4>1. epoll_loop /\ OfBack(EpollBack)
        BY <1>5, <3>1 DEF loop, kernel, iouring_gives_up, IInv
      <4> QED
        BY <1>2, <1>3, <2>2, <3>1, <4>1, EpollLoopSound DEF Armed, Tidy
    <3>2. CASE backend # "EPOLL"
      <4>1. iouring_gives_up
        BY <1>5, <2>2, <3>2 DEF loop, kernel
      <4> DEFINE g == c.back.egen
                 z == [ev |-> c.ev, back |-> [epoll_init EXCEPT !.egen = g]]
      <4>2. c' = [c EXCEPT !.back = [epoll_init EXCEPT !.egen = g]] /\ tab' = tab /\ phase' = "user"
        BY <4>1, Zenon DEF iouring_gives_up, go_on
      <4>3. \A fd \in Fd : c.ev.events[fd] = {}
        BY <4>1, UringFacts DEF IInv, iouring_gives_up, go_on
      <4> HIDE DEF g
      <4>4. Sound(z)
        BY <4>3, NewSound
      <4>5. c' = z
        BY <1>2, <4>2 DEF Parts
      <4> HIDE DEF z
      <4>6. Sound(c)'
        BY <4>2, <4>4, <4>5, SoundNext DEF z, g
      <4> QED
        BY <4>2, <4>6 DEF MadeAnew
    <3> QED
      BY <3>1, <3>2
  <2> QED
    BY <2>1, <2>2 DEF Armed
<1> QED
  BY <1>1, <1>4, <1>5 DEF Next

LEMMA AlwaysArmed == Spec => []Armed
<1>1. IInv /\ IInv' /\ Armed /\ [Next]_allvars => Armed'
  BY NextArmed
<1> QED
  BY Inductive, InitArmed, <1>1, PTL DEF Spec

-------------------------------------------------------------------------------
(* One request of each descriptor: the steps of io_uring *)

Flows(x) == Flow(x.ev.events, x.back, 0)

\* Nothing waits for its submission, except while the loop is about to enter.
Sent == phase # "polling" => c.back.ring.sq = <<>>

\* Flows says the same of the next state, in which no descriptor is closed
\* that a submission is for.
LEMMA FlowNext ==
    ASSUME NEW STATE z, c' = z, z.back \in UringBack, Flows(z),
           \/ \A fd \in Fd : tab[fd] # Closed => tab'[fd] # Closed
           \/ z.back.ring.sq = <<>>
    PROVE  Flows(c)'
<1>1. Plain(c.back)'
  BY Zenon DEF Flows, Flow, Plain
<1>2. ASSUME Dated(z.back) PROVE Dated(c.back)'
  <2> DEFINE b == z.back
  <2>1. /\ b.ring.sq \in Seq(SqeT)
        /\ \A i \in 1 .. Len(b.ring.sq) : DatedSqe(b, b.ring.sq[i])
    BY <1>2, UringTypes DEF Dated
  <2>2. c'.back = b /\ (b.ring.sq = <<>> => Len(b.ring.sq) = 0)
    OBVIOUS
  <2>3. ASSUME NEW i \in 1 .. Len(b.ring.sq) PROVE DatedSqe(c.back, c.back.ring.sq[i])'
    <3> DEFINE q == b.ring.sq[i]
    <3>1. b.ring.sq # <<>> /\ q \in SqeT /\ DatedSqe(b, q)
      <4> HIDE DEF b
      <4> QED
        BY <2>1, <2>2, <2>3
    <3> HIDE DEF q, b
    <3>2. q.fd \in Fd
      BY <3>1 DEF SqeT
    <3>3. tab[q.fd] # Closed => tab'[q.fd] # Closed
      BY <3>1, <3>2 DEF b
    <3>4. /\ q.gen <= b.egen[q.fd]
          /\ q.op = "POLL_ADD" => tab'[q.fd] # Closed
          /\ q.op # "POLL_ADD" => q.gen < b.egen[q.fd]
      BY <3>1, <3>3, Zenon DEF DatedSqe
    <3>5. c'.back.ring.sq[i] = q /\ c'.back.egen = b.egen
      BY <2>2 DEF q
    <3> QED
      BY <3>4, <3>5, Zenon DEF DatedSqe
  <2> HIDE DEF b
  <2>4. /\ \A r \in b.ring.reqs : r.gen <= b.egen[r.fd]
        /\ \A i \in 1 .. Len(b.ring.cq) : DatedCqe(b, b.ring.cq[i])
    BY <1>2 DEF Dated, b
  <2> QED
    BY <2>2, <2>3, <2>4, Zenon DEF Dated, DatedCqe
<1>3. ASSUME NEW fd \in Fd
      PROVE  /\ None(z.back, 0, fd) => None(c.back, 0, fd)'
             /\ One(z.back, 0, fd) => One(c.back, 0, fd)'
  <2>1. c'.back = z.back
    OBVIOUS
  <2>2. /\ Unsent(c.back, 0, fd)' = Unsent(z.back, 0, fd)
        /\ Waiting(c.back, fd)' = Waiting(z.back, fd)
        /\ Answered(c.back, fd)' = Answered(z.back, fd)
    BY <2>1, Zenon DEF Unsent, Waiting, Answered
  <2> QED
    BY <2>2, Zenon DEF None, One
<1> QED
  BY <1>1, <1>2, <1>3, Zenon DEF Flows, Flow

\* A step in which neither the masks in force nor the rings are different.
LEMMA FlowSame ==
    ASSUME NEW x, NEW e, NEW b, Flows(x), e.events = x.ev.events,
           b.ring = x.back.ring, b.egen = x.back.egen, b.spins = x.back.spins
    PROVE  Flows([ev |-> e, back |-> b])
<1>1. /\ Plain(x.back) => Plain(b)
      /\ Dated(x.back) => Dated(b)
  BY Zenon DEF Plain, Dated, DatedSqe, DatedCqe
<1>2. \A fd \in Fd : /\ None(x.back, 0, fd) => None(b, 0, fd)
                     /\ One(x.back, 0, fd) => One(b, 0, fd)
  <2>1. \A fd \in Fd : /\ Unsent(b, 0, fd) = Unsent(x.back, 0, fd)
                       /\ Waiting(b, fd) = Waiting(x.back, fd)
                       /\ Answered(b, fd) = Answered(x.back, fd)
    BY Zenon DEF Unsent, Waiting, Answered
  <2> QED
    BY <2>1, Zenon DEF None, One
<1>3. Flow(e.events, b, 0)
  BY <1>1, <1>2, Zenon DEF Flows, Flow
<1> QED
  BY <1>3 DEF Flows

LEMMA ClientFlows ==
    ASSUME UringState, Files, ~CloseWhilePolling, Flows(c), Sent, ~c.back.switched,
           iouring_client \/ iouring_loop_fork
    PROVE  Flows(c)' /\ Sent'
<1>1. c.back \in UringBack /\ c.ev \in Good(0) /\ Parts
  BY UringFacts
<1>2. CASE iouring_client
  <2>1. EvStep(c.back) /\ phase' = phase
    BY <1>1, <1>2, ForgetStep DEF iouring_client
  <2>2. PICK e \in Good(0) : e.events = c.ev.events /\ c' = [ev |-> e, back |-> c.back]
    BY <2>1 DEF EvStep
  <2> DEFINE z == [ev |-> e, back |-> c.back]
  <2>3. Flows(z)
    BY <2>2, FlowSame
  <2>4. z.back = c.back /\ c' = z
    BY <2>2
  <2>5. (\A fd \in Fd : tab[fd] # Closed => tab'[fd] # Closed) \/ c.back.ring.sq = <<>>
    BY <1>2, Zenon DEF iouring_client, NotWhilePolling, Sent
  <2> HIDE DEF z
  <2>6. Flows(c)'
    BY <1>1, <2>3, <2>4, <2>5, FlowNext DEF z
  <2> QED
    BY <2>1, <2>4, <2>6 DEF Sent
<1>3. CASE iouring_loop_fork
  <2> DEFINE b == [c.back EXCEPT !.postfork = TRUE]
             z == [ev |-> c.ev, back |-> b]
  <2>1. c' = [c EXCEPT !.back.postfork = TRUE] /\ tab' = tab /\ phase' = phase
    BY <1>3, Zenon DEF iouring_loop_fork
  <2>2. c' = [c EXCEPT !.back = b]
    BY <1>1, <2>1 DEF Parts
  <2>3. b.ring = c.back.ring /\ b.egen = c.back.egen /\ b.spins = c.back.spins /\ b \in UringBack
    <3>1. /\ b \in UringRec /\ b.ring = c.back.ring /\ b.entries = c.back.entries
          /\ b.egen = c.back.egen /\ b.spins = c.back.spins
      BY <1>1 DEF UringBack, UringRec
    <3> HIDE DEF b
    <3> QED
      BY <1>1, <3>1 DEF UringBack
  <2> HIDE DEF b
  <2>4. c' = z /\ z.back = b
    BY <1>1, <2>2 DEF Parts
  <2>5. Flows(z)
    BY <2>3, FlowSame
  <2> HIDE DEF z
  <2>6. Flows(c)'
    BY <2>1, <2>3, <2>4, <2>5, FlowNext DEF z, b
  <2> QED
    BY <2>1, <2>3, <2>4, <2>6 DEF Sent
<1> QED
  BY <1>2, <1>3

LEMMA BeginsFlows ==
    ASSUME OfBack(UringBack), Files, Opened(c.ev), ~NoDrop, Flows(c), iouring_begins
    PROVE  c'.back.switched \/ (Flows(c)' /\ Sent')
<1> DEFINE f == iouring_fork(c)
           y == IF c.back.postfork THEN f ELSE c
           x == fd_reify(y, iouring_modify)
           h == iouring_handle_cq(x)
<1>1. c \in [ev : Good(0), back : UringBack] /\ c.ev \in Good(0) /\ c.back \in UringBack
  BY OfBackParts DEF OfBack
<1>2. /\ f \in [ev : After(0, c.ev), back : UringBack]
      /\ f.back.ring = ring /\ f.back.spins = c.back.spins /\ \A fd \in Fd : f.ev.events[fd] = {}
  <2>1. c.back \in UringRec /\ c.back.entries \in 1 .. 2 * (KernelMax - 1)
    <3>1. KernelMax \in Nat
      BY BackendAssumption DEF UringAssumption
    <3> QED
      BY <1>1, <3>1 DEF UringBack
  <2>2. c \in [ev : Good(0), back : UringRec]
    BY <1>1, <2>1
  <2> QED
    BY <2>1, <2>2, UringFork
<1> HIDE DEF f
<1>3. y \in [ev : Good(0), back : UringBack] /\ Opened(y.ev) /\ Flows(y)
  <2>1. f \in [ev : Good(0), back : UringBack] /\ Opened(f.ev)
    BY <1>2 DEF After, Follows, Keeps, Opened
  <2>2. ~f.back.spins
    BY <1>2 DEF Flows, Flow, Plain
  <2>3. Flows(f)
    BY <1>2, <2>2, FreshFlow DEF Flows
  <2> QED
    BY <1>1, <2>1, <2>3
<1> HIDE DEF y
<1>4. x \in [ev : Good(0), back : UringBack] /\ Flows(x)
  BY <1>3, UringReify DEF FlowsFrom, Flows
<1>5. (c' = x \/ c' = h) /\ tab' = tab /\ phase' = "polling"
  BY DEF iouring_begins, enter_poll, y, f
<1> HIDE DEF x
<1>6. h \in UringStates /\ (h.back.switched \/ Flows(h))
  BY <1>4, HandleCq DEF Flows
<1>7. h.back.switched \/ h.back \in UringBack
  BY <1>6 DEF UringStates, GoneBack
<1> HIDE DEF h
<1>8. ASSUME c' = x PROVE Flows(c)'
  BY <1>4, <1>5, <1>8, FlowNext DEF x, y, f
<1>9. ASSUME c' = h, ~h.back.switched PROVE Flows(c)'
  BY <1>5, <1>6, <1>7, <1>9, FlowNext DEF h, x, y, f
<1> QED
  BY <1>5, <1>8, <1>9 DEF Sent

LEMMA EntersFlows ==
    ASSUME OfBack(UringBack), Files, ~NoDrop, Flows(c), iouring_enters
    PROVE  Flows(c)' /\ Sent'
<1> DEFINE b == iouring_enter(c.back)
           z == [ev |-> c.ev, back |-> b]
<1>1. c.ev \in Good(0) /\ c.back \in UringBack /\ Parts
  BY OfBackParts
<1>2. tab' = tab /\ c' = IF c.back.ring.to_submit = 0 /\ c.back.ring.backlog = <<>> THEN c
                         ELSE [c EXCEPT !.back = b]
  BY Zenon DEF iouring_enters, poll_returns
<1>3. Plain(c.back)
  BY DEF Flows, Flow
<1>4. CASE c.back.ring.to_submit = 0
  <2>1. c' = c
    BY <1>2, <1>3, <1>4 DEF Plain
  <2>2. Flows(c)'
    BY <1>1, <1>2, <2>1, FlowNext
  <2>3. c.back.ring.sq = <<>>
    <3>1. c.back.ring.sq \in Seq(SqeT) /\ Len(c.back.ring.sq) = 0
      BY <1>1, <1>3, <1>4, UringTypes DEF Plain
    <3> QED
      BY <3>1
  <2> QED
    BY <2>1, <2>2, <2>3 DEF Sent
<1>5. CASE c.back.ring.to_submit # 0
  <2>1. b \in UringBack
    BY <1>1, Enter
  <2>2. b.ring.sq = <<>> /\ FlowsOn(c.back, 0, b, 0)
    BY <1>1, <1>3, EnterFlow
  <2> HIDE DEF b
  <2>3. c' = z /\ z.back = b
    BY <1>1, <1>2, <1>5 DEF Parts
  <2>4. Flows(z)
    BY <2>2 DEF Flows, FlowsOn
  <2> HIDE DEF z
  <2>5. Flows(c)'
    BY <1>2, <2>1, <2>2, <2>3, <2>4, FlowNext DEF z, b
  <2> QED
    BY <2>2, <2>3, <2>5 DEF Sent
<1> QED
  BY <1>4, <1>5

LEMMA PollsFlows ==
    ASSUME OfBack(UringBack), Files, Flows(c), Sent, iouring_poll
    PROVE  c'.back.switched \/ (Flows(c)' /\ Sent')
<1> DEFINE h == iouring_handle_cq(c)
<1>1. c \in [ev : Good(0), back : UringBack]
  BY DEF OfBack
<1>2. c' = h /\ tab' = tab /\ phase = "polled"
  BY Zenon DEF iouring_poll, after_poll
<1>3. /\ h \in UringStates
      /\ h.back.switched \/ (Flows(h) /\ (h.back.ring.sq = c.back.ring.sq \/ h.back.ring.sq = <<>>))
  BY <1>1, HandleCq DEF Flows
<1>4. h.back.switched \/ h.back \in UringBack
  BY <1>3 DEF UringStates, GoneBack
<1> HIDE DEF h
<1>5. ASSUME ~h.back.switched PROVE Flows(c)'
  BY <1>2, <1>3, <1>4, <1>5, FlowNext DEF h
<1> QED
  BY <1>2, <1>3, <1>5 DEF Sent

LEMMA LoopFlows ==
    ASSUME UringState, Files, Opened(c.ev), ~NoDrop, Flows(c), Sent, iouring_loop
    PROVE  c'.back.switched \/ (Flows(c)' /\ Sent')
<1>1. c.back \in UringBack /\ OfBack(UringBack) /\ c.ev \in Good(0) /\ Parts
  BY UringFacts DEF iouring_loop
<1>2. ASSUME invoke PROVE Flows(c)' /\ Sent'
  <2>1. PICK e \in Good(0) : e.events = c.ev.events /\ c' = [ev |-> e, back |-> c.back]
    BY <1>1, <1>2, InvokeStep DEF EvStep
  <2>2. tab' = tab /\ phase' = phase
    BY <1>2, Zenon DEF invoke
  <2> DEFINE z == [ev |-> e, back |-> c.back]
  <2>3. Flows(z)
    BY <2>1, FlowSame
  <2>4. z.back = c.back /\ c' = z
    BY <2>1
  <2> HIDE DEF z
  <2>5. Flows(c)'
    BY <1>1, <2>2, <2>3, <2>4, FlowNext DEF z
  <2> QED
    BY <2>2, <2>4, <2>5 DEF Sent
<1> QED
  BY <1>1, <1>2, BeginsFlows, EntersFlows, PollsFlows DEF iouring_loop

LEMMA KernelFlows ==
    ASSUME UringState, Files, ~NoDrop, Flows(c), Sent, iouring_kernel
    PROVE  Flows(c)' /\ Sent'
<1>1. PICK r \in c.back.ring.reqs : complete(r)
  BY DEF iouring_kernel
<1> DEFINE res == Levels(ready[r.file]) \cap (IF "HUP" \in ready[r.file] THEN RW ELSE r.mask)
           b == post([c.back EXCEPT !.ring.reqs = @ \ {r}], Cqe(r.fd, r.gen, res))
           z == [ev |-> c.ev, back |-> b]
<1>2. c.back \in UringBack /\ Parts
  BY <1>1, UringFacts
<1>3. res \in SUBSET RW
  <2>1. r.mask \in SUBSET RW
    BY <1>2, UringTypes DEF Request
  <2> QED
    BY <2>1
<1>4. c' = [c EXCEPT !.back = b] /\ tab' = tab /\ phase' = phase
  BY <1>1, Zenon DEF complete
<1> HIDE DEF res
<1>5. b \in UringBack
  BY <1>2, <1>3, Complete
<1>6. Alike(c.back, b) /\ FlowsOn(c.back, 0, b, 0)
  BY <1>2, <1>3, CompleteFlow
<1> HIDE DEF b
<1>7. c' = z /\ z.back = b
  BY <1>2, <1>4 DEF Parts
<1>8. Flows(z)
  BY <1>6 DEF Flows, FlowsOn
<1> HIDE DEF z
<1>9. Flows(c)'
  BY <1>4, <1>5, <1>7, <1>8, FlowNext DEF z, b, res
<1> QED
  BY <1>4, <1>6, <1>7, <1>9 DEF Sent, Alike

-------------------------------------------------------------------------------
(* One request of each descriptor: the invariant *)

\* What the program and the kernel are taken to do: no descriptor is closed
\* while the loop is in the system call, and an old kernel, which drops what
\* does not fit into the ring and says so.
Patient == ~CloseWhilePolling /\ ~NoDrop

Calm == Patient /\ backend = "IOURING" /\ ~c.back.switched => Flows(c) /\ Sent

LEMMA InitCalm == Init => Calm
<1> SUFFICES ASSUME Init, backend = "IOURING" PROVE Flows(c) /\ Sent
  BY DEF Calm
<1>1. c = [ev |-> ev_init, back |-> iouring_init]
  BY DEF Init, UringInit, FdInit
<1>2. /\ c.back.ring = ring /\ ~c.back.spins /\ \A fd \in Fd : c.ev.events[fd] = {}
  BY <1>1, EvInit DEF iouring_init
<1> QED
  BY <1>2, FreshFlow DEF Flows, Sent

LEMMA NextCalm ==
    ASSUME IInv, Armed, Calm, [Next]_allvars
    PROVE  Calm'
<1> SUFFICES ASSUME Patient, backend' = "IOURING", ~c'.back.switched
             PROVE  Flows(c)' /\ Sent'
  BY DEF Calm
<1>1. ~CloseWhilePolling /\ ~NoDrop /\ Files /\ Opened(c.ev)
  BY Zenon DEF Patient, IInv, Armed, Tidy
<1>2. backend = "IOURING"
  BY DEF Next, client, loop, kernel, iouring_gives_up, allvars
<1>3. UringState
  BY <1>2 DEF IInv
<1>4. CASE UNCHANGED allvars
  <2>1. c' = c /\ tab' = tab /\ phase' = phase
    BY <1>4 DEF allvars, vars
  <2>2. Flows(c) /\ Sent /\ c.back \in UringBack
    BY <1>2, <1>3, <2>1, UringFacts DEF Calm
  <2>3. Flows(c)'
    BY <2>1, <2>2, FlowNext
  <2> QED
    BY <2>1, <2>2, <2>3 DEF Sent
<1>5. CASE client
  <2>1. iouring_client \/ iouring_loop_fork
    BY <1>2, <1>5 DEF client
  <2>2. c'.back.switched = c.back.switched
    <3>1. CASE iouring_client
      BY <1>1, <1>3, <3>1, UringFacts, ForgetStep DEF iouring_client, EvStep
    <3>2. CASE iouring_loop_fork
      <4>1. c' = [c EXCEPT !.back.postfork = TRUE] /\ Parts
        BY <1>3, <3>2, UringFacts, Zenon DEF iouring_loop_fork
      <4>2. c.back \in UringBack \cup GoneBack
        BY <1>3, UringFacts
      <4>3. c'.back = [c.back EXCEPT !.postfork = TRUE]
        BY <4>1 DEF Parts
      <4> QED
        BY <4>2, <4>3 DEF UringBack, UringRec, GoneBack
    <3> QED
      BY <2>1, <3>1, <3>2
  <2>3. Flows(c) /\ Sent /\ ~c.back.switched
    BY <1>2, <2>2 DEF Calm
  <2> QED
    BY <1>1, <1>3, <2>1, <2>3, ClientFlows
<1>6. CASE loop
  <2>1. iouring_loop
    BY <1>2, <1>6 DEF loop, iouring_gives_up
  <2>2. Flows(c) /\ Sent
    BY <1>2, <2>1 DEF Calm, iouring_loop
  <2> QED
    BY <1>1, <1>3, <2>1, <2>2, LoopFlows
<1>7. CASE kernel
  <2>1. iouring_kernel
    BY <1>7 DEF kernel
  <2>2. ~c.back.switched
    <3>1. c.back.ring.reqs # {}
      BY <2>1 DEF iouring_kernel
    <3>2. c.back \in UringBack
      BY <1>3, <3>1, UringFacts
    <3> QED
      BY <3>2 DEF UringBack, UringRec
  <2>3. Flows(c) /\ Sent
    BY <1>2, <2>2 DEF Calm
  <2> QED
    BY <1>1, <1>3, <2>1, <2>3, KernelFlows
<1> QED
  BY <1>4, <1>5, <1>6, <1>7 DEF Next

LEMMA AlwaysCalm == Spec => []Calm
<1>1. IInv /\ IInv' /\ Armed /\ Calm /\ [Next]_allvars => Calm'
  BY NextCalm
<1> QED
  BY Inductive, AlwaysArmed, InitCalm, <1>1, PTL DEF Spec

-------------------------------------------------------------------------------
(* What the loop promises *)

LEMMA GoodTypes ==
    ASSUME c.ev \in Good(0), Files, phase \in Phases
    PROVE  FdTypeOK
<1>1. c.ev \in Ev /\ -1 \in Fd \cup {-1}
  BY DEF Good
<1>2. Unset \in [fd : Fd \cup {-1}, events : SUBSET RW, fresh : BOOLEAN]
  BY <1>1 DEF Unset
<1>3. \A r \in [fd : Fd, events : SUBSET RW, fresh : BOOLEAN] :
        r \in [fd : Fd \cup {-1}, events : SUBSET RW, fresh : BOOLEAN]
  OBVIOUS
<1>4. /\ c.ev.io \in [Watcher -> {Unset} \cup [fd : Fd, events : SUBSET RW, fresh : BOOLEAN]]
      /\ c.ev.head \in [Fd -> Seq(Watcher)]
      /\ c.ev.events \in [Fd -> SUBSET RW]
      /\ c.ev.reify \in [Fd -> SUBSET {"IOFDSET", "REIFY"}]
      /\ c.ev.changes \in Seq(Fd)
      /\ c.ev.pend \in Seq(Event)
  BY <1>1 DEF Ev
<1>5. c.ev.io \in [Watcher -> [fd : Fd \cup {-1}, events : SUBSET RW, fresh : BOOLEAN]]
  BY <1>2, <1>3, <1>4
<1> QED
  BY <1>4, <1>5 DEF FdTypeOK, Files, Phases, Event

LEMMA GoodChanges ==
    ASSUME c.ev \in Good(0)
    PROVE  ChangesListed
<1>1. /\ c.ev \in Ev /\ HeadsInv(c.ev) /\ ListInv(c.ev, 0)
      /\ \A fd \in Fd : MaskInv(c.ev, fd)
  BY DEF Good
<1>2. /\ c.ev.changes \in Seq(Fd) /\ Len(c.ev.changes) \in Nat
      /\ DOMAIN c.ev.changes = 1 .. Len(c.ev.changes)
      /\ \A fd \in Fd : /\ c.ev.head[fd] \in Seq(Watcher) /\ Len(c.ev.head[fd]) \in Nat
                        /\ DOMAIN c.ev.head[fd] = 1 .. Len(c.ev.head[fd])
  BY <1>1 DEF Ev
<1>3. IsInjective(c.ev.changes)
  <2>1. \A i, j \in 1 .. Len(c.ev.changes) : i < j => c.ev.changes[i] # c.ev.changes[j]
    BY <1>1, <1>2 DEF ListInv
  <2>2. \A i, j \in 1 .. Len(c.ev.changes) : i < j \/ j < i \/ i = j
    BY <1>2
  <2> QED
    BY <1>2, <2>1, <2>2 DEF IsInjective
<1>4. ToSet(c.ev.changes) = {fd \in Fd : c.ev.reify[fd] # {}}
  <2>1. \A fd \in Fd : c.ev.reify[fd] # {} <=>
          \E i \in 1 .. Len(c.ev.changes) : c.ev.changes[i] = fd
    BY <1>1, <1>2 DEF ListInv
  <2>2. \A i \in 1 .. Len(c.ev.changes) : c.ev.changes[i] \in Fd
    BY <1>2
  <2>3. ToSet(c.ev.changes) = {c.ev.changes[i] : i \in 1 .. Len(c.ev.changes)}
    BY <1>2 DEF ToSet
  <2> QED
    BY <2>1, <2>2, <2>3
<1>5. ASSUME NEW fd \in Fd
      PROVE  IsInjective(c.ev.head[fd]) /\ \A w \in ToSet(c.ev.head[fd]) : c.ev.io[w].fd = fd
  <2> DEFINE h == c.ev.head[fd]
  <2>1. Distinct(h) /\ \A i \in DOMAIN h : c.ev.io[h[i]].fd = fd
    BY <1>1, Zenon DEF HeadsInv
  <2>2. DOMAIN h = 1 .. Len(h) /\ Len(h) \in Nat
    BY <1>2
  <2> HIDE DEF h
  <2>3. \A i, j \in 1 .. Len(h) : i < j \/ j < i \/ i = j
    BY <2>2
  <2>4. IsInjective(h)
    BY <2>1, <2>2, <2>3 DEF Distinct, IsInjective
  <2>5. \A w \in ToSet(h) : c.ev.io[w].fd = fd
    BY <2>1 DEF ToSet
  <2> QED
    BY <2>4, <2>5 DEF h
<1>6. ev_verify
  BY <1>3, <1>4, <1>5, Zenon DEF ev_verify
<1>7. \A fd \in Fd : c.ev.reify[fd] = {} =>
        c.ev.events[fd] = UNION {c.ev.io[w].events : w \in ToSet(c.ev.head[fd])}
  BY <1>1, Zenon DEF MaskInv, Want
<1> QED
  BY <1>6, <1>7, Zenon DEF ChangesListed

LEMMA IInvTypes == IInv => TypeOK
<1> SUFFICES ASSUME IInv PROVE TypeOK
  OBVIOUS
<1>1. FdTypeOK
  BY GoodTypes, IInvGood
<1>2. backend = "EPOLL" => EpollTypeOK
  <2> SUFFICES ASSUME backend = "EPOLL" PROVE EpollTypeOK
    OBVIOUS
  <2>1. c.back \in EpollBack
    BY OfBackParts DEF IInv
  <2>2. DOMAIN c.back.kern \in Keys
    BY <2>1, KernIs DEF EpollBack
  <2> QED
    BY <1>1, <2>1, <2>2 DEF EpollTypeOK, EpollBack, Keys
<1>3. backend = "POLL" => PollTypeOK
  <2> SUFFICES ASSUME backend = "POLL" PROVE PollTypeOK
    OBVIOUS
  <2>1. PollState
    BY DEF IInv
  <2>2. c.back \in PollBack /\ c.ev.events \in [Fd -> SUBSET RW]
    BY <2>1, PollFacts DEF Good, Ev
  <2> DEFINE b == c.back
  <2> HIDE DEF b
  <2>7. b.polls \in Seq(PollEntry) /\ b.idxs \in [Fd -> Int]
    BY <2>2 DEF PollBack, b
  <2>8. Len(b.polls) \in Nat
    BY <2>7
  <2>3. c.back.polls \in Seq(PollEntry) /\ c.back.idxs \in [Fd -> Int] /\ Len(c.back.polls) \in Nat
    BY <2>7, <2>8 DEF b
  <2>4. \A fd \in Fd : c.back.idxs[fd] = -1 \/ c.back.idxs[fd] \in 0 .. Len(c.back.polls) - 1
    BY <2>1 DEF PollState, PollAgrees
  <2>5. \A fd \in Fd : c.back.idxs[fd] \in -1 .. Len(c.back.polls) - 1
    BY <2>3, <2>4
  <2>6. c.back.idxs \in [Fd -> -1 .. Len(c.back.polls) - 1]
    BY <2>3, <2>5
  <2> QED
    BY <1>1, <2>3, <2>6 DEF PollTypeOK, poll_cnt, PollEntry
<1>4. backend = "SELECT" => SelectTypeOK
  <2> SUFFICES ASSUME backend = "SELECT" PROVE SelectTypeOK
    OBVIOUS
  <2>1. c.back \in SelectBack
    BY SelectFacts DEF IInv
  <2> QED
    BY <1>1, <2>1 DEF SelectTypeOK, SelectBack, Bits
<1>5. backend = "IOURING" => UringTypeOK
  <2> SUFFICES ASSUME backend = "IOURING" PROVE UringTypeOK
    OBVIOUS
  <2>1. c.back \in UringBack \cup GoneBack
    BY UringFacts DEF IInv
  <2>2. KernelMax \in Nat
    BY BackendAssumption DEF UringAssumption
  <2>3. CASE c.back \in UringBack
    <3>1. /\ c.back \in UringRec /\ c.back.entries \in 1 .. KernelMax - 1
          /\ Len(c.back.ring.sq) <= c.back.entries
          /\ Len(c.back.ring.cq) <= 2 * c.back.entries
      BY <2>3 DEF UringBack
    <3>2. c.back.entries \in 1 .. KernelMax
      BY <2>2, <3>1
    <3>3. /\ c.back.egen \in [Fd -> Nat]
          /\ {c.back.limit, c.back.postfork, c.back.spins, c.back.switched} \subseteq BOOLEAN
      BY <3>1 DEF UringRec
    <3> QED
      BY <1>1, <3>1, <3>2, <3>3 DEF UringTypeOK
  <2>4. CASE c.back \in GoneBack
    <3>1. /\ c.back.ring = ring /\ c.back.entries \in 1 .. KernelMax - 1
          /\ c.back.egen \in [Fd -> Nat]
          /\ {c.back.limit, c.back.postfork, c.back.spins, c.back.switched} \subseteq BOOLEAN
      BY <2>4 DEF GoneBack
    <3>2. c.back.entries \in 1 .. KernelMax
      BY <2>2, <3>1
    <3>3. Len(ring.sq) = 0 /\ Len(ring.cq) = 0
      BY RingIs
    <3>4. Len(c.back.ring.sq) <= c.back.entries /\ Len(c.back.ring.cq) <= 2 * c.back.entries
      BY <2>2, <3>1, <3>3
    <3> QED
      BY <1>1, <3>1, <3>2, <3>4 DEF UringTypeOK
  <2> QED
    BY <2>1, <2>3, <2>4
<1> QED
  BY <1>2, <1>3, <1>4, <1>5 DEF TypeOK, IInv

\* Every field of libev and of the back ends keeps its type.  In particular the
\* index of poll (pollidxs) always points into its array, and the rings of
\* io_uring never hold more than they were set up for, however often the loop
\* grows them or a fork makes new ones.
THEOREM Types == Spec => []TypeOK
BY Inductive, IInvTypes, PTL

\* What ev_verify asserts of descriptors and fdchanges, and that no change of a
\* watcher is forgotten: whatever a callback, or a client between the poll and
\* the loop's turn, starts, stops or closes, and whatever fd_kill, fd_rearm_all,
\* fd_reify and the back ends do, a descriptor that is not on the list of
\* changes has the mask its watchers ask for.
THEOREM Listed == Spec => []ChangesListed
BY Inductive, IInvGood, GoodChanges, PTL

\* The array and the index of poll agree, and every descriptor with a mask
\* in force has one entry, with that mask; poll_modify keeps this through the
\* removals that move the last entry into the gap.  At any time, not only
\* while the loop polls.
THEOREM PollArray == Spec => [](backend = "POLL" => ArrayAsWanted)
<1>1. IInv => (backend = "POLL" => ArrayAsWanted)
  <2> SUFFICES ASSUME IInv, backend = "POLL" PROVE ArrayAsWanted
    OBVIOUS
  <2>1. PollState
    BY DEF IInv
  <2>2. c.back \in PollBack /\ PollAgrees(c.ev.events, c.back)
    BY <2>1, PollFacts DEF PollState
  <2> DEFINE b == c.back
  <2> HIDE DEF b
  <2>7. b.polls \in Seq(PollEntry) /\ b.idxs \in [Fd -> Int]
    BY <2>2 DEF PollBack, b
  <2>8. Len(b.polls) \in Nat
    BY <2>7
  <2>3. c.back.polls \in Seq(PollEntry) /\ c.back.idxs \in [Fd -> Int] /\ Len(c.back.polls) \in Nat
    BY <2>7, <2>8 DEF b
  <2>4. ASSUME NEW fd \in Fd, NEW i \in 0 .. Len(c.back.polls) - 1
        PROVE  c.back.idxs[fd] = i <=> c.back.polls[i + 1].fd = fd
    <3>1. i + 1 \in 1 .. Len(c.back.polls) /\ (i + 1) - 1 = i /\ i # -1
      BY <2>3
    <3>2. c.back.idxs[c.back.polls[i + 1].fd] = i
      BY <2>2, <3>1 DEF PollAgrees
    <3>3. c.back.idxs[fd] = i => c.back.polls[i + 1].fd = fd
      BY <2>2, <3>1 DEF PollAgrees
    <3> QED
      BY <3>2, <3>3
  <2>5. \A fd \in Fd : IF c.ev.events[fd] = {} THEN c.back.idxs[fd] = -1
                       ELSE c.back.polls[c.back.idxs[fd] + 1].events = c.ev.events[fd]
    BY <2>2 DEF PollAgrees
  <2> QED
    BY <2>4, <2>5 DEF ArrayAsWanted, poll_cnt
<1> QED
  BY Inductive, <1>1, PTL

\* The bits of select are those of the masks in force: none is left of a
\* descriptor without watchers, none falls outside the words, and both sets
\* have the same number of words.  At any time, not only while the loop polls.
THEOREM SelectBits == Spec => [](backend = "SELECT" => BitsAsWanted)
<1>1. IInv => (backend = "SELECT" => BitsAsWanted)
  <2> SUFFICES ASSUME IInv, backend = "SELECT" PROVE BitsAsWanted
    OBVIOUS
  <2>1. SelectState
    BY DEF IInv
  <2>2. c.back \in SelectBack /\ c.ev \in Good(0) /\ SelectAgrees(c.ev.events, c.back)
    BY <2>1, SelectFacts DEF SelectState
  <2> DEFINE b == c.back
  <2> HIDE DEF b
  <2>8. b.ri \in Seq(Bits) /\ b.wi \in Seq(Bits) /\ c.ev.events \in [Fd -> SUBSET RW]
    BY <2>2 DEF SelectBack, Good, Ev, b
  <2>9. Len(b.ri) \in Nat
    BY <2>8
  <2>3. /\ c.back.ri \in Seq(Bits) /\ c.back.wi \in Seq(Bits)
        /\ Len(c.back.ri) \in Nat /\ c.ev.events \in [Fd -> SUBSET RW]
    BY <2>8, <2>9 DEF b
  <2>4. NFDBITS \in Nat /\ vec_max(c.back) * NFDBITS \in Nat
    BY <2>3, BackendAssumption DEF SelectAssumption, vec_max
  <2>5. \A fd \in 0 .. vec_max(c.back) * NFDBITS - 1 : fd \in Nat
    BY <2>4
  <2>6. \A fd \in 0 .. vec_max(c.back) * NFDBITS - 1 :
            /\ Isset(c.back.ri, fd) <=> fd \in Fd /\ "READ" \in c.ev.events[fd]
            /\ Isset(c.back.wi, fd) <=> fd \in Fd /\ "WRITE" \in c.ev.events[fd]
    BY <2>2, <2>5, Zenon DEF SelectAgrees
  <2>7. ASSUME NEW fd \in Fd, c.ev.events[fd] # {}
        PROVE  Word(fd) <= vec_max(c.back)
    <3>1. "READ" \in c.ev.events[fd] \/ "WRITE" \in c.ev.events[fd]
      BY <2>3, <2>7 DEF RW
    <3>2. fd \in Nat
      BY FdAssumption DEF Fd
    <3>3. Isset(c.back.ri, fd) \/ Isset(c.back.wi, fd)
      BY <2>2, <3>1, <3>2, Zenon DEF SelectAgrees
    <3> QED
      BY <2>2, <3>3 DEF Isset, vec_max, SelectAgrees
  <2> QED
    BY <2>2, <2>6, <2>7 DEF BitsAsWanted, SelectAgrees
<1> QED
  BY Inductive, <1>1, PTL

\* While the loop polls with epoll, each descriptor whose watchers have not
\* changed is in the kernel's set with the mask they ask for and with its
\* generation, or epoll_poll makes its events up, although epoll_modify only
\* guesses from emask and from the errors of epoll_ctl what the kernel holds:
\* whatever is started, stopped, closed, opened as another file and forked,
\* whatever epoll_ctl refuses, and also when io_uring has handed over to epoll.
\* Supposed excludes the two ways in which libev loses track: a descriptor that
\* is made to refer again to a file it referred to before, and a watcher that
\* fd_kill has stopped and that starts again without ev_io_set.
THEOREM EpollSet ==
    ASSUME Supposed
    PROVE  Spec => [](backend = "EPOLL" => ArmedAsWanted)
<1>1. IInv /\ Armed => (backend = "EPOLL" => ArmedAsWanted)
  <2> SUFFICES ASSUME IInv, Armed, backend = "EPOLL", phase # "user", NEW fd \in Fd,
                      c.ev.reify[fd] = {}, c.ev.events[fd] # {}
               PROVE  \/ /\ Key(fd) \in DOMAIN c.back.kern
                         /\ c.back.kern[Key(fd)] = [mask |-> c.ev.events[fd], egen |-> c.back.egen[fd]]
                      \/ c.back.emask[fd] = EPERM /\ Contains(c.back.eperms, fd)
    BY DEF ArmedAsWanted
  <2>1. c.ev \in Good(0)
    BY IInvGood
  <2>2. Sound(c) /\ c.back.postfork = {} /\ Worn(c.ev)
    BY Zenon DEF Armed, MadeAnew, Tidy
  <2>3. PICK w \in ToSet(c.ev.head[fd]) : TRUE
    BY <2>1 DEF Good, MaskInv, Want
  <2>4. c.ev.head[fd] \in Seq(Watcher)
    BY <2>1 DEF Good, Ev
  <2>5. PICK i \in DOMAIN c.ev.head[fd] : c.ev.head[fd][i] = w
    BY <2>3 DEF ToSet
  <2>6. w \in Watcher /\ c.ev.io[w].fd = fd /\ Contains(c.ev.head[fd], w)
    BY <2>1, <2>4, <2>5 DEF Good, HeadsInv, Contains
  <2>7. Active(c.ev, w) /\ ~c.ev.io[w].fresh
    BY <2>2, <2>6, Zenon DEF Active, Worn
  <2>8. Registered(c.ev, fd)
    BY <2>6, <2>7 DEF Registered, Owed
  <2>9. Entered(c.ev, c.back, fd) \/ Refused(c.back, fd)
    BY <2>2, <2>8, Zenon DEF Sound, InSet
  <2> QED
    BY <2>9 DEF Entered, Refused
<1> QED
  BY Inductive, AlwaysArmed, <1>1, PTL

\* When io_uring gives up and epoll takes over, every descriptor with watchers
\* is on the list of changes, so that the next fd_reify registers it with epoll:
\* fd_rearm_all has put it there, or its watchers have changed since.
THEOREM Handover == Spec => [](backend = "IOURING" => SwitchRegistersAll)
<1>1. IInv /\ Armed => (backend = "IOURING" => SwitchRegistersAll)
  <2> SUFFICES ASSUME IInv, Armed, backend = "IOURING", c.back.switched,
                      NEW fd \in Fd, c.ev.head[fd] # <<>>
               PROVE  fd \in ToSet(c.ev.changes)
    BY DEF SwitchRegistersAll
  <2>1. c.ev \in Good(0) /\ c.ev.events[fd] = {}
    BY UringFacts DEF IInv
  <2>2. c.ev.head[fd] \in Seq(Watcher) /\ c.ev.changes \in Seq(Fd)
    BY <2>1 DEF Good, Ev
  <2> DEFINE w == c.ev.head[fd][1]
  <2>3. 1 \in DOMAIN c.ev.head[fd] /\ w \in Watcher
    BY <2>2
  <2>4. c.ev.io[w].fd = fd /\ w \in ToSet(c.ev.head[fd])
    BY <2>1, <2>3 DEF Good, HeadsInv, ToSet
  <2> HIDE DEF w
  <2>5. c.ev.io[w].events # {}
    <3>1. fd # -1
      BY DEF Fd
    <3> QED
      BY <2>3, <2>4, <3>1 DEF Armed, Tidy, Asks
  <2>6. c.ev.reify[fd] # {}
    <3>1. Want(c.ev, fd) # {}
      BY <2>4, <2>5 DEF Want
    <3> QED
      BY <2>1, <3>1, Zenon DEF Good, MaskInv
  <2>7. \E i \in 1 .. Len(c.ev.changes) : c.ev.changes[i] = fd
    BY <2>1, <2>2, <2>6 DEF Good, ListInv
  <2> QED
    BY <2>2, <2>7 DEF ToSet
<1> QED
  BY Inductive, AlwaysArmed, <1>1, PTL

\* What io_uring has on its way for a descriptor is one submission, one request
\* in the kernel or one completion, of its present generation, when libev takes
\* the descriptor to be armed, and nothing when not: whatever is started,
\* stopped and opened, in whatever order requests complete, are removed and
\* made again, and however often the loop forks or the rings overflow.
\* Patient excludes a kernel that keeps what does not fit into the ring, and a
\* program that closes a descriptor while io_uring_enter is about to use it.
THEOREM Requests ==
    ASSUME Patient
    PROVE  Spec => [](backend = "IOURING" => OneRequest)
<1>1. IInv /\ Calm => (backend = "IOURING" => OneRequest)
  <2> SUFFICES ASSUME IInv, Calm, backend = "IOURING",
                      ~c.back.ring.overflow, ~c.back.switched, NEW fd \in Fd
               PROVE  InFlight(fd) = IF c.ev.events[fd] = {} THEN 0 ELSE 1
    BY DEF OneRequest
  <2> DEFINE b == c.back
             gen == b.egen[fd]
             of(s) == {i \in DOMAIN s : s[i].fd = fd /\ s[i].gen = gen}
             sent == {i \in of(b.ring.sq) : b.ring.sq[i].op = "POLL_ADD"}
             wait == {r \in b.ring.reqs : r.fd = fd /\ r.gen = gen}
  <2>1. b \in UringBack
    BY UringFacts DEF IInv
  <2>2. Flow(c.ev.events, b, 0)
    BY DEF Calm, Flows
  <2>3. /\ b.ring.backlog = <<>>
        /\ IF c.ev.events[fd] = {} THEN None(b, 0, fd) ELSE One(b, 0, fd)
    BY <2>2 DEF Flow, Plain
  <2>4. /\ b.ring.sq \in Seq(SqeT) /\ b.ring.cq \in Seq(CqeT)
        /\ DOMAIN b.ring.sq = 1 .. Len(b.ring.sq) /\ DOMAIN b.ring.cq = 1 .. Len(b.ring.cq)
    BY <2>1, UringTypes
  <2>5. /\ sent = Unsent(b, 0, fd) /\ wait = Waiting(b, fd) /\ of(b.ring.cq) = Answered(b, fd)
    BY <2>4 DEF Unsent, Waiting, Answered
  <2>6. of(b.ring.backlog) = {}
    BY <2>3
  <2>7. InFlight(fd) = Cardinality(sent) + Cardinality(wait) + Cardinality(of(b.ring.cq))
                       + Cardinality(of(b.ring.backlog))
    BY Zenon DEF InFlight
  <2> HIDE DEF b, sent, wait, of
  <2>8. Cardinality({}) = 0 /\ \A t : Cardinality({t}) = 1
    BY FS_EmptySet, FS_Singleton
  <2>9. CASE c.ev.events[fd] = {}
    <3>1. sent = {} /\ wait = {} /\ of(b.ring.cq) = {}
      BY <2>3, <2>5, <2>9 DEF None
    <3> QED
      BY <2>6, <2>7, <2>8, <2>9, <3>1
  <2>10. CASE c.ev.events[fd] # {}
    <3>1. PICK t : \/ sent = {t} /\ wait = {} /\ of(b.ring.cq) = {}
                   \/ sent = {} /\ wait = {t} /\ of(b.ring.cq) = {}
                   \/ sent = {} /\ wait = {} /\ of(b.ring.cq) = {t}
      BY <2>3, <2>5, <2>10 DEF One
    <3>2. Cardinality({t}) = 1 /\ Cardinality({}) = 0
      BY <2>8
    <3> QED
      BY <2>6, <2>7, <2>10, <3>1, <3>2
  <2> QED
    BY <2>9, <2>10
<1> QED
  BY Inductive, AlwaysCalm, <1>1, PTL

\* With each back end what the kernel has been asked for is what the watchers
\* want: EpollSet, PollArray, SelectBits, Requests and Handover together.
THEOREM AskedAsWanted ==
    ASSUME Supposed, Patient
    PROVE  Spec => []InForce
<1>1. /\ (backend = "EPOLL" => ArmedAsWanted) /\ (backend = "POLL" => ArrayAsWanted)
      /\ (backend = "SELECT" => BitsAsWanted) /\ (backend = "IOURING" => OneRequest)
      /\ (backend = "IOURING" => SwitchRegistersAll)
      => InForce
  BY DEF InForce
<1> QED
  BY EpollSet, PollArray, SelectBits, Requests, Handover, <1>1, PTL

\* When the loop itself stops a watcher, because the kernel refuses its
\* descriptor or there is no memory, fd_kill tells it of the error: no step of
\* a back end makes a watcher inactive and leaves it without an event.
THEOREM ErrorTold == Spec => ErrorIsTold
<1>1. IInv /\ [Next]_allvars =>
        [\A w \in Watcher :
            phase' # phase /\ Active(c.ev, w) /\ ~Active(c.ev', w) => "ERROR" \in Told'[w]]_vars
  <2> SUFFICES ASSUME IInv, [Next]_allvars, NEW w \in Watcher,
                      phase' # phase, Active(c.ev, w), ~Active(c.ev', w)
               PROVE  "ERROR" \in Told'[w]
    BY Zenon
  <2>1. Tells(c.ev, c'.ev)
    BY NextIInv
  <2>2. Err(c'.ev, w)
    BY <2>1, Zenon DEF Tells
  <2>3. PICK i \in DOMAIN c'.ev.pend : c'.ev.pend[i].w = w /\ "ERROR" \in c'.ev.pend[i].revents
    BY <2>2, Zenon DEF Err
  <2>4. c'.ev.pend[i] \in {q \in ToSet(c'.ev.pend) : q.w = w}
    BY <2>3, Zenon DEF ToSet
  <2>5. "ERROR" \in UNION {p.revents : p \in {q \in ToSet(c'.ev.pend) : q.w = w}}
    BY <2>3, <2>4
  <2> QED
    BY <2>5 DEF Told
<1> QED
  BY Inductive, <1>1, PTL DEF Spec, ErrorIsTold
===============================================================================
