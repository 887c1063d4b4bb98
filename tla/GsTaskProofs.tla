----------------------------- MODULE GsTaskProofs -----------------------------
(***************************************************************************)
(* The invariants of GsTask, for every number of tasks and of sends, and   *)
(* its refinement of TaskLife.                                             *)
(***************************************************************************)
EXTENDS GsTask, ListLemmas

-------------------------------------------------------------------------------
(* The inductive invariant *)

\* A task that was started and has not ended.
Running(t) == task[t].active /\ ~task[t].done

\* The client is inside the io callback of t.
InCallback(t) == \E i \in DOMAIN stack : stack[i][1] \in Kinds /\ stack[i][2] = t

\* Task t waits for its kind of event; w is the watcher that tells.
Waiting(w) == Running(w[1]) /\ w[2] = task[w[1]].type /\ order[w[1]] < sends

\* libev watches the socket for running tasks only, the newest first.
ListInv ==
    /\ \A i \in DOMAIN wlist : Waiting(wlist[i])
    /\ \A i, j \in DOMAIN wlist : i < j => order[wlist[i][1]] > order[wlist[j][1]]

\* Pending io events are of running tasks.
PendingInv ==
    \A i \in DOMAIN pendings : pendings[i][2] \in Kinds => Waiting(pendings[i])

\* A running task is not in the queue, and nothing is known of its end.
RunningInv ==
    \A t \in Tasks : Running(t) =>
        /\ ~Contains(avail, t)
        /\ ~task[t].cancel_once /\ ~task[t].cancelled /\ task[t].retcode # "EOF"

\* The task about to be watched is the last that was started.
SendingInv ==
    sending # None =>
        /\ Running(sending) /\ task[sending].type \in Kinds
        /\ stack = <<>> /\ ~working /\ ~closing
        /\ order[sending] < sends
        /\ \A i \in DOMAIN wlist : order[wlist[i][1]] < order[sending]

\* An io callback is the first frame of gs_work; the others are the
\* when_done_cb of tasks that are done, one for each that is still active.
FrameInv ==
    /\ \A i \in DOMAIN stack :
         /\ stack[i][1] = "when_done" => task[stack[i][2]].done
         /\ stack[i][1] \in Kinds =>
              LET r == task[stack[i][2]]
              IN  /\ i = 1 /\ working /\ stack[i][1] = r.type
                  /\ IF r.done THEN r.cancel_once /\ r.cancelled ELSE r.active
    /\ \A t \in Tasks : task[t].active /\ task[t].done =>
         Contains(stack, <<"when_done", t>>)
    /\ working => ~closing
    /\ freed => closing

\* A second end needs a task that is done to be cancelled once more, or the
\* callback of a task that is done to return GS_EOF: one excludes the other.
EndsInv ==
    \A t \in Tasks :
        IF task[t].done
        THEN ends[t] = 1 \/ (ends[t] = 2 /\ task[t].cancel_once /\ ~InCallback(t))
        ELSE ends[t] = 0

\* What holds of every program.
IInv ==
    /\ TypeOK /\ ListInv /\ PendingInv /\ CallbackOrder
    /\ RunningTasksWatched /\ RunningInv /\ SendingInv /\ FrameInv /\ EndsInv
    /\ Distinct(avail)

\* What a careful program adds: timers of running tasks only, one end, one
\* outcome, and no task left to run when the context is deleted.
CareInv ==
    /\ \A t \in timers : Running(t)
    /\ \A i \in DOMAIN pendings : pendings[i][2] = "TIMEOUT" => Running(pendings[i][1])
    /\ EndsOnce
    /\ OutcomeTold
    /\ closing => \A t \in Tasks : ~Running(t)

-------------------------------------------------------------------------------
(* Facts about the operators of the model *)

\* What the values of the constants say about names.
LEMMA Names ==
    /\ "when_done" \notin Kinds /\ "TIMEOUT" \notin Kinds /\ "DUMMY" \notin Kinds
    /\ "NOTSET" \notin Kinds
    /\ None \notin Tasks
    /\ \A k \in Kinds : k \in {"SEND", "RECV"}
BY TaskAssumption DEF Tasks, None

\* A task record with one field set is a task record.
LEMMA SetField ==
    ASSUME NEW r \in TaskRecord, NEW b \in BOOLEAN, NEW rc \in {"OK", "EOF", "ERROR"}
    PROVE  /\ [r EXCEPT !.active = b] \in TaskRecord
           /\ [r EXCEPT !.done = b] \in TaskRecord
           /\ [r EXCEPT !.cancel_once = b] \in TaskRecord
           /\ [r EXCEPT !.cancelled = b] \in TaskRecord
           /\ [r EXCEPT !.retcode = rc] \in TaskRecord
BY DEF TaskRecord

\* The record of a task that is started.
LEMMA ResetRecord ==
    ASSUME NEW t, NEW kind \in Kinds, NEW timed \in BOOLEAN
    PROVE  LET r == gs_task_reset(t, kind, timed)
           IN  /\ r \in TaskRecord /\ r.type = kind /\ r.active /\ ~r.done
               /\ ~r.cancel_once /\ ~r.cancelled /\ r.retcode = "OK"
<1>1. ASSUME NEW a \in BOOLEAN, NEW b \in BOOLEAN
      PROVE  LET i == [type |-> "NOTSET", active |-> b, done |-> b, cancel_once |-> b,
                       cancelled |-> b, retcode |-> "OK", timed |-> b]
                 r == [i EXCEPT !.type = kind, !.active = a, !.timed = timed]
             IN  /\ r \in TaskRecord /\ r.type = kind /\ r.active = a /\ r.done = b
                 /\ r.cancel_once = b /\ r.cancelled = b /\ r.retcode = "OK"
  BY DEF TaskRecord
<1> QED
  BY <1>1, Zenon DEF gs_task_reset, gs_task_init

\* Clear leaves a list of the same length, in which what is not cleared is
\* where it was.
LEMMA ClearKeeps ==
    ASSUME NEW pend \in Seq(Watcher \cup {Dummy}), NEW W
    PROVE  /\ Clear(pend, W) \in Seq(Watcher \cup {Dummy})
           /\ DOMAIN Clear(pend, W) = DOMAIN pend
           /\ \A i \in DOMAIN pend :
                Clear(pend, W)[i] = IF pend[i] \in W THEN Dummy ELSE pend[i]
<1>1. \A i \in 1 .. Len(pend) : pend[i] \in Watcher \cup {Dummy}
  OBVIOUS
<1>2. Clear(pend, W) \in [1 .. Len(pend) -> Watcher \cup {Dummy}]
  BY <1>1 DEF Clear
<1>3. Len(pend) \in Nat
  OBVIOUS
<1> QED
  BY <1>2, <1>3, IsASeq DEF Clear

\* What is left of the stack of pending events when its top is taken.
LEMMA FrontKeeps ==
    ASSUME NEW S, NEW s \in Seq(S), s # <<>>
    PROVE  /\ Front(s) \in Seq(S) /\ Sublist(Front(s), s)
           /\ Last(s) \in S /\ Len(s) \in DOMAIN s /\ s[Len(s)] = Last(s)
           /\ \A i \in DOMAIN Front(s) : i \in DOMAIN s /\ Front(s)[i] = s[i]
           /\ \A x : Contains(s, x) /\ x # Last(s) => Contains(Front(s), x)
<1>1. /\ Len(s) \in Nat \ {0} /\ DOMAIN s = 1 .. Len(s)
  OBVIOUS
<1>2. Front(s) \in Seq(S) /\ Len(Front(s)) = Len(s) - 1
  BY <1>1 DEF Front
<1>3. DOMAIN Front(s) = 1 .. Len(s) - 1
  BY <1>1, <1>2
<1>4. \A i \in 1 .. Len(s) - 1 : Front(s)[i] = s[i]
  BY <1>1 DEF Front
<1>5. \A x : Contains(s, x) /\ x # Last(s) => Contains(Front(s), x)
  BY <1>1, <1>2, <1>4 DEF Contains, Last
<1> QED
  BY <1>1, <1>2, <1>3, <1>4, <1>5 DEF Last, Sublist

\* A list is a sublist of itself.
LEMMA SublistItself ==
    ASSUME NEW s
    PROVE  Sublist(s, s)
BY DEF Sublist

\* One turn of the loop of fd_event_nocheck.
QueueStep(ws, ready, q, n) ==
    IF n = 0 THEN <<>>
    ELSE IF ws[n][2] \in ready THEN Append(q[n - 1], ws[n]) ELSE q[n - 1]

\* The lists queued after each turn exist.
LEMMA QueueExists ==
    ASSUME NEW ws, NEW ready, NEW N \in Nat
    PROVE  \E q : q = [n \in 0 .. N |-> QueueStep(ws, ready, q, n)]
<1> DEFINE S == {m \in Nat : \E q : q = [n \in 0 .. m |-> QueueStep(ws, ready, q, n)]}
<1>1. 0 \in S
  <2> DEFINE q == [n \in 0 .. 0 |-> <<>>]
  <2>1. \A n \in 0 .. 0 : QueueStep(ws, ready, q, n) = <<>>
    BY DEF QueueStep
  <2>2. q = [n \in 0 .. 0 |-> QueueStep(ws, ready, q, n)]
    BY <2>1
  <2> QED
    BY <2>2
<1>2. ASSUME NEW m \in Nat, m \in S
      PROVE  m + 1 \in S
  <2>1. PICK q : q = [n \in 0 .. m |-> QueueStep(ws, ready, q, n)]
    BY <1>2
  <2> DEFINE h == [n \in 0 .. m + 1 |-> IF n = m + 1 THEN QueueStep(ws, ready, q, n) ELSE q[n]]
  <2>2. \A n \in 0 .. m : q[n] = QueueStep(ws, ready, q, n)
    BY <2>1
  <2>3. \A n \in 0 .. m : h[n] = q[n]
    BY <1>2
  <2>4. h[m + 1] = QueueStep(ws, ready, q, m + 1)
    BY <1>2
  <2> HIDE DEF h
  <2>5. ASSUME NEW n \in 0 .. m + 1
        PROVE  QueueStep(ws, ready, h, n) = QueueStep(ws, ready, q, n)
    <3>1. CASE n = 0
      BY <3>1 DEF QueueStep
    <3>2. CASE n # 0
      <4>1. n - 1 \in 0 .. m
        BY <3>2, <2>5
      <4>2. h[n - 1] = q[n - 1]
        BY <2>3, <4>1
      <4> QED
        BY <4>2 DEF QueueStep
    <3> QED
      BY <3>1, <3>2
  <2>6. \A n \in 0 .. m + 1 : h[n] = QueueStep(ws, ready, h, n)
    BY <2>2, <2>3, <2>4, <2>5, <1>2
  <2>7. h = [n \in 0 .. m + 1 |-> QueueStep(ws, ready, h, n)]
    BY <2>6, Zenon DEF h
  <2> QED
    BY <2>7
<1>3. N \in S
  BY <1>1, <1>2, InductionOnSet
<1> QED
  BY <1>3

\* s holds elements of the first n places of ws, in their order.
Queued(s, ws, n) ==
    /\ \A k \in DOMAIN s : \E i \in 1 .. n : s[k] = ws[i]
    /\ \A k, l \in DOMAIN s : k < l =>
         \E i, j \in 1 .. n : i < j /\ s[k] = ws[i] /\ s[l] = ws[j]

\* Queueing the next element keeps the order.
LEMMA QueueNext ==
    ASSUME NEW S, NEW ws, NEW n \in Nat, ws[n + 1] \in S,
           NEW s \in Seq(S), Queued(s, ws, n)
    PROVE  Queued(s, ws, n + 1) /\ Queued(Append(s, ws[n + 1]), ws, n + 1)
<1> DEFINE L == Len(s)  t == Append(s, ws[n + 1])
<1>1. L \in Nat /\ DOMAIN s = 1 .. L
  OBVIOUS
<1>2. /\ DOMAIN t = 1 .. L + 1
      /\ \A k \in 1 .. L : t[k] = s[k]
      /\ t[L + 1] = ws[n + 1]
  OBVIOUS
<1>3. \A k \in 1 .. L + 1 : k \in 1 .. L \/ k = L + 1
  BY <1>1
<1>4. (\A i \in 1 .. n : i \in 1 .. n + 1 /\ i < n + 1) /\ n + 1 \in 1 .. n + 1
  OBVIOUS
<1> HIDE DEF t, L
<1>5. Queued(s, ws, n + 1)
  <2>1. ASSUME NEW k \in DOMAIN s, NEW l \in DOMAIN s, k < l
        PROVE  \E i, j \in 1 .. n + 1 : i < j /\ s[k] = ws[i] /\ s[l] = ws[j]
    <3>1. PICK i \in 1 .. n, j \in 1 .. n : i < j /\ s[k] = ws[i] /\ s[l] = ws[j]
      BY <2>1, Zenon DEF Queued
    <3> QED
      BY <1>4, <3>1
  <2>2. ASSUME NEW k \in DOMAIN s
        PROVE  \E i \in 1 .. n + 1 : s[k] = ws[i]
    BY <1>4, Zenon DEF Queued
  <2> QED
    BY <2>1, <2>2 DEF Queued
<1>6. ASSUME NEW k \in 1 .. L + 1
      PROVE  \E i \in 1 .. n + 1 : t[k] = ws[i]
  <2>1. CASE k \in 1 .. L
    <3>1. k \in DOMAIN s /\ t[k] = s[k]
      BY <1>1, <1>2, <2>1, Zenon
    <3>2. \E i \in 1 .. n + 1 : s[k] = ws[i]
      BY <1>5, <3>1, Zenon DEF Queued
    <3> QED
      BY <3>1, <3>2, Zenon
  <2>2. CASE k = L + 1
    BY <1>2, <1>4, <2>2, Zenon
  <2> QED
    BY <1>3, <2>1, <2>2, Zenon
<1>7. ASSUME NEW k \in 1 .. L + 1, NEW l \in 1 .. L + 1, k < l
      PROVE  \E i, j \in 1 .. n + 1 : i < j /\ t[k] = ws[i] /\ t[l] = ws[j]
  <2>1. k \in 1 .. L
    BY <1>1, <1>7
  <2>2. CASE l \in 1 .. L
    <3>1. k \in DOMAIN s /\ l \in DOMAIN s
      BY <1>1, <2>1, <2>2, Zenon
    <3>2. PICK i \in 1 .. n + 1, j \in 1 .. n + 1 : i < j /\ s[k] = ws[i] /\ s[l] = ws[j]
      BY <1>5, <1>7, <3>1, Zenon DEF Queued
    <3> QED
      BY <1>2, <2>1, <2>2, <3>2
  <2>3. CASE l = L + 1
    <3>1. PICK i \in 1 .. n : s[k] = ws[i]
      BY <1>1, <2>1 DEF Queued
    <3> QED
      BY <1>2, <1>4, <2>1, <2>3, <3>1
  <2> QED
    BY <1>3, <2>2, <2>3
<1>8. DOMAIN t = 1 .. L + 1
  BY <1>2
<1>9. Queued(t, ws, n + 1)
  <2>1. \A k \in DOMAIN t : \E i \in 1 .. n + 1 : t[k] = ws[i]
    BY <1>6, <1>8, Zenon
  <2>2. ASSUME NEW k \in DOMAIN t, NEW l \in DOMAIN t, k < l
        PROVE  \E i, j \in 1 .. n + 1 : i < j /\ t[k] = ws[i] /\ t[l] = ws[j]
    <3>1. k \in 1 .. L + 1 /\ l \in 1 .. L + 1
      BY <1>8, Zenon
    <3> QED
      BY <1>7, <2>2, <3>1, Zenon
  <2> QED
    BY <2>1, <2>2, Zenon DEF Queued
<1> QED
  BY <1>5, <1>9, Zenon DEF t

\* fd_event_nocheck queues watchers of the list, in the order of the list.
LEMMA QueuedInOrder ==
    ASSUME NEW S, NEW ws \in Seq(S), NEW ready
    PROVE  /\ fd_event_nocheck(ws, ready) \in Seq(S)
           /\ Sublist(fd_event_nocheck(ws, ready), ws)
<1> DEFINE N == Len(ws)
           q == CHOOSE f : f = [n \in 0 .. N |-> QueueStep(ws, ready, f, n)]
<1>0. N \in Nat /\ DOMAIN ws = 1 .. N
  OBVIOUS
<1>1. q = [n \in 0 .. N |-> QueueStep(ws, ready, q, n)]
  <2>1. \E f : f = [n \in 0 .. N |-> QueueStep(ws, ready, f, n)]
    BY <1>0, QueueExists
  <2> QED
    BY <2>1, Zenon
<1>2. fd_event_nocheck(ws, ready) = q[N]
  BY Zenon DEF fd_event_nocheck, QueueStep
<1> HIDE DEF q
<1>3. \A n \in 0 .. N : q[n] = QueueStep(ws, ready, q, n)
  BY <1>1
<1> HIDE DEF N
<1> DEFINE Good(n) == q[n] \in Seq(S) /\ Queued(q[n], ws, n)
           T == {n \in Nat : n <= N => Good(n)}
<1>4. 0 \in T
  <2>1. q[0] = <<>>
    BY <1>0, <1>3 DEF QueueStep
  <2>2. Queued(<<>>, ws, 0) /\ <<>> \in Seq(S)
    BY DEF Queued
  <2> QED
    BY <2>1, <2>2, Zenon
<1>5. ASSUME NEW n \in Nat, n \in T
      PROVE  n + 1 \in T
  <2> SUFFICES ASSUME n + 1 <= N PROVE Good(n + 1)
    OBVIOUS
  <2>1. Good(n)
    BY <1>0, <1>5
  <2>2. n + 1 \in 0 .. N /\ n + 1 # 0 /\ (n + 1) - 1 = n /\ ws[n + 1] \in S
    BY <1>0
  <2>3. q[n + 1] = QueueStep(ws, ready, q, n + 1)
    BY <1>3, <2>2, Zenon
  <2> HIDE DEF Good
  <2>4. q[n + 1] = q[n] \/ q[n + 1] = Append(q[n], ws[n + 1])
    BY <2>2, <2>3, Zenon DEF QueueStep
  <2>5. Queued(q[n], ws, n + 1) /\ Queued(Append(q[n], ws[n + 1]), ws, n + 1)
    BY <2>1, <2>2, QueueNext DEF Good
  <2>6. q[n] \in Seq(S) /\ Append(q[n], ws[n + 1]) \in Seq(S)
    BY <2>1, <2>2 DEF Good
  <2> QED
    BY <2>4, <2>5, <2>6, Zenon DEF Good
<1>6. N \in T
  <2> HIDE DEF T
  <2>1. Nat \subseteq T
    BY <1>4, <1>5, InductionOnSet
  <2> QED
    BY <1>0, <2>1
<1>7. Good(N)
  BY <1>0, <1>6
<1> QED
  <2> HIDE DEF Good
  <2>1. q[N] \in Seq(S) /\ Queued(q[N], ws, N)
    BY <1>7 DEF Good
  <2>2. ASSUME NEW s, Queued(s, ws, N)
        PROVE  Sublist(s, ws)
    <3>1. ASSUME NEW k \in DOMAIN s, NEW l \in DOMAIN s, k < l
          PROVE  \E i, j \in DOMAIN ws : i < j /\ s[k] = ws[i] /\ s[l] = ws[j]
      <4>1. PICK i \in 1 .. N, j \in 1 .. N : i < j /\ s[k] = ws[i] /\ s[l] = ws[j]
        BY <2>2, <3>1, Zenon DEF Queued
      <4> QED
        BY <1>0, <4>1
    <3>2. ASSUME NEW k \in DOMAIN s
          PROVE  \E i \in DOMAIN ws : s[k] = ws[i]
      BY <1>0, <2>2 DEF Queued
    <3> QED
      BY <3>1, <3>2 DEF Sublist
  <2> QED
    BY <1>2, <2>1, <2>2, Zenon

\* Expired timers are queued once each, whatever their order.
LEMMA ExpiredTimers ==
    ASSUME timers \subseteq Tasks, NEW expired \in timers_reify
    PROVE  /\ expired \in Seq(Watcher)
           /\ \A i \in DOMAIN expired : expired[i][1] \in timers /\ expired[i][2] = "TIMEOUT"
<1>1. PICK S \in SUBSET timers : expired \in SetToSeqs({Timeout(t) : t \in S})
  BY Zenon DEF timers_reify
<1> DEFINE W == {Timeout(t) : t \in S}
<1>2. IsFiniteSet(W)
  <2>1. IsFiniteSet(Tasks)
    BY TaskAssumption, FS_Interval DEF Tasks
  <2>2. IsFiniteSet(Tasks \X {"TIMEOUT"})
    BY <2>1, FS_Singleton, FS_Product
  <2>3. W \subseteq Tasks \X {"TIMEOUT"}
    BY DEF Timeout
  <2> QED
    BY <2>2, <2>3, FS_Subset
<1>3. expired \in [1 .. Cardinality(W) -> W] /\ Cardinality(W) \in Nat
  BY <1>1, <1>2, FS_CardinalityType DEF SetToSeqs
<1>4. W \subseteq Watcher /\ \A w \in W : w[1] \in timers /\ w[2] = "TIMEOUT"
  BY DEF Watcher, Timeout
<1> HIDE DEF W
<1>5. \A i \in 1 .. Cardinality(W) : expired[i] \in Watcher
  BY <1>3, <1>4
<1>6. expired \in Seq(Watcher)
  BY <1>3, <1>5, IsASeq
<1> QED
  BY <1>3, <1>4, <1>6

-------------------------------------------------------------------------------
(* What calls of src/task.c do to the invariant *)

\* A call leaves alone what belongs to the context and to the two threads.
CallsOnly == UNCHANGED <<polling, working, ctx>>

\* The frames a call on task t returns to: all of them, or none when the io
\* callback of t has just returned.
ReturnsTo(t, st) ==
    \/ st = stack
    \/ st = <<>> /\ \E k \in Kinds : stack = <<<<k, t>>>>

\* A list of pending events that a call starts from.
PendingList(pend) == pend \in Seq(Watcher \cup {Dummy}) /\ Sublist(pend, pendings)

\* Why task_finish is called: gs_task_cancel of a task that is active, or
\* GS_EOF from the callback of t.
Ends(t, r, st) ==
    \/ /\ task[t].active /\ ~task[t].cancel_once
       /\ r.cancel_once /\ r.cancelled
    \/ /\ st = <<>> /\ \E k \in Kinds : stack = <<<<k, t>>>>
       /\ r.cancel_once = task[t].cancel_once /\ r.cancelled = task[t].cancelled

\* Clearing and taking events away does not change the order of the others.
LEMMA ClearOrder ==
    ASSUME CallbackOrder, NEW pend, Sublist(pend, pendings), UNCHANGED order, NEW W,
           DOMAIN pendings' = DOMAIN pend,
           \A i \in DOMAIN pend : pendings'[i] = IF pend[i] \in W THEN Dummy ELSE pend[i]
    PROVE  CallbackOrder'
<1>0. Dummy[2] = "DUMMY" /\ Dummy[2] # "TIMEOUT" /\ Dummy[2] \notin Kinds
  BY Names DEF Dummy
<1>1. ASSUME NEW i \in DOMAIN pend, NEW j \in DOMAIN pend, i < j
      PROVE  \E k, l \in DOMAIN pendings : k < l /\ pend[i] = pendings[k] /\ pend[j] = pendings[l]
  BY <1>1 DEF Sublist
<1>2. TimeoutsFirst'
  <2> SUFFICES ASSUME NEW i \in DOMAIN pend, NEW j \in DOMAIN pend, i < j,
                      pendings'[i][2] = "TIMEOUT"
               PROVE  pendings'[j][2] \in {"TIMEOUT", "DUMMY"}
    BY DEF TimeoutsFirst
  <2>1. PICK k \in DOMAIN pendings, l \in DOMAIN pendings :
            k < l /\ pend[i] = pendings[k] /\ pend[j] = pendings[l]
    BY <1>1
  <2>2. pendings[k][2] = "TIMEOUT"
    BY <1>0, <2>1
  <2>3. pend[j][2] \in {"TIMEOUT", "DUMMY"}
    BY <2>1, <2>2 DEF CallbackOrder, TimeoutsFirst
  <2> QED
    BY <1>0, <2>3
<1>3. OldestFirst'
  <2> SUFFICES ASSUME NEW i \in DOMAIN pend, NEW j \in DOMAIN pend, i < j,
                      {pendings'[i][2], pendings'[j][2]} \subseteq Kinds
               PROVE  order[pendings'[i][1]] > order[pendings'[j][1]]
    BY DEF OldestFirst
  <2>1. PICK k \in DOMAIN pendings, l \in DOMAIN pendings :
            k < l /\ pend[i] = pendings[k] /\ pend[j] = pendings[l]
    BY <1>1
  <2>2. pendings'[i] = pendings[k] /\ pendings'[j] = pendings[l]
    BY <1>0, <2>1
  <2> QED
    BY <2>1, <2>2 DEF CallbackOrder, OldestFirst
<1> QED
  BY <1>2, <1>3 DEF CallbackOrder

\* task_finish keeps the invariant.
LEMMA FinishInv ==
    ASSUME IInv, NEW t \in Tasks, NEW r \in TaskRecord, NEW pend, NEW st,
           r.type = task[t].type, PendingList(pend), ReturnsTo(t, st), Ends(t, r, st),
           sending = None, CallsOnly, UNCHANGED writes,
           avail' = avail \/ (avail # <<>> /\ avail' = Tail(avail)),
           task_finish(t, r, pend, st)
    PROVE  IInv'
<1> DEFINE W == {<<t, r.type>>, Timeout(t)}  rd == [r EXCEPT !.done = TRUE]
<1>0. /\ TypeOK /\ ListInv /\ PendingInv /\ CallbackOrder
      /\ RunningTasksWatched /\ RunningInv /\ SendingInv /\ FrameInv /\ EndsInv
      /\ Distinct(avail)
  BY DEF IInv
<1>1. /\ rd \in TaskRecord /\ rd.done /\ rd.type = task[t].type
      /\ rd.active = r.active /\ rd.cancelled = r.cancelled
      /\ rd.cancel_once = r.cancel_once /\ rd.retcode = r.retcode
  <2>1. rd \in TaskRecord
    BY SetField, Zenon
  <2> QED
    BY <2>1 DEF TaskRecord
<1>2. /\ task' = [task EXCEPT ![t] = rd]
      /\ wlist' = RemoveFirst(wlist, <<t, r.type>>)
      /\ reify' = (reify \/ Contains(wlist, <<t, r.type>>))
      /\ timers' = timers \ {t}
      /\ pendings' = Clear(pend, W)
      /\ stack' = Append(st, <<"when_done", t>>)
      /\ ends' = [ends EXCEPT ![t] = @ + 1]
  BY Zenon DEF task_finish, ev_io_stop, ev_timer_stop
<1>3. UNCHANGED <<polling, working, sending, closing, freed, sends, order, writes>>
  BY DEF CallsOnly, ctx
<1> HIDE DEF rd, W
<1>4. task'[t] = rd /\ \A u \in Tasks : u # t => task'[u] = task[u]
  BY <1>0, <1>2 DEF TypeOK
<1>5. st \in Seq(Frame) /\ Len(st) \in Nat
  <2>1. CASE st = stack
    BY <1>0, <2>1 DEF TypeOK
  <2>2. CASE st = <<>>
    BY <2>2
  <2> QED
    BY <2>1, <2>2 DEF ReturnsTo
<1>6. /\ Len(stack') = Len(st) + 1 /\ DOMAIN stack' = 1 .. Len(st) + 1
      /\ stack'[Len(st) + 1] = <<"when_done", t>>
      /\ \A i \in 1 .. Len(st) : stack'[i] = st[i]
  BY <1>2, <1>5
<1>7. wlist' \in Seq(Watcher) /\ Sublist(wlist', wlist)
      /\ \A w : Contains(wlist, w) /\ w # <<t, r.type>> => Contains(wlist', w)
  <2>1. wlist \in Seq(Watcher)
    BY <1>0, Zenon DEF TypeOK
  <2>2. wlist' = RemoveFirst(wlist, <<t, r.type>>)
    BY <1>2, Zenon
  <2> QED
    BY <2>1, <2>2, RemoveFirstKeeps
<1>8. /\ pendings' \in Seq(Watcher \cup {Dummy}) /\ DOMAIN pendings' = DOMAIN pend
      /\ \A i \in DOMAIN pend : pendings'[i] = IF pend[i] \in W THEN Dummy ELSE pend[i]
  BY <1>2, ClearKeeps DEF PendingList
<1>9. /\ avail' \in Seq(Tasks)
      /\ \A u : Contains(avail', u) => Contains(avail, u)
      /\ Distinct(avail')
  <2>1. CASE avail' = avail
    BY <1>0, <2>1 DEF TypeOK
  <2>2. CASE avail # <<>> /\ avail' = Tail(avail)
    BY <1>0, <2>2, TailKeeps DEF TypeOK
  <2> QED
    BY <2>1, <2>2
<1>10. TypeOK'
  <2>1. task' \in [Tasks -> TaskRecord]
    BY <1>0, <1>1, <1>2 DEF TypeOK
  <2>2. stack' \in Seq(Frame)
    BY <1>2, <1>5 DEF Frame
  <2>3. ends' \in [Tasks -> Nat] /\ timers' \subseteq Tasks
    <3>1. ends \in [Tasks -> Nat] /\ timers \subseteq Tasks
      BY <1>0 DEF TypeOK
    <3> QED
      BY <1>2, <3>1
  <2>4. reify' \in BOOLEAN
    BY <1>0, <1>2 DEF TypeOK, Contains
  <2> QED
    BY <1>0, <1>3, <1>7, <1>8, <1>9, <2>1, <2>2, <2>3, <2>4 DEF TypeOK
<1>11. \A i \in DOMAIN wlist : wlist[i] \in Watcher /\ wlist[i][1] \in Tasks
  BY <1>0 DEF TypeOK, Watcher
<1>12. Distinct(wlist)
  <2>1. ASSUME NEW i \in DOMAIN wlist, NEW j \in DOMAIN wlist, i < j
        PROVE  order[wlist[i][1]] > order[wlist[j][1]] /\ order[wlist[j][1]] \in Nat
    BY <1>0, <1>11, <2>1 DEF ListInv, TypeOK
  <2>2. \A n \in Nat : ~(n > n)
    OBVIOUS
  <2> QED
    BY <2>1, <2>2 DEF Distinct
<1>13. \A i \in DOMAIN wlist' : wlist'[i] # <<t, r.type>>
  <2>1. ~Contains(wlist', <<t, r.type>>)
    BY <1>0, <1>2, <1>12, RemoveFirstKeeps DEF TypeOK
  <2> QED
    BY <1>7, <2>1 DEF Contains
<1>14. ListInv'
  BY <1>0, <1>3, <1>4, <1>7, <1>11, <1>13 DEF ListInv, Waiting, Running, Sublist, Watcher
<1>15. PendingInv'
  <2> SUFFICES ASSUME NEW i \in DOMAIN pendings', pendings'[i][2] \in Kinds
               PROVE  Waiting(pendings[i])'
    BY DEF PendingInv
  <2>1. pendings'[i] = pend[i] /\ pend[i] \notin W
    BY <1>8, Names DEF Dummy
  <2>2. PICK j \in DOMAIN pendings : pend[i] = pendings[j]
    BY <1>8 DEF PendingList, Sublist
  <2>3. Waiting(pendings[j]) /\ pendings[j] \in Watcher
    BY <1>0, <2>1, <2>2, Names DEF PendingInv, TypeOK, Dummy
  <2>4. pendings[j] # <<t, r.type>>
    BY <2>1, <2>2 DEF W
  <2>5. pendings[j][1] \in Tasks /\ pendings[j][1] # t
    BY <2>3, <2>4 DEF Waiting, Watcher
  <2> QED
    BY <1>3, <1>4, <2>1, <2>2, <2>3, <2>5 DEF Waiting, Running
<1>16. CallbackOrder'
  BY <1>0, <1>3, <1>8, ClearOrder DEF PendingList
<1>17. RunningTasksWatched'
  BY <1>0, <1>1, <1>3, <1>4, <1>7 DEF RunningTasksWatched, Io
<1>18. RunningInv'
  BY <1>0, <1>1, <1>4, <1>9 DEF RunningInv, Running
<1>19. SendingInv'
  BY <1>0, <1>3 DEF SendingInv
<1>20. FrameInv'
  <2>1. \A i \in DOMAIN stack' :
           \/ i = Len(st) + 1 /\ stack'[i] = <<"when_done", t>>
           \/ i \in DOMAIN stack /\ stack'[i] = stack[i] /\ st = stack
    BY <1>5, <1>6 DEF ReturnsTo
  <2>2. \A i \in DOMAIN stack : stack[i] \in Frame /\ stack[i][2] \in Tasks
    BY <1>0 DEF TypeOK, Frame
  <2>3. ASSUME NEW i \in DOMAIN stack', stack'[i][1] = "when_done"
        PROVE  task'[stack'[i][2]].done
    BY <1>0, <1>1, <1>4, <2>1, <2>2, <2>3 DEF FrameInv
  <2>4. ASSUME NEW i \in DOMAIN stack', stack'[i][1] \in Kinds
        PROVE  LET f == task'[stack'[i][2]]
               IN  /\ i = 1 /\ working' /\ stack'[i][1] = f.type
                   /\ IF f.done THEN f.cancel_once /\ f.cancelled ELSE f.active
    <3>1. i \in DOMAIN stack /\ stack'[i] = stack[i] /\ st = stack
      BY <2>1, <2>4, Names
    <3>2. CASE stack[i][2] # t
      BY <1>0, <1>3, <1>4, <2>2, <2>4, <3>1, <3>2 DEF FrameInv
    <3>3. CASE stack[i][2] = t
      <4>1. stack # <<>>
        BY <3>1
      <4>2. rd.cancel_once /\ rd.cancelled
        BY <1>1, <3>1, <4>1 DEF Ends
      <4> QED
        BY <1>0, <1>1, <1>3, <1>4, <2>4, <3>1, <3>3, <4>2 DEF FrameInv
    <3> QED
      BY <3>2, <3>3
  <2>5. ASSUME NEW u \in Tasks, task'[u].active, task'[u].done
        PROVE  Contains(stack', <<"when_done", u>>)
    <3>1. CASE u = t
      BY <1>5, <1>6, <3>1 DEF Contains
    <3>2. CASE u # t
      <4>1. PICK i \in 1 .. Len(stack) : stack[i] = <<"when_done", u>>
        BY <1>0, <1>4, <2>5, <3>2 DEF FrameInv, Contains
      <4>2. st = stack
        BY <4>1, Names DEF ReturnsTo
      <4> QED
        BY <1>5, <1>6, <4>1, <4>2 DEF Contains
    <3> QED
      BY <3>1, <3>2
  <2> QED
    BY <1>0, <1>3, <2>3, <2>4, <2>5 DEF FrameInv
<1>21. EndsInv'
  <2>1. ASSUME NEW u \in Tasks, ~InCallback(u)
        PROVE  ~InCallback(u)'
    BY <1>5, <1>6, <2>1, Names DEF InCallback, ReturnsTo
  <2>2. ASSUME NEW u \in Tasks, u # t
        PROVE  ends'[u] = ends[u] /\ task'[u] = task[u]
    BY <1>0, <1>2, <1>4, <2>2 DEF TypeOK
  <2>3. ends'[t] = ends[t] + 1 /\ ends[t] \in Nat
    BY <1>0, <1>2 DEF TypeOK
  <2>4. CASE task[t].active /\ ~task[t].cancel_once /\ r.cancel_once /\ r.cancelled
    <3>1. ~InCallback(t) \/ ~task[t].done
      BY <1>0, <2>4 DEF InCallback, FrameInv
    <3> QED
      <4>1. ends'[t] = 1 \/ (ends'[t] = 2 /\ ~InCallback(t)')
        BY <1>0, <2>1, <2>3, <2>4, <3>1 DEF EndsInv
      <4>2. task'[t].done /\ task'[t].cancel_once
        BY <1>1, <1>4, <2>4
      <4> QED
        BY <1>0, <2>1, <2>2, <4>1, <4>2, Zenon DEF EndsInv
  <2>5. CASE /\ st = <<>> /\ \E k \in Kinds : stack = <<<<k, t>>>>
             /\ r.cancel_once = task[t].cancel_once /\ r.cancelled = task[t].cancelled
    <3>1. InCallback(t)
      BY <2>5 DEF InCallback
    <3>2. ~InCallback(t)'
      BY <1>6, <2>5, Names DEF InCallback
    <3>3. task[t].done => task[t].cancel_once
      BY <1>0, <3>1 DEF InCallback, FrameInv
    <3> QED
      BY <1>0, <1>1, <1>4, <2>1, <2>2, <2>3, <2>5, <3>1, <3>2, <3>3 DEF EndsInv
  <2> QED
    BY <2>4, <2>5 DEF Ends
<1> QED
  BY <1>9, <1>10, <1>14, <1>15, <1>16, <1>17, <1>18, <1>19, <1>20, <1>21 DEF IInv

\* What may change of task t without a call of when_done_cb: nothing that
\* tells whether it runs; a task that is done does not get back what its
\* cancellation has set.
KeepsTask(t, r) ==
    LET old == task[t]
    IN  /\ r.type = old.type /\ r.done = old.done
        /\ r.done \/ r.active = old.active
        /\ Running(t) => /\ r.cancel_once = old.cancel_once
                         /\ r.cancelled = old.cancelled /\ r.retcode # "EOF"
        /\ old.cancel_once => r.cancel_once
        /\ old.cancelled => r.cancelled

\* The frames afterwards: each was there, or is the io callback of a running
\* task; the when_done_cb of an active task is not left.
KeepsFrames(t, r, st) ==
    /\ st \in Seq(Frame)
    /\ \A i \in DOMAIN st :
         \/ i \in DOMAIN stack /\ st[i] = stack[i]
         \/ /\ i = 1 /\ working /\ Running(st[i][2])
            /\ st[i][1] \in Kinds /\ st[i][1] = task[st[i][2]].type
    /\ \A u \in Tasks \ {t} :
         Contains(stack, <<"when_done", u>>) => Contains(st, <<"when_done", u>>)
    /\ r.active /\ r.done =>
         task[t].active /\ (Contains(stack, <<"when_done", t>>) => Contains(st, <<"when_done", t>>))

\* Keep keeps the invariant.
LEMMA KeepInv ==
    ASSUME IInv, NEW t \in Tasks, NEW r \in TaskRecord, NEW pend, NEW st,
           PendingList(pend), KeepsTask(t, r), KeepsFrames(t, r, st),
           sending = None, CallsOnly, UNCHANGED writes,
           avail' = avail \/ (avail # <<>> /\ avail' = Tail(avail)),
           Keep(t, r, pend, st)
    PROVE  IInv'
<1>0. /\ TypeOK /\ ListInv /\ PendingInv /\ CallbackOrder
      /\ RunningTasksWatched /\ RunningInv /\ SendingInv /\ FrameInv /\ EndsInv
      /\ Distinct(avail)
  BY DEF IInv
<1>1. /\ task' = [task EXCEPT ![t] = r]
      /\ pendings' = pend /\ stack' = st
      /\ UNCHANGED <<wlist, reify, timers, ends>>
  BY DEF Keep, libev
<1>2. UNCHANGED <<polling, working, sending, closing, freed, sends, order, writes>>
  BY DEF CallsOnly, ctx
<1>3. task'[t] = r /\ \A u \in Tasks : u # t => task'[u] = task[u]
  BY <1>0, <1>1 DEF TypeOK
<1>4. \A u \in Tasks : Running(u)' = Running(u) /\ task'[u].type = task[u].type
  BY <1>3, Zenon DEF KeepsTask, Running
<1>5. /\ avail' \in Seq(Tasks)
      /\ \A u : Contains(avail', u) => Contains(avail, u)
      /\ Distinct(avail')
  <2>1. CASE avail' = avail
    BY <1>0, <2>1 DEF TypeOK
  <2>2. CASE avail # <<>> /\ avail' = Tail(avail)
    BY <1>0, <2>2, TailKeeps DEF TypeOK
  <2> QED
    BY <2>1, <2>2
<1>6. TypeOK'
  <2>1. task' \in [Tasks -> TaskRecord]
    BY <1>0, <1>1 DEF TypeOK
  <2> QED
    BY <1>0, <1>1, <1>2, <1>5, <2>1 DEF TypeOK, PendingList, KeepsFrames
<1>7. \A w \in Watcher : Waiting(w) => Waiting(w)'
  BY <1>2, <1>4 DEF Waiting, Watcher
<1>8. ListInv'
  BY <1>0, <1>1, <1>2, <1>7 DEF ListInv, TypeOK
<1>9. PendingInv'
  <2> SUFFICES ASSUME NEW i \in DOMAIN pend, pend[i][2] \in Kinds
               PROVE  Waiting(pendings[i])'
    BY <1>1 DEF PendingInv
  <2>1. PICK j \in DOMAIN pendings : pend[i] = pendings[j]
    BY DEF PendingList, Sublist
  <2>2. Waiting(pendings[j]) /\ pendings[j] \in Watcher
    BY <1>0, <2>1, Names DEF PendingInv, TypeOK, Dummy
  <2>3. PICK w \in Watcher : w = pend[i] /\ Waiting(w)
    BY <2>1, <2>2
  <2>4. Waiting(w)' /\ pendings'[i] = w
    BY <1>1, <1>7, <2>3
  <2> QED
    BY <2>4 DEF Waiting, Running
<1>10. CallbackOrder'
  <2>1. PICK W : W = {}
    OBVIOUS
  <2>2. /\ DOMAIN pendings' = DOMAIN pend
        /\ \A i \in DOMAIN pend : pendings'[i] = IF pend[i] \in W THEN Dummy ELSE pend[i]
    BY <1>1, <2>1
  <2> QED
    BY <1>0, <1>2, <2>2, ClearOrder DEF PendingList
<1>11. RunningTasksWatched'
  BY <1>0, <1>1, <1>2, <1>4 DEF RunningTasksWatched, Io, Running
<1>12. RunningInv'
  BY <1>0, <1>3, <1>4, <1>5 DEF RunningInv, KeepsTask
<1>13. SendingInv'
  BY <1>2 DEF SendingInv
<1>14. FrameInv'
  <2>1. ASSUME NEW i \in DOMAIN st, st[i][1] = "when_done"
        PROVE  task'[st[i][2]].done
    <3>1. i \in DOMAIN stack /\ st[i] = stack[i] /\ st[i][2] \in Tasks
      BY <2>1, Names DEF KeepsFrames, Frame
    <3>2. task[st[i][2]].done
      BY <1>0, <2>1, <3>1 DEF FrameInv
    <3> QED
      BY <1>3, <3>1, <3>2 DEF KeepsTask
  <2>2. ASSUME NEW i \in DOMAIN st, st[i][1] \in Kinds
        PROVE  LET f == task'[st[i][2]]
               IN  /\ i = 1 /\ working' /\ st[i][1] = f.type
                   /\ IF f.done THEN f.cancel_once /\ f.cancelled ELSE f.active
    <3>1. st[i][2] \in Tasks
      BY DEF KeepsFrames, Frame
    <3>2. /\ i = 1 /\ working /\ st[i][1] = task[st[i][2]].type
          /\ IF task[st[i][2]].done
             THEN task[st[i][2]].cancel_once /\ task[st[i][2]].cancelled
             ELSE task[st[i][2]].active
      BY <1>0, <2>2 DEF KeepsFrames, FrameInv, Running
    <3> QED
      BY <1>2, <1>3, <3>1, <3>2 DEF KeepsTask
  <2>3. ASSUME NEW u \in Tasks, task'[u].active, task'[u].done
        PROVE  Contains(st, <<"when_done", u>>)
    BY <1>0, <1>3, <2>3 DEF FrameInv, KeepsFrames, KeepsTask
  <2> QED
    BY <1>0, <1>1, <1>2, <2>1, <2>2, <2>3 DEF FrameInv
<1>15. EndsInv'
  <2>1. ASSUME NEW u \in Tasks, task[u].done, ~InCallback(u)
        PROVE  ~InCallback(u)'
    BY <1>1, <2>1 DEF InCallback, KeepsFrames, Running
  <2>2. \A u \in Tasks : /\ task'[u].done = task[u].done
                         /\ task[u].cancel_once => task'[u].cancel_once
    BY <1>3 DEF KeepsTask
  <2> QED
    BY <1>0, <1>1, <2>1, <2>2, Zenon DEF EndsInv
<1> QED
  BY <1>5, <1>6, <1>8, <1>9, <1>10, <1>11, <1>12, <1>13, <1>14, <1>15 DEF IInv

\* gs_task_cancel keeps the invariant: r is task t as the caller left it.
LEMMA CancelInv ==
    ASSUME IInv, NEW t \in Tasks, NEW rc \in {"OK", "ERROR"}, NEW r, NEW pend, NEW st,
           r = task[t] \/ r = [task[t] EXCEPT !.retcode = rc],
           PendingList(pend), ReturnsTo(t, st),
           sending = None, CallsOnly, UNCHANGED writes,
           avail' = avail \/ (avail # <<>> /\ avail' = Tail(avail)),
           CancelTask(t, r, pend, st)
    PROVE  IInv'
<1> DEFINE once == [r EXCEPT !.cancel_once = TRUE]
           told == [once EXCEPT !.cancelled = TRUE]
<1>0. TypeOK /\ RunningInv /\ FrameInv
  BY DEF IInv
<1>1. task[t] \in TaskRecord
  BY <1>0 DEF TypeOK
<1>2. r \in TaskRecord
  BY <1>1, SetField, Zenon
<1>3. once \in TaskRecord
  BY <1>2, SetField, Zenon
<1>4. told \in TaskRecord
  BY <1>3, SetField, Zenon
<1>5. /\ r.type = task[t].type /\ r.active = task[t].active /\ r.done = task[t].done
      /\ r.cancel_once = task[t].cancel_once /\ r.cancelled = task[t].cancelled
      /\ r.retcode # "EOF" \/ r.retcode = task[t].retcode
  BY <1>1 DEF TaskRecord
<1>6. /\ once.type = r.type /\ once.active = r.active /\ once.done = r.done
      /\ once.cancel_once /\ once.cancelled = r.cancelled /\ once.retcode = r.retcode
  BY <1>2 DEF TaskRecord
<1>7. told.type = r.type /\ told.cancel_once /\ told.cancelled
  BY <1>2, <1>6 DEF TaskRecord
<1> HIDE DEF told, once
<1>8. CASE r.cancel_once \/ ~r.active
  <2>1. Keep(t, once, pend, st)
    BY <1>8, Zenon DEF CancelTask, once
  <2>2. ~Running(t)
    BY <1>0, <1>5, <1>8 DEF RunningInv, Running
  <2>3. KeepsTask(t, once)
    BY <1>5, <1>6, <2>2 DEF KeepsTask
  <2>4. KeepsFrames(t, once, st)
    <3>1. CASE st = stack
      BY <1>0, <1>5, <1>6, <3>1 DEF KeepsFrames, TypeOK
    <3>2. CASE st = <<>> /\ \E k \in Kinds : stack = <<<<k, t>>>>
      <4>1. \A u \in Tasks : ~Contains(stack, <<"when_done", u>>)
        BY <3>2, Names DEF Contains
      <4>2. st \in Seq(Frame) /\ DOMAIN st = {}
        BY <3>2
      <4>3. ~(once.active /\ once.done) \/ task[t].active
        BY <1>5, <1>6
      <4> QED
        BY <4>1, <4>2, <4>3 DEF KeepsFrames
    <3> QED
      BY <3>1, <3>2 DEF ReturnsTo
  <2> QED
    BY <1>3, <2>1, <2>3, <2>4, KeepInv
<1>9. CASE ~(r.cancel_once \/ ~r.active)
  <2>1. task_finish(t, told, pend, st)
    BY <1>9, Zenon DEF CancelTask, told, once
  <2>2. Ends(t, told, st) /\ told.type = task[t].type
    BY <1>5, <1>7, <1>9 DEF Ends
  <2> QED
    BY <1>4, <2>1, <2>2, FinishInv
<1> QED
  BY <1>8, <1>9

-------------------------------------------------------------------------------
(* Every step keeps the invariant *)

\* So does a step that only takes events from the pending ones or clears some,
\* starts or stops timers, or changes what the two threads are doing.
LEMMA EventsInv ==
    ASSUME IInv, pendings' \in Seq(Watcher \cup {Dummy}), timers' \subseteq Tasks,
           NEW pend, NEW W, PendingList(pend), DOMAIN pendings' = DOMAIN pend,
           \A i \in DOMAIN pend : pendings'[i] = IF pend[i] \in W THEN Dummy ELSE pend[i],
           stack' = stack \/ (stack' = <<>> /\ \E k \in Kinds, t \in Tasks : stack = <<<<k, t>>>>),
           writes' \in [Tasks -> 0 .. MaxWrites],
           UNCHANGED <<task, avail, wlist, reify, polling, working, ctx, ends>>
    PROVE  IInv'
<1>0. /\ TypeOK /\ ListInv /\ PendingInv /\ CallbackOrder
      /\ RunningTasksWatched /\ RunningInv /\ SendingInv /\ FrameInv /\ EndsInv
      /\ Distinct(avail)
  BY DEF IInv
<1>1. UNCHANGED <<sending, closing, freed, sends, order>>
  BY DEF ctx
<1>2. stack' \in Seq(Frame) /\ \A i \in DOMAIN stack' : stack' = stack
  <2>1. CASE stack' = stack
    BY <1>0, <2>1 DEF TypeOK
  <2>2. CASE stack' = <<>>
    BY <2>2
  <2> QED
    BY <2>1, <2>2
<1>3. TypeOK'
  BY <1>0, <1>1, <1>2 DEF TypeOK
<1>4. \A w \in Watcher : Waiting(w) => Waiting(w)'
  BY <1>1 DEF Waiting, Running
<1>5. ListInv'
  BY <1>0, <1>1, <1>4 DEF ListInv, TypeOK
<1>6. PendingInv'
  <2> SUFFICES ASSUME NEW i \in DOMAIN pend, pendings'[i][2] \in Kinds
               PROVE  Waiting(pendings[i])'
    BY DEF PendingInv
  <2>1. pendings'[i] = pend[i]
    BY Names DEF Dummy
  <2>2. PICK j \in DOMAIN pendings : pend[i] = pendings[j]
    BY DEF PendingList, Sublist
  <2>3. Waiting(pendings[j]) /\ pendings[j] \in Watcher
    BY <1>0, <2>1, <2>2, Names DEF PendingInv, TypeOK, Dummy
  <2>4. PICK w \in Watcher : w = pend[i] /\ Waiting(w)
    BY <2>2, <2>3
  <2>5. Waiting(w)' /\ pendings'[i] = w
    BY <1>4, <2>1, <2>4
  <2> QED
    BY <2>5 DEF Waiting, Running
<1>7. CallbackOrder'
  BY <1>0, <1>1, ClearOrder DEF PendingList
<1>8. RunningTasksWatched' /\ RunningInv'
  BY <1>0, <1>1, Zenon DEF RunningTasksWatched, RunningInv, Running, Io
<1>9. SendingInv'
  <2>1. stack = <<>> => stack' = <<>>
    OBVIOUS
  <2> QED
    BY <1>0, <1>1, <2>1 DEF SendingInv, Running
<1>10. FrameInv'
  <2>1. CASE stack' = stack
    BY <1>0, <1>1, <2>1, Zenon DEF FrameInv, Contains
  <2>2. CASE stack' = <<>> /\ \E k \in Kinds, t \in Tasks : stack = <<<<k, t>>>>
    <3>1. \A u \in Tasks : ~Contains(stack, <<"when_done", u>>)
      BY <2>2, Names DEF Contains
    <3>2. DOMAIN stack' = {}
      BY <2>2
    <3> QED
      BY <1>0, <1>1, <3>1, <3>2 DEF FrameInv
  <2> QED
    BY <2>1, <2>2
<1>11. EndsInv'
  <2>1. \A u \in Tasks : ~InCallback(u) => ~InCallback(u)'
    BY <1>2 DEF InCallback
  <2> QED
    BY <1>0, <2>1, Zenon DEF EndsInv
<1> QED
  BY <1>0, <1>3, <1>5, <1>6, <1>7, <1>8, <1>9, <1>10, <1>11 DEF IInv

\* When libev feeds events, they are queued in the order of CallbackOrder.
LEMMA FeedInv ==
    ASSUME IInv, feed
    PROVE  IInv'
<1>0. /\ TypeOK /\ ListInv /\ PendingInv /\ CallbackOrder
      /\ RunningTasksWatched /\ RunningInv /\ SendingInv /\ FrameInv /\ EndsInv
      /\ Distinct(avail)
  BY DEF IInv
<1>1. PICK ready \in SUBSET Kinds, expired \in timers_reify :
        pendings' = fd_event(ready) \o expired
  BY Zenon DEF feed, FeedOrder
<1>2. /\ polling' = FALSE
      /\ UNCHANGED <<task, avail, wlist, reify, timers, working, stack, sending, closing,
                     freed, sends, order, writes, ends>>
  BY DEF feed, libev, ctx
<1> DEFINE a == fd_event(ready)  b == expired
<1>3. a \in Seq(Watcher) /\ Sublist(a, wlist)
  <2>1. CASE reify
    <3>1. a = <<>>
      BY <2>1, Zenon DEF fd_event
    <3>2. DOMAIN a = {} /\ a \in Seq(Watcher)
      BY <3>1
    <3> QED
      BY <3>2 DEF Sublist
  <2>2. CASE ~reify
    BY <1>0, <2>2, QueuedInOrder DEF fd_event, TypeOK
  <2> QED
    BY <2>1, <2>2
<1>4. /\ b \in Seq(Watcher)
      /\ \A i \in DOMAIN b : b[i][1] \in timers /\ b[i][2] = "TIMEOUT"
  BY <1>0, ExpiredTimers DEF TypeOK
<1> HIDE DEF a, b
<1>5. /\ pendings' = a \o b /\ pendings' \in Seq(Watcher)
      /\ Len(a) \in Nat /\ Len(b) \in Nat
      /\ DOMAIN a = 1 .. Len(a) /\ DOMAIN b = 1 .. Len(b)
      /\ DOMAIN pendings' = 1 .. Len(a) + Len(b)
  BY <1>1, <1>3, <1>4 DEF a, b
<1>6. \A i \in 1 .. Len(a) : pendings'[i] = a[i]
  BY <1>3, <1>4, <1>5
<1>7. \A i \in Len(a) + 1 .. Len(a) + Len(b) : pendings'[i][2] = "TIMEOUT"
  <2> SUFFICES ASSUME NEW i \in Len(a) + 1 .. Len(a) + Len(b)
               PROVE  pendings'[i][2] = "TIMEOUT"
    OBVIOUS
  <2>1. i - Len(a) \in DOMAIN b /\ pendings'[i] = b[i - Len(a)]
    BY <1>3, <1>4, <1>5
  <2> QED
    BY <1>4, <2>1
<1>8. \A i \in DOMAIN pendings' :
         i \in 1 .. Len(a) \/ i \in Len(a) + 1 .. Len(a) + Len(b)
  BY <1>5
<1>9. \A i \in 1 .. Len(a) : pendings'[i][2] \in Kinds /\ Waiting(pendings'[i])
  <2> SUFFICES ASSUME NEW i \in 1 .. Len(a)
               PROVE  pendings'[i][2] \in Kinds /\ Waiting(pendings'[i])
    OBVIOUS
  <2>1. PICK j \in DOMAIN wlist : a[i] = wlist[j]
    BY <1>3, <1>5 DEF Sublist
  <2>2. Waiting(wlist[j]) /\ wlist[j] \in Watcher
    BY <1>0 DEF ListInv, TypeOK
  <2>3. task[wlist[j][1]].type \in Kinds
    BY <1>0, <2>2, Names DEF Waiting, Watcher, TypeOK, TaskRecord
  <2> QED
    BY <1>6, <2>1, <2>2, <2>3 DEF Waiting
<1>10. TypeOK'
  <2>1. pendings' \in Seq(Watcher \cup {Dummy})
    BY <1>5, SeqMonotonic
  <2>2. polling' \in BOOLEAN
    BY <1>2
  <2> QED
    BY <1>0, <1>2, <2>1, <2>2 DEF TypeOK
<1>11. PendingInv'
  BY <1>2, <1>7, <1>8, <1>9, Names DEF PendingInv, Waiting, Running
<1>12. TimeoutsFirst'
  <2> SUFFICES ASSUME NEW i \in DOMAIN pendings', NEW j \in DOMAIN pendings', i < j,
                      pendings'[i][2] = "TIMEOUT"
               PROVE  pendings'[j][2] = "TIMEOUT"
    BY DEF TimeoutsFirst
  <2>1. i \in Len(a) + 1 .. Len(a) + Len(b)
    BY <1>8, <1>9, Names
  <2>2. j \in Len(a) + 1 .. Len(a) + Len(b)
    BY <1>5, <2>1
  <2> QED
    BY <1>7, <2>2
<1>13. OldestFirst'
  <2> SUFFICES ASSUME NEW i \in DOMAIN pendings', NEW j \in DOMAIN pendings', i < j,
                      pendings'[i][2] \in Kinds, pendings'[j][2] \in Kinds
               PROVE  order[pendings'[i][1]] > order[pendings'[j][1]]
    BY <1>2 DEF OldestFirst
  <2>1. i \in DOMAIN a /\ j \in DOMAIN a
    BY <1>5, <1>7, <1>8, Names
  <2>2. PICK k \in DOMAIN wlist, l \in DOMAIN wlist : k < l /\ a[i] = wlist[k] /\ a[j] = wlist[l]
    BY <1>3, <2>1 DEF Sublist
  <2> QED
    BY <1>0, <1>5, <1>6, <2>1, <2>2 DEF ListInv
<1>14. ListInv' /\ RunningTasksWatched' /\ RunningInv' /\ SendingInv' /\ EndsInv'
  BY <1>0, <1>2 DEF ListInv, RunningTasksWatched, RunningInv, SendingInv, EndsInv, InCallback,
                    Waiting, Running, Io
<1>15. FrameInv' /\ Distinct(avail')
  BY <1>0, <1>2, Zenon DEF FrameInv
<1> QED
  BY <1>10, <1>11, <1>12, <1>13, <1>14, <1>15 DEF IInv, CallbackOrder

\* One turn of ev_invoke_pending.
LEMMA InvokeInv ==
    ASSUME IInv, ev_invoke_pending
    PROVE  IInv'
<1> DEFINE w == Last(pendings)  t == w[1]
<1>0. TypeOK /\ SendingInv /\ PendingInv
  BY DEF IInv
<1>1. working /\ stack = <<>> /\ pendings # <<>> /\ sending = None
  BY <1>0 DEF ev_invoke_pending, SendingInv
<1>2. UNCHANGED <<polling, working, ctx>> /\ UNCHANGED <<avail, writes>>
  BY DEF ev_invoke_pending
<1>3. /\ PendingList(Front(pendings)) /\ w \in Watcher \cup {Dummy}
      /\ Len(pendings) \in DOMAIN pendings /\ pendings[Len(pendings)] = w
  BY <1>0, <1>1, FrontKeeps DEF PendingList, TypeOK
<1> HIDE DEF w
<1>4. CASE w = Dummy /\ pendings' = Front(pendings) /\ UNCHANGED <<task, libev, stack, ends>>
  <2>1. PICK W : W = {}
    OBVIOUS
  <2>2. \A i \in DOMAIN pendings' :
           pendings'[i] = IF Front(pendings)[i] \in W THEN Dummy ELSE Front(pendings)[i]
    BY <1>4, <2>1
  <2>3. /\ pendings' \in Seq(Watcher \cup {Dummy}) /\ timers' \subseteq Tasks
        /\ writes' \in [Tasks -> 0 .. MaxWrites] /\ stack' = stack
        /\ UNCHANGED <<task, avail, wlist, reify, polling, working, ctx, ends>>
        /\ DOMAIN pendings' = DOMAIN Front(pendings)
    BY <1>0, <1>2, <1>3, <1>4 DEF TypeOK, PendingList, libev
  <2> QED
    BY <1>3, <1>4, <2>2, <2>3, EventsInv
<1>5. CASE w[2] = "TIMEOUT" /\ CancelTask(t, task[t], Front(pendings), stack)
  <2>1. t \in Tasks
    BY <1>3, <1>5 DEF Watcher, Dummy
  <2> QED
    BY <1>1, <1>2, <1>3, <1>5, <2>1, CancelInv DEF CallsOnly, ReturnsTo
<1>6. CASE w[2] \in {"SEND", "RECV"} /\ Keep(t, task[t], Front(pendings), <<<<w[2], t>>>>)
  <2>1. t \in Tasks /\ w[2] \in Kinds
    BY <1>3, <1>6 DEF Watcher, Dummy
  <2>2. Running(t) /\ w[2] = task[t].type
    BY <1>0, <1>3, <2>1 DEF PendingInv, Waiting
  <2>3. task[t] \in TaskRecord
    BY <1>0, <2>1 DEF TypeOK
  <2>4. KeepsTask(t, task[t])
    BY <2>1, <2>2 DEF KeepsTask, RunningInv, IInv
  <2>5. KeepsFrames(t, task[t], <<<<w[2], t>>>>)
    <3>1. \A u : ~Contains(stack, <<"when_done", u>>)
      BY <1>1 DEF Contains
    <3>2. <<<<w[2], t>>>> \in Seq(Frame)
      BY <2>1 DEF Frame
    <3> QED
      BY <1>1, <2>1, <2>2, <3>1, <3>2 DEF KeepsFrames, Running
  <2> QED
    BY <1>1, <1>2, <1>3, <1>6, <2>1, <2>3, <2>4, <2>5, KeepInv DEF CallsOnly
<1> QED
  BY <1>4, <1>5, <1>6, Zenon DEF ev_invoke_pending, w

\* The frames of an io callback that returns.
LEMMA IoFrame ==
    ASSUME TypeOK, FrameInv, stack # <<>>, Last(stack)[1] \in {"SEND", "RECV"}
    PROVE  LET t == Last(stack)[2]
           IN  /\ t \in Tasks /\ Front(stack) = <<>>
               /\ \E k \in Kinds : stack = <<<<k, t>>>>
               /\ IF task[t].done THEN task[t].cancel_once /\ task[t].cancelled
                                  ELSE task[t].active
<1> DEFINE n == Len(stack)
<1>1. /\ n \in DOMAIN stack /\ stack[n] = Last(stack) /\ Last(stack) \in Frame
      /\ stack \in Seq(Frame)
  BY FrontKeeps DEF TypeOK
<1>2. Last(stack)[1] \in Kinds /\ Last(stack)[2] \in Tasks
  BY <1>1 DEF Frame
<1>3. n = 1
  BY <1>1, <1>2 DEF FrameInv
<1>4. Last(stack) = <<Last(stack)[1], Last(stack)[2]>>
  BY <1>1 DEF Frame
<1>5. stack = <<Last(stack)>>
  BY <1>1, <1>3
<1>6. Front(stack) = <<>>
  BY <1>1, <1>3 DEF Front
<1> QED
  BY <1>1, <1>2, <1>4, <1>5, <1>6 DEF FrameInv

\* write_cb and read_cb after the user's callback.
LEMMA ReturnInv ==
    ASSUME IInv, NEW rc \in {"OK", "EOF", "ERROR"}, io_return(rc)
    PROVE  IInv'
<1> DEFINE t == Last(stack)[2]  r == [task[t] EXCEPT !.retcode = rc]
<1>0. TypeOK /\ FrameInv /\ SendingInv
  BY DEF IInv
<1>1. stack # <<>> /\ Last(stack)[1] \in {"SEND", "RECV"}
  BY DEF io_return
<1>2. t \in Tasks /\ Front(stack) = <<>> /\ \E k \in Kinds : stack = <<<<k, t>>>>
  BY <1>0, <1>1, IoFrame
<1>3. sending = None /\ CallsOnly /\ UNCHANGED avail
  BY <1>0, <1>1 DEF SendingInv, io_return, CallsOnly
<1>4. PendingList(pendings) /\ ReturnsTo(t, <<>>)
  BY <1>0, <1>2, SublistItself DEF PendingList, ReturnsTo, TypeOK
<1>5. task[t] \in TaskRecord
  BY <1>0, <1>2 DEF TypeOK
<1>6. r \in TaskRecord
  BY <1>5, SetField, Zenon
<1>7. /\ r.type = task[t].type /\ r.cancel_once = task[t].cancel_once
      /\ r.cancelled = task[t].cancelled
  BY <1>5 DEF TaskRecord
<1> HIDE DEF t, r
<1>8. CASE /\ writes[t] < MaxWrites /\ TimerAgain(t, task[t].timed, pendings)
           /\ stack' = Front(stack)
           /\ writes' = [writes EXCEPT ![t] = @ + 1]
           /\ UNCHANGED <<task, wlist, reify, ends>>
  <2>1. timers' \subseteq Tasks /\ pendings' = Clear(pendings, {Timeout(t)})
    BY <1>0, <1>2, <1>8 DEF TimerAgain, TypeOK
  <2>2. writes' \in [Tasks -> 0 .. MaxWrites]
    BY <1>0, <1>2, <1>8, TaskAssumption DEF TypeOK
  <2>3. PICK W : W = {Timeout(t)}
    OBVIOUS
  <2>4. /\ pendings' \in Seq(Watcher \cup {Dummy}) /\ DOMAIN pendings' = DOMAIN pendings
        /\ \A i \in DOMAIN pendings :
             pendings'[i] = IF pendings[i] \in W THEN Dummy ELSE pendings[i]
    <3>1. pendings \in Seq(Watcher \cup {Dummy}) /\ pendings' = Clear(pendings, W)
      BY <1>0, <2>1, <2>3 DEF TypeOK
    <3> QED
      BY <3>1, ClearKeeps
  <2> QED
    BY <1>2, <1>3, <1>4, <1>8, <2>1, <2>2, <2>4, EventsInv DEF CallsOnly
<1>9. CASE rc = "EOF" /\ task_finish(t, r, pendings, Front(stack)) /\ UNCHANGED writes
  <2>1. Ends(t, r, <<>>)
    BY <1>2, <1>7 DEF Ends
  <2> QED
    BY <1>2, <1>3, <1>4, <1>6, <1>7, <1>9, <2>1, FinishInv
<1>10. CASE rc = "ERROR" /\ CancelTask(t, r, pendings, Front(stack)) /\ UNCHANGED writes
  BY <1>2, <1>3, <1>4, <1>10, CancelInv DEF r
<1> QED
  BY <1>8, <1>9, <1>10, Zenon DEF io_return, t, r

\* The end of task_finish.
LEMMA DoneInv ==
    ASSUME IInv, when_done_return
    PROVE  IInv'
<1> DEFINE t == Last(stack)[2]  r == [task[t] EXCEPT !.active = FALSE]
<1>0. TypeOK /\ FrameInv /\ SendingInv
  BY DEF IInv
<1>1. stack # <<>> /\ Last(stack)[1] = "when_done"
  BY DEF when_done_return
<1>2. /\ Front(stack) \in Seq(Frame) /\ Last(stack) \in Frame
      /\ Len(stack) \in DOMAIN stack /\ stack[Len(stack)] = Last(stack)
      /\ \A i \in DOMAIN Front(stack) : i \in DOMAIN stack /\ Front(stack)[i] = stack[i]
      /\ \A x : Contains(stack, x) /\ x # Last(stack) => Contains(Front(stack), x)
  BY <1>0, <1>1, FrontKeeps DEF TypeOK
<1>3. t \in Tasks
  BY <1>2 DEF Frame
<1>4. task[t].done
  BY <1>0, <1>1, <1>2 DEF FrameInv
<1>5. task[t] \in TaskRecord
  BY <1>0, <1>3 DEF TypeOK
<1>6. r \in TaskRecord
  BY <1>5, SetField, Zenon
<1>7. /\ r.type = task[t].type /\ r.done = task[t].done /\ ~r.active
      /\ r.cancel_once = task[t].cancel_once /\ r.cancelled = task[t].cancelled
  BY <1>5 DEF TaskRecord
<1>8. sending = None /\ CallsOnly /\ UNCHANGED <<avail, writes>>
  BY <1>0, <1>1 DEF SendingInv, when_done_return, CallsOnly
<1>9. Keep(t, r, pendings, Front(stack))
  BY Zenon DEF when_done_return
<1>10. PendingList(pendings)
  BY <1>0, SublistItself DEF PendingList, TypeOK
<1> HIDE DEF r
<1>11. KeepsTask(t, r)
  BY <1>4, <1>7 DEF KeepsTask, Running
<1>12. KeepsFrames(t, r, Front(stack))
  <2>1. \A u \in Tasks \ {t} : <<"when_done", u>> # Last(stack)
    OBVIOUS
  <2> HIDE DEF t
  <2> QED
    BY <1>2, <1>7, <2>1 DEF KeepsFrames
<1> QED
  BY <1>3, <1>6, <1>8, <1>9, <1>10, <1>11, <1>12, KeepInv

\* gs_ctx_send hands out a task of which libev knows nothing.
LEMMA SendInv ==
    ASSUME IInv, NEW kind \in Kinds, NEW timed \in BOOLEAN, gs_ctx_send(kind, timed)
    PROVE  IInv'
<1> DEFINE t == Head(avail)  r == gs_task_reset(t, kind, timed)  W == {Timeout(t)}
<1>0. /\ TypeOK /\ ListInv /\ PendingInv /\ CallbackOrder
      /\ RunningTasksWatched /\ RunningInv /\ SendingInv /\ FrameInv /\ EndsInv
      /\ Distinct(avail)
  BY DEF IInv
<1>1. /\ stack = <<>> /\ ~working /\ sending = None /\ ~closing
      /\ avail # <<>> /\ sends < MaxSends
  BY DEF gs_ctx_send, TopLevel
<1>2. /\ task' = [task EXCEPT ![t] = r] /\ sending' = t
      /\ order' = [order EXCEPT ![t] = sends]
      /\ writes' = [writes EXCEPT ![t] = 0]
      /\ ends' = [ends EXCEPT ![t] = 0]
      /\ avail' = Tail(avail) /\ sends' = sends + 1
      /\ UNCHANGED <<wlist, reify, polling, working, stack, closing, freed>>
      /\ TimerAgain(t, timed, pendings)
  BY DEF gs_ctx_send
<1>3. /\ t \in Tasks /\ Contains(avail, t) /\ Tail(avail) \in Seq(Tasks)
      /\ \A x : Contains(Tail(avail), x) => Contains(avail, x)
      /\ Distinct(Tail(avail)) /\ ~Contains(Tail(avail), t)
  BY <1>0, <1>1, TailKeeps DEF TypeOK
<1>4. /\ r.type = kind /\ r.active /\ ~r.done
      /\ ~r.cancel_once /\ ~r.cancelled /\ r.retcode = "OK"
  BY ResetRecord, Zenon
<1>5. r \in TaskRecord
  BY ResetRecord, Zenon
<1>6. pendings' = Clear(pendings, W) /\ timers' \subseteq Tasks
  BY <1>0, <1>2, <1>3 DEF TimerAgain, TypeOK
<1>7. sends \in Nat /\ sends + 1 \in 0 .. MaxSends /\ order \in [Tasks -> Nat]
  BY <1>0, <1>1, TaskAssumption DEF TypeOK
<1> HIDE DEF t, r, W
<1>8. /\ task'[t] = r /\ order'[t] = sends /\ ends'[t] = 0
      /\ \A u \in Tasks : u # t =>
           task'[u] = task[u] /\ order'[u] = order[u] /\ ends'[u] = ends[u]
  BY <1>0, <1>2, <1>3 DEF TypeOK
<1>9. /\ pendings' \in Seq(Watcher \cup {Dummy}) /\ DOMAIN pendings' = DOMAIN pendings
      /\ \A i \in DOMAIN pendings : pendings'[i] = IF pendings[i] \in W THEN Dummy ELSE pendings[i]
  <2>1. pendings \in Seq(Watcher \cup {Dummy})
    BY <1>0 DEF TypeOK
  <2> QED
    BY <1>6, <2>1, ClearKeeps
<1>10. ~Running(t)
  BY <1>0, <1>3 DEF RunningInv
<1>11. TypeOK'
  <2>1. /\ task' \in [Tasks -> TaskRecord] /\ order' \in [Tasks -> Nat]
        /\ ends' \in [Tasks -> Nat] /\ writes' \in [Tasks -> 0 .. MaxWrites]
    <3>1. /\ task \in [Tasks -> TaskRecord] /\ ends \in [Tasks -> Nat]
          /\ writes \in [Tasks -> 0 .. MaxWrites] /\ 0 \in 0 .. MaxWrites
      BY <1>0, TaskAssumption DEF TypeOK
    <3> QED
      BY <1>2, <1>5, <1>7, <3>1
  <2> QED
    BY <1>0, <1>2, <1>3, <1>6, <1>7, <1>9, <2>1 DEF TypeOK
<1>12. \A w \in Watcher : Waiting(w) =>
          /\ w[1] \in Tasks /\ w[1] # t /\ Waiting(w)'
          /\ order'[w[1]] = order[w[1]] /\ order[w[1]] < sends
  BY <1>2, <1>7, <1>8, <1>10 DEF Waiting, Running, Watcher
<1>13. \A i \in DOMAIN wlist : wlist[i] \in Watcher /\ Waiting(wlist[i])
  BY <1>0 DEF ListInv, TypeOK
<1>14. ListInv'
  BY <1>0, <1>2, <1>12, <1>13 DEF ListInv, Waiting, Running
<1>15. \A i \in DOMAIN pendings' : pendings'[i][2] \in Kinds =>
          /\ pendings'[i] = pendings[i] /\ pendings[i] \in Watcher /\ Waiting(pendings[i])
  <2> SUFFICES ASSUME NEW i \in DOMAIN pendings, pendings'[i][2] \in Kinds
               PROVE  /\ pendings'[i] = pendings[i] /\ pendings[i] \in Watcher
                      /\ Waiting(pendings[i])
    BY <1>9
  <2>1. pendings'[i] = pendings[i]
    BY <1>9, Names DEF Dummy
  <2> QED
    BY <1>0, <2>1, Names DEF PendingInv, TypeOK, Dummy
<1>16. PendingInv'
  <2> SUFFICES ASSUME NEW i \in DOMAIN pendings', pendings'[i][2] \in Kinds
               PROVE  Waiting(pendings[i])'
    BY DEF PendingInv
  <2>1. PICK w \in Watcher : w = pendings[i] /\ Waiting(w) /\ pendings'[i] = w
    BY <1>15
  <2>2. Waiting(w)' /\ pendings'[i] = w
    BY <1>12, <2>1
  <2> QED
    BY <2>2 DEF Waiting, Running
<1>17. TimeoutsFirst'
  <2> SUFFICES ASSUME NEW i \in DOMAIN pendings, NEW j \in DOMAIN pendings, i < j,
                      pendings'[i][2] = "TIMEOUT"
               PROVE  pendings'[j][2] \in {"TIMEOUT", "DUMMY"}
    BY <1>9 DEF TimeoutsFirst
  <2>1. pendings[i][2] = "TIMEOUT"
    BY <1>9 DEF Dummy
  <2>2. pendings[j][2] \in {"TIMEOUT", "DUMMY"}
    BY <1>0, <2>1 DEF CallbackOrder, TimeoutsFirst
  <2> QED
    BY <1>9, <2>2 DEF Dummy
<1>18. OldestFirst'
  <2> SUFFICES ASSUME NEW i \in DOMAIN pendings', NEW j \in DOMAIN pendings', i < j,
                      pendings'[i][2] \in Kinds, pendings'[j][2] \in Kinds
               PROVE  order'[pendings'[i][1]] > order'[pendings'[j][1]]
    BY DEF OldestFirst
  <2>1. order[pendings[i][1]] > order[pendings[j][1]]
    BY <1>0, <1>9, <1>15 DEF CallbackOrder, OldestFirst
  <2> QED
    BY <1>12, <1>15, <2>1
<1>19. RunningTasksWatched'
  <2> SUFFICES ASSUME NEW u \in Tasks, task'[u].active, ~task'[u].done
               PROVE  Contains(wlist', <<u, task'[u].type>>) \/ sending' = u
    BY DEF RunningTasksWatched, Io
  <2>1. CASE u = t
    BY <1>2, <2>1
  <2>2. CASE u # t
    <3>1. Contains(wlist, <<u, task[u].type>>)
      BY <1>0, <1>1, <1>8, <2>2, Names DEF RunningTasksWatched, Io
    <3> QED
      BY <1>2, <1>8, <2>2, <3>1
  <2> QED
    BY <2>1, <2>2
<1>20. RunningInv'
  BY <1>0, <1>2, <1>3, <1>4, <1>8 DEF RunningInv, Running
<1>21. SendingInv'
  BY <1>1, <1>2, <1>4, <1>7, <1>8, <1>12, <1>13 DEF SendingInv, Running
<1>22. FrameInv'
  <2>1. \A u \in Tasks : ~(task[u].active /\ task[u].done)
    BY <1>0, <1>1 DEF FrameInv, Contains
  <2>2. DOMAIN stack' = {}
    BY <1>1, <1>2
  <2> QED
    BY <1>0, <1>2, <1>4, <1>8, <2>1, <2>2 DEF FrameInv
<1>23. EndsInv'
  <2>1. \A u \in Tasks : ~InCallback(u)'
    BY <1>1, <1>2 DEF InCallback
  <2> QED
    BY <1>0, <1>4, <1>8, <2>1 DEF EndsInv
<1> QED
  BY <1>2, <1>3, <1>11, <1>14, <1>16, <1>17, <1>18, <1>19, <1>20, <1>21, <1>22, <1>23
     DEF IInv, CallbackOrder

\* gs_task_start puts the newest task first.
LEMMA StartInv ==
    ASSUME IInv, gs_task_start
    PROVE  IInv'
<1> DEFINE t == sending  w == Io(t)
<1>0. /\ TypeOK /\ ListInv /\ PendingInv /\ CallbackOrder
      /\ RunningTasksWatched /\ RunningInv /\ SendingInv /\ FrameInv /\ EndsInv
      /\ Distinct(avail)
  BY DEF IInv
<1>1. /\ t \in Tasks /\ Running(t) /\ task[t].type \in Kinds /\ order[t] < sends
      /\ \A i \in DOMAIN wlist : order[wlist[i][1]] < order[t]
  BY <1>0 DEF gs_task_start, SendingInv, TypeOK
<1>2. /\ sending' = None
      /\ UNCHANGED <<task, avail, timers, pendings, polling, working, stack, closing, freed,
                     sends, order, writes, ends>>
  BY DEF gs_task_start, libev
<1>3. w = <<t, task[t].type>> /\ w \in Watcher /\ w[1] = t /\ w[2] = task[t].type
  BY <1>1 DEF Io, Watcher
<1>4. \A v \in Watcher : Waiting(v) => Waiting(v)'
  BY <1>2 DEF Waiting, Running
<1>5. Waiting(w)
  BY <1>1, <1>3 DEF Waiting
<1>6. \/ Contains(wlist, w) /\ wlist' = wlist /\ reify' = reify
      \/ ~Contains(wlist, w) /\ wlist' = <<w>> \o wlist /\ reify' = TRUE
  BY Zenon DEF gs_task_start, wlist_add, libev
<1> HIDE DEF w
<1>7. /\ wlist' \in Seq(Watcher) /\ reify' \in BOOLEAN
      /\ Contains(wlist', w)
      /\ \A v : Contains(wlist, v) => Contains(wlist', v)
      /\ \A i \in DOMAIN wlist' : wlist'[i] \in Watcher /\ Waiting(wlist'[i])
      /\ \A i, j \in DOMAIN wlist' : i < j => order[wlist'[i][1]] > order[wlist'[j][1]]
  <2>1. CASE Contains(wlist, w) /\ wlist' = wlist /\ reify' = reify
    BY <1>0, <2>1 DEF TypeOK, ListInv
  <2>2. CASE wlist' = <<w>> \o wlist /\ reify' = TRUE
    <3>1. /\ wlist \in Seq(Watcher) /\ Len(wlist) \in Nat
          /\ DOMAIN wlist = 1 .. Len(wlist)
      BY <1>0 DEF TypeOK
    <3>2. /\ wlist' \in Seq(Watcher) /\ Len(wlist') = Len(wlist) + 1
          /\ DOMAIN wlist' = 1 .. Len(wlist) + 1
          /\ wlist'[1] = w
      BY <1>3, <2>2, <3>1
    <3>3. \A i \in 1 .. Len(wlist) : wlist'[i + 1] = wlist[i]
      BY <1>3, <2>2, <3>1
    <3>4. \A i \in DOMAIN wlist' :
             i = 1 \/ (i - 1 \in DOMAIN wlist /\ wlist'[i] = wlist[i - 1])
      <4> SUFFICES ASSUME NEW i \in DOMAIN wlist', i # 1
                   PROVE  i - 1 \in DOMAIN wlist /\ wlist'[i] = wlist[i - 1]
        OBVIOUS
      <4>1. i - 1 \in 1 .. Len(wlist) /\ (i - 1) + 1 = i
        BY <3>1, <3>2
      <4>2. wlist'[(i - 1) + 1] = wlist[i - 1]
        BY <3>3, <4>1, Zenon
      <4> QED
        BY <3>1, <4>1, <4>2, Zenon
    <3>5. \A i \in DOMAIN wlist' : wlist'[i] \in Watcher /\ Waiting(wlist'[i])
      <4> SUFFICES ASSUME NEW i \in DOMAIN wlist'
                   PROVE  wlist'[i] \in Watcher /\ Waiting(wlist'[i])
        OBVIOUS
      <4>1. CASE i = 1
        BY <1>3, <1>5, <3>2, <4>1, Zenon
      <4>2. CASE i - 1 \in DOMAIN wlist /\ wlist'[i] = wlist[i - 1]
        BY <1>0, <3>1, <4>2 DEF ListInv
      <4> QED
        BY <3>4, <4>1, <4>2, Zenon
    <3>6. ASSUME NEW i \in DOMAIN wlist', NEW j \in DOMAIN wlist', i < j
          PROVE  order[wlist'[i][1]] > order[wlist'[j][1]]
      <4>1. j - 1 \in DOMAIN wlist /\ wlist'[j] = wlist[j - 1]
        BY <3>1, <3>2, <3>4, <3>6
      <4>2. CASE i = 1
        <5>1. order[wlist[j - 1][1]] < order[t] /\ order[t] \in Nat
          BY <1>0, <1>1, <4>1 DEF TypeOK
        <5>2. wlist[j - 1][1] \in Tasks
          BY <3>1, <4>1 DEF Watcher
        <5>3. order[wlist[j - 1][1]] \in Nat
          BY <1>0, <5>2 DEF TypeOK
        <5> QED
          BY <1>3, <3>2, <4>1, <4>2, <5>1, <5>3
      <4>3. CASE i # 1
        <5>1. i - 1 \in DOMAIN wlist /\ wlist'[i] = wlist[i - 1] /\ i - 1 < j - 1
          BY <3>1, <3>2, <3>4, <3>6, <4>3
        <5> QED
          BY <1>0, <4>1, <5>1 DEF ListInv
      <4> QED
        BY <4>2, <4>3
    <3>7. Contains(wlist', w)
      BY <3>1, <3>2 DEF Contains
    <3>8. ASSUME NEW v, Contains(wlist, v)
          PROVE  Contains(wlist', v)
      BY <3>1, <3>2, <3>3, <3>8 DEF Contains
    <3> QED
      BY <2>2, <3>2, <3>5, <3>6, <3>7, <3>8
  <2> QED
    BY <1>6, <2>1, <2>2
<1>8. TypeOK'
  BY <1>0, <1>2, <1>7 DEF TypeOK
<1>9. ListInv'
  BY <1>2, <1>7 DEF ListInv, Waiting, Running
<1>10. PendingInv'
  BY <1>0, <1>2 DEF PendingInv, Waiting, Running
<1>11. CallbackOrder'
  BY <1>0, <1>2, Zenon DEF CallbackOrder, TimeoutsFirst, OldestFirst
<1>12. RunningTasksWatched'
  BY <1>0, <1>2, <1>3, <1>7, Zenon DEF RunningTasksWatched, Io
<1>13. /\ RunningInv' /\ FrameInv'
       /\ EndsInv' /\ Distinct(avail')
  <2>1. RunningInv' /\ FrameInv'
    BY <1>0, <1>2, Zenon DEF RunningInv, Running, FrameInv, InCallback
  <2>2. EndsInv'
    BY <1>0, <1>2, Zenon DEF EndsInv, InCallback
  <2>3. Distinct(avail')
    BY <1>0, <1>2, Zenon
  <2> QED
    BY <2>1, <2>2, <2>3
<1>14. SendingInv'
  BY <1>2 DEF SendingInv
<1> QED
  BY <1>8, <1>9, <1>10, <1>11, <1>12, <1>13, <1>14 DEF IInv

\* gs_task_del gives back a task that is not in the queue.
LEMMA DelInv ==
    ASSUME IInv, NEW t \in Tasks, gs_task_del(t)
    PROVE  IInv'
<1>0. /\ TypeOK /\ ListInv /\ PendingInv /\ CallbackOrder
      /\ RunningTasksWatched /\ RunningInv /\ SendingInv /\ FrameInv /\ EndsInv
      /\ Distinct(avail)
  BY DEF IInv
<1>1. task[t].done /\ ~Contains(avail, t) /\ avail' = Append(avail, t)
  BY DEF gs_task_del, Held
<1>2. UNCHANGED <<task, wlist, reify, timers, pendings, polling, working, stack, sending,
                  closing, freed, sends, order, writes, ends>>
  BY DEF gs_task_del, libev, ctx
<1>3. /\ avail' \in Seq(Tasks) /\ Distinct(avail')
      /\ \A x : Contains(avail', x) <=> Contains(avail, x) \/ x = t
  BY <1>0, <1>1, AppendKeeps DEF TypeOK
<1>4. TypeOK'
  BY <1>0, <1>2, <1>3 DEF TypeOK
<1>5. RunningInv'
  BY <1>0, <1>1, <1>2, <1>3 DEF RunningInv, Running
<1>6. ListInv' /\ PendingInv' /\ SendingInv'
  BY <1>0, <1>2 DEF ListInv, PendingInv, SendingInv, Waiting, Running
<1>7. CallbackOrder' /\ RunningTasksWatched'
  BY <1>0, <1>2, Zenon DEF CallbackOrder, TimeoutsFirst, OldestFirst, RunningTasksWatched, Io
<1>8. FrameInv' /\ EndsInv'
  BY <1>0, <1>2, Zenon DEF FrameInv, EndsInv, InCallback
<1> QED
  BY <1>3, <1>4, <1>5, <1>6, <1>7, <1>8 DEF IInv

\* Steps of the two threads that move neither tasks nor watchers.
LEMMA ModesInv ==
    ASSUME IInv, poll \/ gs_work \/ work_done \/ gs_ctx_del \/ ctx_del_free
    PROVE  IInv'
<1>0. /\ TypeOK /\ ListInv /\ PendingInv /\ CallbackOrder
      /\ RunningTasksWatched /\ RunningInv /\ SendingInv /\ FrameInv /\ EndsInv
      /\ Distinct(avail)
  BY DEF IInv
<1>1. UNCHANGED <<task, avail, wlist, timers, pendings, stack, sending, sends, order,
                  writes, ends>>
  BY DEF poll, gs_work, work_done, gs_ctx_del, ctx_del_free, libev, ctx
<1>2. \A b \in {reify, polling, working, closing, freed}' : b \in BOOLEAN
  BY <1>0 DEF TypeOK, poll, gs_work, work_done, gs_ctx_del, ctx_del_free, libev, ctx
<1>3. /\ stack # <<>> => UNCHANGED working
      /\ working' => working \/ (sending = None /\ ~closing /\ closing' = closing)
      /\ closing' => closing \/ (stack = <<>> /\ ~working /\ sending = None /\ working' = working)
      /\ freed' => freed \/ closing
      /\ closing => closing'
      /\ sending # None /\ ~working => ~working'
      /\ sending # None /\ ~closing => ~closing'
  BY DEF poll, gs_work, work_done, gs_ctx_del, ctx_del_free, libev, ctx, TopLevel
<1>4. TypeOK'
  BY <1>0, <1>1, <1>2 DEF TypeOK
<1>5. ListInv' /\ PendingInv' /\ RunningInv' /\ Distinct(avail')
  BY <1>0, <1>1 DEF ListInv, PendingInv, RunningInv, Waiting, Running
<1>6. CallbackOrder' /\ RunningTasksWatched' /\ EndsInv'
  BY <1>0, <1>1, Zenon
     DEF CallbackOrder, TimeoutsFirst, OldestFirst, RunningTasksWatched, Io, EndsInv, InCallback
<1>7. SendingInv'
  BY <1>0, <1>1, <1>3 DEF SendingInv, Running
<1>8. FrameInv'
  <2>1. \A i \in DOMAIN stack : working' = working
    BY <1>3
  <2>2. working' => ~closing'
    BY <1>0, <1>3 DEF FrameInv
  <2>3. freed' => closing'
    BY <1>0, <1>3 DEF FrameInv
  <2>4. \A t \in Tasks : task'[t].active /\ task'[t].done => Contains(stack', <<"when_done", t>>)
    BY <1>0, <1>1, Zenon DEF FrameInv
  <2> QED
    BY <1>0, <1>1, <2>1, <2>2, <2>3, <2>4 DEF FrameInv
<1> QED
  BY <1>4, <1>5, <1>6, <1>7, <1>8 DEF IInv

\* Every step of every program keeps the invariant.
LEMMA IInvStep ==
    ASSUME IInv, [Next]_vars
    PROVE  IInv'
<1>0. TypeOK /\ SendingInv
  BY DEF IInv
<1>1. CASE poll \/ gs_work \/ work_done \/ gs_ctx_del \/ ctx_del_free
  BY <1>1, ModesInv
<1>2. CASE feed
  BY <1>2, FeedInv
<1>3. CASE ev_invoke_pending
  BY <1>3, InvokeInv
<1>4. CASE Return
  BY <1>4, ReturnInv, DoneInv DEF Return
<1>5. CASE \E kind \in Kinds, timed \in BOOLEAN : gs_ctx_send(kind, timed)
  BY <1>5, SendInv
<1>6. CASE gs_task_start
  BY <1>6, StartInv
<1>7. ASSUME NEW t \in Tasks, gs_task_cancel(t)
      PROVE  IInv'
  <2>1. /\ sending = None /\ UNCHANGED <<avail, polling, working, ctx, writes>>
        /\ CancelTask(t, task[t], pendings, stack)
    BY <1>0, <1>7 DEF gs_task_cancel, UserRuns, TopLevel, SendingInv
  <2>2. PendingList(pendings) /\ ReturnsTo(t, stack)
    BY <1>0, SublistItself DEF PendingList, ReturnsTo, TypeOK
  <2> QED
    BY <2>1, <2>2, CancelInv DEF CallsOnly
<1>8. ASSUME NEW t \in Tasks, gs_task_del(t)
      PROVE  IInv'
  BY <1>8, DelInv
<1>9. CASE ctx_del_cancel
  <2> DEFINE t == Head(avail)
  <2>1. /\ sending = None /\ UNCHANGED <<polling, working, ctx, writes>>
        /\ CancelTask(t, task[t], pendings, stack)
        /\ avail # <<>> /\ avail' = Tail(avail)
    BY <1>0, <1>9 DEF ctx_del_cancel, SendingInv
  <2>2. PendingList(pendings) /\ ReturnsTo(t, stack)
    BY <1>0, SublistItself DEF PendingList, ReturnsTo, TypeOK
  <2>3. t \in Tasks
    BY <1>0, <2>1, TailKeeps DEF TypeOK
  <2> HIDE DEF t
  <2> QED
    BY <2>1, <2>2, <2>3, CancelInv DEF CallsOnly
<1>10. CASE UNCHANGED vars
  <2>1. UNCHANGED <<task, avail, wlist, reify, timers, pendings, polling, working, stack,
                    sending, closing, freed, sends, order, writes, ends>>
    BY <1>10 DEF vars, libev, ctx
  <2>2. TypeOK' /\ ListInv' /\ PendingInv' /\ SendingInv'
    BY <2>1 DEF IInv, TypeOK, ListInv, PendingInv, SendingInv, Waiting, Running
  <2>3. CallbackOrder' /\ RunningTasksWatched'
    BY <2>1, Zenon DEF IInv, CallbackOrder, TimeoutsFirst, OldestFirst, RunningTasksWatched, Io
  <2>4. RunningInv' /\ FrameInv'
    BY <2>1, Zenon DEF IInv, RunningInv, Running, FrameInv, InCallback
  <2>5. EndsInv' /\ Distinct(avail')
    BY <2>1, Zenon DEF IInv, EndsInv, InCallback
  <2> QED
    BY <2>2, <2>3, <2>4, <2>5 DEF IInv
<1> QED
  BY <1>1, <1>2, <1>3, <1>4, <1>5, <1>6, <1>7, <1>8, <1>9, <1>10 DEF Next, Work, Terminated

\* gs_ctx_new.
LEMMA IInvInit ==
    ASSUME Init
    PROVE  IInv
<1>1. /\ \A t \in Tasks : task[t] = gs_task_init
      /\ avail = [i \in 1 .. NTasks |-> i]
      /\ wlist = <<>> /\ reify = FALSE /\ timers = {} /\ pendings = <<>>
      /\ polling = FALSE /\ working = FALSE /\ stack = <<>>
      /\ sending = None /\ closing = FALSE /\ freed = FALSE /\ sends = 0
      /\ \A t \in Tasks : order[t] = 0 /\ writes[t] = 0 /\ ends[t] = 0
  BY DEF Init
<1>2. /\ gs_task_init \in TaskRecord /\ ~gs_task_init.active /\ ~gs_task_init.done
  <2>1. \A b \in BOOLEAN :
          LET i == [type |-> "NOTSET", active |-> b, done |-> b, cancel_once |-> b,
                    cancelled |-> b, retcode |-> "OK", timed |-> b]
          IN  i \in TaskRecord /\ i.active = b /\ i.done = b
    BY DEF TaskRecord
  <2> QED
    BY <2>1, Zenon DEF gs_task_init
<1>3. avail \in Seq(Tasks) /\ Distinct(avail)
  <2>1. NTasks \in Nat /\ avail \in [1 .. NTasks -> Tasks]
    BY <1>1, TaskAssumption DEF Tasks
  <2>2. avail \in Seq(Tasks)
    BY <2>1, IsASeq
  <2> QED
    BY <1>1, <2>1, <2>2 DEF Distinct
<1>4. TypeOK
  <2>1. task \in [Tasks -> TaskRecord]
    BY <1>2 DEF Init
  <2>2. /\ order \in [Tasks -> Nat] /\ writes \in [Tasks -> 0 .. MaxWrites]
        /\ ends \in [Tasks -> Nat] /\ sends \in 0 .. MaxSends
    BY TaskAssumption DEF Init
  <2>3. /\ wlist \in Seq(Watcher) /\ pendings \in Seq(Watcher \cup {Dummy})
        /\ stack \in Seq(Frame)
    BY <1>1
  <2> QED
    BY <1>1, <1>3, <2>1, <2>2, <2>3 DEF TypeOK
<1>5. DOMAIN wlist = {} /\ DOMAIN pendings = {} /\ DOMAIN stack = {}
  BY <1>1
<1>6. ListInv /\ PendingInv /\ CallbackOrder /\ SendingInv
  BY <1>1, <1>5 DEF ListInv, PendingInv, CallbackOrder, TimeoutsFirst, OldestFirst, SendingInv
<1>7. RunningTasksWatched /\ RunningInv /\ FrameInv /\ EndsInv
  BY <1>1, <1>2, <1>5 DEF RunningTasksWatched, RunningInv, Running, FrameInv, EndsInv
<1> QED
  BY <1>3, <1>4, <1>6, <1>7 DEF IInv

\* What every program of gs can rely on.
THEOREM Inductive ==
    Spec => []IInv
BY IInvInit, IInvStep, PTL DEF Spec

-------------------------------------------------------------------------------
(* Theorems about every program *)

\* Every variable stays in its type.
THEOREM Types ==
    Spec => []TypeOK
<1>1. IInv => TypeOK
  BY DEF IInv
<1> QED
  BY <1>1, Inductive, PTL

\* Whatever the program does, libev never watches the socket for a task that
\* has ended.
THEOREM Sockets ==
    Spec => []SocketOfRunningTasks
<1>1. IInv => SocketOfRunningTasks
  BY DEF IInv, ListInv, Waiting, Running, SocketOfRunningTasks, ToSet
<1> QED
  BY <1>1, Inductive, PTL

\* Whatever the program does, its when_done_cb is called at most twice for a
\* task that it sent once.
THEOREM ToldTwice ==
    Spec => []EndsAtMostTwice
<1>1. ASSUME IInv, NEW t \in Tasks
      PROVE  ends[t] <= 2
  <2>1. ends[t] = 0 \/ ends[t] = 1 \/ ends[t] = 2
    BY <1>1 DEF IInv, EndsInv
  <2> QED
    BY <2>1
<1>2. IInv => EndsAtMostTwice
  BY <1>1, Zenon DEF EndsAtMostTwice
<1> QED
  BY <1>2, Inductive, PTL

\* A task that was started and has not ended is watched, or will be when its
\* start is complete.
THEOREM NotForgotten ==
    Spec => []RunningTasksWatched
<1>1. IInv => RunningTasksWatched
  BY DEF IInv
<1> QED
  BY <1>1, Inductive, PTL

\* One gs_work handles timeouts first, then writes and reads oldest first.
THEOREM Ordered ==
    Spec => []CallbackOrder
<1>1. IInv => CallbackOrder
  BY DEF IInv
<1> QED
  BY <1>1, Inductive, PTL

-------------------------------------------------------------------------------
(* What a careful program adds *)

\* A call that does not end a task keeps CareInv.
LEMMA KeepCare ==
    ASSUME IInv, CareInv, NEW t \in Tasks, NEW r \in TaskRecord, NEW pend, NEW st,
           PendingList(pend), KeepsTask(t, r), r.done => (r.cancelled <=> r.retcode # "EOF"),
           CallsOnly, Keep(t, r, pend, st)
    PROVE  CareInv'
<1>0. TypeOK
  BY DEF IInv
<1>1. /\ task' = [task EXCEPT ![t] = r] /\ pendings' = pend
      /\ UNCHANGED <<timers, ends, closing>>
  BY DEF Keep, libev, CallsOnly, ctx
<1>2. task'[t] = r /\ \A u \in Tasks : u # t => task'[u] = task[u]
  BY <1>0, <1>1 DEF TypeOK
<1>3. \A u \in Tasks : Running(u)' = Running(u) /\ task'[u].done = task[u].done
  BY <1>2, Zenon DEF KeepsTask, Running
<1>4. \A u \in timers' : Running(u)'
  BY <1>0, <1>1, <1>3 DEF CareInv, TypeOK
<1>5. ASSUME NEW i \in DOMAIN pend, pend[i][2] = "TIMEOUT"
      PROVE  Running(pend[i][1])'
  <2>1. PICK w \in Watcher : w = pend[i] /\ Running(w[1])
    BY <1>0, <1>5 DEF PendingList, Sublist, CareInv, TypeOK, Dummy
  <2>2. w[1] \in Tasks
    BY DEF Watcher
  <2> QED
    BY <1>3, <2>1, <2>2 DEF Running
<1>6. EndsOnce'
  BY <1>1, <1>3, Zenon DEF CareInv, EndsOnce
<1>7. OutcomeTold'
  BY <1>2, <1>3 DEF CareInv, OutcomeTold
<1>8. closing' => \A u \in Tasks : ~Running(u)'
  BY <1>1, <1>3 DEF CareInv
<1> QED
  BY <1>1, <1>4, <1>5, <1>6, <1>7, <1>8 DEF CareInv, Running

\* The first end of a task keeps CareInv: nothing is known of it any more.
LEMMA FinishCare ==
    ASSUME IInv, CareInv, NEW t \in Tasks, NEW r \in TaskRecord, NEW pend, NEW st,
           PendingList(pend), ~task[t].done, r.cancelled <=> r.retcode # "EOF",
           CallsOnly, task_finish(t, r, pend, st)
    PROVE  CareInv'
<1> DEFINE W == {<<t, r.type>>, Timeout(t)}  rd == [r EXCEPT !.done = TRUE]
<1>0. TypeOK
  BY DEF IInv
<1>1. rd \in TaskRecord /\ rd.done /\ rd.cancelled = r.cancelled /\ rd.retcode = r.retcode
  <2>1. rd \in TaskRecord
    BY SetField, Zenon
  <2> QED
    BY <2>1 DEF TaskRecord
<1>2. /\ task' = [task EXCEPT ![t] = rd] /\ timers' = timers \ {t}
      /\ pendings' = Clear(pend, W)
      /\ ends' = [ends EXCEPT ![t] = @ + 1]
  BY Zenon DEF task_finish, ev_timer_stop
<1>3. UNCHANGED closing
  BY DEF CallsOnly, ctx
<1> HIDE DEF rd, W
<1>4. task'[t] = rd /\ \A u \in Tasks : u # t => task'[u] = task[u]
  BY <1>0, <1>2 DEF TypeOK
<1>5. /\ DOMAIN pendings' = DOMAIN pend
      /\ \A i \in DOMAIN pend : pendings'[i] = IF pend[i] \in W THEN Dummy ELSE pend[i]
  BY <1>2, ClearKeeps DEF PendingList
<1>6. \A u \in timers' : Running(u)'
  BY <1>0, <1>2, <1>4 DEF CareInv, TypeOK, Running
<1>7. ASSUME NEW i \in DOMAIN pend, pendings'[i][2] = "TIMEOUT"
      PROVE  Running(pendings[i][1])'
  <2>1. pendings'[i] = pend[i] /\ pend[i] # Timeout(t)
    BY <1>5, <1>7 DEF Dummy, W
  <2>2. PICK w \in Watcher : w = pend[i] /\ Running(w[1])
    BY <1>0, <1>7, <2>1 DEF PendingList, Sublist, CareInv, TypeOK, Dummy
  <2>3. w[1] \in Tasks /\ w[1] # t
    BY <1>7, <2>1, <2>2 DEF Watcher, Timeout
  <2> QED
    BY <1>4, <2>1, <2>2, <2>3 DEF Running
<1>8. EndsOnce'
  <2>1. ends[t] = 0 /\ \A u \in Tasks : ends'[u] = IF u = t THEN ends[t] + 1 ELSE ends[u]
    BY <1>0, <1>2 DEF CareInv, EndsOnce, TypeOK
  <2> QED
    BY <1>1, <1>4, <2>1 DEF CareInv, EndsOnce
<1>9. OutcomeTold'
  BY <1>1, <1>4 DEF CareInv, OutcomeTold
<1>10. closing' => \A u \in Tasks : ~Running(u)'
  BY <1>1, <1>3, <1>4 DEF CareInv, Running
<1> QED
  BY <1>5, <1>6, <1>7, <1>8, <1>9, <1>10 DEF CareInv, Running

\* A cancellation keeps CareInv if a task that is done was cancelled before
\* or is no longer active.
LEMMA CancelCare ==
    ASSUME IInv, CareInv, NEW t \in Tasks, NEW r, NEW pend, NEW st,
           \/ r = task[t]
           \/ r = [task[t] EXCEPT !.retcode = "ERROR"] /\ (task[t].done => task[t].cancelled),
           task[t].done => task[t].cancel_once \/ ~task[t].active,
           PendingList(pend), CallsOnly, CancelTask(t, r, pend, st)
    PROVE  CareInv'
<1> DEFINE once == [r EXCEPT !.cancel_once = TRUE]
           told == [once EXCEPT !.cancelled = TRUE]
<1>0. TypeOK /\ RunningInv
  BY DEF IInv
<1>1. task[t] \in TaskRecord
  BY <1>0 DEF TypeOK
<1>2. r \in TaskRecord
  BY <1>1, SetField, Zenon
<1>3. once \in TaskRecord
  BY <1>2, SetField, Zenon
<1>4. told \in TaskRecord
  BY <1>3, SetField, Zenon
<1>5. /\ r.type = task[t].type /\ r.active = task[t].active /\ r.done = task[t].done
      /\ r.cancel_once = task[t].cancel_once /\ r.cancelled = task[t].cancelled
      /\ r.retcode = "ERROR" \/ r.retcode = task[t].retcode
      /\ r.done => (r.cancelled <=> r.retcode # "EOF")
  BY <1>1 DEF TaskRecord, CareInv, OutcomeTold
<1>6. /\ once.type = r.type /\ once.active = r.active /\ once.done = r.done
      /\ once.cancel_once /\ once.cancelled = r.cancelled /\ once.retcode = r.retcode
  BY <1>2 DEF TaskRecord
<1>7. told.cancelled /\ told.retcode = r.retcode
  BY <1>2, <1>6 DEF TaskRecord
<1> HIDE DEF told, once
<1>8. CASE r.cancel_once \/ ~r.active
  <2>1. Keep(t, once, pend, st)
    BY <1>8, Zenon DEF CancelTask, once
  <2>2. ~Running(t)
    BY <1>0, <1>5, <1>8 DEF RunningInv, Running
  <2>3. KeepsTask(t, once) /\ (once.done => (once.cancelled <=> once.retcode # "EOF"))
    BY <1>5, <1>6, <2>2 DEF KeepsTask
  <2> QED
    BY <1>3, <2>1, <2>3, KeepCare
<1>9. CASE ~(r.cancel_once \/ ~r.active)
  <2>1. task_finish(t, told, pend, st)
    BY <1>9, Zenon DEF CancelTask, told, once
  <2>2. Running(t) /\ ~task[t].done
    BY <1>5, <1>9 DEF Running
  <2>3. told.cancelled <=> told.retcode # "EOF"
    BY <1>0, <1>5, <1>7, <2>2 DEF RunningInv
  <2> QED
    BY <1>4, <2>1, <2>2, <2>3, FinishCare
<1> QED
  BY <1>8, <1>9

\* The steps of gs_work and of user callbacks that return.
LEMMA WorkCare ==
    ASSUME Careful, IInv, CareInv, ev_invoke_pending \/ Return
    PROVE  CareInv'
<1>0. TypeOK /\ FrameInv /\ RunningInv
  BY DEF IInv
<1>1. ASSUME ev_invoke_pending
      PROVE  CareInv'
  <2> DEFINE w == Last(pendings)  t == w[1]
  <2>1. CallsOnly /\ pendings # <<>>
    BY <1>1 DEF ev_invoke_pending, CallsOnly
  <2>2. /\ PendingList(Front(pendings)) /\ w \in Watcher \cup {Dummy}
        /\ Len(pendings) \in DOMAIN pendings /\ pendings[Len(pendings)] = w
    BY <1>0, <2>1, FrontKeeps DEF PendingList, TypeOK
  <2> HIDE DEF w
  <2>3. CASE w = Dummy /\ pendings' = Front(pendings) /\ UNCHANGED <<task, libev, stack, ends>>
    <3>1. UNCHANGED <<task, timers, ends, closing>>
      BY <2>1, <2>3 DEF libev, CallsOnly, ctx
    <3>2. ASSUME NEW i \in DOMAIN pendings', pendings'[i][2] = "TIMEOUT"
          PROVE  Running(pendings'[i][1])
      BY <2>2, <2>3, <3>2 DEF PendingList, Sublist, CareInv
    <3>3. EndsOnce' /\ OutcomeTold'
      BY <3>1, Zenon DEF CareInv, EndsOnce, OutcomeTold
    <3> QED
      BY <3>1, <3>2, <3>3 DEF CareInv, Running
  <2>4. CASE w[2] = "TIMEOUT" /\ CancelTask(t, task[t], Front(pendings), stack)
    <3>1. t \in Tasks
      BY <2>2, <2>4 DEF Watcher, Dummy
    <3>2. ~task[t].done
      BY <2>2, <2>4 DEF CareInv, Running
    <3> QED
      BY <2>1, <2>2, <2>4, <3>1, <3>2, CancelCare
  <2>5. CASE w[2] \in {"SEND", "RECV"} /\ Keep(t, task[t], Front(pendings), <<<<w[2], t>>>>)
    <3>1. t \in Tasks
      BY <2>2, <2>5 DEF Watcher, Dummy
    <3>2. task[t] \in TaskRecord /\ KeepsTask(t, task[t])
      BY <1>0, <3>1 DEF KeepsTask, RunningInv, TypeOK
    <3>3. task[t].done => (task[t].cancelled <=> task[t].retcode # "EOF")
      BY <3>1 DEF CareInv, OutcomeTold
    <3> QED
      BY <2>1, <2>2, <2>5, <3>1, <3>2, <3>3, KeepCare
  <2> QED
    BY <1>1, <2>3, <2>4, <2>5, Zenon DEF ev_invoke_pending, w
<1>2. ASSUME NEW rc \in {"OK", "EOF", "ERROR"}, io_return(rc)
      PROVE  CareInv'
  <2> DEFINE t == Last(stack)[2]  r == [task[t] EXCEPT !.retcode = rc]
  <2>1. stack # <<>> /\ Last(stack)[1] \in {"SEND", "RECV"} /\ CallsOnly
    BY <1>2 DEF io_return, CallsOnly
  <2>2. /\ t \in Tasks
        /\ IF task[t].done THEN task[t].cancel_once /\ task[t].cancelled ELSE task[t].active
    BY <1>0, <2>1, IoFrame
  <2>3. task[t] \in TaskRecord /\ PendingList(pendings)
    BY <1>0, <2>2, SublistItself DEF TypeOK, PendingList
  <2>4. r \in TaskRecord
    BY <2>3, SetField, Zenon
  <2>5. /\ r.cancelled = task[t].cancelled /\ r.retcode = rc
    BY <2>3 DEF TaskRecord
  <2>6. task[t].done => rc = "ERROR"
    BY <1>2 DEF io_return
  <2> HIDE DEF t, r
  <2>7. CASE /\ rc = "OK" /\ TimerAgain(t, task[t].timed, pendings)
             /\ UNCHANGED <<task, wlist, reify, ends>>
    <3>1. Running(t) /\ closing' = closing
      BY <2>1, <2>2, <2>6, <2>7 DEF Running, CallsOnly, ctx
    <3>2. timers' \subseteq timers \cup {t} /\ pendings' = Clear(pendings, {Timeout(t)})
      BY <2>7 DEF TimerAgain
    <3>3. /\ DOMAIN pendings' = DOMAIN pendings
          /\ \A i \in DOMAIN pendings :
               pendings'[i] = IF pendings[i] \in {Timeout(t)} THEN Dummy ELSE pendings[i]
      BY <2>3, <3>2, ClearKeeps DEF PendingList
    <3>4. \A i \in DOMAIN pendings' : pendings'[i][2] = "TIMEOUT" => Running(pendings'[i][1])
      BY <3>3 DEF CareInv, Dummy
    <3>5. EndsOnce' /\ OutcomeTold'
      BY <2>7, Zenon DEF CareInv, EndsOnce, OutcomeTold
    <3> QED
      BY <2>7, <3>1, <3>2, <3>4, <3>5 DEF CareInv, Running
  <2>8. CASE rc = "EOF" /\ task_finish(t, r, pendings, Front(stack))
    <3>1. ~task[t].done /\ Running(t)
      BY <2>2, <2>6, <2>8 DEF Running
    <3>2. r.cancelled <=> r.retcode # "EOF"
      BY <1>0, <2>2, <2>5, <2>8, <3>1 DEF RunningInv
    <3> QED
      BY <2>1, <2>2, <2>3, <2>4, <2>8, <3>1, <3>2, FinishCare
  <2>9. CASE rc = "ERROR" /\ CancelTask(t, r, pendings, Front(stack))
    <3>1. r = [task[t] EXCEPT !.retcode = "ERROR"]
      BY <2>9, Zenon DEF r
    <3> QED
      BY <2>1, <2>2, <2>3, <2>9, <3>1, CancelCare
  <2> QED
    BY <1>2, <2>7, <2>8, <2>9, Zenon DEF io_return, t, r
<1>3. ASSUME when_done_return
      PROVE  CareInv'
  <2> DEFINE t == Last(stack)[2]  r == [task[t] EXCEPT !.active = FALSE]
  <2>1. stack # <<>> /\ Last(stack)[1] = "when_done" /\ CallsOnly
    BY <1>3 DEF when_done_return, CallsOnly
  <2>2. Last(stack) \in Frame /\ Len(stack) \in DOMAIN stack /\ stack[Len(stack)] = Last(stack)
    BY <1>0, <2>1, FrontKeeps DEF TypeOK
  <2>3. t \in Tasks /\ task[t].done
    BY <1>0, <2>1, <2>2 DEF Frame, FrameInv
  <2>4. task[t] \in TaskRecord /\ PendingList(pendings)
    BY <1>0, <2>3, SublistItself DEF TypeOK, PendingList
  <2>5. r \in TaskRecord
    BY <2>4, SetField, Zenon
  <2>6. /\ r.type = task[t].type /\ r.done = task[t].done /\ r.retcode = task[t].retcode
        /\ r.cancel_once = task[t].cancel_once /\ r.cancelled = task[t].cancelled
    BY <2>4 DEF TaskRecord
  <2>7. Keep(t, r, pendings, Front(stack))
    BY <1>3, Zenon DEF when_done_return
  <2> HIDE DEF t, r
  <2>8. KeepsTask(t, r)
    BY <2>3, <2>6 DEF KeepsTask, Running
  <2>9. r.cancelled <=> r.retcode # "EOF"
    BY <2>3, <2>6 DEF CareInv, OutcomeTold
  <2> QED
    BY <2>1, <2>3, <2>4, <2>5, <2>7, <2>8, <2>9, KeepCare
<1> QED
  BY <1>1, <1>2, <1>3 DEF Return

\* The other steps.
LEMMA OtherCare ==
    ASSUME Careful, IInv, CareInv, [Next]_vars, ~ev_invoke_pending, ~Return
    PROVE  CareInv'
<1>0. TypeOK /\ RunningInv /\ FrameInv
  BY DEF IInv
<1>1. ASSUME UNCHANGED <<task, timers, pendings, ends>>,
             closing' => closing \/ \A t \in Tasks : ~Running(t)
      PROVE  CareInv'
  <2>1. EndsOnce' /\ OutcomeTold'
    BY <1>1, Zenon DEF CareInv, EndsOnce, OutcomeTold
  <2> QED
    BY <1>1, <2>1 DEF CareInv, Running
<1>2. CASE feed
  <2>1. PICK ready \in SUBSET Kinds, expired \in timers_reify :
          pendings' = fd_event(ready) \o expired
    BY <1>2, Zenon DEF feed, FeedOrder
  <2>2. UNCHANGED <<task, timers, ends, closing>>
    BY <1>2 DEF feed, libev, ctx
  <2>3. IInv'
    BY <1>2, FeedInv
  <2>4. /\ expired \in Seq(Watcher)
        /\ \A i \in DOMAIN expired : expired[i][1] \in timers
    BY <1>0, ExpiredTimers DEF TypeOK
  <2> DEFINE a == fd_event(ready)
  <2>5. /\ a \in Seq(Watcher)
        /\ \A i \in DOMAIN a : a[i][2] # "TIMEOUT"
    <3>1. CASE reify
      <4>1. a = <<>>
        BY <3>1, Zenon DEF fd_event
      <4> QED
        BY <4>1
    <3>2. CASE ~reify
      <4>1. a \in Seq(Watcher) /\ Sublist(a, wlist)
        BY <1>0, <3>2, QueuedInOrder DEF fd_event, TypeOK
      <4>2. \A i \in DOMAIN wlist : wlist[i][2] # "TIMEOUT"
        BY <1>0, Names DEF IInv, ListInv, Waiting, TypeOK, Watcher, TaskRecord
      <4> QED
        BY <4>1, <4>2 DEF Sublist
    <3> QED
      BY <3>1, <3>2
  <2> HIDE DEF a
  <2>6. /\ Len(a) \in Nat /\ Len(expired) \in Nat /\ DOMAIN a = 1 .. Len(a)
        /\ DOMAIN expired = 1 .. Len(expired)
        /\ DOMAIN pendings' = 1 .. Len(a) + Len(expired)
    BY <2>1, <2>4, <2>5 DEF a
  <2>7. ASSUME NEW i \in DOMAIN pendings', pendings'[i][2] = "TIMEOUT"
        PROVE  pendings'[i][1] \in timers
    <3>1. CASE i \in 1 .. Len(a)
      <4>1. pendings'[i] = a[i]
        BY <2>1, <2>4, <2>5, <2>6, <3>1 DEF a
      <4> QED
        BY <2>5, <2>6, <2>7, <3>1, <4>1
    <3>2. CASE i \notin 1 .. Len(a)
      <4>1. i - Len(a) \in DOMAIN expired /\ pendings'[i] = expired[i - Len(a)]
        BY <2>1, <2>4, <2>5, <2>6, <3>2 DEF a
      <4> QED
        BY <2>4, <4>1
    <3> QED
      BY <3>1, <3>2
  <2>8. EndsOnce' /\ OutcomeTold'
    BY <2>2, Zenon DEF CareInv, EndsOnce, OutcomeTold
  <2> QED
    BY <2>2, <2>7, <2>8 DEF CareInv, Running
<1>3. CASE gs_ctx_del
  <2>1. UNCHANGED <<task, timers, pendings, ends>>
    BY <1>3 DEF gs_ctx_del, libev
  <2>2. \A t \in Tasks : ~Running(t)
    BY <1>0, <1>3 DEF gs_ctx_del, RunningInv, Running
  <2> QED
    BY <1>1, <2>1, <2>2
<1>4. CASE \/ poll \/ gs_work \/ work_done \/ ctx_del_free \/ gs_task_start
           \/ (\E t \in Tasks : gs_task_del(t)) \/ UNCHANGED vars
  <2>1. UNCHANGED <<task, timers, pendings, ends, closing>>
    BY <1>4 DEF poll, gs_work, work_done, ctx_del_free, gs_task_start, gs_task_del, vars, libev,
                ctx
  <2> QED
    BY <1>1, <2>1
<1>5. ASSUME NEW kind \in Kinds, NEW timed \in BOOLEAN, gs_ctx_send(kind, timed)
      PROVE  CareInv'
  <2> DEFINE t == Head(avail)  r == gs_task_reset(t, kind, timed)
  <2>1. /\ task' = [task EXCEPT ![t] = r] /\ ends' = [ends EXCEPT ![t] = 0]
        /\ TimerAgain(t, timed, pendings) /\ ~closing /\ closing' = closing
        /\ avail # <<>>
    BY <1>5 DEF gs_ctx_send, TopLevel
  <2>2. t \in Tasks
    BY <1>0, <2>1, TailKeeps DEF TypeOK
  <2>3. r.active /\ ~r.done
    BY ResetRecord, Zenon
  <2>4. timers' \subseteq timers \cup {t} /\ pendings' = Clear(pendings, {Timeout(t)})
    BY <2>1 DEF TimerAgain
  <2> HIDE DEF t, r
  <2>5. /\ DOMAIN pendings' = DOMAIN pendings
        /\ \A i \in DOMAIN pendings :
             pendings'[i] = IF pendings[i] \in {Timeout(t)} THEN Dummy ELSE pendings[i]
    <3>1. pendings \in Seq(Watcher \cup {Dummy})
      BY <1>0 DEF TypeOK
    <3> QED
      BY <2>4, <3>1, ClearKeeps
  <2>6. /\ task'[t] = r /\ ends'[t] = 0
        /\ \A u \in Tasks : u # t => task'[u] = task[u] /\ ends'[u] = ends[u]
    BY <1>0, <2>1, <2>2 DEF TypeOK
  <2>7. ASSUME NEW i \in DOMAIN pendings', pendings'[i][2] = "TIMEOUT"
        PROVE  Running(pendings[i][1])'
    <3>1. pendings'[i] = pendings[i] /\ Running(pendings[i][1]) /\ pendings[i] \in Watcher
      BY <1>0, <2>5, <2>7 DEF CareInv, Dummy, TypeOK
    <3> QED
      BY <2>3, <2>6, <3>1 DEF Running, Watcher
  <2>8. EndsOnce' /\ OutcomeTold'
    BY <2>3, <2>6 DEF CareInv, EndsOnce, OutcomeTold
  <2>9. \A u \in timers' : Running(u)'
    BY <1>0, <2>3, <2>4, <2>6 DEF CareInv, Running, TypeOK
  <2> QED
    BY <2>1, <2>7, <2>8, <2>9 DEF CareInv, Running
<1>6. ASSUME NEW t \in Tasks, gs_task_cancel(t)
      PROVE  CareInv'
  <2>1. CallsOnly /\ CancelTask(t, task[t], pendings, stack) /\ ~task[t].done
    BY <1>6 DEF gs_task_cancel, CallsOnly
  <2>2. PendingList(pendings)
    BY <1>0, SublistItself DEF PendingList, TypeOK
  <2> QED
    BY <2>1, <2>2, CancelCare
<1>7. CASE ctx_del_cancel
  <2> DEFINE t == Head(avail)
  <2>1. /\ CallsOnly /\ CancelTask(t, task[t], pendings, stack)
        /\ avail # <<>> /\ stack = <<>>
    BY <1>7 DEF ctx_del_cancel, CallsOnly
  <2>2. PendingList(pendings)
    BY <1>0, SublistItself DEF PendingList, TypeOK
  <2>3. t \in Tasks
    BY <1>0, <2>1, TailKeeps DEF TypeOK
  <2> HIDE DEF t
  <2>4. task[t].done => ~task[t].active
    BY <1>0, <2>1, <2>3 DEF FrameInv, Contains
  <2> QED
    BY <2>1, <2>2, <2>3, <2>4, CancelCare
<1> QED
  BY <1>2, <1>3, <1>4, <1>5, <1>6, <1>7 DEF Next, Work, Terminated

\* What a careful program can rely on.
THEOREM CarefulInductive ==
    ASSUME Careful
    PROVE  Spec => [](IInv /\ CareInv)
<1>1. Init => IInv /\ CareInv
  <2>1. ASSUME Init
        PROVE  IInv /\ CareInv
    <3>1. \A t \in Tasks : task[t] = gs_task_init /\ ends[t] = 0
      BY <2>1 DEF Init
    <3>2. ~gs_task_init.done
      BY DEF gs_task_init
    <3>3. EndsOnce /\ OutcomeTold
      BY <3>1, <3>2 DEF EndsOnce, OutcomeTold
    <3>4. timers = {} /\ pendings = <<>> /\ closing = FALSE
      BY <2>1 DEF Init
    <3> QED
      BY <2>1, <3>3, <3>4, IInvInit DEF CareInv
  <2> QED
    BY <2>1
<1>2. IInv /\ CareInv /\ [Next]_vars => (IInv /\ CareInv)'
  BY IInvStep, WorkCare, OtherCare
<1> QED
  BY <1>1, <1>2, PTL DEF Spec

-------------------------------------------------------------------------------
(* Theorems about careful programs *)

\* libev knows of a task only between its start and its end.
THEOREM Known_Running ==
    ASSUME Careful
    PROVE  Spec => []WatchersOfRunningTasks
<1>1. ASSUME IInv, CareInv, NEW w \in Known
      PROVE  /\ task[w[1]].active /\ ~task[w[1]].done /\ ~Contains(avail, w[1])
             /\ w[2] \in {task[w[1]].type, "TIMEOUT"}
  <2>0. TypeOK /\ ListInv /\ PendingInv /\ RunningInv
    BY <1>1 DEF IInv
  <2>1. Running(w[1]) /\ w[1] \in Tasks /\ w[2] \in {task[w[1]].type, "TIMEOUT"}
    <3>1. CASE w \in ToSet(wlist)
      <4>1. wlist \in Seq(Watcher)
        BY <2>0, Zenon DEF TypeOK
      <4>2. PICK i \in DOMAIN wlist : w = wlist[i]
        BY <3>1 DEF ToSet
      <4>3. w \in Watcher /\ Waiting(w)
        BY <2>0, <4>1, <4>2 DEF ListInv
      <4> QED
        BY <4>3 DEF Waiting, Watcher
    <3>2. CASE w \in {Timeout(t) : t \in timers}
      BY <1>1, <2>0, <3>2 DEF Timeout, CareInv, TypeOK
    <3>3. CASE w \in ToSet(pendings) \ {Dummy}
      BY <1>1, <2>0, <3>3 DEF ToSet, PendingInv, CareInv, Waiting, TypeOK, Watcher
    <3> QED
      BY <1>1, <3>1, <3>2, <3>3 DEF Known
  <2> QED
    BY <2>0, <2>1 DEF Running, RunningInv
<1>2. IInv /\ CareInv => WatchersOfRunningTasks
  BY <1>1, Zenon DEF WatchersOfRunningTasks
<1> QED
  BY <1>2, CarefulInductive, PTL

\* when_done_cb is called once for a task that has ended, and not before.
THEOREM ToldOnce ==
    ASSUME Careful
    PROVE  Spec => []EndsOnce
<1>1. CareInv => EndsOnce
  BY DEF CareInv
<1> QED
  BY <1>1, CarefulInductive, PTL

\* A task ends either cancelled or with GS_EOF, and says which.
THEOREM Outcome ==
    ASSUME Careful
    PROVE  Spec => []OutcomeTold
<1>1. CareInv => OutcomeTold
  BY DEF CareInv
<1> QED
  BY <1>1, CarefulInductive, PTL

\* gs_ctx_del frees the tasks when libev knows of none.
THEOREM Freed ==
    ASSUME Careful
    PROVE  Spec => []FreedUnknown
<1>1. ASSUME IInv, CareInv, WatchersOfRunningTasks, freed, NEW w \in Known
      PROVE  FALSE
  <2>1. task[w[1]].active /\ ~task[w[1]].done
    BY <1>1 DEF WatchersOfRunningTasks
  <2>2. w[1] \in Tasks
    BY <1>1 DEF Known, IInv, TypeOK, ToSet, Timeout, Watcher
  <2>3. closing
    BY <1>1 DEF IInv, FrameInv
  <2> QED
    BY <1>1, <2>1, <2>2, <2>3 DEF CareInv, Running
<1>2. IInv /\ CareInv /\ WatchersOfRunningTasks => FreedUnknown
  BY <1>1 DEF FreedUnknown
<1> QED
  BY <1>2, CarefulInductive, Known_Running, PTL

-------------------------------------------------------------------------------
(* The refinement of TaskLife *)

\* The state of TaskLife.
LifeOf(t) == IF closing \/ Contains(avail, t) THEN "free"
             ELSE IF task[t].done THEN "ended" ELSE "running"
OutcomeOf(t) == IF closing \/ Contains(avail, t) \/ ~task[t].done THEN "none"
                ELSE IF task[t].cancelled THEN "cancelled" ELSE "completed"

\* A step that changes it for no task.
LEMMA LifeStays ==
    ASSUME UNCHANGED closing,
           \A t \in Tasks : LifeOf(t)' = LifeOf(t) /\ OutcomeOf(t)' = OutcomeOf(t)
    PROVE  UNCHANGED Life!lifeVars
BY DEF Life!lifeVars, LifeOf, OutcomeOf

\* A step that changes it for one task.
LEMMA LifeMoves ==
    ASSUME ~closing, UNCHANGED closing, NEW t \in Tasks, NEW from, NEW to, NEW o,
           LifeOf(t) = from, LifeOf(t)' = to, OutcomeOf(t)' = o,
           \A u \in Tasks : u # t => LifeOf(u)' = LifeOf(u) /\ OutcomeOf(u)' = OutcomeOf(u)
    PROVE  Life!Moves(t, from, to, o)
<1> DEFINE life == [u \in Tasks |-> LifeOf(u)]  outcome == [u \in Tasks |-> OutcomeOf(u)]
<1>1. life' = [life EXCEPT ![t] = to]
  <2>1. \A u \in Tasks : LifeOf(u)' = IF u = t THEN to ELSE LifeOf(u)
    OBVIOUS
  <2> QED
    BY <2>1
<1>2. outcome' = [outcome EXCEPT ![t] = o]
  <2>1. \A u \in Tasks : OutcomeOf(u)' = IF u = t THEN o ELSE OutcomeOf(u)
    OBVIOUS
  <2> QED
    BY <2>1
<1>3. life[t] = from
  OBVIOUS
<1> QED
  BY <1>1, <1>2, <1>3, Zenon DEF Life!Moves, LifeOf, OutcomeOf

\* A call that does not end task t does not show in TaskLife.
LEMMA KeepLife ==
    ASSUME TypeOK, NEW t \in Tasks, NEW r, NEW pend, NEW st,
           r.done = task[t].done, r.cancelled = task[t].cancelled,
           UNCHANGED avail, CallsOnly, Keep(t, r, pend, st)
    PROVE  UNCHANGED Life!lifeVars
<1>1. task' = [task EXCEPT ![t] = r] /\ UNCHANGED closing
  BY DEF Keep, CallsOnly, ctx
<1>2. \A u \in Tasks : task'[u].done = task[u].done /\ task'[u].cancelled = task[u].cancelled
  BY <1>1 DEF TypeOK
<1>3. \A u \in Tasks : LifeOf(u)' = LifeOf(u) /\ OutcomeOf(u)' = OutcomeOf(u)
  BY <1>1, <1>2, Zenon DEF LifeOf, OutcomeOf
<1> QED
  BY <1>1, <1>3, LifeStays

\* task_finish of a running task is its end in TaskLife.
LEMMA FinishLife ==
    ASSUME IInv, NEW t \in Tasks, NEW r \in TaskRecord, NEW pend, NEW st,
           Running(t), ~closing, UNCHANGED avail, CallsOnly, task_finish(t, r, pend, st)
    PROVE  IF r.cancelled THEN Life!Cancel(t) ELSE Life!Complete(t)
<1> DEFINE rd == [r EXCEPT !.done = TRUE]
<1>0. TypeOK /\ RunningInv
  BY DEF IInv
<1>1. rd \in TaskRecord /\ rd.done /\ rd.cancelled = r.cancelled
  <2>1. rd \in TaskRecord
    BY SetField, Zenon
  <2> QED
    BY <2>1 DEF TaskRecord
<1>2. task' = [task EXCEPT ![t] = rd] /\ UNCHANGED closing
  BY Zenon DEF task_finish, CallsOnly, ctx
<1> HIDE DEF rd
<1>3. task'[t] = rd /\ \A u \in Tasks : u # t => task'[u] = task[u]
  BY <1>0, <1>2 DEF TypeOK
<1>4. ~Contains(avail, t) /\ ~task[t].done
  BY <1>0 DEF RunningInv, Running
<1>5. \A u \in Tasks : u # t => LifeOf(u)' = LifeOf(u) /\ OutcomeOf(u)' = OutcomeOf(u)
  BY <1>2, <1>3, Zenon DEF LifeOf, OutcomeOf
<1>6. /\ LifeOf(t) = "running" /\ LifeOf(t)' = "ended"
      /\ OutcomeOf(t)' = IF r.cancelled THEN "cancelled" ELSE "completed"
  BY <1>1, <1>2, <1>3, <1>4 DEF LifeOf, OutcomeOf
<1>7. CASE r.cancelled
  BY <1>2, <1>5, <1>6, <1>7, LifeMoves DEF Life!Cancel
<1>8. CASE ~r.cancelled
  BY <1>2, <1>5, <1>6, <1>8, LifeMoves DEF Life!Complete
<1> QED
  BY <1>7, <1>8

\* gs_task_cancel ends a task in TaskLife, or does not show there.
LEMMA CancelLife ==
    ASSUME IInv, NEW t \in Tasks, NEW r, NEW pend, NEW st, ~closing,
           r = task[t] \/ r = [task[t] EXCEPT !.retcode = "ERROR"],
           task[t].done => task[t].cancel_once \/ ~task[t].active,
           UNCHANGED avail, CallsOnly, CancelTask(t, r, pend, st)
    PROVE  Life!Cancel(t) \/ UNCHANGED Life!lifeVars
<1> DEFINE once == [r EXCEPT !.cancel_once = TRUE]
           told == [once EXCEPT !.cancelled = TRUE]
<1>0. TypeOK
  BY DEF IInv
<1>1. task[t] \in TaskRecord
  BY <1>0 DEF TypeOK
<1>2. r \in TaskRecord
  BY <1>1, SetField, Zenon
<1>3. once \in TaskRecord
  BY <1>2, SetField, Zenon
<1>4. told \in TaskRecord
  BY <1>3, SetField, Zenon
<1>5. /\ r.active = task[t].active /\ r.done = task[t].done
      /\ r.cancel_once = task[t].cancel_once /\ r.cancelled = task[t].cancelled
  BY <1>1 DEF TaskRecord
<1>6. once.done = r.done /\ once.cancelled = r.cancelled /\ told.cancelled
  BY <1>2, <1>3 DEF TaskRecord
<1> HIDE DEF told, once
<1>7. CASE r.cancel_once \/ ~r.active
  <2>1. Keep(t, once, pend, st)
    BY <1>7, Zenon DEF CancelTask, once
  <2> QED
    BY <1>0, <1>5, <1>6, <2>1, KeepLife
<1>8. CASE ~(r.cancel_once \/ ~r.active)
  <2>1. task_finish(t, told, pend, st)
    BY <1>8, Zenon DEF CancelTask, told, once
  <2>2. Running(t)
    BY <1>5, <1>8 DEF Running
  <2> QED
    BY <1>4, <1>6, <2>1, <2>2, FinishLife
<1> QED
  BY <1>7, <1>8

\* Every step of a careful program is a step of TaskLife, or does not show.
LEMMA LifeStep ==
    ASSUME Careful, IInv, CareInv, [Next]_vars
    PROVE  [Life!LifeNext]_(Life!lifeVars)
<1>0. TypeOK /\ FrameInv /\ RunningInv /\ SendingInv
  BY DEF IInv
<1>1. CASE closing
  <2>1. closing'
    BY <1>0, <1>1
       DEF Next, Work, Return, Terminated, vars, libev, ctx, poll, feed, gs_work,
           ev_invoke_pending, work_done, io_return, when_done_return, gs_ctx_send,
           gs_task_start, gs_task_cancel, gs_task_del, gs_ctx_del, ctx_del_cancel, ctx_del_free
  <2>2. \A u \in Tasks : LifeOf(u)' = LifeOf(u) /\ OutcomeOf(u)' = OutcomeOf(u)
    BY <1>1, <2>1 DEF LifeOf, OutcomeOf
  <2>3. UNCHANGED closing
    BY <1>0, <1>1, <2>1, IInvStep DEF IInv, TypeOK
  <2> QED
    BY <2>2, <2>3, LifeStays
<1>2. CASE /\ ~closing
           /\ \/ poll \/ feed \/ gs_work \/ work_done \/ ctx_del_free \/ gs_task_start
              \/ UNCHANGED vars
  <2>1. UNCHANGED <<task, avail, closing>>
    BY <1>2 DEF poll, feed, gs_work, work_done, ctx_del_free, gs_task_start, vars, ctx
  <2>2. \A u \in Tasks : LifeOf(u)' = LifeOf(u) /\ OutcomeOf(u)' = OutcomeOf(u)
    BY <2>1, Zenon DEF LifeOf, OutcomeOf
  <2> QED
    BY <2>1, <2>2, LifeStays
<1>3. CASE ~closing /\ ev_invoke_pending
  <2> DEFINE w == Last(pendings)  t == w[1]
  <2>1. CallsOnly /\ pendings # <<>> /\ UNCHANGED avail
    BY <1>3 DEF ev_invoke_pending, CallsOnly
  <2>2. /\ w \in Watcher \cup {Dummy}
        /\ Len(pendings) \in DOMAIN pendings /\ pendings[Len(pendings)] = w
    BY <1>0, <2>1, FrontKeeps DEF TypeOK
  <2> HIDE DEF w
  <2>3. CASE w = Dummy /\ UNCHANGED <<task, libev, stack, ends>>
    <3>1. UNCHANGED <<task, avail, closing>>
      BY <2>1, <2>3 DEF CallsOnly, ctx
    <3>2. \A u \in Tasks : LifeOf(u)' = LifeOf(u) /\ OutcomeOf(u)' = OutcomeOf(u)
      BY <3>1, Zenon DEF LifeOf, OutcomeOf
    <3> QED
      BY <3>1, <3>2, LifeStays
  <2>4. CASE w[2] = "TIMEOUT" /\ CancelTask(t, task[t], Front(pendings), stack)
    <3>1. t \in Tasks /\ ~task[t].done
      BY <2>2, <2>4 DEF Watcher, Dummy, CareInv, Running
    <3>2. PICK v \in Tasks : v = t
      BY <3>1
    <3>3. CancelTask(v, task[v], Front(pendings), stack) /\ ~task[v].done
      BY <2>4, <3>1, <3>2, Zenon
    <3>4. Life!Cancel(v) \/ UNCHANGED Life!lifeVars
      BY <1>3, <2>1, <3>3, CancelLife
    <3> QED
      BY <3>4 DEF Life!LifeNext
  <2>5. CASE w[2] \in {"SEND", "RECV"} /\ Keep(t, task[t], Front(pendings), <<<<w[2], t>>>>)
    <3>1. t \in Tasks
      BY <2>2, <2>5 DEF Watcher, Dummy
    <3> QED
      BY <1>0, <2>1, <2>5, <3>1, KeepLife
  <2> QED
    BY <1>3, <2>3, <2>4, <2>5, Zenon DEF ev_invoke_pending, w
<1>4. ASSUME ~closing, NEW rc \in {"OK", "EOF", "ERROR"}, io_return(rc)
      PROVE  [Life!LifeNext]_(Life!lifeVars)
  <2>1. /\ stack # <<>> /\ Last(stack)[1] \in {"SEND", "RECV"}
        /\ CallsOnly /\ UNCHANGED <<avail, closing>>
    BY <1>4 DEF io_return, CallsOnly, ctx
  <2>0. PICK t \in Tasks : t = Last(stack)[2]
    BY <1>0, <2>1, IoFrame
  <2> DEFINE r == [task[t] EXCEPT !.retcode = rc]
  <2>2. /\ t \in Tasks
        /\ IF task[t].done THEN task[t].cancel_once /\ task[t].cancelled ELSE task[t].active
    BY <1>0, <2>0, <2>1, IoFrame
  <2>3. task[t] \in TaskRecord
    BY <1>0, <2>2 DEF TypeOK
  <2>4. r \in TaskRecord
    BY <2>3, SetField, Zenon
  <2>5. r.cancelled = task[t].cancelled
    BY <2>3 DEF TaskRecord
  <2>6. task[t].done => rc = "ERROR"
    BY <1>4, <2>0 DEF io_return
  <2> HIDE DEF r
  <2>7. CASE UNCHANGED task
    <3>1. \A u \in Tasks : LifeOf(u)' = LifeOf(u) /\ OutcomeOf(u)' = OutcomeOf(u)
      BY <2>1, <2>7, Zenon DEF LifeOf, OutcomeOf
    <3> QED
      BY <2>1, <3>1, LifeStays
  <2>8. CASE rc = "EOF" /\ task_finish(t, r, pendings, Front(stack))
    <3>1. Running(t)
      BY <2>2, <2>6, <2>8 DEF Running
    <3>2. ~r.cancelled
      BY <1>0, <2>2, <2>5, <3>1 DEF RunningInv
    <3>3. Life!Complete(t)
      BY <1>4, <2>1, <2>2, <2>4, <2>8, <3>1, <3>2, FinishLife
    <3> QED
      BY <2>2, <3>3 DEF Life!LifeNext
  <2>9. CASE rc = "ERROR" /\ CancelTask(t, r, pendings, Front(stack))
    <3>1. r = [task[t] EXCEPT !.retcode = "ERROR"]
      BY <2>9, Zenon DEF r
    <3>2. Life!Cancel(t) \/ UNCHANGED Life!lifeVars
      BY <1>4, <2>1, <2>2, <2>9, <3>1, CancelLife
    <3> QED
      BY <2>2, <3>2 DEF Life!LifeNext
  <2> QED
    BY <1>4, <2>0, <2>7, <2>8, <2>9, Zenon DEF io_return, r
<1>5. CASE ~closing /\ when_done_return
  <2> DEFINE t == Last(stack)[2]  r == [task[t] EXCEPT !.active = FALSE]
  <2>1. stack # <<>> /\ CallsOnly /\ UNCHANGED avail
    BY <1>5 DEF when_done_return, CallsOnly
  <2>2. Last(stack) \in Frame
    BY <1>0, <2>1, FrontKeeps DEF TypeOK
  <2>3. t \in Tasks
    BY <2>2 DEF Frame
  <2>4. task[t] \in TaskRecord
    BY <1>0, <2>3 DEF TypeOK
  <2>5. r.done = task[t].done /\ r.cancelled = task[t].cancelled
    BY <2>4 DEF TaskRecord
  <2>6. Keep(t, r, pendings, Front(stack))
    BY <1>5, Zenon DEF when_done_return
  <2> HIDE DEF t, r
  <2> QED
    BY <1>0, <2>1, <2>3, <2>5, <2>6, KeepLife
<1>6. ASSUME NEW kind \in Kinds, NEW timed \in BOOLEAN, gs_ctx_send(kind, timed)
      PROVE  [Life!LifeNext]_(Life!lifeVars)
  <2>0. PICK t \in Tasks : t = Head(avail)
    BY <1>0, <1>6, TailKeeps DEF gs_ctx_send, TypeOK
  <2> DEFINE r == gs_task_reset(t, kind, timed)
  <2>1. /\ task' = [task EXCEPT ![t] = r] /\ ~closing /\ closing' = closing
        /\ avail # <<>> /\ avail' = Tail(avail)
    BY <1>6, <2>0, Zenon DEF gs_ctx_send, TopLevel
  <2>2. /\ t \in Tasks /\ Contains(avail, t) /\ ~Contains(Tail(avail), t)
        /\ \A x : Contains(avail, x) <=> Contains(Tail(avail), x) \/ x = t
    BY <1>0, <2>0, <2>1, TailKeeps DEF TypeOK, IInv
  <2>3. ~r.done
    BY ResetRecord, Zenon
  <2> HIDE DEF r
  <2>4. task'[t] = r /\ \A u \in Tasks : u # t => task'[u] = task[u]
    BY <1>0, <2>1, <2>2 DEF TypeOK
  <2>5. LifeOf(t) = "free" /\ LifeOf(t)' = "running" /\ OutcomeOf(t)' = "none"
    BY <2>1, <2>2, <2>3, <2>4 DEF LifeOf, OutcomeOf
  <2>6. \A u \in Tasks : u # t => LifeOf(u)' = LifeOf(u) /\ OutcomeOf(u)' = OutcomeOf(u)
    BY <2>1, <2>2, <2>4 DEF LifeOf, OutcomeOf
  <2>7. Life!Send(t)
    BY <2>1, <2>2, <2>5, <2>6, LifeMoves DEF Life!Send
  <2> QED
    BY <2>2, <2>7 DEF Life!LifeNext
<1>7. ASSUME ~closing, NEW t \in Tasks, gs_task_cancel(t)
      PROVE  [Life!LifeNext]_(Life!lifeVars)
  <2>1. /\ CallsOnly /\ UNCHANGED avail /\ ~task[t].done
        /\ CancelTask(t, task[t], pendings, stack)
    BY <1>7 DEF gs_task_cancel, CallsOnly
  <2>2. Life!Cancel(t) \/ UNCHANGED Life!lifeVars
    BY <1>7, <2>1, CancelLife
  <2> QED
    BY <2>2 DEF Life!LifeNext
<1>8. ASSUME NEW t \in Tasks, gs_task_del(t)
      PROVE  [Life!LifeNext]_(Life!lifeVars)
  <2>1. /\ task' = task /\ ~closing /\ closing' = closing
        /\ ~Contains(avail, t) /\ task[t].done /\ avail' = Append(avail, t)
    BY <1>8 DEF gs_task_del, UserRuns, TopLevel, Held, ctx
  <2>2. \A x : Contains(avail', x) <=> Contains(avail, x) \/ x = t
    BY <1>0, <2>1, AppendKeeps DEF TypeOK, IInv
  <2>3. LifeOf(t) = "ended" /\ LifeOf(t)' = "free" /\ OutcomeOf(t)' = "none"
    BY <2>1, <2>2 DEF LifeOf, OutcomeOf
  <2>4. \A u \in Tasks : u # t => LifeOf(u)' = LifeOf(u) /\ OutcomeOf(u)' = OutcomeOf(u)
    BY <2>1, <2>2 DEF LifeOf, OutcomeOf
  <2>5. Life!Release(t)
    BY <2>1, <2>3, <2>4, LifeMoves DEF Life!Release
  <2> QED
    BY <2>5 DEF Life!LifeNext
<1>9. CASE gs_ctx_del
  <2>1. closing' = TRUE /\ \A t \in Tasks : Contains(avail, t) \/ task[t].done
    BY <1>9 DEF gs_ctx_del
  <2>2. \A t \in Tasks : LifeOf(t) # "running" /\ LifeOf(t)' = "free" /\ OutcomeOf(t)' = "none"
    BY <2>1 DEF LifeOf, OutcomeOf
  <2>3. Life!Close
    BY <2>1, <2>2 DEF Life!Close, LifeOf, OutcomeOf
  <2> QED
    BY <2>3 DEF Life!LifeNext
<1>10. CASE ctx_del_cancel
  BY <1>1, <1>10 DEF ctx_del_cancel
<1> QED
  BY <1>1, <1>2, <1>3, <1>4, <1>5, <1>6, <1>7, <1>8, <1>9, <1>10
     DEF Next, Work, Return, Terminated

\* A context of gs keeps the promise of TaskLife.
THEOREM Refinement ==
    ASSUME Careful
    PROVE  Spec => LifeCycle
<1>1. ASSUME Init
      PROVE  Life!LifeInit
  <2>1. /\ closing = FALSE /\ avail = [i \in 1 .. NTasks |-> i] /\ avail \in Seq(Tasks)
    BY <1>1, IInvInit DEF Init, IInv, TypeOK
  <2>2. \A t \in Tasks : Contains(avail, t)
    BY <2>1, TaskAssumption DEF Contains, Tasks
  <2> QED
    BY <2>1, <2>2 DEF Life!LifeInit
<1>2. IInv /\ CareInv /\ [Next]_vars => [Life!LifeNext]_(Life!lifeVars)
  BY LifeStep
<1> QED
  BY <1>1, <1>2, CarefulInductive, PTL DEF Spec, LifeCycle, Life!LifeSpec
===============================================================================
