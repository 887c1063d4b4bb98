---------------------------- MODULE GsSharedProofs ----------------------------
(***************************************************************************)
(* Proofs that the invariants of GsShared hold for any number of tasks,    *)
(* when a task is given back only after when_done_cb has returned and no   *)
(* timer expires while its gs_ctx_send goes on.  The inductive invariant   *)
(* says, for each task, what its fields and libev are like in each phase   *)
(* of its life.                                                            *)
(***************************************************************************)
EXTENDS GsShared, TLAPS

Fields == [active : BOOLEAN, done : BOOLEAN, cancel_once : BOOLEAN, cancelled : BOOLEAN,
           retcode : {"OK", "EOF", "ERROR"}, timed : BOOLEAN]

\* The variables and the fields of tasks stay in their types.
TypeInv ==
    /\ task \in [Task -> Fields]
    /\ s \in [Task -> {"avail", "setup", "timer", "io", "held"}]
    /\ d \in [at : {"idle", "work", "cancel", "check", "finish", "done", "tell", "told"},
              task : Task \cup {None}]
    /\ io \subseteq Task /\ timer \subseteq Task
    /\ pend \subseteq Task \X {"IO", "TIMEOUT"}
    /\ ends \in [Task -> Nat]

\* The other thread is ending the task.
Busy(t) == d.task = t /\ d.at \notin {"idle", "work"}

Pending(t) == \E e \in pend : e[1] = t
Unknown(t) == t \notin io /\ t \notin timer /\ ~Pending(t)

\* Only a task whose start is complete is ended.
BusyInv == d.at \notin {"idle", "work"} => d.task \in Task /\ s[d.task] = "held"

\* On the way through gs_ctx_send: libev knows nothing of the task but, at the
\* end, its timer.
StartInv(t) ==
    /\ s[t] # "held" => t \notin io /\ ~Pending(t)
    /\ s[t] \in {"avail", "setup", "timer"} => t \notin timer
    /\ s[t] = "io" => (t \in timer <=> task[t].timed)
    /\ s[t] \in {"timer", "io"} => task[t].active
    /\ s[t] \in {"setup", "timer", "io"} =>
         /\ ~task[t].done /\ ~task[t].cancel_once /\ ~task[t].cancelled
         /\ task[t].retcode # "EOF" /\ ends[t] = 0

\* Between its start and its end.
RunInv(t) ==
    s[t] = "held" /\ ~Busy(t) /\ ~task[t].done =>
        /\ t \in io /\ (t \in timer <=> task[t].timed)
        /\ task[t].active /\ ~task[t].cancel_once /\ ~task[t].cancelled
        /\ task[t].retcode # "EOF" /\ ends[t] = 0

Outcome(t) == task[t].cancelled <=> task[t].retcode # "EOF"

\* While it ends, step by step ...
EndingInv(t) ==
    Busy(t) =>
        /\ d.at \in {"cancel", "check", "finish", "done"} => ~task[t].done /\ ends[t] = 0
        /\ d.at \in {"tell", "told"} => task[t].done
        /\ d.at = "tell" => ends[t] = 0
        /\ d.at = "told" => ends[t] = 1
        /\ d.at \in {"cancel", "check", "finish"} => task[t].active
        /\ d.at = "cancel" => ~task[t].cancel_once
        /\ d.at \in {"cancel", "check"} => ~task[t].cancelled /\ task[t].retcode # "EOF"
        /\ d.at \in {"finish", "done", "tell", "told"} => Outcome(t)
        /\ d.at \in {"done", "tell", "told"} => Unknown(t)

\* ... and after it has ended, until it is given back.
EndedInv(t) ==
    s[t] = "held" /\ ~Busy(t) /\ task[t].done => ends[t] = 1 /\ Outcome(t) /\ Unknown(t)

\* Of what is given back the program was told at most once.
AvailInv(t) == s[t] = "avail" => ends[t] <= 1

TaskInv(t) ==
    StartInv(t) /\ RunInv(t) /\ EndingInv(t) /\ EndedInv(t) /\ AvailInv(t)

IInv == TypeInv /\ BusyInv /\ \A t \in Task : TaskInv(t)

-------------------------------------------------------------------------------

\* A flag of a task that is set or cleared is still a flag.
LEMMA SetField ==
    ASSUME TypeInv, NEW t \in Task, NEW b \in BOOLEAN
    PROVE  /\ [task EXCEPT ![t].active = b] \in [Task -> Fields]
           /\ [task EXCEPT ![t].done = b] \in [Task -> Fields]
           /\ [task EXCEPT ![t].cancel_once = b] \in [Task -> Fields]
  BY DEF TypeInv, Fields

\* Every step keeps the types.
LEMMA TypeStep == TypeInv /\ Next => TypeInv'
<1> SUFFICES ASSUME TypeInv, Next PROVE TypeInv'
  OBVIOUS
<1> USE DEF TypeInv, Fields
<1>1. ASSUME NEW u \in Task, NEW timed \in BOOLEAN, gs_ctx_send(u, timed) PROVE TypeInv'
  BY <1>1 DEF gs_ctx_send, step, gs_task_reset, Fresh, libev, Starting
<1>2. ASSUME NEW u \in Task, start_active(u) PROVE TypeInv'
  BY <1>2 DEF start_active, step, libev
<1>3. ASSUME NEW u \in Task, start_timer(u) PROVE TypeInv'
  BY <1>3 DEF start_timer, step, timer_again, Unlocked
<1>4. ASSUME NEW u \in Task, start_io(u) PROVE TypeInv'
  BY <1>4 DEF start_io, step, Unlocked
<1>5. ASSUME NEW u \in Task, gs_task_del(u) PROVE TypeInv'
  BY <1>5 DEF gs_task_del, step, Finishing, libev, Starting
<1>6. ASSUME NEW u \in Task, timeout_cb(u) PROVE TypeInv'
  BY <1>6 DEF timeout_cb
<1>7. ASSUME NEW u \in Task, NEW rc \in {"OK", "EOF", "ERROR"}, io_cb(u, rc) PROVE TypeInv'
  BY <1>7 DEF io_cb
<1>8. ASSUME NEW u \in Task, d.task = u, cancel_once(u) PROVE TypeInv'
  <2>1. task' \in [Task -> Fields]
    BY <1>8, SetField, Zenon DEF cancel_once
  <2> QED
    BY <1>8, <2>1 DEF cancel_once, works, libev
<1>9. ASSUME NEW u \in Task, d.task = u, gs_task_cancel(u) PROVE TypeInv'
  BY <1>9 DEF gs_task_cancel, works, libev
<1>10. ASSUME NEW u \in Task, d.task = u, finish_stop(u) PROVE TypeInv'
  BY <1>10 DEF finish_stop, works
<1>11. ASSUME NEW u \in Task, d.task = u, finish_done(u) PROVE TypeInv'
  <2>1. task' \in [Task -> Fields]
    BY <1>11, SetField, Zenon DEF finish_done
  <2> QED
    BY <1>11, <2>1 DEF finish_done, works, libev
<1>12. ASSUME NEW u \in Task, d.task = u, when_done_cb(u) PROVE TypeInv'
  BY <1>12 DEF when_done_cb, works, libev
<1>13. ASSUME NEW u \in Task, d.task = u, finish_inactive(u) PROVE TypeInv'
  <2>1. task' \in [Task -> Fields]
    BY <1>13, SetField, Zenon DEF finish_inactive
  <2> QED
    BY <1>13, <2>1 DEF finish_inactive, works, libev
<1>14. ASSUME feed PROVE TypeInv'
  BY <1>14 DEF feed, Unlocked
<1>15. ASSUME gs_work PROVE TypeInv'
  BY <1>15 DEF gs_work, Unlocked, libev
<1>16. ASSUME work_done PROVE TypeInv'
  BY <1>16 DEF work_done, libev
<1> QED
  BY <1>1, <1>2, <1>3, <1>4, <1>5, <1>6, <1>7, <1>8, <1>9, <1>10, <1>11, 
     <1>12, <1>13, <1>14, <1>15, <1>16 DEF Next, gs_task_start, finish

\* The task that is being ended is one whose start is complete, and the sender
\* does not give it back meanwhile.
LEMMA BusyStep == IInv /\ Waits /\ Next => BusyInv'
<1> SUFFICES ASSUME IInv, Waits, Next PROVE BusyInv'
  OBVIOUS
<1> USE SharedAssumption DEF IInv, TypeInv, BusyInv, TaskInv, StartInv, EndingInv, Busy, Pending
<1>1. ASSUME NEW u \in Task, NEW timed \in BOOLEAN, gs_ctx_send(u, timed) PROVE BusyInv'
  BY <1>1 DEF gs_ctx_send, step, gs_task_reset, Fresh, libev, Starting
<1>2. ASSUME NEW u \in Task, start_active(u) PROVE BusyInv'
  BY <1>2 DEF start_active, step, libev
<1>3. ASSUME NEW u \in Task, start_timer(u) PROVE BusyInv'
  BY <1>3 DEF start_timer, step, timer_again, Unlocked
<1>4. ASSUME NEW u \in Task, start_io(u) PROVE BusyInv'
  BY <1>4 DEF start_io, step, Unlocked
<1>5. ASSUME NEW u \in Task, gs_task_del(u) PROVE BusyInv'
  BY <1>5 DEF gs_task_del, step, Finishing, libev, Starting
<1>6. ASSUME NEW u \in Task, timeout_cb(u) PROVE BusyInv'
  BY <1>6 DEF timeout_cb
<1>7. ASSUME NEW u \in Task, NEW rc \in {"OK", "EOF", "ERROR"}, io_cb(u, rc) PROVE BusyInv'
  BY <1>7 DEF io_cb
<1>8. ASSUME NEW u \in Task, d.task = u, cancel_once(u) PROVE BusyInv'
  BY <1>8 DEF cancel_once, works, libev
<1>9. ASSUME NEW u \in Task, d.task = u, gs_task_cancel(u) PROVE BusyInv'
  BY <1>9 DEF gs_task_cancel, works, libev
<1>10. ASSUME NEW u \in Task, d.task = u, finish_stop(u) PROVE BusyInv'
  BY <1>10 DEF finish_stop, works
<1>11. ASSUME NEW u \in Task, d.task = u, finish_done(u) PROVE BusyInv'
  BY <1>11 DEF finish_done, works, libev
<1>12. ASSUME NEW u \in Task, d.task = u, when_done_cb(u) PROVE BusyInv'
  BY <1>12 DEF when_done_cb, works, libev
<1>13. ASSUME NEW u \in Task, d.task = u, finish_inactive(u) PROVE BusyInv'
  BY <1>13 DEF finish_inactive, works, libev
<1>14. ASSUME feed PROVE BusyInv'
  BY <1>14 DEF feed, Unlocked
<1>15. ASSUME gs_work PROVE BusyInv'
  BY <1>15 DEF gs_work, Unlocked, libev
<1>16. ASSUME work_done PROVE BusyInv'
  BY <1>16 DEF work_done, libev
<1> HIDE DEF IInv, TypeInv, BusyInv, TaskInv, StartInv, EndingInv, Busy, Pending
<1> QED
  BY <1>1, <1>2, <1>3, <1>4, <1>5, <1>6, <1>7, <1>8, <1>9, <1>10, <1>11, 
     <1>12, <1>13, <1>14, <1>15, <1>16 DEF Next, gs_task_start, finish

\* What holds of a task in each phase of its life is kept by the steps that are
\* about it, by those about other tasks and by the loop.
LEMMA TaskStep ==
    ASSUME IInv, Prompt, Waits, Next, NEW t \in Task
    PROVE  TaskInv(t)'
<1> USE SharedAssumption
    DEF IInv, TypeInv, Fields, BusyInv, TaskInv, StartInv, RunInv, EndingInv, EndedInv,
        AvailInv, Outcome, Unknown, Pending, Busy
<1>1. ASSUME NEW u \in Task, NEW timed \in BOOLEAN, gs_ctx_send(u, timed) PROVE TaskInv(t)'
  BY <1>1 DEF gs_ctx_send, step, gs_task_reset, Fresh, libev, Starting
<1>2. ASSUME NEW u \in Task, start_active(u) PROVE TaskInv(t)'
  BY <1>2 DEF start_active, step, libev
<1>3. ASSUME NEW u \in Task, start_timer(u) PROVE TaskInv(t)'
  BY <1>3 DEF start_timer, step, timer_again, Unlocked
<1>4. ASSUME NEW u \in Task, start_io(u) PROVE TaskInv(t)'
  BY <1>4 DEF start_io, step, Unlocked
<1>5. ASSUME NEW u \in Task, gs_task_del(u) PROVE TaskInv(t)'
  BY <1>5 DEF gs_task_del, step, Finishing, libev, Starting
<1>6. ASSUME NEW u \in Task, timeout_cb(u) PROVE TaskInv(t)'
  BY <1>6 DEF timeout_cb
<1>7. ASSUME NEW u \in Task, NEW rc \in {"OK", "EOF", "ERROR"}, io_cb(u, rc) PROVE TaskInv(t)'
  BY <1>7 DEF io_cb
<1>8. ASSUME NEW u \in Task, d.task = u, cancel_once(u) PROVE TaskInv(t)'
  BY <1>8 DEF cancel_once, works, libev
<1>9. ASSUME NEW u \in Task, d.task = u, gs_task_cancel(u) PROVE TaskInv(t)'
  BY <1>9 DEF gs_task_cancel, works, libev
<1>10. ASSUME NEW u \in Task, d.task = u, finish_stop(u) PROVE TaskInv(t)'
  BY <1>10 DEF finish_stop, works
<1>11. ASSUME NEW u \in Task, d.task = u, finish_done(u) PROVE TaskInv(t)'
  BY <1>11 DEF finish_done, works, libev
<1>12. ASSUME NEW u \in Task, d.task = u, when_done_cb(u) PROVE TaskInv(t)'
  BY <1>12 DEF when_done_cb, works, libev
<1>13. ASSUME NEW u \in Task, d.task = u, finish_inactive(u) PROVE TaskInv(t)'
  BY <1>13 DEF finish_inactive, works, libev
<1>14. ASSUME feed PROVE TaskInv(t)'
  BY <1>14 DEF feed, Unlocked
<1>15. ASSUME gs_work PROVE TaskInv(t)'
  BY <1>15 DEF gs_work, Unlocked, libev
<1>16. ASSUME work_done PROVE TaskInv(t)'
  BY <1>16 DEF work_done, libev
<1> HIDE DEF IInv, TypeInv, Fields, BusyInv, TaskInv, StartInv, RunInv, EndingInv,
             EndedInv, AvailInv, Outcome, Unknown, Pending, Busy
<1> QED
  BY <1>1, <1>2, <1>3, <1>4, <1>5, <1>6, <1>7, <1>8, <1>9, <1>10, <1>11, 
     <1>12, <1>13, <1>14, <1>15, <1>16 DEF Next, gs_task_start, finish

\* The invariant is inductive.
LEMMA IInvStep == IInv /\ Prompt /\ Waits /\ [Next]_vars => IInv'
<1> SUFFICES ASSUME IInv, Prompt, Waits, [Next]_vars PROVE IInv'
  OBVIOUS
<1>1. CASE Next
  BY <1>1, TypeStep, BusyStep, TaskStep, Zenon DEF IInv
<1>2. CASE UNCHANGED vars
  BY <1>2 DEF vars, IInv, TypeInv, BusyInv, TaskInv, StartInv, RunInv, EndingInv, EndedInv,
      AvailInv, Outcome, Unknown, Pending, Busy
<1> QED
  BY <1>1, <1>2

\* In every reachable state each task is in a phase of its life, whatever the
\* two threads do, if the program keeps to the two rules.
THEOREM Inductive ==
    ASSUME Prompt, Waits
    PROVE  Spec => []IInv
<1>1. Init => IInv
  BY SharedAssumption DEF Init, Fresh, IInv, TypeInv, Fields, BusyInv, TaskInv, StartInv, RunInv,
     EndingInv, EndedInv, AvailInv, Busy, Pending
<1>2. IInv /\ [Next]_vars => IInv'
  BY IInvStep
<1> QED
  BY <1>1, <1>2, PTL DEF Spec

\* A running task is watched, with its timeout if it has one, and libev knows
\* nothing of a task that was given back: gs_task_start and task_finish leave no
\* gap, although they take the lock several times.
THEOREM Watched ==
    ASSUME Prompt, Waits
    PROVE  Spec => []WatchedWhileRunning
<1>1. ASSUME IInv, NEW t \in Task, Running(t), ~(d.task = t /\ d.at # "work")
      PROVE  /\ t \in io /\ (t \in timer <=> task[t].timed)
             /\ task[t].active /\ ~task[t].cancel_once
  BY <1>1 DEF IInv, TaskInv, RunInv, Busy, Running
<1>2. ASSUME IInv, NEW t \in Task, s[t] = "avail"
      PROVE  t \notin io \cup timer /\ \A e \in pend : e[1] # t
  BY <1>2, Zenon DEF IInv, TaskInv, StartInv, Pending
<1>3. IInv => WatchedWhileRunning
  BY <1>1, <1>2, Zenon DEF WatchedWhileRunning
<1> QED
  BY <1>3, Inductive, PTL

\* Whoever sees done set, without a lock, can tell how the task ended.
THEOREM Ready ==
    ASSUME Prompt, Waits
    PROVE  Spec => []OutcomeReady
<1>1. IInv => OutcomeReady
  BY DEF IInv, TaskInv, EndingInv, EndedInv, Busy, Outcome, OutcomeReady, TypeInv
<1> QED
  BY <1>1, Inductive, PTL

\* when_done_cb is called at most once for each task that was sent, and only
\* while the sender has it.
THEOREM ToldOnce ==
    ASSUME Prompt, Waits
    PROVE  Spec => []EndsOnce
<1>1. ASSUME IInv, NEW t \in Task
      PROVE  ends[t] <= 1
  <2>1. TaskInv(t) /\ TypeInv
    BY <1>1 DEF IInv
  <2>2. s[t] = "avail" \/ s[t] \in {"setup", "timer", "io"} \/ s[t] = "held"
    BY <2>1 DEF TypeInv
  <2>3. d.at \in {"cancel", "check", "finish", "done"} \/ d.at \in {"tell", "told"} \/ ~Busy(t)
    BY <2>1 DEF TypeInv, Busy
  <2>4. ends[t] \in Nat
    BY <2>1 DEF TypeInv
  <2>5. ends[t] \in {0, 1}
    BY <2>1, <2>2, <2>3, <2>4 DEF TaskInv, StartInv, RunInv, EndingInv, EndedInv, AvailInv
  <2> QED
    BY <2>5
<1>2. ASSUME IInv, NEW t \in Task, d.task = t, d.at \in {"tell", "told"}
      PROVE  s[t] = "held" /\ task[t].done
  BY <1>2 DEF IInv, BusyInv, TaskInv, EndingInv, Busy
<1>3. IInv => EndsOnce
  BY <1>1, <1>2, Zenon DEF EndsOnce
<1> QED
  BY <1>3, Inductive, PTL
===============================================================================
