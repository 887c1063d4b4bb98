-------------------------------- MODULE GsTask --------------------------------
(***************************************************************************)
(* The tasks of one gs context: src/task.c and src/ctx.c over the io and   *)
(* timer watchers of libev.                                                *)
(*                                                                         *)
(* One client thread sends, cancels and deletes tasks and dispatches their *)
(* callbacks in gs_work; its calls nest, because user callbacks call gs    *)
(* again, so the client has a stack of frames.  The background thread is   *)
(* reduced to its effect on watchers: it polls when nothing is pending     *)
(* (PollOnlyWhenDrained of GsLoop) and then feeds ready watchers.          *)
(***************************************************************************)
EXTENDS Naturals, SequencesExt

CONSTANTS
    NTasks,     \* gs_ctx_new's max_tasks
    Kinds,      \* the kinds of task started, a subset of {"SEND", "RECV"}
    MaxSends,   \* bound on the number of tasks started
    MaxWrites,  \* bound on the times a task's callback returns GS_OK
    Careful     \* do user callbacks keep the rules of Allowed below?

ASSUME TaskAssumption ==
    /\ NTasks \in Nat /\ MaxSends \in Nat /\ MaxWrites \in Nat
    /\ Kinds \subseteq {"SEND", "RECV"} /\ Careful \in BOOLEAN

Tasks == 1 .. NTasks

VARIABLES
    task,       \* the fields of struct gs_task
    avail,      \* ctx.c: the queue of tasks to hand out
    wlist,      \* libev: the active io watchers of the socket, newest first
    reify,      \* libev: the socket's watchers changed since the last poll
    timers,     \* libev: the tasks whose timeout watcher is active
    pendings,   \* libev: the stack of pending watchers, its top last
    polling,    \* the background thread is inside epoll_wait
    working,    \* the client is inside gs_work
    stack,      \* the client's frames: user callbacks that have not returned
    sending,    \* the task between the two critical sections of gs_task_start
    closing,    \* the client is inside, or past, gs_ctx_del
    freed,      \* gs_ctx_del has freed the context
    sends,      \* number of tasks started
    order,      \* when each task was started
    writes,     \* how often its callback has returned GS_OK since
    ends        \* how often its when_done_cb has been called since

libev == <<wlist, reify, timers>>
ctx == <<sending, closing, freed, sends, order>>
vars == <<task, avail, libev, pendings, polling, working, stack, ctx, writes, ends>>

None == 0       \* no task
Dummy == <<None, "DUMMY">>
Io(t) == <<t, task[t].type>>
Timeout(t) == <<t, "TIMEOUT">>

-------------------------------------------------------------------------------
(* libev *)

\* A faulty variant: the entry of a stopped watcher keeps its owner.
Clear_owned(pend, W) ==
    [i \in DOMAIN pend |-> IF pend[i] \in W THEN <<pend[i][1], "DUMMY">> ELSE pend[i]]

\* clear_pending for every watcher in W.
Clear(pend, W) == [i \in DOMAIN pend |-> IF pend[i] \in W THEN Dummy ELSE pend[i]]

\* A faulty variant: a timer that is not active stays so.
TimerAgain_no_start(t, timed, pend) ==
    /\ timers' = IF timed THEN timers ELSE timers \ {t}
    /\ pendings' = Clear(pend, {Timeout(t)})

\* ev_timer_again on the timeout watcher of t, with repeat set iff timed.
TimerAgain(t, timed, pend) ==
    /\ timers' = IF timed THEN timers \cup {t} ELSE timers \ {t}
    /\ pendings' = Clear(pend, {Timeout(t)})

wlist_add_only(w) == <<w>>

wlist_add(w) == <<w>> \o wlist

\* Faulty variants: the watcher stays active.
ev_io_stop_not(w) == UNCHANGED <<wlist, reify>>
ev_timer_stop_not(t) == UNCHANGED timers

\* ev_io_stop marks the socket if the watcher was active.
ev_io_stop(w) ==
    /\ wlist' = RemoveFirst(wlist, w)
    /\ reify' = (reify \/ Contains(wlist, w))

ev_timer_stop(t) == timers' = timers \ {t}

\* fd_reify and epoll_wait: from now on changes of the watchers mark the
\* socket, whose events of this poll are then dropped.
poll ==
    /\ ~freed
    /\ pendings = <<>> /\ ~working /\ ~polling
    /\ polling' = TRUE
    /\ reify' = FALSE
    /\ UNCHANGED <<task, avail, wlist, timers, pendings, working, stack, ctx, writes,
                   ends>>

\* fd_event_nocheck: walk the list ws and queue the watchers of the ready kinds.
fd_event_nocheck(ws, ready) ==
    LET queue[n \in 0 .. Len(ws)] ==
            IF n = 0 THEN <<>>
            ELSE IF ws[n][2] \in ready THEN Append(queue[n - 1], ws[n])
            ELSE queue[n - 1]
    IN  queue[Len(ws)]

\* fd_event: nothing is queued if the socket was marked during the poll.
fd_event(ready) == IF reify THEN <<>> ELSE fd_event_nocheck(wlist, ready)

\* timers_reify: some of the active timers expire, in any order.  They repeat,
\* so they stay active.
timers_reify == UNION {SetToSeqs({Timeout(t) : t \in S}) : S \in SUBSET timers}

\* A faulty variant: expired timers are queued before the io events.
FeedOrder_timers_first(io, expired) == expired \o io

\* ev_run queues the timers that expired after what the back end found.
FeedOrder(io, expired) == io \o expired

\* The rest of the iteration: what is ready is up to the kernel and the clock.
feed ==
    /\ ~freed
    /\ polling /\ ~working
    /\ polling' = FALSE
    /\ \E ready \in SUBSET Kinds, expired \in timers_reify :
         pendings' = FeedOrder(fd_event(ready), expired)
    /\ UNCHANGED <<task, avail, libev, working, stack, ctx, writes, ends>>

-------------------------------------------------------------------------------
(* src/task.c.  The operators below describe what a call does to task t,   *)
(* whose fields have become r, with pend pending and the frames st.        *)

\* gs_task_init, and what gs_task_reset sets again.
gs_task_init == [type |-> "NOTSET", active |-> FALSE, done |-> FALSE,
                 cancel_once |-> FALSE, cancelled |-> FALSE, retcode |-> "OK",
                 timed |-> FALSE]

\* A faulty variant: done is not set back.
gs_task_reset_done(t, kind, timed) ==
    [gs_task_init EXCEPT !.type = kind, !.active = TRUE, !.timed = timed,
                         !.done = task[t].done]

\* gs_task_reset, gs_task_setup_send (or _recv) and the first line of
\* gs_task_start.  The watchers stay as they are.
gs_task_reset(t, kind, timed) ==
    [gs_task_init EXCEPT !.type = kind, !.active = TRUE, !.timed = timed]

\* Nothing but the fields, the pending events and the frames changes.
Keep(t, r, pend, st) ==
    /\ task' = [task EXCEPT ![t] = r]
    /\ pendings' = pend
    /\ stack' = st
    /\ UNCHANGED <<libev, ends>>

\* task_finish up to the call of when_done_cb.
task_finish(t, r, pend, st) ==
    /\ task' = [task EXCEPT ![t] = [r EXCEPT !.done = TRUE]]
    /\ ev_io_stop(<<t, r.type>>)
    /\ ev_timer_stop(t)
    /\ pendings' = Clear(pend, {<<t, r.type>>, Timeout(t)})
    /\ stack' = Append(st, <<"when_done", t>>)
    /\ ends' = [ends EXCEPT ![t] = @ + 1]

\* Faulty variants: gs_task_cancel does not look at cancel_once, or at
\* nothing, or does not say that the task was cancelled.
CancelTask_again(t, r, pend, st) ==
    IF ~r.active THEN Keep(t, r, pend, st)
    ELSE task_finish(t, [r EXCEPT !.cancelled = TRUE], pend, st)
CancelTask_always(t, r, pend, st) ==
    task_finish(t, [r EXCEPT !.cancelled = TRUE], pend, st)
CancelTask_untold(t, r, pend, st) ==
    IF r.cancel_once \/ ~r.active THEN Keep(t, r, pend, st)
    ELSE task_finish(t, [r EXCEPT !.cancel_once = TRUE], pend, st)

\* gs_task_cancel
CancelTask(t, r, pend, st) ==
    LET once == [r EXCEPT !.cancel_once = TRUE]
    IN  IF r.cancel_once \/ ~r.active
        THEN Keep(t, once, pend, st)
        ELSE task_finish(t, [once EXCEPT !.cancelled = TRUE], pend, st)

-------------------------------------------------------------------------------
(* gs_work *)

gs_work ==
    /\ stack = <<>> /\ ~working /\ sending = None /\ ~closing
    /\ pendings # <<>>
    /\ working' = TRUE
    /\ UNCHANGED <<task, avail, libev, pendings, polling, stack, ctx, writes, ends>>

\* One turn of ev_invoke_pending: the dummy does nothing; write_cb and
\* read_cb call the user's callback; timeout_cb cancels the task.
ev_invoke_pending ==
    /\ working /\ stack = <<>> /\ pendings # <<>>
    /\ LET w == Last(pendings)  rest == Front(pendings)
       IN  \/ w = Dummy
              /\ pendings' = rest /\ UNCHANGED <<task, libev, stack, ends>>
           \/ w[2] = "TIMEOUT"
              /\ CancelTask(w[1], task[w[1]], rest, stack)
           \/ w[2] \in {"SEND", "RECV"}
              /\ Keep(w[1], task[w[1]], rest, <<<<w[2], w[1]>>>>)
    /\ UNCHANGED <<avail, polling, working, ctx, writes>>

work_done ==
    /\ working /\ stack = <<>> /\ pendings = <<>>
    /\ working' = FALSE
    /\ UNCHANGED <<task, avail, libev, pendings, polling, stack, ctx, writes, ends>>

\* write_cb and read_cb after the user's callback returned rc.  A careful
\* callback that finds its task done (it cancelled it) returns an error.
io_return(rc) ==
    /\ stack # <<>> /\ Last(stack)[1] \in {"SEND", "RECV"}
    /\ LET t == Last(stack)[2]  below == Front(stack)
           r == [task[t] EXCEPT !.retcode = rc]
       IN  /\ Careful /\ task[t].done => rc = "ERROR"
           /\ \/ rc = "OK" /\ writes[t] < MaxWrites
                 /\ TimerAgain(t, task[t].timed, pendings)
                 /\ stack' = below
                 /\ writes' = [writes EXCEPT ![t] = @ + 1]
                 /\ UNCHANGED <<task, wlist, reify, ends>>
              \/ rc = "EOF" /\ task_finish(t, r, pendings, below)
                 /\ UNCHANGED writes
              \/ rc = "ERROR" /\ CancelTask(t, r, pendings, below)
                 /\ UNCHANGED writes
    /\ UNCHANGED <<avail, polling, working, ctx>>

\* The end of task_finish, after when_done_cb returned.
when_done_return ==
    /\ stack # <<>> /\ Last(stack)[1] = "when_done"
    /\ LET t == Last(stack)[2]
       IN  Keep(t, [task[t] EXCEPT !.active = FALSE], pendings, Front(stack))
    /\ UNCHANGED <<avail, polling, working, ctx, writes>>

-------------------------------------------------------------------------------
(* What user code calls, from callbacks and outside of them *)

TopLevel == stack = <<>> /\ ~working /\ sending = None /\ ~closing
UserRuns == TopLevel \/ (stack # <<>> /\ ~closing)
Held(t) == ~Contains(avail, t) /\ t # sending

\* gs_ctx_send up to the first critical section of gs_task_start.  From a
\* callback it would block on the lock gs_work holds.
gs_ctx_send(kind, timed) ==
    /\ TopLevel
    /\ avail # <<>> /\ sends < MaxSends
    /\ LET t == Head(avail)
       IN  /\ task' = [task EXCEPT ![t] = gs_task_reset(t, kind, timed)]
           /\ TimerAgain(t, timed, pendings)
           /\ sending' = t
           /\ order' = [order EXCEPT ![t] = sends]
           /\ writes' = [writes EXCEPT ![t] = 0]
           /\ ends' = [ends EXCEPT ![t] = 0]
    /\ avail' = Tail(avail)
    /\ sends' = sends + 1
    /\ UNCHANGED <<wlist, reify, polling, working, stack, closing, freed>>

\* gs_loop_io_set and gs_loop_io_start.
gs_task_start ==
    /\ sending # None
    /\ IF Contains(wlist, Io(sending))
       THEN UNCHANGED libev
       ELSE wlist' = wlist_add(Io(sending)) /\ reify' = TRUE /\ UNCHANGED timers
    /\ sending' = None
    /\ UNCHANGED <<task, avail, pendings, polling, working, stack, closing, freed,
                   sends, order, writes, ends>>

\* A careful program does not cancel a task that is done.
gs_task_cancel(t) ==
    /\ UserRuns /\ Held(t)
    /\ Careful => ~task[t].done
    /\ CancelTask(t, task[t], pendings, stack)
    /\ UNCHANGED <<avail, polling, working, ctx, writes>>

\* A program gives back tasks that are done, once.
gs_task_del(t) ==
    /\ UserRuns /\ Held(t)
    /\ task[t].done
    /\ avail' = Append(avail, t)
    /\ UNCHANGED <<task, libev, pendings, polling, working, stack, ctx, writes, ends>>

\* gs_ctx_del: cancel the tasks in the queue one by one, then free them all.
\* A careful program waits for its tasks first.
gs_ctx_del ==
    /\ TopLevel
    /\ Careful => \A t \in Tasks : Contains(avail, t) \/ task[t].done
    /\ closing' = TRUE
    /\ UNCHANGED <<task, avail, libev, pendings, polling, working, stack, sending,
                   freed, sends, order, writes, ends>>

ctx_del_cancel ==
    /\ closing /\ avail # <<>> /\ stack = <<>>
    /\ CancelTask(Head(avail), task[Head(avail)], pendings, stack)
    /\ avail' = Tail(avail)
    /\ UNCHANGED <<polling, working, ctx, writes>>

ctx_del_free ==
    /\ closing /\ avail = <<>> /\ stack = <<>> /\ ~freed
    /\ freed' = TRUE
    /\ UNCHANGED <<task, avail, libev, pendings, polling, working, stack, sending,
                   closing, sends, order, writes, ends>>

-------------------------------------------------------------------------------
(* Specification *)

\* gs_ctx_new
Init ==
    /\ task = [t \in Tasks |-> gs_task_init]
    /\ avail = [i \in 1 .. NTasks |-> i]
    /\ wlist = <<>> /\ reify = FALSE /\ timers = {} /\ pendings = <<>>
    /\ polling = FALSE /\ working = FALSE /\ stack = <<>>
    /\ sending = None /\ closing = FALSE /\ freed = FALSE
    /\ sends = 0
    /\ order = [t \in Tasks |-> 0]
    /\ writes = [t \in Tasks |-> 0]
    /\ ends = [t \in Tasks |-> 0]

Work == gs_work \/ ev_invoke_pending \/ work_done
Return == when_done_return \/ \E rc \in {"OK", "EOF", "ERROR"} : io_return(rc)

\* The model ends with the life of the context.
Terminated == freed /\ UNCHANGED vars

Next ==
    \/ poll \/ feed \/ Work \/ Return
    \/ \E kind \in Kinds, timed \in BOOLEAN : gs_ctx_send(kind, timed)
    \/ gs_task_start
    \/ \E t \in Tasks : gs_task_cancel(t) \/ gs_task_del(t)
    \/ gs_ctx_del \/ ctx_del_cancel \/ ctx_del_free
    \/ Terminated

Spec == Init /\ [][Next]_vars

-------------------------------------------------------------------------------
(* Properties *)

Watcher == Tasks \X (Kinds \cup {"TIMEOUT"})
TaskRecord == [type : Kinds \cup {"NOTSET"}, active : BOOLEAN, done : BOOLEAN,
               cancel_once : BOOLEAN, cancelled : BOOLEAN,
               retcode : {"OK", "EOF", "ERROR"}, timed : BOOLEAN]
Frame == (Kinds \cup {"when_done"}) \X Tasks

\* Every variable stays in its type.
TypeOK ==
    /\ task \in [Tasks -> TaskRecord]
    /\ avail \in Seq(Tasks)
    /\ wlist \in Seq(Watcher)
    /\ timers \subseteq Tasks
    /\ pendings \in Seq(Watcher \cup {Dummy})
    /\ stack \in Seq(Frame)
    /\ sending \in Tasks \cup {None}
    /\ \A b \in {reify, polling, working, closing, freed} : b \in BOOLEAN
    /\ sends \in 0 .. MaxSends
    /\ order \in [Tasks -> Nat] /\ writes \in [Tasks -> 0 .. MaxWrites]
    /\ ends \in [Tasks -> Nat]

\* Everything libev knows of the tasks of a context: its active watchers and
\* its pending events.
Known == ToSet(wlist) \cup {Timeout(t) : t \in timers} \cup (ToSet(pendings) \ {Dummy})

\* libev knows of a task only between its start and its end: no callback of a
\* task runs once its when_done_cb has been called, a task that is given back
\* can be started again, and one that is done can be freed.
WatchersOfRunningTasks ==
    \A w \in Known : LET r == task[w[1]]
                     IN  /\ r.active /\ ~r.done /\ ~Contains(avail, w[1])
                         /\ w[2] \in {r.type, "TIMEOUT"}

\* A task that was started and has not ended is not forgotten: libev watches
\* the socket for it, or will when its start is complete.
RunningTasksWatched ==
    \A t \in Tasks : task[t].active /\ ~task[t].done =>
        Contains(wlist, Io(t)) \/ sending = t

\* The program is told once that a task has ended.
EndsOnce == \A t \in Tasks : ends[t] = (IF task[t].done THEN 1 ELSE 0)

\* Even a program that cancels tasks that are done is told at most twice.
EndsAtMostTwice == \A t \in Tasks : ends[t] <= 2

\* Of a task that is done libev never watches the socket, even if the program
\* is not careful: only its timer can be left behind.
SocketOfRunningTasks ==
    \A w \in ToSet(wlist) : task[w[1]].active /\ ~task[w[1]].done

\* A task that ended without being cancelled ended because its callback
\* returned GS_EOF; a cancelled one never reports GS_EOF.
OutcomeTold == \A t \in Tasks : task[t].done =>
                   (task[t].cancelled <=> task[t].retcode # "EOF")

\* Of the events one iteration collects, timeouts are handled before writes
\* and reads, although they are collected after them: timeout_cb clears the
\* io event of its task, so a task that is ready and out of time in one
\* iteration is cancelled without calling its callback.
TimeoutsFirst ==
    \A i, j \in DOMAIN pendings :
        i < j /\ pendings[i][2] = "TIMEOUT" => pendings[j][2] \in {"TIMEOUT", "DUMMY"}

\* Tasks that are ready in the same iteration write in the order in which
\* they were sent.
OldestFirst ==
    \A i, j \in DOMAIN pendings :
        i < j /\ {pendings[i][2], pendings[j][2]} \subseteq Kinds =>
            order[pendings[i][1]] > order[pendings[j][1]]

\* The order in which one gs_work calls back.
CallbackOrder == TimeoutsFirst /\ OldestFirst

\* gs_ctx_del frees memory that libev does not know any more.
FreedUnknown == freed => Known = {}

\* The life cycle of tasks is that of TaskLife.
Life == INSTANCE TaskLife WITH
    life <- [t \in Tasks |-> IF closing \/ Contains(avail, t) THEN "free"
                             ELSE IF task[t].done THEN "ended" ELSE "running"],
    outcome <- [t \in Tasks |-> IF closing \/ Contains(avail, t) \/ ~task[t].done THEN "none"
                                ELSE IF task[t].cancelled THEN "cancelled"
                                ELSE "completed"],
    closed <- closing
LifeCycle == Life!LifeSpec

-------------------------------------------------------------------------------
(* Progress *)

\* The background thread keeps polling, and the timer of a task expires if it
\* stays active (MaxWrites bounds how often a callback puts it off); the
\* program keeps calling gs_work, and its callbacks return.  Nothing is
\* assumed of the socket.
Fairness ==
    /\ WF_vars(poll)
    /\ \A t \in Tasks : SF_vars(feed /\ Contains(pendings', Timeout(t)))
    /\ SF_vars(gs_work)
    /\ WF_vars(ev_invoke_pending \/ work_done \/ Return \/ gs_task_start)

FairSpec == Spec /\ Fairness

\* A task that was sent with a timeout ends, whatever the socket does.
TimedTaskEnds ==
    \A t \in Tasks : task[t].active /\ task[t].timed ~> task[t].done
===============================================================================
