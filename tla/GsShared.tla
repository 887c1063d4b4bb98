-------------------------------- MODULE GsShared --------------------------------
(***************************************************************************)
(* The tasks of a context between two threads: one calls gs_ctx_send,      *)
(* looks at its tasks and gives them back, the other calls gs_work.  Only  *)
(* the calls into libev take the lock, so the fields of a task are written *)
(* and read at the grain of src/task.c; GsTask models the same code for a  *)
(* single thread.  The sender cancels nothing: gs_task_cancel outside of   *)
(* gs_work takes no lock at all (see GsLoop).                              *)
(***************************************************************************)
EXTENDS Naturals

CONSTANTS
    Task,       \* the tasks of the context
    None,       \* no task
    Prompt,     \* does no timer expire while its gs_ctx_send goes on?
    Waits       \* is a task given back only after when_done_cb has returned?

ASSUME SharedAssumption == None \notin Task /\ Prompt \in BOOLEAN /\ Waits \in BOOLEAN

VARIABLES
    task,       \* the fields of struct gs_task
    s,          \* each task for the sender, who has it when s is "held"
    d,          \* what the other thread does, and for which task; "idle": without the lock
    io, timer,  \* libev: the tasks whose watchers are active
    pend,       \* libev: pending events
    ends        \* calls of when_done_cb since the task was sent

vars == <<task, s, d, io, timer, pend, ends>>
libev == <<io, timer, pend>>

Fresh == [active |-> FALSE, done |-> FALSE, cancel_once |-> FALSE, cancelled |-> FALSE,
          retcode |-> "OK", timed |-> FALSE]

Init ==
    /\ task = [t \in Task |-> Fresh]
    /\ s = [t \in Task |-> "avail"]
    /\ d = [at |-> "idle", task |-> None]
    /\ io = {} /\ timer = {} /\ pend = {}
    /\ ends = [t \in Task |-> 0]

Unlocked == d.at = "idle"

-------------------------------------------------------------------------------
(* The sender. *)

step(t, from, to) == s[t] = from /\ s' = [s EXCEPT ![t] = to]
Starting == \E t \in Task : s[t] \in {"setup", "timer", "io"}

\* A faulty variant: cancel_once stays set.
gs_task_reset_once(t, timed) ==
    [Fresh EXCEPT !.timed = timed, !.cancel_once = task[t].cancel_once]

gs_task_reset(t, timed) == [Fresh EXCEPT !.timed = timed]

\* gs_ctx_pop, gs_task_reset and gs_task_setup_send.
gs_ctx_send(t, timed) ==
    /\ ~Starting /\ step(t, "avail", "setup")
    /\ task' = [task EXCEPT ![t] = gs_task_reset(t, timed)]
    /\ ends' = [ends EXCEPT ![t] = 0]
    /\ UNCHANGED <<d, libev>>

start_active(t) ==
    /\ step(t, "setup", "timer")
    /\ task' = [task EXCEPT ![t].active = TRUE]
    /\ UNCHANGED <<d, libev, ends>>

timer_again(t) ==
    /\ timer' = IF task[t].timed THEN timer \cup {t} ELSE timer \ {t}
    /\ pend' = pend \ {<<t, "TIMEOUT">>}

start_timer(t) ==
    /\ Unlocked /\ step(t, "timer", "io")
    /\ timer_again(t)
    /\ UNCHANGED <<task, d, io, ends>>

start_io(t) ==
    /\ Unlocked /\ step(t, "io", "held")
    /\ io' = io \cup {t}
    /\ UNCHANGED <<task, d, timer, pend, ends>>

\* The task that task_finish is about, until when_done_cb has returned.
Finishing(t) == d.task = t /\ d.at \in {"finish", "done", "tell", "told"}

\* A program gives back a task that it finds done.
gs_task_del(t) ==
    /\ task[t].done /\ (Waits => ~Finishing(t))
    /\ ~Starting /\ step(t, "held", "avail")
    /\ UNCHANGED <<task, d, libev, ends>>

gs_task_start(t) == start_active(t) \/ start_timer(t) \/ start_io(t)

-------------------------------------------------------------------------------
(* The background thread, and the thread that works. *)

\* An iteration of the loop finds sockets ready, or the time over.
feed ==
    /\ Unlocked /\ pend = {}
    /\ pend' \in SUBSET ((io \X {"IO"}) \cup (timer \X {"TIMEOUT"})) \ {{}}
    /\ Prompt => \A t \in Task : <<t, "TIMEOUT">> \in pend' => s[t] # "io"
    /\ UNCHANGED <<task, s, d, io, timer, ends>>

gs_work ==
    /\ Unlocked /\ pend # {}
    /\ d' = [d EXCEPT !.at = "work"]
    /\ UNCHANGED <<task, s, libev, ends>>

timeout_cb(t) ==
    /\ d.at = "work" /\ <<t, "TIMEOUT">> \in pend
    /\ pend' = pend \ {<<t, "TIMEOUT">>}
    /\ d' = [at |-> "cancel", task |-> t]
    /\ UNCHANGED <<task, s, io, timer, ends>>

\* write_cb or read_cb.  The timeouts of an iteration come before its io events.
io_cb(t, rc) ==
    /\ d.at = "work" /\ <<t, "IO">> \in pend
    /\ \A e \in pend : e[2] = "IO"
    /\ pend' = pend \ {<<t, "IO">>}
    /\ IF rc = "OK"
       THEN /\ timer' = IF task[t].timed THEN timer \cup {t} ELSE timer \ {t}
            /\ UNCHANGED <<task, d>>
       ELSE /\ task' = [task EXCEPT ![t].retcode = rc]
            /\ d' = [at |-> IF rc = "EOF" THEN "finish" ELSE "cancel", task |-> t]
            /\ UNCHANGED timer
    /\ UNCHANGED <<s, io, ends>>

works(from, to) == d.at = from /\ d' = [d EXCEPT !.at = to]

\* gs_task_cancel: the flag is tested and set in one step.
cancel_once(t) ==
    /\ works("cancel", IF task[t].cancel_once THEN "work" ELSE "check")
    /\ task' = [task EXCEPT ![t].cancel_once = TRUE]
    /\ UNCHANGED <<s, libev, ends>>

\* A faulty variant: cancelled is not set.
gs_task_cancel_untold(t) ==
    /\ works("check", IF task[t].active THEN "finish" ELSE "work")
    /\ UNCHANGED <<task, s, libev, ends>>

gs_task_cancel(t) ==
    /\ works("check", IF task[t].active THEN "finish" ELSE "work")
    /\ task' = [task EXCEPT ![t].cancelled = @ \/ task[t].active]
    /\ UNCHANGED <<s, libev, ends>>

\* A faulty variant: the watcher of the socket is not stopped.
finish_stop_timer(t) ==
    /\ works("finish", "done")
    /\ timer' = timer \ {t}
    /\ pend' = pend \ {<<t, "TIMEOUT">>}
    /\ UNCHANGED <<task, s, io, ends>>

finish_stop(t) ==
    /\ works("finish", "done")
    /\ io' = io \ {t} /\ timer' = timer \ {t}
    /\ pend' = pend \ {<<t, "IO">>, <<t, "TIMEOUT">>}
    /\ UNCHANGED <<task, s, ends>>

finish_done(t) ==
    /\ works("done", "tell")
    /\ task' = [task EXCEPT ![t].done = TRUE]
    /\ UNCHANGED <<s, libev, ends>>

when_done_cb(t) ==
    /\ works("tell", "told")
    /\ ends' = [ends EXCEPT ![t] = @ + 1]
    /\ UNCHANGED <<task, s, libev>>

finish_inactive(t) ==
    /\ works("told", "work")
    /\ task' = [task EXCEPT ![t].active = FALSE]
    /\ UNCHANGED <<s, libev, ends>>

work_done ==
    /\ d.at = "work" /\ pend = {}
    /\ d' = [at |-> "idle", task |-> None]
    /\ UNCHANGED <<task, s, libev, ends>>

finish(t) ==
    /\ d.task = t
    /\ \/ cancel_once(t) \/ gs_task_cancel(t)
       \/ finish_stop(t) \/ finish_done(t) \/ when_done_cb(t) \/ finish_inactive(t)

Next ==
    \/ \E t \in Task, timed \in BOOLEAN : gs_ctx_send(t, timed)
    \/ \E t \in Task :
         \/ gs_task_start(t) \/ gs_task_del(t)
         \/ timeout_cb(t) \/ finish(t)
         \/ \E rc \in {"OK", "EOF", "ERROR"} : io_cb(t, rc)
    \/ feed \/ gs_work \/ work_done

Spec == Init /\ [][Next]_vars

-------------------------------------------------------------------------------

Running(t) == s[t] = "held" /\ ~task[t].done

\* libev watches the socket and the time for a task from the end of its start
\* to its end, and a timeout in that time is not ignored, because the task is
\* active and was not cancelled.  Of a task that is given back libev knows
\* nothing.
WatchedWhileRunning ==
    \A t \in Task :
        /\ Running(t) /\ ~(d.task = t /\ d.at # "work") =>
             /\ t \in io /\ (t \in timer <=> task[t].timed)
             /\ task[t].active /\ ~task[t].cancel_once
        /\ s[t] = "avail" => t \notin io \cup timer /\ \A e \in pend : e[1] # t

\* A thread that finds the task done also finds how it ended, where the plain
\* writes of task_finish reach the other thread in their order: done is a data
\* race, and sequential consistency is an assumption of this module.
OutcomeReady ==
    \A t \in Task : s[t] = "held" /\ task[t].done =>
        (task[t].cancelled <=> task[t].retcode # "EOF")

\* The program is told once of each task, and of none that it has given back.
EndsOnce ==
    \A t \in Task :
        /\ ends[t] <= 1
        /\ d.task = t /\ d.at \in {"tell", "told"} => s[t] = "held" /\ task[t].done
===============================================================================
