------------------------------- MODULE TaskLife -------------------------------
(***************************************************************************)
(* What a context of gs promises about its tasks: each is free, running or *)
(* ended; a running task ends once, with one outcome that never changes    *)
(* until the task is given back; and the context is closed only when no    *)
(* task runs.                                                              *)
(***************************************************************************)
CONSTANT Tasks

VARIABLES
    life,       \* "free", "running" or "ended", for each task
    outcome,    \* "none", "completed" or "cancelled", for each task
    closed      \* the context is being deleted

lifeVars == <<life, outcome, closed>>

LifeInit ==
    /\ life = [t \in Tasks |-> "free"]
    /\ outcome = [t \in Tasks |-> "none"]
    /\ closed = FALSE

Moves(t, from, to, o) ==
    /\ ~closed
    /\ life[t] = from
    /\ life' = [life EXCEPT ![t] = to]
    /\ outcome' = [outcome EXCEPT ![t] = o]
    /\ UNCHANGED closed

Send(t) == Moves(t, "free", "running", "none")
Complete(t) == Moves(t, "running", "ended", "completed")
Cancel(t) == Moves(t, "running", "ended", "cancelled")
Release(t) == Moves(t, "ended", "free", "none")

Close ==
    /\ \A t \in Tasks : life[t] # "running"
    /\ closed' = TRUE
    /\ life' = [t \in Tasks |-> "free"]
    /\ outcome' = [t \in Tasks |-> "none"]

LifeNext ==
    \/ \E t \in Tasks : Send(t) \/ Complete(t) \/ Cancel(t) \/ Release(t)
    \/ Close

LifeSpec == LifeInit /\ [][LifeNext]_lifeVars
===============================================================================
