--------------------------------- MODULE EvIo ---------------------------------
(***************************************************************************)
(* What io watchers promise, whatever the back end: a watcher is told only *)
(* of events it waits for and its file is ready for, or that it has been   *)
(* stopped because of an error.  Every back end module implements this.    *)
(***************************************************************************)
CONSTANT Watcher

VARIABLES
    wanted, \* the events each watcher waits for, none when it is not active
    told,   \* the events it will be called with
    level   \* the events its file is, or just was, ready for

vars == <<wanted, told, level>>

Events == {"READ", "WRITE"}

Init ==
    /\ wanted = [w \in Watcher |-> {}]
    /\ told = [w \in Watcher |-> {}]
    /\ level \in [Watcher -> SUBSET Events]

\* The program starts or stops a watcher; one that is stopped is told nothing.
Change(w) ==
    /\ wanted' = [wanted EXCEPT ![w] = wanted'[w]]
    /\ \/ wanted[w] = {} /\ UNCHANGED told
       \/ wanted'[w] = {} /\ told' = [told EXCEPT ![w] = {}]

\* The loop tells a watcher.
MayTell(w) ==
    \/ UNCHANGED <<wanted[w], told[w]>>
    \/ /\ wanted'[w] = wanted[w]
       /\ told[w] \subseteq told'[w]
       /\ told'[w] \subseteq told[w] \cup (wanted[w] \cap level[w])
    \/ /\ wanted[w] # {} /\ wanted'[w] = {}
       /\ told'[w] = Events \cup {"ERROR"}

Tell == \A w \in Watcher : MayTell(w)

\* The callback of a watcher runs.
Run(w) == told' = [told EXCEPT ![w] = {}] /\ UNCHANGED <<wanted, level>>

\* Files become ready or not, descriptors are opened and closed.
Environment == UNCHANGED <<wanted, told>>

Next ==
    \/ \E w \in Watcher : Change(w) \/ Run(w)
    \/ Tell
    \/ Environment

Spec == Init /\ [][Next]_vars
===============================================================================
