------------------------------- MODULE MCEvEvents -------------------------------
(***************************************************************************)
(* The events of libev that are not about descriptors or time, for TLC, a  *)
(* part at a time: signals through handlers and through a signalfd, stat   *)
(* watchers, and the order of callbacks in an iteration.                   *)
(***************************************************************************)
EXTENDS Integers

CONSTANTS w1, w2, w3, Thread, NSig, None, NUMPRI, MaxDepth,
          File, Missing, SignalOps, SignalfdOps, RunOps, StatOps

VARIABLES
    part,
    sig, ch, pc, lp, todo, kernel, owed,                            \* EvSignal
    of, arr, pendingpri, activecnt, loop_done, stack, user, untold, \* EvRun
    x, told,                                                        \* EvStat
    pend, postfork, ops                                             \* shared by name

signalvars == <<sig, ch, pc, lp, todo, kernel, owed>>
runvars == <<of, arr, pendingpri, activecnt, loop_done, stack, user, untold>>
statvars == <<x, told>>
vars == <<part, signalvars, runvars, statvars, pend, postfork, ops>>

Two == {w1, w2}
Watcher == {w1, w2, w3}

Handler == INSTANCE EvSignal WITH
    Watcher <- Two, use_signalfd <- FALSE, Forks <- FALSE, MaxOps <- SignalOps
Forking == INSTANCE EvSignal WITH
    Watcher <- Two, Thread <- {CHOOSE t \in Thread : TRUE},
    use_signalfd <- FALSE, Forks <- TRUE, MaxOps <- SignalOps
Signalfd == INSTANCE EvSignal WITH
    Watcher <- Two, Thread <- {}, use_signalfd <- TRUE, Forks <- FALSE, MaxOps <- SignalfdOps
Run == INSTANCE EvRun WITH
    Kinds <- {"io", "idle", "check", "prepare"}, LateFork <- FALSE, MaxOps <- RunOps
Fork == INSTANCE EvRun WITH
    Kinds <- {"fork", "cleanup", "prepare"}, NUMPRI <- 1, LateFork <- FALSE, MaxOps <- RunOps
Stat == INSTANCE EvStat WITH
    Watcher <- Two, Watches <- 2, QueueMax <- 2, Buffer <- 2, Races <- {}, MaxOps <- StatOps

ASSUME HandlerAssumption == Handler!SignalAssumption
ASSUME ForkingAssumption == Forking!SignalAssumption
ASSUME SignalfdAssumption == Signalfd!SignalAssumption
ASSUME IterationAssumption == Run!RunAssumption
ASSUME ForkAssumption == Fork!RunAssumption
ASSUME FilesAssumption == Stat!StatAssumption

NoSignals == sig = <<>> /\ ch = <<>> /\ pc = <<>> /\ lp = "" /\ todo = {} /\ kernel = {} /\ owed = {}
NoRun == /\ of = <<>> /\ arr = <<>> /\ pendingpri = 0 /\ activecnt = 0 /\ loop_done = "" /\ stack = <<>>
         /\ user = 0 /\ untold = {}
NoStat == x = <<>> /\ told = <<>>

Init ==
    \/ /\ NoRun /\ NoStat
       /\ \/ part = "handler"  /\ Handler!Init
          \/ part = "forking"  /\ Forking!Init
          \/ part = "signalfd" /\ Signalfd!Init
    \/ /\ NoSignals /\ NoStat
       /\ \/ part = "run"      /\ Run!Init
          \/ part = "fork"     /\ Fork!Init
    \/ /\ NoSignals /\ NoRun
       /\ part = "stat" /\ Stat!Init /\ pend = <<>> /\ postfork = 0

\* Watchers can be exchanged for one another: the least of those that are not
\* active is the next to start.
InTurn(active(_)) ==
    \A p \in {<<w1, w2>>, <<w1, w3>>, <<w2, w3>>} : ~active(p[2]) /\ active(p[2])' => active(p[1])

notsignals == UNCHANGED <<part, runvars, statvars>>
notrun == UNCHANGED <<part, signalvars, statvars>>
notstat == UNCHANGED <<part, signalvars, runvars, pend, postfork>>

Next ==
    \/ part = "handler"  /\ Handler!Next  /\ notsignals /\ InTurn(Handler!Active)
    \/ part = "forking"  /\ Forking!Next  /\ notsignals /\ InTurn(Forking!Active)
    \/ part = "signalfd" /\ Signalfd!Next /\ notsignals /\ InTurn(Signalfd!Active)
    \/ part = "run"      /\ Run!Next      /\ notrun     /\ InTurn(Run!Active)
    \/ part = "fork"     /\ Fork!Next     /\ notrun     /\ InTurn(Fork!Active)
    \/ part = "stat"     /\ Stat!Next     /\ notstat

Spec == Init /\ [][Next]_vars

\* The loop and the threads run on; see LiveSpec of EvSignal.
LiveSpec ==
    /\ Spec
    /\ WF_vars(part = "handler" /\ Handler!loop /\ notsignals)
    /\ \A t \in Thread : WF_vars(part = "handler" /\ Handler!writer(t) /\ notsignals)
    /\ WF_vars(part = "signalfd" /\ Signalfd!loop /\ notsignals)

-------------------------------------------------------------------------------

TypeOK ==
    /\ part = "handler" => Handler!TypeOK
    /\ part = "forking" => Forking!TypeOK
    /\ part = "signalfd" => Signalfd!TypeOK
    /\ part = "run" => Run!TypeOK /\ Run!ActiveCounted
    /\ part = "fork" => Fork!TypeOK /\ Fork!ActiveCounted
    /\ part = "stat" => Stat!TypeOK /\ Stat!ActiveCounted

\* No signal and no wake-up is lost between a handler or a thread and the loop.
NothingForgotten ==
    /\ part = "handler" => Handler!NoLostWakeup /\ Handler!SignalOnItsWay
    /\ part = "forking" => Forking!NoLostWakeup /\ Forking!SignalOnItsWay
    /\ part = "signalfd" => Signalfd!SignalOnItsWay

\* A signal and an event that was sent are told in the end.
\* With a fork not: the wake-up that loop_fork leaves pending waits for the poll.
ToldInTheEnd ==
    /\ \A w \in Two : []<>(part \in {"handler", "signalfd"} => w \notin owed)
    /\ []<>(part = "handler" => ~ch.sent)

\* No change of a file is missed between inotify, the timers and the loop.
NoneMissed == part = "stat" => Stat!ChangeOnItsWay

\* Priorities, idle watchers, fork watchers and the poll keep their order.
RunsInOrder ==
    [][/\ part = "run" => Run!HighestFirst /\ Run!IdleWhenIdle /\ Run!PollsWhenDone
       /\ part = "fork" => Fork!HighestFirst /\ Fork!PollsWhenDone /\ Fork!ForkBeforePoll]_vars
===============================================================================
