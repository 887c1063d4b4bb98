------------------------------ MODULE MCEvTimers ------------------------------
(***************************************************************************)
(* The heap and the timers of libev for TLC, a part at a time: the heap    *)
(* alone, with more elements than a loop with clocks allows; two timers    *)
(* with a monotonic clock; and one timer while the wall clock jumps, with  *)
(* and without a monotonic clock.                                          *)
(***************************************************************************)
EXTENDS Integers

CONSTANTS NElement, Timer, Times, Repeats, MIN_TIMEJUMP, MAX_BLOCKTIME, MAX_BLOCKTIME2,
          EV_TSTAMP_HUGE, backend_mintime, MaxTime, MaxOps, HeapOps, FilledOps

VARIABLES part, h, armed, clock, off, l, phase, since, wait, woken, ops

heapvars == <<h, armed>>
loopvars == <<clock, off, l, phase, since, wait, woken, ops>>
vars == <<part, heapvars, loopvars>>

Element == 1 .. NElement
One == {CHOOSE t \in Timer : TRUE}

Heap == INSTANCE EvHeapUse

Relative == INSTANCE EvTimers WITH
    Gaps <- {0}, Jumps <- {}, have_monotonic <- TRUE
Jumping == INSTANCE EvTimers WITH
    Timer <- One, Gaps <- {0, 1}, Jumps <- {3}, have_monotonic <- TRUE
Wall == INSTANCE EvTimers WITH
    Timer <- One, Gaps <- {0}, Jumps <- {3}, have_monotonic <- FALSE

ASSUME HeapUsable == Heap!HeapAssumption
ASSUME RelativeUsable == Relative!TimersAssumption
ASSUME JumpingUsable == Jumping!TimersAssumption
ASSUME WallUsable == Wall!TimersAssumption

\* A heap that NElement starts have filled, each element at the end of the array.
inTurn(time) == [heap   |-> [k \in Element |-> [w |-> k, at |-> time[k]]],
                 active |-> [w \in Element |-> w],
                 at     |-> time]

Filled ==
    \E time \in {t \in [Element -> {1, 2}] : Heap!VerifyHeap(inTurn(t))} :
        h = inTurn(time) /\ armed = time

Init ==
    \/ part = "heap"   /\ Heap!Init /\ Relative!Init
    \/ part = "filled" /\ Filled    /\ Relative!Init
    \/ part = "timers" /\ Heap!Init /\ Relative!Init
    \/ part = "jumps"  /\ Heap!Init /\ Jumping!Init
    \/ part = "wall"   /\ Heap!Init /\ Wall!Init

\* Elements can be exchanged for one another: the least of those that are not
\* in the heap is the next to start.
InTurn ==
    \A w \in Element : h.active[w] = 0 /\ h'.active[w] # 0 =>
        \A v \in Element : v < w => h.active[v] # 0

heap ==
    /\ ops < (IF part = "filled" THEN FilledOps ELSE HeapOps) /\ ops' = ops + 1
    /\ Heap!Next /\ InTurn
    /\ UNCHANGED <<clock, off, l, phase, since, wait, woken>>

Next ==
    /\ UNCHANGED part
    /\ \/ part \in {"heap", "filled"} /\ heap
       \/ part = "timers" /\ Relative!Next /\ UNCHANGED heapvars
       \/ part = "jumps" /\ Jumping!Next /\ UNCHANGED heapvars
       \/ part = "wall" /\ Wall!Next /\ UNCHANGED heapvars

Spec == Init /\ [][Next]_vars

-------------------------------------------------------------------------------

TypeOK ==
    /\ part \in {"heap", "filled"} => Heap!TypeOK
    /\ part = "timers" => Relative!TypeOK
    /\ part = "jumps" => Jumping!TypeOK
    /\ part = "wall" => Wall!TypeOK

\* The heap alone holds what was started and not stopped, in order, with the
\* earliest at the root, also when the last element, put in the place of one
\* that was stopped, has to go up; and so does the loop's heap of timers,
\* whatever expires, is moved or jumps.
HeapsInOrder ==
    /\ part \in {"heap", "filled"} => Heap!verify_heap /\ Heap!EntriesKept /\ Heap!RootIsEarliest
    /\ part = "timers" => Relative!HeapVerified
    /\ part = "jumps" => Jumping!HeapVerified
    /\ part = "wall" => Wall!HeapVerified

\* After timers_reify no timer is left that is due, and none is told early.
NoneLeftExpired ==
    [][/\ part = "timers" => Relative!TakesExpired
       /\ part = "jumps" => Jumping!TakesExpired
       /\ part = "wall" => Wall!TakesExpired]_vars

\* The wait the loop chooses ends when its first timer is due.
SleepsNotPast ==
    /\ part = "timers" => Relative!SleepsNotPast
    /\ part = "jumps" => Jumping!SleepsNotPast

\* A jump of the wall clock puts no timer off.
NotFar ==
    /\ part = "timers" => Relative!NotFar
    /\ part = "jumps" => Jumping!NotFar
    /\ part = "wall" => Wall!NotFar
===============================================================================
