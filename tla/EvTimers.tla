------------------------------- MODULE EvTimers -------------------------------
(***************************************************************************)
(* Timers of libev (src/libs/libev/ev.c) as src/src/libev.c builds it,     *)
(* without periodics: the loop's two notions of time, cached between       *)
(* iterations, the time it waits, and the timers that expire.  Timers      *)
(* count in monotonic time, and in wall-clock time, which may jump, where  *)
(* the system has no monotonic clock (have_monotonic).                     *)
(***************************************************************************)
EXTENDS EvHeap

CONSTANTS
    Timer,              \* the watchers
    Repeats,            \* repeat values of timers, 0 for none
    have_monotonic,
    MIN_TIMEJUMP,       \* a jump that is noticed, even
    MAX_BLOCKTIME,      \* no wait is longer without a monotonic clock
    MAX_BLOCKTIME2,     \* and none with one
    EV_TSTAMP_HUGE,     \* longer than any wait
    backend_mintime,    \* a shorter wait is rounded up
    Gaps,               \* ticks that may pass between the reads of the clocks
    Jumps,              \* by how much the wall clock jumps, either way
    MaxTime, MaxOps     \* bounds on the clock and on the program's operations

TimersAssumption ==
    /\ Repeats \subseteq Nat /\ have_monotonic \in BOOLEAN
    /\ MIN_TIMEJUMP \in Nat /\ Gaps \subseteq 0 .. MIN_TIMEJUMP - 1
    /\ {MAX_BLOCKTIME, MAX_BLOCKTIME2, EV_TSTAMP_HUGE, backend_mintime} \subseteq Nat
    /\ Jumps \subseteq Nat /\ MaxTime \in Nat /\ MaxOps \in Nat

VARIABLES
    clock,  \* the monotonic clock of the kernel
    off,    \* the wall clock is clock + off
    l,      \* the loop, see loop_init
    phase,  \* "user": callbacks, or no thread waits; "polling"
    since,  \* when the system call began
    wait,   \* how long it waits
    woken,  \* the wake-up channel was written since the poll began
    ops     \* number of operations of the program

vars == <<clock, off, l, phase, since, wait, woken, ops>>

wall == clock + off
Abs(x) == IF x < 0 THEN -x ELSE x
Least(x, y) == IF x < y THEN x ELSE y
Most(x, y) == IF x < y THEN y ELSE x

\* due and asked are histories: when each timer should run, by the clock of the
\* kernel, and the delay it was last started, moved or repeated with.
loop_init ==
    [mn_now |-> 0, ev_rt_now |-> 0, now_floor |-> 0, rtmn_diff |-> 0,
     timers |-> Empty(Timer),
     repeat |-> [w \in Timer |-> 0],
     pend |-> <<>>,         \* pendings, the top last
     due |-> [w \in Timer |-> 0], asked |-> [w \in Timer |-> 0]]

ActiveT(w) == l.timers.active[w] # 0
Pending(w) == Contains(l.pend, w)

clear_pending(x, w) == [x EXCEPT !.pend = SelectSeq(@, LAMBDA v : v # w)]

-------------------------------------------------------------------------------
(* Timers. *)

\* w.at holds the delay of a timer that is not active.
ev_timer_start(x, w) ==
    [x EXCEPT !.timers = heap_start([@ EXCEPT !.at[w] = @ + x.mn_now], w)]

ev_timer_stop(x, w) ==
    LET y == clear_pending(x, w)
    IN  IF x.timers.active[w] = 0 THEN y
        ELSE [y EXCEPT !.timers = [heap_stop(@, w) EXCEPT !.at[w] = @ - x.mn_now]]

ev_timer_again(x, w) ==
    LET y == clear_pending(x, w)
    IN  IF x.repeat[w] = 0 THEN ev_timer_stop(y, w)
        ELSE IF x.timers.active[w] # 0
        THEN [y EXCEPT !.timers = heap_move([@ EXCEPT !.at[w] = x.mn_now + x.repeat[w]], w)]
        ELSE ev_timer_start([y EXCEPT !.timers.at[w] = x.repeat[w]], w)

timers_reschedule(x, adjust) == [x EXCEPT !.timers = heap_adjust(@, adjust)]

-------------------------------------------------------------------------------
(* Time. *)

\* With a monotonic clock the wall clock is read every MIN_TIMEJUMP / 2 and
\* interpolated in between.  If the clocks moved apart, they are read again, in
\* the other order: one more reading stands for the up to three of the code.
\* No timer is touched, whatever they show.
time_update_monotonic(x, gap, regap) ==
    LET mn == Most(x.mn_now, clock - gap)
        reading(now, rt) == [x EXCEPT !.mn_now = now, !.now_floor = now,
                                      !.ev_rt_now = rt, !.rtmn_diff = rt - now]
    IN  IF 2 * (mn - x.now_floor) < MIN_TIMEJUMP
        THEN [x EXCEPT !.mn_now = mn, !.ev_rt_now = x.rtmn_diff + mn]
        ELSE IF Abs(x.rtmn_diff - (wall - mn)) < MIN_TIMEJUMP THEN reading(mn, wall)
        ELSE reading(clock, wall - regap)

\* A faulty variant: time that runs backwards is not a jump.
time_update_wall_forward(x, max_block) ==
    LET y == [x EXCEPT !.ev_rt_now = wall]
    IN  [(IF wall > x.mn_now + max_block + MIN_TIMEJUMP
          THEN timers_reschedule(y, wall - x.mn_now) ELSE y)
            EXCEPT !.mn_now = wall]

\* Without one, time that runs backwards or too fast is a jump.
time_update_wall(x, max_block) ==
    LET y == [x EXCEPT !.ev_rt_now = wall]
    IN  [(IF x.mn_now > wall \/ wall > x.mn_now + max_block + MIN_TIMEJUMP
          THEN timers_reschedule(y, wall - x.mn_now) ELSE y)
            EXCEPT !.mn_now = wall]

\* What the loop may know after an update.
time_update(x, max_block) ==
    IF have_monotonic THEN {time_update_monotonic(x, gap, regap) : gap, regap \in Gaps}
    ELSE {time_update_wall(x, max_block)}

-------------------------------------------------------------------------------
(* What expires. *)

\* Feeds what has expired, the first of it on top.
feed_reverse_done(x, fed) ==
    [x EXCEPT !.pend = @ \o SelectSeq(Reverse(fed), LAMBDA w : ~Contains(x.pend, w))]

First(s) == s.heap[1]

\* A faulty variant: the loop takes one expired timer and leaves the others.
timers_reify_one(x) ==
    IF x.timers.heap = <<>> \/ First(x.timers).at >= x.mn_now THEN x
    ELSE feed_reverse_done(ev_timer_stop(x, First(x.timers).w), <<First(x.timers).w>>)

\* A timer that repeats starts anew, no earlier than now, or else it stops.
\* After that it is not due again, so that each timer is taken at most once.
timers_reify(x) ==
    LET expire(y, w) ==
            IF y.repeat[w] = 0 THEN ev_timer_stop(y, w)
            ELSE LET at == Most(y.timers.at[w] + y.repeat[w], y.mn_now)
                 IN  [y EXCEPT !.timers =
                        downheap(ANHE_at_cache([@ EXCEPT !.at[w] = at], 1), Len(@.heap), 1),
                               !.due[w] = Most(@ + y.repeat[w], y.mn_now),
                               !.asked[w] = y.repeat[w]]
        next(r, w) ==
            IF r.x.timers.heap = <<>> \/ First(r.x.timers).at >= x.mn_now THEN r
            ELSE [x |-> expire(r.x, First(r.x.timers).w),
                  fed |-> Append(r.fed, First(r.x.timers).w)]
        all == Steps(next, [x |-> x, fed |-> <<>>], SetToSeq(Timer))
    IN  feed_reverse_done(all.x, all.fed)

\* A faulty variant: the wait does not look at the timers.
waittime_untimed(x) == IF have_monotonic THEN MAX_BLOCKTIME2 ELSE MAX_BLOCKTIME

\* How long the loop waits: up to the first timer.  timeout_blocktime and
\* io_blocktime, which would lengthen it, are 0, as gs leaves them.
waittime(x) ==
    LET max == IF have_monotonic THEN MAX_BLOCKTIME2 ELSE MAX_BLOCKTIME
        to == IF x.timers.heap = <<>> THEN max ELSE Least(max, First(x.timers).at - x.mn_now)
    IN  IF to <= 0 THEN 0 ELSE Most(to, backend_mintime)

-------------------------------------------------------------------------------

Init ==
    /\ clock = 0 /\ off = 0
    /\ l = loop_init
    /\ phase = "user" /\ since = 0 /\ wait = 0 /\ woken = FALSE /\ ops = 0

tick ==
    /\ clock < MaxTime
    /\ clock' = clock + 1
    /\ UNCHANGED <<off, l, phase, since, wait, woken, ops>>

\* Somebody sets the wall clock.
jump ==
    /\ ops < MaxOps /\ ops' = ops + 1
    /\ \E by \in Jumps : off' \in {off + by, off - by}
    /\ UNCHANGED <<clock, l, phase, since, wait, woken>>

\* An operation of a callback, or of a client thread that wakes the loop if it
\* waits, as gs_loop_timer_again does.
does(x) ==
    /\ ops < MaxOps /\ ops' = ops + 1
    /\ l' = x
    /\ woken' = (woken \/ phase = "polling")
    /\ UNCHANGED <<clock, off, phase, since, wait>>

again(w) ==
    \E repeat \in Repeats :
        does(ev_timer_again([l EXCEPT !.repeat[w] = repeat, !.due[w] = clock + repeat,
                                      !.asked[w] = repeat], w))

stop(w) == (ActiveT(w) \/ Pending(w)) /\ does(ev_timer_stop(l, w))

\* ev_timer_start goes on with what a stopped timer had left.
start(w) ==
    /\ ~ActiveT(w) /\ l.timers.at[w] > 0
    /\ does(ev_timer_start([l EXCEPT !.due[w] = clock + l.timers.at[w],
                                     !.asked[w] = l.timers.at[w]], w))

program == \E w \in Timer : again(w) \/ stop(w) \/ start(w)

\* EV_INVOKE_PENDING runs the callback on top.
invoke ==
    /\ phase = "user" /\ l.pend # <<>>
    /\ l' = [l EXCEPT !.pend = Front(@)]
    /\ UNCHANGED <<clock, off, phase, since, wait, woken, ops>>

\* ev_run up to the system call.
enter_poll ==
    /\ phase = "user" /\ l.pend = <<>>
    /\ phase' = "polling" /\ woken' = FALSE
    /\ l' \in time_update(l, EV_TSTAMP_HUGE)
    /\ since' = clock /\ wait' = waittime(l')
    /\ UNCHANGED <<clock, off, ops>>

\* Time runs out, the channel was written, a file is ready or there is a signal.
poll_returns ==
    /\ phase = "polling"
    /\ phase' = "user"
    /\ l' \in {timers_reify(x) : x \in time_update(l, wait)}
    /\ UNCHANGED <<clock, off, since, wait, woken, ops>>

loop == invoke \/ enter_poll \/ poll_returns

Next == tick \/ jump \/ program \/ loop

Spec == Init /\ [][Next]_vars

-------------------------------------------------------------------------------

TypeOK ==
    /\ clock \in 0 .. MaxTime /\ off \in Int
    /\ l.mn_now \in Int /\ l.now_floor \in Int /\ l.ev_rt_now \in Int /\ l.rtmn_diff \in Int
    /\ l.timers.active \in [Timer -> 0 .. Len(l.timers.heap)]
    /\ l.repeat \in [Timer -> Repeats \cup {0}]
    /\ ToSet(l.pend) \subseteq Timer
    /\ phase \in {"user", "polling"}

\* ev_verify on the heap, whatever expires, starts and stops at once.
HeapVerified == VerifyHeap(l.timers)

\* The loop leaves no expired timer behind: when it has looked at them none is
\* due, each one it stopped or moved on is pending, none twice, and, where time
\* does not jump, none before its time.
TakesExpired ==
    poll_returns =>
        /\ \A w \in Timer : ActiveT(w)' => l'.timers.at[w] >= l'.mn_now
        /\ have_monotonic => \A w \in Timer :
             /\ ActiveT(w) /\ l'.timers.at[w] # l.timers.at[w] => Pending(w)'
             /\ Pending(w)' => Pending(w) \/ l.timers.at[w] < l'.mn_now
        /\ IsInjective(l'.pend)

\* The loop does not sleep past a timer: its wait ends when the timer is due by
\* the clock of the kernel, give or take the rounding of the back end and the
\* age of its own reading.  An operation while it waits wakes it (gs writes to
\* the channel), and it will compute the wait anew: the wait it is in says nothing.
SleepsNotPast ==
    phase = "polling" /\ ~woken /\ have_monotonic =>
        \A w \in Timer : ActiveT(w) =>
            since + wait <= Most(since, l.due[w]) + backend_mintime + (since - l.mn_now)

\* A timer is never further ahead of the loop than it was asked to be: jumps of
\* the wall clock leave the timers alone where there is a monotonic clock, and
\* take them along where there is none.
NotFar == \A w \in Timer : ActiveT(w) => l.timers.at[w] <= l.mn_now + l.asked[w]

===============================================================================
