-------------------------------- MODULE GsLoop --------------------------------
(***************************************************************************)
(* The background loop of gs: src/loop.c, src/sync.c and the entry points  *)
(* of src/gs.c, over the skeleton of libev's ev_run.                       *)
(*                                                                         *)
(* One background thread runs ev_run(EVRUN_NOWAIT) again and again holding *)
(* sync->lock, which it gives up only around epoll_wait and while it waits *)
(* for a client to call gs_work.  Client threads start and stop the loop,  *)
(* register watchers, and dispatch the pending callbacks in gs_work.       *)
(*                                                                         *)
(* Every step between two points where another thread can act is an action *)
(* of its own.  gs_loop_stop is split down to single assignments, because  *)
(* it changes what the background thread reads without the lock.  Writes   *)
(* become visible in program order.                                        *)
(***************************************************************************)
EXTENDS Naturals, EvAsync

CONSTANTS
    Clients,        \* the threads of the program that uses gs
    Main,           \* the client that calls gs_start and gs_stop
    Ios,            \* the ev_io watchers clients register
    Timers,         \* the ev_timer watchers clients register
    MaxStarts,      \* bound on the number of calls of gs_start
    CancelUnlocked  \* may a client call gs_task_cancel outside a callback?

Loop == "loop"      \* the background thread
NoOne == "noone"    \* the owner of a free mutex
Watchers == Ios \cup Timers

ASSUME ClientsAssumption == Main \in Clients /\ {Loop, NoOne} \cap Clients = {}
ASSUME WatchersAssumption == {"async", "dummy"} \cap Watchers = {}
ASSUME BoundAssumption == MaxStarts \in Nat /\ CancelUnlocked \in BOOLEAN

VARIABLES
    sync,           \* loop.c: the static pointer has been assigned (not null)
    syncLive,       \* sync.c: mutex and condition variable are initialised
    lock,           \* sync.c: the owner of sync->lock
    stop_loop,      \* loop.c
    pending_work,   \* loop.c
    invoke_cb,      \* libev: what EV_INVOKE_PENDING calls
    release_cb,     \* libev: is unlock_cb installed?
    acquire_cb,     \* libev: is lock_cb installed?
    asynccnt,       \* libev: registrations of async_watcher
    channel,        \* libev: the wake-up channel of EvAsync
    pipe_events,    \* libev: the mask pending for pipe_w (priority EV_MAXPRI)
    pending,        \* libev: the other pending watchers (priority 0)
    armed,          \* libev: the active watchers of clients
    got,            \* libev: epoll_wait reported the event descriptor
    phase,          \* which EV_INVOKE_PENDING of ev_run the loop is in
    pcL,            \* control state of the background thread
    pc,             \* control state of each client thread
    up,             \* gs_start has returned true and gs_stop is not called
    starts          \* number of calls of gs_start so far

evVars == <<channel, pipe_events, pending, armed>>
cbVars == <<invoke_cb, release_cb, acquire_cb>>
vars == <<sync, syncLive, lock, stop_loop, pending_work, cbVars, asynccnt,
          evVars, got, phase, pcL, pc, up, starts>>

-------------------------------------------------------------------------------
(* Pending events *)

\* ev_pending_count() # 0
HasPending == pipe_events # {} \/ pending # {}

\* clear_pending leaves a dummy entry behind, so the count does not drop.
Cleared(P, S) == IF P \cap S = {} THEN P ELSE (P \ S) \cup {"dummy"}

\* One turn of the loop in ev_invoke_pending: pipe_w has the highest
\* priority; async_cb and pendingcb do nothing; the callback of a client's
\* watcher may stop watchers and restart timers through the *_within calls.
InvokeOne ==
    \/ /\ pipe_events # {}
       /\ channel' = pipecb(channel, pipe_events, asynccnt > 0)
       /\ pending' = IF pipecb_feeds(channel, asynccnt > 0)
                     THEN pending \cup {"async"} ELSE pending
       /\ pipe_events' = {}
       /\ UNCHANGED armed
    \/ /\ pipe_events = {}
       /\ \E w \in pending \cap {"async", "dummy"} : pending' = pending \ {w}
       /\ UNCHANGED <<channel, pipe_events, armed>>
    \/ /\ pipe_events = {}
       /\ \E w \in pending \cap Watchers, stop \in SUBSET Watchers,
             again \in SUBSET Timers :
            /\ armed' = (armed \ stop) \cup again
            /\ pending' = Cleared(pending \ {w}, stop \cup again)
       /\ UNCHANGED <<channel, pipe_events>>

-------------------------------------------------------------------------------
(* The background thread *)

\* start_routine and the first line of thread_start: the thread reads the
\* global pointer sync, and faults if gs_loop_start has not assigned it yet.
thread_start ==
    /\ pcL = "born"
    /\ pcL' = IF sync THEN "lock" ELSE "crashed"
    /\ UNCHANGED <<syncLive, lock, pending_work, evVars, got, phase>>

\* Where ev_run goes on after EV_INVOKE_PENDING.
AfterInvoke == IF phase = "first" THEN "release" ELSE "check"

\* Taking the mutex: in thread_start, on return from pthread_cond_wait, and
\* in lock_cb after polling.
TakeLock(from, to) ==
    /\ pcL = from
    /\ lock = NoOne
    /\ lock' = Loop
    /\ pcL' = to
    /\ UNCHANGED <<syncLive, pending_work, evVars, got, phase>>

\* A faulty variant: invoke_pending_cb waits once instead of in a loop.
wait_relock_once == TakeLock("woken", AfterInvoke)

thread_lock == TakeLock("lock", "check")
wait_relock == TakeLock("woken", "park")
lock_cb == TakeLock("relock", "feed")

\* while (!stop_loop) ev_run(EVRUN_NOWAIT)
thread_check ==
    /\ pcL = "check"
    /\ pcL' = IF stop_loop THEN "end" ELSE "invoke"
    /\ phase' = "first"
    /\ UNCHANGED <<syncLive, lock, pending_work, evVars, got>>

\* EV_INVOKE_PENDING calls whatever callback is installed at this moment.
ev_invoke ==
    /\ pcL = "invoke"
    /\ pcL' = IF invoke_cb = "invoke_pending_cb" THEN "park" ELSE "drain"
    /\ UNCHANGED <<syncLive, lock, pending_work, evVars, got, phase>>

\* A faulty variant: the background thread waits without saying so.
invoke_pending_cb_silent ==
    /\ pcL = "park"
    /\ IF ~stop_loop /\ HasPending
       THEN lock' = NoOne /\ pcL' = "wait"
       ELSE pcL' = AfterInvoke /\ UNCHANGED lock
    /\ UNCHANGED <<syncLive, pending_work, evVars, got, phase>>

\* One turn of the loop in invoke_pending_cb.  gs_sync_wait gives up the lock.
invoke_pending_cb ==
    /\ pcL = "park"
    /\ IF ~stop_loop /\ HasPending
       THEN pending_work' = TRUE /\ lock' = NoOne /\ pcL' = "wait"
       ELSE pcL' = AfterInvoke /\ UNCHANGED <<lock, pending_work>>
    /\ UNCHANGED <<syncLive, evVars, got, phase>>

\* pthread_cond_wait may return without a signal.
spurious_wakeup ==
    /\ pcL = "wait"
    /\ pcL' = "woken"
    /\ UNCHANGED <<syncLive, lock, pending_work, evVars, got, phase>>

\* ev_invoke_pending run by the background thread itself, which happens once
\* gs_loop_stop has put it back as the invoke callback.
loop_drain ==
    /\ pcL = "drain"
    /\ IF HasPending
       THEN InvokeOne /\ UNCHANGED pcL
       ELSE pcL' = AfterInvoke /\ UNCHANGED evVars
    /\ UNCHANGED <<syncLive, lock, pending_work, got, phase>>

\* From fd_reify to EV_RELEASE_CB: the loop wants pipe writes from now on.
ev_release ==
    /\ pcL = "release"
    /\ channel' = [channel EXCEPT !.wanted = TRUE]
    /\ lock' = IF release_cb THEN NoOne ELSE lock
    /\ pcL' = "poll"
    /\ UNCHANGED <<syncLive, pending_work, pipe_events, pending, armed, got,
                   phase>>

\* epoll_wait with a zero timeout; only the event descriptor is recorded.
epoll_wait ==
    /\ pcL = "poll"
    /\ got' = channel.readable
    /\ pcL' = "acquire"
    /\ UNCHANGED <<syncLive, lock, pending_work, evVars, phase>>

\* EV_ACQUIRE_CB reads acquire_cb without the lock.
ev_acquire ==
    /\ pcL = "acquire"
    /\ pcL' = IF acquire_cb THEN "relock" ELSE "feed"
    /\ UNCHANGED <<syncLive, lock, pending_work, evVars, got, phase>>

\* The rest of epoll_poll and ev_run up to the second EV_INVOKE_PENDING: any
\* of the active watchers may have become pending, and pipe_w if it was
\* written to or a write was skipped.
ev_feed ==
    /\ pcL = "feed"
    /\ \E fed \in SUBSET armed : pending' = pending \cup fed
    /\ pipe_events' = pipe_events \cup pipe_revents(channel, got)
    /\ channel' = [channel EXCEPT !.wanted = FALSE]
    /\ phase' = "second"
    /\ pcL' = "invoke"
    /\ UNCHANGED <<syncLive, lock, pending_work, armed, got>>

\* CRITICAL_SECTION_END of thread_start.  Unlocking a mutex one does not hold
\* is undefined; with the default mutex of the C library it frees the lock.
thread_end ==
    /\ pcL = "end"
    /\ lock' = NoOne
    /\ pcL' = "cleanup"
    /\ UNCHANGED <<syncLive, pending_work, evVars, got, phase>>

sync_cleanup ==
    /\ pcL = "cleanup"
    /\ syncLive' = FALSE
    /\ pcL' = "exited"
    /\ UNCHANGED <<lock, pending_work, evVars, got, phase>>

LoopStep ==
    /\ \/ thread_start \/ thread_lock \/ thread_check \/ ev_invoke
       \/ invoke_pending_cb \/ spurious_wakeup \/ wait_relock \/ loop_drain
       \/ ev_release \/ epoll_wait \/ ev_acquire \/ lock_cb \/ ev_feed
       \/ thread_end \/ sync_cleanup
    /\ UNCHANGED <<sync, stop_loop, cbVars, asynccnt, pc, up, starts>>

-------------------------------------------------------------------------------
(* gs_start and gs_stop, called by Main *)

MainGoes(from, to) == pc[Main] = from /\ pc' = [pc EXCEPT ![Main] = to]

\* ev_async_stop: the watcher loses its registration and its pending event.
AsyncStop ==
    /\ asynccnt' = asynccnt - 1
    /\ pending' = Cleared(pending, {"async"})
    /\ UNCHANGED <<channel, pipe_events, armed>>

\* gs_loop_start up to gs_sync_init, which installs invoke as the callback
\* of EV_INVOKE_PENDING and, if relock, lock_cb.
StartWith(invoke, relock) ==
    /\ MainGoes("idle", "init")
    /\ ~up
    /\ starts < MaxStarts
    /\ starts' = starts + 1
    /\ stop_loop' = FALSE
    /\ asynccnt' = asynccnt + 1
    /\ channel' = ev_async_start(channel)
    /\ invoke_cb' = invoke
    /\ release_cb' = TRUE
    /\ acquire_cb' = relock
    /\ UNCHANGED <<sync, syncLive, lock, pipe_events, pending, armed, pcL, up>>

\* Faulty variants: one of the two callbacks is not installed.
gs_loop_start_no_relock == StartWith("invoke_pending_cb", FALSE)
\* No background thread exists yet.
gs_loop_start == StartWith("invoke_pending_cb", TRUE)

\* mutex_init and cond_init succeed, or one fails and leaves nothing behind.
gs_sync_init ==
    /\ \/ MainGoes("init", "create") /\ syncLive' = TRUE /\ lock' = NoOne
       \/ MainGoes("init", "failed") /\ UNCHANGED <<syncLive, lock>>
    /\ UNCHANGED <<sync, stop_loop, cbVars, asynccnt, evVars, pcL, up, starts>>

\* A faulty variant: a failed pthread_create leaves the mutex behind.
pthread_create_leaky ==
    /\ \/ MainGoes("create", "assign") /\ pcL' = "born"
       \/ MainGoes("create", "failed") /\ UNCHANGED pcL
    /\ UNCHANGED <<sync, syncLive, lock, stop_loop, cbVars, asynccnt, evVars, up,
                   starts>>

\* pthread_create succeeds, or fails and sync_cleanup follows.
pthread_create ==
    /\ \/ MainGoes("create", "assign") /\ pcL' = "born" /\ UNCHANGED syncLive
       \/ MainGoes("create", "failed") /\ syncLive' = FALSE /\ UNCHANGED pcL
    /\ UNCHANGED <<sync, lock, stop_loop, cbVars, asynccnt, evVars, up, starts>>

\* sync = gs_sync_init(thread_start) stores the result: the thread may
\* already be running.
start_assign ==
    /\ MainGoes("assign", "idle")
    /\ sync' = TRUE
    /\ up' = TRUE
    /\ UNCHANGED <<syncLive, lock, stop_loop, cbVars, asynccnt, evVars, pcL,
                   starts>>

\* A faulty variant: a failed start leaves async_watcher registered.
start_failed_registered ==
    /\ MainGoes("failed", "idle")
    /\ sync' = FALSE
    /\ UNCHANGED <<syncLive, lock, stop_loop, cbVars, asynccnt, evVars, pcL, up,
                   starts>>

start_failed ==
    /\ MainGoes("failed", "idle")
    /\ sync' = FALSE
    /\ AsyncStop
    /\ UNCHANGED <<syncLive, lock, stop_loop, cbVars, pcL, up, starts>>

\* A program calls gs_stop once its other threads are out of gs.
gs_loop_stop ==
    /\ \A c \in Clients : pc[c] = "idle"
    /\ MainGoes("idle", "stop_lock")
    /\ up
    /\ up' = FALSE
    /\ UNCHANGED <<sync, syncLive, lock, stop_loop, cbVars, asynccnt, evVars,
                   pcL, starts>>

stop_lock ==
    /\ MainGoes("stop_lock", "stop_async")
    /\ lock = NoOne
    /\ lock' = Main
    /\ UNCHANGED <<sync, syncLive, stop_loop, cbVars, asynccnt, evVars, pcL,
                   up, starts>>

stop_async ==
    /\ MainGoes("stop_async", "stop_invoke")
    /\ AsyncStop
    /\ UNCHANGED <<sync, syncLive, lock, stop_loop, cbVars, pcL, up, starts>>

\* ev_set_invoke_pending_cb(ev_invoke_pending)
stop_invoke ==
    /\ MainGoes("stop_invoke", "stop_release")
    /\ invoke_cb' = "ev_invoke_pending"
    /\ UNCHANGED <<sync, syncLive, lock, stop_loop, release_cb, acquire_cb,
                   asynccnt, evVars, pcL, up, starts>>

\* ev_set_loop_release_cb(0, 0) makes two assignments.
stop_release ==
    /\ MainGoes("stop_release", "stop_acquire")
    /\ release_cb' = FALSE
    /\ UNCHANGED <<sync, syncLive, lock, stop_loop, invoke_cb, acquire_cb,
                   asynccnt, evVars, pcL, up, starts>>

stop_acquire ==
    /\ MainGoes("stop_acquire", "stop_flag")
    /\ acquire_cb' = FALSE
    /\ UNCHANGED <<sync, syncLive, lock, stop_loop, invoke_cb, release_cb,
                   asynccnt, evVars, pcL, up, starts>>

stop_flag ==
    /\ MainGoes("stop_flag", "stop_wake")
    /\ stop_loop' = TRUE
    /\ UNCHANGED <<sync, syncLive, lock, cbVars, asynccnt, evVars, pcL, up,
                   starts>>

\* pthread_cond_signal is lost unless the background thread waits.
gs_sync_wake == pcL' = IF pcL = "wait" THEN "woken" ELSE pcL

\* A faulty variant: gs_loop_stop signals nobody.
stop_wake_silent ==
    /\ MainGoes("stop_wake", "stop_unlock")
    /\ UNCHANGED <<sync, syncLive, lock, stop_loop, cbVars, asynccnt, evVars, pcL,
                   up, starts>>

stop_wake ==
    /\ MainGoes("stop_wake", "stop_unlock")
    /\ gs_sync_wake
    /\ UNCHANGED <<sync, syncLive, lock, stop_loop, cbVars, asynccnt, evVars,
                   up, starts>>

stop_unlock ==
    /\ MainGoes("stop_unlock", "join")
    /\ lock' = NoOne
    /\ UNCHANGED <<sync, syncLive, stop_loop, cbVars, asynccnt, evVars, pcL,
                   up, starts>>

gs_sync_join ==
    /\ MainGoes("join", "idle")
    /\ pcL = "exited"
    /\ pcL' = "none"
    /\ UNCHANGED <<sync, syncLive, lock, stop_loop, cbVars, asynccnt, evVars,
                   up, starts>>

MainStep ==
    /\ \/ gs_loop_start \/ gs_sync_init \/ pthread_create \/ start_assign
       \/ start_failed
       \/ gs_loop_stop \/ stop_lock \/ stop_async \/ stop_invoke
       \/ stop_release \/ stop_acquire \/ stop_flag \/ stop_wake
       \/ stop_unlock \/ gs_sync_join
    /\ UNCHANGED <<pending_work, got, phase>>

-------------------------------------------------------------------------------
(* gs_work and the calls that register watchers, by any client *)

Goes(c, from, to) == pc[c] = from /\ pc' = [pc EXCEPT ![c] = to]

\* gs_loop_has_work; when pending_work is false gs_work returns false, which
\* is a stuttering step.
gs_loop_has_work(c) ==
    /\ up
    /\ lock = NoOne
    /\ pending_work
    /\ Goes(c, "idle", "work")
    /\ UNCHANGED <<lock, pending_work, evVars, pcL>>

\* A faulty variant: gs_loop_work does not take the lock.
gs_loop_work_unlocked(c) ==
    /\ Goes(c, "work", "drain")
    /\ UNCHANGED <<lock, pending_work, evVars, pcL>>

\* gs_loop_work: lock, ev_invoke_pending one callback at a time, then clear
\* the flag, signal and unlock.
gs_loop_work(c) ==
    /\ Goes(c, "work", "drain")
    /\ lock = NoOne
    /\ lock' = c
    /\ UNCHANGED <<pending_work, evVars, pcL>>

work_invoke(c) ==
    /\ pc[c] = "drain"
    /\ HasPending
    /\ InvokeOne
    /\ UNCHANGED <<lock, pending_work, pcL, pc>>

\* A faulty variant: gs_loop_work signals nobody.
work_done_silent(c) ==
    /\ Goes(c, "drain", "idle")
    /\ ~HasPending
    /\ pending_work' = FALSE
    /\ lock' = NoOne
    /\ UNCHANGED <<evVars, pcL>>

work_done(c) ==
    /\ Goes(c, "drain", "idle")
    /\ ~HasPending
    /\ pending_work' = FALSE
    /\ gs_sync_wake
    /\ lock' = NoOne
    /\ UNCHANGED evVars

\* gs_loop_io_start and gs_loop_timer_again: lock, touch libev, unlock.
register_lock(c) ==
    /\ up
    /\ Goes(c, "idle", "register")
    /\ lock = NoOne
    /\ lock' = c
    /\ UNCHANGED <<pending_work, evVars, pcL>>

gs_loop_io_start(c, w) ==
    /\ Goes(c, "register", "idle")
    /\ armed' = armed \cup {w}
    /\ channel' = ev_async_send(channel)
    /\ lock' = NoOne
    /\ UNCHANGED <<pending_work, pipe_events, pending, pcL>>

\* ev_timer_again starts the timer if it repeats; a timer without a repeat
\* stays stopped, or is stopped.
gs_loop_timer_again(c, w) ==
    /\ Goes(c, "register", "idle")
    /\ armed' \in {armed \cup {w}, armed \ {w}}
    /\ pending' = Cleared(pending, {w})
    /\ channel' = ev_async_send(channel)
    /\ lock' = NoOne
    /\ UNCHANGED <<pending_work, pipe_events, pcL>>

\* gs_task_cancel called from ordinary client code: task_finish stops the
\* watchers of the task with no lock taken.  Two steps, so that the access
\* has a duration.
cancel_enter(c) ==
    /\ CancelUnlocked
    /\ up
    /\ Goes(c, "idle", "cancel")
    /\ UNCHANGED <<lock, pending_work, evVars, pcL>>

cancel_leave(c) ==
    /\ Goes(c, "cancel", "idle")
    /\ \E stop \in SUBSET Watchers :
         /\ armed' = armed \ stop
         /\ pending' = Cleared(pending, stop)
    /\ UNCHANGED <<lock, pending_work, channel, pipe_events, pcL>>

ClientStep(c) ==
    /\ \/ gs_loop_has_work(c) \/ gs_loop_work(c) \/ work_invoke(c)
       \/ work_done(c) \/ register_lock(c)
       \/ \E w \in Ios : gs_loop_io_start(c, w)
       \/ \E w \in Timers : gs_loop_timer_again(c, w)
       \/ cancel_enter(c) \/ cancel_leave(c)
    /\ UNCHANGED <<sync, syncLive, stop_loop, cbVars, asynccnt, got, phase, up,
                   starts>>

-------------------------------------------------------------------------------
(* Specification *)

Init ==
    /\ sync = FALSE /\ syncLive = FALSE
    /\ lock = NoOne
    /\ stop_loop = FALSE /\ pending_work = FALSE
    /\ invoke_cb = "ev_invoke_pending"
    /\ release_cb = FALSE /\ acquire_cb = FALSE
    /\ asynccnt = 0
    /\ channel = channel_init
    /\ pipe_events = {} /\ pending = {} /\ armed = {}
    /\ got = FALSE /\ phase = "first" /\ pcL = "none"
    /\ pc = [c \in Clients |-> "idle"]
    /\ up = FALSE
    /\ starts = 0

\* A crash of the background thread ends the whole program.
Running == pcL # "crashed"

\* A program stops for good when it has crashed, or when it has used up its
\* calls of gs_start and does not run the loop.
Terminated ==
    /\ pcL = "crashed" \/ (starts = MaxStarts /\ ~up /\ pc[Main] = "idle")
    /\ UNCHANGED vars

Next ==
    \/ LoopStep
    \/ Running /\ MainStep
    \/ \E c \in Clients : Running /\ ClientStep(c)
    \/ Terminated

Spec == Init /\ [][Next]_vars

-------------------------------------------------------------------------------
(* Properties *)

PcLoop == {"none", "born", "lock", "check", "invoke", "park", "wait", "woken",
           "drain", "release", "poll", "acquire", "relock", "feed", "end",
           "cleanup", "exited", "crashed"}
PcMain == {"init", "create", "assign", "failed", "stop_lock", "stop_async",
           "stop_invoke", "stop_release", "stop_acquire", "stop_flag",
           "stop_wake", "stop_unlock", "join"}
PcClient == {"idle", "work", "drain", "register", "cancel"}

\* Every variable stays in its type.
TypeOK ==
    /\ sync \in BOOLEAN /\ syncLive \in BOOLEAN
    /\ lock \in Clients \cup {Loop, NoOne}
    /\ stop_loop \in BOOLEAN /\ pending_work \in BOOLEAN
    /\ invoke_cb \in {"invoke_pending_cb", "ev_invoke_pending"}
    /\ release_cb \in BOOLEAN /\ acquire_cb \in BOOLEAN
    /\ asynccnt \in {0, 1}
    /\ channel \in Channel
    /\ pipe_events \subseteq {"READ", "CUSTOM"}
    /\ pending \subseteq Watchers \cup {"async", "dummy"}
    /\ armed \subseteq Watchers
    /\ got \in BOOLEAN
    /\ phase \in {"first", "second"}
    /\ pcL \in PcLoop
    /\ pc \in [Clients -> PcMain \cup PcClient]
    /\ \A c \in Clients \ {Main} : pc[c] \in PcClient
    /\ up \in BOOLEAN
    /\ starts \in 0 .. MaxStarts

\* The threads that are reading or writing libev's data at this moment: the
\* background thread inside ev_run but not polling and not waiting, and the
\* clients inside a call that touches watchers.
LoopInLibev == pcL \in {"invoke", "park", "drain", "release", "feed"}
ClientInLibev(c) == pc[c] \in {"drain", "register", "cancel", "stop_async",
                               "stop_invoke", "stop_release", "stop_acquire"}

\* No two threads are inside libev at the same time (libev does no locking).
\* gs_loop_stop swaps the callbacks under the lock, but the background thread
\* comes back from epoll_wait without it when acquire_cb is already 0.
LibevExclusive ==
    /\ \A c \in Clients : ClientInLibev(c) => ~LoopInLibev
    /\ \A c, d \in Clients : ClientInLibev(c) /\ ClientInLibev(d) => c = d

\* No wake-up is lost: when the background thread waits in gs_sync_wait there
\* are callbacks for a client to run and pending_work says so, or the thread
\* that will signal it is already past the change it signals.
NoLostWakeup ==
    pcL = "wait" =>
        \/ pending_work /\ HasPending /\ ~stop_loop
        \/ \E c \in Clients : pc[c] = "drain"
        \/ pc[Main] = "stop_wake"

\* Until gs_stop is called the background thread polls again only when the
\* clients have run every callback of the last iteration: events of two
\* iterations never mix.
PollOnlyWhenDrained ==
    up /\ pcL \in {"release", "poll", "acquire", "relock", "feed"}
        => ~HasPending

\* The client that runs callbacks has the background thread parked: it waits,
\* or has not entered ev_run since gs_start.
CallbacksWhileParked ==
    \A c \in Clients : pc[c] = "drain" /\ HasPending
        => pcL \in {"born", "lock", "wait", "woken"}

\* The background thread itself runs callbacks only once gs_loop_stop has put
\* ev_invoke_pending back: as long as the loop is up the program's own threads do.
CallbacksOnClients == pcL = "drain" => ~up

\* A wake-up sent by ev_async_send is not forgotten: while it is recorded,
\* the descriptor is readable, or the next iteration sees the skipped write,
\* or pipe_w is already pending.  (evpipe_write writes nothing as long as
\* the record stands, so a forgotten one would silence the channel for good.)
AsyncNotForgotten ==
    channel.pending => channel.readable \/ channel.skipped \/ pipe_events # {}

\* async_watcher is registered once while the loop is started or starting,
\* and not at all otherwise, whatever step of gs_loop_start fails; a stopped
\* watcher has no pending event.
AsyncRegisteredOnce ==
    /\ asynccnt = 1 <=> up \/ pc[Main] \in {"init", "create", "assign", "failed",
                                            "stop_lock", "stop_async"}
    /\ asynccnt = 0 => "async" \notin pending

\* The mutex and the condition variable exist whenever a client is inside a
\* call that uses them or may enter one; a start that failed leaves no
\* background thread and no mutex behind.
SyncAliveWhileUsed ==
    /\ up => syncLive /\ sync
    /\ pcL = "none" /\ pc[Main] # "create" => ~syncLive

\* Whoever runs the callbacks of clients is inside the critical section, as
\* the comments on the *_within functions and on async_cb in src/loop.c ask.
\* Does not hold: gs_loop_stop can remove lock_cb while the background thread
\* polls, which then runs what it finds without the lock.
CallbacksInCriticalSection ==
    /\ pcL = "drain" /\ HasPending => lock = Loop
    /\ \A c \in Clients : pc[c] = "drain" => lock = c

\* A successful gs_start leaves a background thread that runs.  Does not
\* hold for the first gs_start of a program: thread_start reads the pointer
\* that gs_loop_start is about to assign.
StartedLoopRuns == pcL # "crashed"

-------------------------------------------------------------------------------
(* Progress *)

\* A thread that can move again and again moves: the scheduler runs every
\* thread, and a mutex that becomes free again and again is not withheld from
\* one of them for ever (the loop gives it up once per iteration, clients
\* once per call).  Nothing is assumed of spurious wake-ups, nor of when
\* clients call gs; only some client calls gs_work again and again, as the
\* loops of test/gs.c do.
Fairness ==
    /\ SF_vars(pcL # "wait" /\ LoopStep)
    /\ SF_vars(Running /\ pc[Main] # "idle" /\ MainStep)
    /\ \A c \in Clients : SF_vars(Running /\ pc[c] # "idle" /\ ClientStep(c))
    /\ SF_vars(Running /\ \E c \in Clients : ClientStep(c) /\ pc[c] = "idle"
                                            /\ pc'[c] = "work")

FairSpec == Spec /\ Fairness

\* gs_stop returns, wherever the background thread is when it is called:
\* running, polling, waiting for a client, or on its way to wait.
StopReturns == pc[Main] = "stop_lock" ~> pc[Main] = "idle"

\* The events an iteration collects are dispatched if the program keeps
\* calling gs_work, unless it stops the loop.
WorkDispatched == up /\ HasPending ~> ~HasPending \/ ~up

\* The wake-up of a client that registers a watcher reaches the background
\* thread, although most of them are never written to the descriptor.
WakeupConsumed == up /\ channel.pending ~> ~channel.pending \/ ~up
===============================================================================
