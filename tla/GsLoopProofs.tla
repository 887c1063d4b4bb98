----------------------------- MODULE GsLoopProofs -----------------------------
(***************************************************************************)
(* Proofs that the invariants of GsLoop hold for every set of clients and  *)
(* watchers and any number of starts.  The inductive invariant IInv is a   *)
(* conjunction of parts, each proved with the help of those before: the    *)
(* types, the control and lock protocol (Core), the wake-up of the         *)
(* background thread, and the wake-up channel.                             *)
(***************************************************************************)
EXTENDS GsLoop, TLAPS

-------------------------------------------------------------------------------
(* What the operators of EvAsync return, for every channel. *)

\* The channel of a new loop is a channel.
LEMMA InitType == channel_init \in Channel
  BY Zenon DEF channel_init, Channel

\* Raising or lowering one flag of a channel gives a channel.
LEMMA FlagType ==
    ASSUME NEW ch \in Channel, NEW b \in BOOLEAN
    PROVE  /\ [ch EXCEPT !.wanted = b] \in Channel
           /\ [ch EXCEPT !.sent = b] \in Channel
  BY SMT DEF Channel

\* Sending gives a channel, whoever has sent before.
LEMMA SendType ==
    ASSUME NEW ch \in Channel
    PROVE  ev_async_send(ch) \in Channel
<1> DEFINE sent == [ch EXCEPT !.sent = TRUE]
<1>1. sent \in Channel
  BY Zenon DEF Channel
<1>2. [sent EXCEPT !.pending = TRUE, !.skipped = ~sent.wanted,
                   !.readable = @ \/ sent.wanted] \in Channel
  BY <1>1, Zenon DEF Channel
<1> QED
  BY <1>1, <1>2 DEF ev_async_send, evpipe_write

\* The callback of the pipe watcher leaves a channel.
LEMMA PipecbType ==
    ASSUME NEW ch \in Channel, NEW revents, NEW active
    PROVE  pipecb(ch, revents, active) \in Channel
  BY Zenon DEF Channel, pipecb

\* A sent wake-up can be found again: it is recorded as skipped, or the
\* descriptor is readable.
LEMMA SendRecorded ==
    ASSUME NEW ch \in Channel, NEW found \in BOOLEAN,
           ch.pending => ch.readable \/ ch.skipped \/ found
    PROVE  LET sent == ev_async_send(ch)
           IN  sent.pending => sent.readable \/ sent.skipped \/ found
  BY DEF Channel, ev_async_send, evpipe_write

\* The callback of the pipe watcher takes the recorded wake-up.
LEMMA PipecbTakes ==
    ASSUME NEW ch \in Channel, NEW revents, NEW active
    PROVE  ~pipecb(ch, revents, active).pending
  BY DEF Channel, pipecb

\* Raising or lowering the flags wanted and sent forgets no wake-up.
LEMMA FlagKeeps ==
    ASSUME NEW ch \in Channel, NEW b
    PROVE  /\ [ch EXCEPT !.wanted = b].pending = ch.pending
           /\ [ch EXCEPT !.wanted = b].readable = ch.readable
           /\ [ch EXCEPT !.wanted = b].skipped = ch.skipped
           /\ [ch EXCEPT !.sent = b].pending = ch.pending
           /\ [ch EXCEPT !.sent = b].readable = ch.readable
           /\ [ch EXCEPT !.sent = b].skipped = ch.skipped
  BY DEF Channel

-------------------------------------------------------------------------------
(* The inductive invariant. *)

\* Where Main is relative to the background thread: the thread exists from
\* pthread_create to gs_sync_join, and leaves only when told to.
PhaseInv ==
    /\ up => pc[Main] \in PcClient
    /\ ~up => \A c \in Clients : pc[c] \in PcMain \cup {"idle"}
    /\ pcL = "none" <=> ~up /\ pc[Main] \in {"idle", "init", "create", "failed"}
    /\ stop_loop => ~up /\ pc[Main] \in {"idle", "stop_wake", "stop_unlock", "join"}
    /\ pcL \in {"end", "cleanup", "exited"} => stop_loop
    /\ pcL = "crashed" => ~up
    /\ up => sync

\* The lock protocol.  The background thread holds the lock wherever it is
\* inside ev_run as long as lock_cb is installed; a client holds it inside
\* its calls; gs_loop_stop keeps it unless the thread has already left.
LoopHolds == pcL \in {"check", "invoke", "park", "drain", "release", "feed", "end"}
LockInv ==
    /\ acquire_cb /\ LoopHolds => lock = Loop
    /\ pcL = "park" => lock = Loop
    /\ \A c \in Clients : pc[c] \in {"drain", "register"} => lock = c
    /\ pc[Main] \in {"stop_async", "stop_invoke", "stop_release", "stop_acquire",
                     "stop_flag"} => lock = Main
    /\ pc[Main] \in {"stop_wake", "stop_unlock"} =>
           lock = Main \/ pcL \in {"cleanup", "exited"}
    /\ up \/ pc[Main] \in {"init", "create", "assign", "stop_lock", "stop_async",
                           "stop_invoke", "stop_release", "stop_acquire"}
           => acquire_cb
    /\ up \/ pc[Main] \in {"init", "create", "assign", "stop_lock", "stop_async",
                           "stop_invoke"} => invoke_cb = "invoke_pending_cb"
    /\ invoke_cb = "invoke_pending_cb" /\ pcL # "none" => acquire_cb
    /\ pc[Main] \in {"stop_release", "stop_acquire"}
           => invoke_cb # "invoke_pending_cb"
    /\ pc[Main] \in {"stop_acquire", "stop_flag", "stop_wake", "stop_unlock"}
           => ~release_cb
    /\ \A c \in Clients : pc[c] = "cancel" => CancelUnlocked

\* What the background thread leaves behind when it goes on to poll.
DrainInv ==
    /\ ~stop_loop /\ pcL \in {"release", "poll", "acquire", "relock", "feed"}
           => ~HasPending
    /\ pcL = "drain" => invoke_cb = "ev_invoke_pending"

\* The mutex and the condition variable are alive from gs_sync_init to the
\* end of the background thread.
AliveInv ==
    /\ pc[Main] \in {"create", "assign"} /\ pcL = "none" => syncLive
    /\ pcL \notin {"none", "exited", "crashed"} => syncLive
    /\ pcL \in {"none", "exited"} /\ pc[Main] # "create" => ~syncLive

-------------------------------------------------------------------------------
(* Pending events *)

\* Clearing the events of some watchers never makes the set of pending
\* events empty: the dummy stays.
LEMMA ClearedKeepsCount ==
    ASSUME NEW P, NEW S
    PROVE  Cleared(P, S) = {} <=> P = {}
  BY DEF Cleared

-------------------------------------------------------------------------------
(* Type correctness *)

\* The flags are Boolean.
FlagsType ==
    /\ sync \in BOOLEAN /\ syncLive \in BOOLEAN
    /\ stop_loop \in BOOLEAN /\ pending_work \in BOOLEAN
    /\ release_cb \in BOOLEAN /\ acquire_cb \in BOOLEAN
    /\ got \in BOOLEAN /\ up \in BOOLEAN
    /\ channel \in Channel

\* asynccnt stays in {0, 1} because the registration follows the control
\* state of Main, so the two are proved together.
TypeInv ==
    /\ TypeOK
    /\ AsyncRegisteredOnce
    /\ up => pc[Main] \in PcClient

\* Running a callback keeps the channel a channel.
LEMMA InvokeOneChannel ==
    ASSUME channel \in Channel, InvokeOne
    PROVE  channel' \in Channel
  BY PipecbType, Zenon DEF InvokeOne

\* A step of the background thread keeps the flags Boolean.
LEMMA FlagsLoopStep == FlagsType /\ LoopStep => FlagsType'
<1> SUFFICES ASSUME FlagsType, LoopStep PROVE FlagsType'
  OBVIOUS
<1> USE DEF FlagsType, LoopStep, cbVars, evVars
<1>1. CASE thread_start
  BY <1>1, Zenon DEF thread_start
<1>2. CASE thread_lock \/ wait_relock \/ lock_cb
  BY <1>2, Zenon DEF thread_lock, wait_relock, lock_cb, TakeLock
<1>3. CASE thread_check
  BY <1>3, Zenon DEF thread_check
<1>4. CASE ev_invoke
  BY <1>4, Zenon DEF ev_invoke
<1>5. CASE invoke_pending_cb
  BY <1>5, Zenon DEF invoke_pending_cb
<1>6. CASE spurious_wakeup
  BY <1>6, Zenon DEF spurious_wakeup
<1>7. CASE loop_drain
  BY <1>7, InvokeOneChannel, Zenon DEF loop_drain
<1>8. CASE ev_release
  BY <1>8, FlagType, Zenon DEF ev_release
<1>9. CASE epoll_wait
  BY <1>9, Zenon DEF epoll_wait, Channel
<1>10. CASE ev_acquire
  BY <1>10, Zenon DEF ev_acquire
<1>11. CASE ev_feed
  BY <1>11, FlagType, Zenon DEF ev_feed
<1>12. CASE thread_end
  BY <1>12, Zenon DEF thread_end
<1>13. CASE sync_cleanup
  BY <1>13, Zenon DEF sync_cleanup
<1> QED
  BY <1>1, <1>2, <1>3, <1>4, <1>5, <1>6, <1>7, <1>8, <1>9, <1>10, <1>11, <1>12,
     <1>13

\* So does a step of gs_start or gs_stop ...
LEMMA FlagsMainStep == FlagsType /\ MainStep => FlagsType'
<1> SUFFICES ASSUME FlagsType, MainStep PROVE FlagsType'
  OBVIOUS
<1> USE DEF FlagsType, MainStep, cbVars, evVars
<1>1. CASE gs_loop_start
  <2>1. channel' \in Channel
    BY <1>1, FlagType DEF gs_loop_start, StartWith, ev_async_start
  <2> QED
    BY <1>1, <2>1, Zenon DEF gs_loop_start, StartWith
<1>2. CASE gs_sync_init \/ pthread_create \/ start_assign \/ start_failed
  BY <1>2, Zenon DEF gs_sync_init, pthread_create, start_assign, start_failed,
     AsyncStop
<1>3. CASE gs_loop_stop \/ stop_lock \/ stop_async \/ stop_invoke
  BY <1>3, Zenon DEF gs_loop_stop, stop_lock, stop_async, stop_invoke, AsyncStop
<1>4. CASE stop_release \/ stop_acquire \/ stop_flag
  BY <1>4, Zenon DEF stop_release, stop_acquire, stop_flag
<1>5. CASE stop_wake \/ stop_unlock \/ gs_sync_join
  BY <1>5, Zenon DEF stop_wake, stop_unlock, gs_sync_join
<1> QED
  BY <1>1, <1>2, <1>3, <1>4, <1>5, Zenon

\* ... and a step of a client in gs_work or a registration.
LEMMA FlagsClientStep ==
    ASSUME NEW c \in Clients, FlagsType, ClientStep(c)
    PROVE  FlagsType'
<1> USE DEF FlagsType, ClientStep, cbVars, evVars
<1>1. CASE gs_loop_has_work(c) \/ gs_loop_work(c) \/ work_done(c)
           \/ register_lock(c)
  BY <1>1, Zenon DEF gs_loop_has_work, gs_loop_work, work_done, register_lock
<1>2. CASE work_invoke(c)
  BY <1>2, InvokeOneChannel, Zenon DEF work_invoke
<1>3. ASSUME NEW w, gs_loop_io_start(c, w) \/ gs_loop_timer_again(c, w)
      PROVE  FlagsType'
  BY <1>3, SendType, Zenon DEF gs_loop_io_start, gs_loop_timer_again
<1>4. CASE cancel_enter(c) \/ cancel_leave(c)
  BY <1>4, Zenon DEF cancel_enter, cancel_leave
<1> QED
  BY <1>1, <1>2, <1>3, <1>4, Zenon

\* Running a callback keeps the pending events and the active watchers in
\* their types.
LEMMA InvokeOneEvents ==
    ASSUME TypeOK, AsyncRegisteredOnce, InvokeOne
    PROVE  /\ pipe_events' \subseteq {"READ", "CUSTOM"}
           /\ pending' \subseteq Watchers \cup {"async", "dummy"}
           /\ armed' \subseteq Watchers
           /\ asynccnt = 0 => "async" \notin pending'
<1> USE DEF TypeOK, AsyncRegisteredOnce
<1>1. CASE pipe_events # {} /\ pipe_events' = {} /\ UNCHANGED armed
           /\ pending' \in {pending, pending \cup {"async"}}
           /\ (asynccnt = 0 => pending' = pending)
  BY <1>1
<1>2. CASE pipe_events = {} /\ UNCHANGED <<pipe_events, armed>>
           /\ \E w \in pending \cap {"async", "dummy"} : pending' = pending \ {w}
  BY <1>2
<1>3. CASE pipe_events = {} /\ UNCHANGED pipe_events
           /\ \E w \in pending \cap Watchers, stop \in SUBSET Watchers,
                 again \in SUBSET Timers :
                /\ armed' = (armed \ stop) \cup again
                /\ pending' = Cleared(pending \ {w}, stop \cup again)
  BY <1>3 DEF Cleared, Watchers
<1>4. pipecb_feeds(channel, asynccnt > 0) => asynccnt # 0
  BY SMT DEF pipecb_feeds
<1> HIDE DEF TypeOK, AsyncRegisteredOnce
<1> QED
  BY <1>1, <1>2, <1>3, <1>4, Zenon DEF InvokeOne

\* The background thread neither registers async_watcher nor moves Main.
LEMMA TypeLoopStep == TypeInv /\ LoopStep => TypeInv'
<1> SUFFICES ASSUME TypeInv, LoopStep PROVE TypeInv'
  OBVIOUS
<1>0. FlagsType'
  BY FlagsLoopStep DEF FlagsType, TypeInv, TypeOK
<1> USE <1>0 DEF FlagsType, TypeInv, TypeOK, AsyncRegisteredOnce, LoopStep, cbVars,
                 evVars, PcLoop
<1>1. CASE thread_start
  BY <1>1 DEF thread_start
<1>2. CASE thread_lock \/ wait_relock \/ lock_cb
  BY <1>2 DEF thread_lock, wait_relock, lock_cb, TakeLock
<1>3. CASE thread_check
  BY <1>3 DEF thread_check
<1>4. CASE ev_invoke
  BY <1>4 DEF ev_invoke
<1>5. CASE invoke_pending_cb
  BY <1>5 DEF invoke_pending_cb, AfterInvoke
<1>6. CASE spurious_wakeup
  BY <1>6 DEF spurious_wakeup
<1>7. CASE loop_drain
  BY <1>7, InvokeOneEvents DEF loop_drain, AfterInvoke
<1>8. CASE ev_release
  BY <1>8 DEF ev_release
<1>9. CASE epoll_wait
  BY <1>9 DEF epoll_wait
<1>10. CASE ev_acquire
  BY <1>10 DEF ev_acquire
<1>11. CASE ev_feed
  BY <1>11, WatchersAssumption DEF ev_feed, pipe_revents, Watchers
<1>12. CASE thread_end
  BY <1>12 DEF thread_end
<1>13. CASE sync_cleanup
  BY <1>13 DEF sync_cleanup
<1> QED
  BY <1>1, <1>2, <1>3, <1>4, <1>5, <1>6, <1>7, <1>8, <1>9, <1>10, <1>11, <1>12,
     <1>13

\* gs_start registers async_watcher once, and gs_stop or a failed start
\* removes it.
LEMMA TypeMainStep == TypeInv /\ MainStep => TypeInv'
<1> SUFFICES ASSUME TypeInv, MainStep PROVE TypeInv'
  OBVIOUS
<1>0. FlagsType'
  BY FlagsMainStep DEF FlagsType, TypeInv, TypeOK
<1> USE <1>0, ClientsAssumption, BoundAssumption
    DEF FlagsType, TypeInv, TypeOK, AsyncRegisteredOnce, MainStep, cbVars, evVars,
        PcMain, PcClient, PcLoop, MainGoes
<1>1. CASE gs_loop_start
  BY <1>1 DEF gs_loop_start, StartWith
<1>2. CASE gs_sync_init
  BY <1>2 DEF gs_sync_init
<1>3. CASE pthread_create
  BY <1>3 DEF pthread_create
<1>4. CASE start_assign
  BY <1>4 DEF start_assign
<1>5. CASE start_failed
  BY <1>5 DEF start_failed, AsyncStop, Cleared
<1>6. CASE gs_loop_stop
  BY <1>6 DEF gs_loop_stop
<1>7. CASE stop_lock
  BY <1>7 DEF stop_lock
<1>8. CASE stop_async
  BY <1>8 DEF stop_async, AsyncStop, Cleared
<1>9. CASE stop_invoke
  BY <1>9 DEF stop_invoke
<1>12. CASE stop_release \/ stop_acquire
  BY <1>12 DEF stop_release, stop_acquire
<1>13. CASE stop_flag
  BY <1>13 DEF stop_flag
<1>10. CASE stop_wake
  BY <1>10 DEF stop_wake, gs_sync_wake
<1>11. CASE stop_unlock \/ gs_sync_join
  BY <1>11 DEF stop_unlock, gs_sync_join
<1> QED
  BY <1>1, <1>2, <1>3, <1>4, <1>5, <1>6, <1>7, <1>8, <1>9, <1>10, <1>11, <1>12,
     <1>13

\* A client inside gs_work or a registration leaves async_watcher alone.
LEMMA TypeClientStep ==
    ASSUME NEW c \in Clients, TypeInv, ClientStep(c)
    PROVE  TypeInv'
<1>0. FlagsType'
  BY FlagsClientStep DEF FlagsType, TypeInv, TypeOK
<1> USE <1>0, ClientsAssumption, WatchersAssumption
    DEF FlagsType, TypeInv, TypeOK, AsyncRegisteredOnce, ClientStep, cbVars,
        evVars, PcMain, PcClient, PcLoop, Goes
<1>1. CASE gs_loop_has_work(c)
  BY <1>1 DEF gs_loop_has_work
<1>8. CASE gs_loop_work(c)
  BY <1>8 DEF gs_loop_work
<1>9. CASE register_lock(c)
  BY <1>9 DEF register_lock
<1>2. CASE work_invoke(c)
  <2>1. /\ pipe_events' \subseteq {"READ", "CUSTOM"}
        /\ pending' \subseteq Watchers \cup {"async", "dummy"}
        /\ armed' \subseteq Watchers
        /\ asynccnt = 0 => "async" \notin pending'
    BY <1>2, InvokeOneEvents DEF work_invoke
  <2> QED
    BY <1>2, <2>1 DEF work_invoke
<1>3. CASE work_done(c)
  BY <1>3 DEF work_done, gs_sync_wake
<1>4. ASSUME NEW w \in Ios, gs_loop_io_start(c, w)
      PROVE  TypeInv'
  BY <1>4 DEF gs_loop_io_start, Watchers
<1>5. ASSUME NEW w \in Timers, gs_loop_timer_again(c, w)
      PROVE  TypeInv'
  BY <1>5 DEF gs_loop_timer_again, Watchers, Cleared
<1>6. CASE cancel_enter(c)
  BY <1>6 DEF cancel_enter
<1>7. CASE cancel_leave(c)
  BY <1>7 DEF cancel_leave, Cleared
<1> QED
  BY <1>1, <1>2, <1>3, <1>4, <1>5, <1>6, <1>7, <1>8, <1>9

\* The program begins with no watcher registered and every flag down.
LEMMA TypeInit == Init => TypeInv
<1> SUFFICES ASSUME Init PROVE TypeInv
  OBVIOUS
<1>1. FlagsType
  BY InitType, Zenon DEF Init, FlagsType
<1> QED
  BY <1>1, ClientsAssumption, BoundAssumption
  DEF FlagsType, Init, TypeInv, TypeOK, AsyncRegisteredOnce, PcMain, PcClient,
      PcLoop

\* The type invariant is inductive.
LEMMA TypeNext == TypeInv /\ [Next]_vars => TypeInv'
<1> SUFFICES ASSUME TypeInv, [Next]_vars PROVE TypeInv'
  OBVIOUS
<1>1. CASE UNCHANGED vars
  BY <1>1 DEF TypeInv, TypeOK, AsyncRegisteredOnce, vars, cbVars, evVars
<1> QED
  BY <1>1, TypeLoopStep, TypeMainStep, TypeClientStep DEF Next, Running, Terminated

\* Type correctness of the loop and its one registration of async_watcher,
\* for every number of clients, watchers and starts.
THEOREM TypeCorrect == Spec => [](TypeOK /\ AsyncRegisteredOnce)
<1>1. TypeInv => TypeOK /\ AsyncRegisteredOnce
  BY DEF TypeInv
<1> QED
  BY <1>1, TypeInit, TypeNext, PTL DEF Spec

-------------------------------------------------------------------------------
(* The lock protocol *)

\* What the steps below need to know of the control states.
ControlType ==
    /\ pc \in [Clients -> PcMain \cup PcClient]
    /\ \A c \in Clients \ {Main} : pc[c] \in PcClient
    /\ invoke_cb \in {"invoke_pending_cb", "ev_invoke_pending"}
    /\ Main \in Clients /\ Loop \notin Clients /\ NoOne \notin Clients /\ Loop # NoOne

\* The part of the type invariant that the control proofs need.
LEMMA TypeGivesControl == TypeInv => ControlType
  BY ClientsAssumption DEF TypeInv, TypeOK, ControlType, Loop, NoOne

Core == PhaseInv /\ LockInv /\ DrainInv /\ AliveInv

\* The background thread follows the lock protocol and polls only when it
\* has been drained.
LEMMA CoreLoopStep == ControlType /\ Core /\ LoopStep => Core'
<1> SUFFICES ASSUME ControlType, Core, LoopStep PROVE Core'
  OBVIOUS
<1> USE DEF ControlType, Core, PhaseInv, LockInv, DrainInv, AliveInv, LoopHolds,
            HasPending, LoopStep, cbVars, evVars, PcMain, PcClient
<1>1. CASE thread_start
  BY <1>1 DEF thread_start
<1>2. CASE thread_lock
  BY <1>2 DEF thread_lock, TakeLock
<1>3. CASE wait_relock
  BY <1>3 DEF wait_relock, TakeLock
<1>4. CASE lock_cb
  BY <1>4 DEF lock_cb, TakeLock
<1>5. CASE thread_check
  BY <1>5 DEF thread_check
<1>6. CASE ev_invoke
  BY <1>6 DEF ev_invoke
<1>7. CASE invoke_pending_cb
  BY <1>7 DEF invoke_pending_cb, AfterInvoke
<1>8. CASE spurious_wakeup
  BY <1>8 DEF spurious_wakeup
<1>9. CASE loop_drain
  BY <1>9 DEF loop_drain, AfterInvoke
<1>10. CASE ev_release
  BY <1>10 DEF ev_release
<1>11. CASE epoll_wait
  BY <1>11 DEF epoll_wait
<1>12. CASE ev_acquire
  BY <1>12 DEF ev_acquire
<1>13. CASE ev_feed
  BY <1>13 DEF ev_feed
<1>14. CASE thread_end
  BY <1>14 DEF thread_end
<1>15. CASE sync_cleanup
  BY <1>15 DEF sync_cleanup
<1> QED
  BY <1>1, <1>2, <1>3, <1>4, <1>5, <1>6, <1>7, <1>8, <1>9, <1>10, <1>11, <1>12,
     <1>13, <1>14, <1>15

\* gs_start installs the callbacks before there is a thread; gs_stop takes
\* them away in an order that keeps the thread from polling undrained.
LEMMA CoreMainStep == ControlType /\ Core /\ pcL # "crashed" /\ MainStep => Core'
<1> SUFFICES ASSUME ControlType, Core, pcL # "crashed", MainStep PROVE Core'
  OBVIOUS
<1> USE DEF ControlType, Core, PhaseInv, LockInv, DrainInv, AliveInv, LoopHolds,
            HasPending, MainStep, MainGoes, cbVars, evVars, PcMain, PcClient
<1>1. CASE gs_loop_start
  BY <1>1 DEF gs_loop_start, StartWith
<1>2. CASE gs_sync_init
  BY <1>2 DEF gs_sync_init
<1>3. CASE pthread_create
  BY <1>3 DEF pthread_create
<1>4. CASE start_assign
  BY <1>4 DEF start_assign
<1>5. CASE start_failed
  BY <1>5 DEF start_failed, AsyncStop, Cleared
<1>6. CASE gs_loop_stop
  BY <1>6 DEF gs_loop_stop
<1>7. CASE stop_lock
  BY <1>7 DEF stop_lock
<1>8. CASE stop_async
  BY <1>8, ClearedKeepsCount DEF stop_async, AsyncStop
<1>9. CASE stop_invoke
  BY <1>9 DEF stop_invoke
<1>10. CASE stop_release
  BY <1>10 DEF stop_release
<1>11. CASE stop_acquire
  BY <1>11 DEF stop_acquire
<1>12. CASE stop_flag
  BY <1>12 DEF stop_flag
<1>13. CASE stop_wake
  BY <1>13 DEF stop_wake, gs_sync_wake
<1>14. CASE stop_unlock
  BY <1>14 DEF stop_unlock
<1>15. CASE gs_sync_join
  BY <1>15 DEF gs_sync_join
<1> QED
  BY <1>1, <1>2, <1>3, <1>4, <1>5, <1>6, <1>7, <1>8, <1>9, <1>10, <1>11, <1>12,
     <1>13, <1>14, <1>15

\* A client changes pending events only while the background thread waits
\* for it, or only by clearing them.
LEMMA CoreClientStep ==
    ASSUME NEW c \in Clients, ControlType, Core, ClientStep(c)
    PROVE  Core'
<1> USE DEF ControlType, Core, PhaseInv, LockInv, DrainInv, AliveInv, LoopHolds,
            HasPending, ClientStep, Goes, cbVars, evVars, PcMain, PcClient
<1>1. CASE gs_loop_has_work(c)
  BY <1>1 DEF gs_loop_has_work
<1>2. CASE gs_loop_work(c)
  BY <1>2 DEF gs_loop_work
<1>3. CASE work_invoke(c)
  BY <1>3 DEF work_invoke
<1>4. CASE work_done(c)
  BY <1>4 DEF work_done, gs_sync_wake
<1>5. CASE register_lock(c)
  BY <1>5 DEF register_lock
<1>6. ASSUME NEW w \in Ios, gs_loop_io_start(c, w)
      PROVE  Core'
  BY <1>6 DEF gs_loop_io_start
<1>7. ASSUME NEW w \in Timers, gs_loop_timer_again(c, w)
      PROVE  Core'
  BY <1>7, ClearedKeepsCount DEF gs_loop_timer_again
<1>8. CASE cancel_enter(c)
  BY <1>8 DEF cancel_enter
<1>9. CASE cancel_leave(c)
  BY <1>9, ClearedKeepsCount DEF cancel_leave
<1> QED
  BY <1>1, <1>2, <1>3, <1>4, <1>5, <1>6, <1>7, <1>8, <1>9

\* There is no background thread at first.
LEMMA CoreInit == Init => Core
  BY ClientsAssumption
  DEF Init, Core, PhaseInv, LockInv, DrainInv, AliveInv, LoopHolds, PcMain,
      PcClient

\* The control part of the invariant is inductive.
LEMMA CoreNext == TypeInv /\ Core /\ [Next]_vars => Core'
<1> SUFFICES ASSUME TypeInv, Core, [Next]_vars PROVE Core'
  OBVIOUS
<1>1. ControlType
  BY TypeGivesControl
<1>2. CASE UNCHANGED vars
  BY <1>2 DEF Core, PhaseInv, LockInv, DrainInv, AliveInv, LoopHolds, HasPending,
     vars, cbVars, evVars
<1> QED
  BY <1>1, <1>2, CoreLoopStep, CoreMainStep, CoreClientStep DEF Next, Running, Terminated

-------------------------------------------------------------------------------
(* The hand-over *)

\* The background thread waits only after it has set pending_work with
\* events pending and the loop not stopped.
LEMMA WakeupLoopStep == Core /\ NoLostWakeup /\ LoopStep => NoLostWakeup'
<1> SUFFICES ASSUME Core, NoLostWakeup, LoopStep PROVE NoLostWakeup'
  OBVIOUS
<1>1. CASE invoke_pending_cb
  BY <1>1 DEF NoLostWakeup, LoopStep, invoke_pending_cb, AfterInvoke, HasPending,
     evVars
<1>2. ASSUME pcL' # "wait"
      PROVE  NoLostWakeup'
  BY <1>2 DEF NoLostWakeup
<1>3. CASE ~invoke_pending_cb
  <2>1. pcL' # "wait"
    BY <1>3 DEF LoopStep, thread_start, thread_lock, wait_relock, lock_cb, TakeLock,
       thread_check, ev_invoke, spurious_wakeup, loop_drain, AfterInvoke,
       ev_release, epoll_wait, ev_acquire, ev_feed, thread_end, sync_cleanup
  <2> QED
    BY <1>2, <2>1
<1> QED
  BY <1>1, <1>3

\* gs_stop sets stop_loop under the lock and signals right after it.
LEMMA WakeupMainStep ==
    ControlType /\ Core /\ NoLostWakeup /\ MainStep => NoLostWakeup'
<1> SUFFICES ASSUME ControlType, Core, NoLostWakeup, MainStep, pcL' = "wait"
             PROVE  NoLostWakeup'
  BY DEF NoLostWakeup
<1> USE DEF ControlType, NoLostWakeup, HasPending, MainStep, MainGoes, cbVars,
            evVars
<1>1. CASE gs_loop_start \/ gs_sync_init \/ pthread_create \/ start_failed
  <2>1. pcL = "none"
    BY <1>1 DEF Core, PhaseInv, PcClient, gs_loop_start, StartWith, gs_sync_init,
       pthread_create, start_failed
  <2>2. pcL' \in {"none", "born"}
    BY <1>1, <2>1 DEF gs_loop_start, StartWith, gs_sync_init, pthread_create,
       start_failed
  <2> QED
    BY <2>2
<1>2. CASE start_assign \/ gs_loop_stop \/ stop_lock
  BY <1>2 DEF start_assign, gs_loop_stop, stop_lock
<1>3. CASE stop_async
  BY <1>3, ClearedKeepsCount DEF stop_async, AsyncStop
<1>4. CASE stop_invoke \/ stop_release \/ stop_acquire
  BY <1>4 DEF stop_invoke, stop_release, stop_acquire
<1>5. CASE stop_flag
  BY <1>5 DEF stop_flag
<1>6. CASE stop_wake
  BY <1>6 DEF stop_wake, gs_sync_wake
<1>7. CASE stop_unlock \/ gs_sync_join
  BY <1>7 DEF stop_unlock, gs_sync_join
<1> QED
  BY <1>1, <1>2, <1>3, <1>4, <1>5, <1>6, <1>7

\* The client that drains signals before it gives up the lock; the others
\* leave pending_work and the pending count as they are.
LEMMA WakeupClientStep ==
    ASSUME NEW c \in Clients, ControlType, NoLostWakeup, ClientStep(c)
    PROVE  NoLostWakeup'
<1> SUFFICES ASSUME pcL' = "wait" PROVE NoLostWakeup'
  BY DEF NoLostWakeup
<1> USE DEF ControlType, NoLostWakeup, HasPending, ClientStep, Goes, cbVars, evVars
<1>1. CASE gs_loop_has_work(c)
  BY <1>1 DEF gs_loop_has_work
<1>2. CASE gs_loop_work(c) \/ work_invoke(c)
  BY <1>2 DEF gs_loop_work, work_invoke
<1>3. CASE work_done(c)
  BY <1>3 DEF work_done, gs_sync_wake
<1>4. CASE register_lock(c)
  BY <1>4 DEF register_lock
<1>5. ASSUME NEW w \in Ios, gs_loop_io_start(c, w)
      PROVE  NoLostWakeup'
  BY <1>5 DEF gs_loop_io_start
<1>6. ASSUME NEW w \in Timers, gs_loop_timer_again(c, w)
      PROVE  NoLostWakeup'
  BY <1>6, ClearedKeepsCount DEF gs_loop_timer_again
<1>7. CASE cancel_enter(c)
  BY <1>7 DEF cancel_enter
<1>8. CASE cancel_leave(c)
  BY <1>8, ClearedKeepsCount DEF cancel_leave
<1> QED
  BY <1>1, <1>2, <1>3, <1>4, <1>5, <1>6, <1>7, <1>8

\* No step of any thread loses the wake-up of the background thread.
LEMMA WakeupNext ==
    TypeInv /\ Core /\ NoLostWakeup /\ [Next]_vars => NoLostWakeup'
<1> SUFFICES ASSUME TypeInv, Core, NoLostWakeup, [Next]_vars PROVE NoLostWakeup'
  OBVIOUS
<1>1. ControlType
  BY TypeGivesControl
<1>2. CASE UNCHANGED vars
  BY <1>2 DEF NoLostWakeup, HasPending, vars, cbVars, evVars
<1> QED
  BY <1>1, <1>2, WakeupLoopStep, WakeupMainStep, WakeupClientStep
  DEF Next, Running, Terminated

-------------------------------------------------------------------------------
(* The wake-up channel *)

\* AsyncNotForgotten is inductive by itself: nothing but the operators of
\* EvAsync touches the flags it mentions.
LEMMA AsyncInvoke ==
    ASSUME channel \in Channel, AsyncNotForgotten, InvokeOne
    PROVE  AsyncNotForgotten'
<1>1. CASE channel' = pipecb(channel, pipe_events, asynccnt > 0)
  BY <1>1, PipecbTakes DEF AsyncNotForgotten
<1>2. CASE UNCHANGED <<channel, pipe_events>>
  BY <1>2 DEF AsyncNotForgotten
<1> QED
  BY <1>1, <1>2 DEF InvokeOne

\* The background thread takes a recorded wake-up only in pipecb, and feeds
\* pipe_w whenever it finds one after polling.
LEMMA AsyncLoopStep ==
    channel \in Channel /\ AsyncNotForgotten /\ LoopStep => AsyncNotForgotten'
<1> SUFFICES ASSUME channel \in Channel, AsyncNotForgotten, LoopStep
             PROVE  AsyncNotForgotten'
  OBVIOUS
<1>1. CASE loop_drain
  BY <1>1, AsyncInvoke DEF loop_drain, evVars, AsyncNotForgotten
<1>2. CASE ev_release
  BY <1>2, FlagKeeps DEF ev_release, AsyncNotForgotten
<1>3. CASE ev_feed
  BY <1>3, FlagKeeps DEF ev_feed, AsyncNotForgotten
<1>4. CASE UNCHANGED evVars
  BY <1>4 DEF evVars, AsyncNotForgotten
<1> QED
  BY <1>1, <1>2, <1>3, <1>4
  DEF LoopStep, thread_start, thread_lock, wait_relock, lock_cb, TakeLock,
      thread_check, ev_invoke, invoke_pending_cb, spurious_wakeup, epoll_wait,
      ev_acquire, thread_end, sync_cleanup

\* Starting and stopping async_watcher forgets no recorded wake-up.
LEMMA AsyncMainStep ==
    channel \in Channel /\ AsyncNotForgotten /\ MainStep => AsyncNotForgotten'
<1> SUFFICES ASSUME channel \in Channel, AsyncNotForgotten, MainStep
             PROVE  AsyncNotForgotten'
  OBVIOUS
<1>1. CASE gs_loop_start
  BY <1>1, FlagKeeps DEF gs_loop_start, StartWith, ev_async_start, AsyncNotForgotten
<1>2. CASE UNCHANGED <<channel, pipe_events>>
  BY <1>2 DEF AsyncNotForgotten
<1> QED
  BY <1>1, <1>2
  DEF MainStep, gs_sync_init, pthread_create, start_assign, start_failed,
      gs_loop_stop, stop_lock, stop_async, stop_invoke, stop_release,
      stop_acquire, stop_flag, stop_wake, stop_unlock, gs_sync_join, AsyncStop,
      evVars

\* A client records its wake-up where the background thread will find it.
LEMMA AsyncClientStep ==
    ASSUME NEW c \in Clients, channel \in Channel, AsyncNotForgotten, ClientStep(c)
    PROVE  AsyncNotForgotten'
<1>1. CASE work_invoke(c)
  BY <1>1, AsyncInvoke DEF work_invoke
<1>2. CASE channel' = ev_async_send(channel) /\ UNCHANGED pipe_events
  <2>1. (pipe_events # {}) \in BOOLEAN
    OBVIOUS
  <2> QED
    BY <1>2, <2>1, SendRecorded DEF AsyncNotForgotten
<1>3. CASE UNCHANGED <<channel, pipe_events>>
  BY <1>3 DEF AsyncNotForgotten
<1> QED
  BY <1>1, <1>2, <1>3
  DEF ClientStep, gs_loop_has_work, gs_loop_work, work_done, register_lock,
      gs_loop_io_start, gs_loop_timer_again, cancel_enter, cancel_leave, evVars

\* No step of any thread forgets a recorded wake-up.
LEMMA AsyncNext == TypeInv /\ AsyncNotForgotten /\ [Next]_vars => AsyncNotForgotten'
<1> SUFFICES ASSUME TypeInv, AsyncNotForgotten, [Next]_vars
             PROVE  AsyncNotForgotten'
  OBVIOUS
<1>1. channel \in Channel
  BY DEF TypeInv, TypeOK
<1>2. CASE UNCHANGED vars
  BY <1>2 DEF AsyncNotForgotten, vars, evVars
<1> QED
  BY <1>1, <1>2, AsyncLoopStep, AsyncMainStep, AsyncClientStep DEF Next, Running, Terminated

-------------------------------------------------------------------------------
(* The theorems *)

IInv == TypeInv /\ Core /\ NoLostWakeup /\ AsyncNotForgotten

\* The inductive invariant holds at first.
LEMMA IInvInit == Init => IInv
<1>1. Init => NoLostWakeup /\ AsyncNotForgotten
  BY DEF Init, NoLostWakeup, AsyncNotForgotten, channel_init
<1> QED
  BY <1>1, TypeInit, CoreInit DEF IInv

\* The inductive invariant of the loop.
THEOREM Inductive == Spec => []IInv
<1>1. IInv /\ [Next]_vars => IInv'
  BY TypeNext, CoreNext, WakeupNext, AsyncNext DEF IInv
<1> QED
  BY <1>1, IInvInit, PTL DEF Spec

\* When clients cancel tasks from callbacks only, no two threads are ever
\* inside libev at once, whatever the program starts, stops and registers.
THEOREM Exclusive == ASSUME ~CancelUnlocked PROVE Spec => []LibevExclusive
<1>1. IInv => LibevExclusive
  <2> SUFFICES ASSUME ControlType, Core PROVE LibevExclusive
    BY TypeGivesControl DEF IInv
  <2>1. \A c \in Clients : ClientInLibev(c) => acquire_cb /\ lock = c
    BY DEF ControlType, Core, PhaseInv, LockInv, ClientInLibev, PcMain, PcClient
  <2>2. acquire_cb /\ LoopInLibev => lock = Loop
    BY DEF Core, LockInv, LoopInLibev, LoopHolds
  <2> QED
    BY <2>1, <2>2 DEF ControlType, LibevExclusive
<1> QED
  BY <1>1, Inductive, PTL

\* A background thread that waits in gs_sync_wait will be signalled.
THEOREM WakeupKept == Spec => []NoLostWakeup
<1>1. IInv => NoLostWakeup
  BY DEF IInv
<1> QED
  BY <1>1, Inductive, PTL

\* The background thread polls again only when everything is dispatched.
THEOREM Drained == Spec => []PollOnlyWhenDrained
<1>1. IInv => PollOnlyWhenDrained
  BY DEF IInv, Core, PhaseInv, DrainInv, PollOnlyWhenDrained
<1> QED
  BY <1>1, Inductive, PTL

\* Until gs_stop is called callbacks run on client threads, with the
\* background thread parked.
THEOREM Dispatch == Spec => [](CallbacksWhileParked /\ CallbacksOnClients)
<1>1. IInv => CallbacksWhileParked
  BY ClientsAssumption
  DEF IInv, TypeInv, TypeOK, Core, PhaseInv, LockInv, DrainInv, LoopHolds, PcMain,
      PcLoop, CallbacksWhileParked
<1>2. IInv => CallbacksOnClients
  BY DEF IInv, TypeInv, TypeOK, Core, LockInv, DrainInv, CallbacksOnClients
<1> QED
  BY <1>1, <1>2, Inductive, PTL

\* A wake-up sent by ev_async_send is never forgotten.
THEOREM WakeupRecorded == Spec => []AsyncNotForgotten
<1>1. IInv => AsyncNotForgotten
  BY DEF IInv
<1> QED
  BY <1>1, Inductive, PTL

\* Clients find the mutex alive between gs_start and gs_stop, and a failed
\* start leaves none behind.
THEOREM SyncAlive == Spec => []SyncAliveWhileUsed
<1>1. IInv => SyncAliveWhileUsed
  BY DEF IInv, Core, PhaseInv, AliveInv, SyncAliveWhileUsed
<1> QED
  BY <1>1, Inductive, PTL
===============================================================================
