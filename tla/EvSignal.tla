------------------------------- MODULE EvSignal -------------------------------
(***************************************************************************)
(* Signals of libev (src/libs/libev/ev.c) and the wake-up channel at the   *)
(* grain of its memory accesses: a signal handler, or a thread that sends  *)
(* an async event, runs between any two of them.  The fences of the code   *)
(* put the accesses in the order they have here.  EvAsync models the same  *)
(* channel in one step, for the loop of gs.                                *)
(***************************************************************************)
EXTENDS Integers, FiniteSetsExt

CONSTANTS
    NSig,           \* signals are 1 .. NSig
    Watcher,        \* signal watchers
    Thread,         \* threads in which a handler runs or an event is sent
    use_signalfd,   \* does the loop read signals from a signalfd?
    Forks,          \* may a callback fork, the child going on with the loop?
    MaxOps          \* bound on signals, events sent, and operations

Signal == 1 .. NSig

SignalAssumption ==
    /\ NSig \in Nat \ {0} /\ MaxOps \in Nat /\ use_signalfd \in BOOLEAN /\ Forks \in BOOLEAN
    /\ Watcher \cap {"pipe", "sigfd", "async"} = {}

VARIABLES
    sig,    \* signals[]: pending and head; and the disposition
    ch,     \* the channel: flags, whether its descriptor can be read, and
            \* whether pipecb got EV_READ
    pc,     \* what each thread does next
    lp,     \* where the loop is
    todo,   \* the signals that pipecb has not looked at
    pend,   \* pendings: watchers, "pipe", "sigfd", "async"
    kernel, \* blocked signals that wait for the signalfd
    owed,   \* history: watchers whose signal came and who were not told since
    postfork, ops

vars == <<sig, ch, pc, lp, todo, pend, kernel, owed, postfork, ops>>

Idle == [at |-> "idle", sig |-> 0]
Active(w) == \E s \in Signal : w \in sig[s].head

\* The signal of an active watcher.
signum(w) == CHOOSE s \in Signal : w \in sig[s].head

Init ==
    /\ sig = [s \in Signal |-> [pending |-> FALSE, head |-> {},
                                handler |-> FALSE, masked |-> FALSE]]
    /\ ch = [sig_pending |-> FALSE, async_pending |-> FALSE, sent |-> FALSE,
             skipped |-> FALSE, wanted |-> FALSE, readable |-> FALSE, got |-> FALSE]
    /\ pc = [t \in Thread |-> Idle]
    /\ lp = "user" /\ todo = {} /\ pend = {} /\ kernel = {}
    /\ owed = {} /\ postfork = FALSE /\ ops = 0

Op == ops < MaxOps /\ ops' = ops + 1

-------------------------------------------------------------------------------
(* Writers: ev_sighandler and ev_async_send. *)

goes(t, at) == pc' = [pc EXCEPT ![t].at = at]
writing == UNCHANGED <<sig, lp, todo, pend, kernel, owed, postfork, ops>>

\* A signal arrives: a handler starts, the signalfd gets it, or it is ignored.
raise(s, t) ==
    /\ Op
    /\ IF sig[s].masked
       THEN kernel' = kernel \cup {s} /\ UNCHANGED pc
       ELSE /\ sig[s].handler /\ pc[t] = Idle
            /\ pc' = [pc EXCEPT ![t] = [at |-> "pending", sig |-> s]]
            /\ UNCHANGED kernel
    /\ owed' = owed \cup sig[s].head
    /\ UNCHANGED <<sig, ch, lp, todo, pend, postfork>>

ev_feed_signal(t) ==
    /\ pc[t].at = "pending"
    /\ sig' = [sig EXCEPT ![pc[t].sig].pending = TRUE]
    /\ goes(t, "flag")
    /\ UNCHANGED <<ch, lp, todo, pend, kernel, owed, postfork, ops>>

ev_async_send(t) ==
    /\ Op
    /\ pc[t] = Idle
    /\ ch' = [ch EXCEPT !.sent = TRUE]
    /\ goes(t, "flag")
    /\ UNCHANGED <<sig, lp, todo, pend, kernel, owed, postfork>>

\* evpipe_write on sig_pending, or on async_pending when there is no signal.
Flag(t) == IF pc[t].sig = 0 THEN "async_pending" ELSE "sig_pending"

evpipe_write_flag(t) ==
    /\ pc[t].at = "flag"
    /\ IF ch[Flag(t)] THEN pc' = [pc EXCEPT ![t] = Idle] /\ UNCHANGED ch
       ELSE ch' = [ch EXCEPT ![Flag(t)] = TRUE] /\ goes(t, "skip")
    /\ writing

\* A faulty variant: the flags of the loop are looked at first.
evpipe_write_skip_late(t) ==
    /\ pc[t].at = "skip"
    /\ ch' = [ch EXCEPT !.skipped = ch.wanted]
    /\ goes(t, "wanted")
    /\ writing

evpipe_write_skip(t) ==
    /\ pc[t].at = "skip"
    /\ ch' = [ch EXCEPT !.skipped = TRUE]
    /\ goes(t, "wanted")
    /\ writing

evpipe_write_wanted(t) ==
    /\ pc[t].at = "wanted"
    /\ IF ch.wanted THEN goes(t, "unskip") ELSE pc' = [pc EXCEPT ![t] = Idle]
    /\ UNCHANGED ch /\ writing

evpipe_write_unskip(t) ==
    /\ pc[t].at = "unskip"
    /\ ch' = [ch EXCEPT !.skipped = FALSE]
    /\ goes(t, "write")
    /\ writing

evpipe_write(t) ==
    /\ pc[t].at = "write"
    /\ ch' = [ch EXCEPT !.readable = TRUE]
    /\ pc' = [pc EXCEPT ![t] = Idle]
    /\ writing

writer(t) ==
    \/ ev_feed_signal(t)
    \/ evpipe_write_flag(t) \/ evpipe_write_skip(t) \/ evpipe_write_wanted(t)
    \/ evpipe_write_unskip(t) \/ evpipe_write(t)

-------------------------------------------------------------------------------
(* Operations of the program, in callbacks or while the loop polls. *)

\* The first watcher of a signal installs the handler, or the signalfd takes it.
ev_signal_start(w, s) ==
    /\ Op /\ lp \in {"user", "poll"}
    /\ ~Active(w)
    /\ sig' = [sig EXCEPT ![s].head = @ \cup {w},
                          ![s].handler = @ \/ ~use_signalfd, ![s].masked = use_signalfd]
    /\ UNCHANGED <<ch, pc, lp, todo, pend, kernel, owed, postfork>>

\* The last one lets go of the signal; its pending flag stays.
ev_signal_stop(w) ==
    /\ Op /\ lp \in {"user", "poll"}
    /\ Active(w)
    /\ LET s == signum(w)
           none == sig[s].head = {w}
       IN  /\ sig' = [sig EXCEPT ![s].head = @ \ {w},
                                 ![s].handler = @ /\ ~none, ![s].masked = @ /\ ~none]
           /\ kernel' = IF none THEN kernel \ {s} ELSE kernel
    /\ pend' = pend \ {w}
    /\ owed' = owed \ {w}
    /\ UNCHANGED <<ch, pc, lp, todo, postfork>>

\* fork in a callback: the other threads, and what they were doing, are gone,
\* and what came for the parent is the parent's.
fork ==
    /\ Forks /\ Op /\ lp = "user"
    /\ pc' = [t \in Thread |-> Idle]
    /\ kernel' = {}
    /\ owed' = {}
    /\ postfork' = TRUE
    /\ UNCHANGED <<sig, ch, lp, todo, pend>>

program ==
    \/ \E s \in Signal, t \in Thread : raise(s, t)
    \/ \E t \in Thread : ev_async_send(t)
    \/ \E w \in Watcher : ev_signal_stop(w) \/ \E s \in Signal : ev_signal_start(w, s)
    \/ fork

-------------------------------------------------------------------------------
(* The loop. *)

looping == UNCHANGED <<sig, pc, kernel, owed, ops>>

\* loop_fork with evpipe_init: a new descriptor, and pipecb looks at everything.
loop_fork ==
    /\ ch' = [ch EXCEPT !.readable = FALSE, !.wanted = TRUE]
    /\ pend' = pend \cup {"pipe"}

\* ev_run announces that it is going to poll.
want ==
    /\ lp = "user" /\ pend = {}
    /\ IF postfork THEN loop_fork ELSE ch' = [ch EXCEPT !.wanted = TRUE] /\ UNCHANGED pend
    /\ postfork' = FALSE
    /\ lp' = "check"
    /\ UNCHANGED todo /\ looping

\* It waits unless a write was skipped, and then looks without waiting.
check ==
    /\ lp = "check"
    /\ lp' = IF ch.skipped THEN "look" ELSE "poll"
    /\ UNCHANGED <<ch, todo, pend, postfork>> /\ looping

Readable == (IF ch.readable THEN {"pipe"} ELSE {}) \cup (IF kernel # {} THEN {"sigfd"} ELSE {})

poll ==
    /\ lp = "look" \/ (lp = "poll" /\ Readable # {})
    /\ pend' = pend \cup Readable
    /\ ch' = [ch EXCEPT !.got = @ \/ ch.readable]
    /\ lp' = "unwant"
    /\ UNCHANGED <<todo, postfork>> /\ looping

\* Something else ends the wait: a socket, a timer or MAX_BLOCKTIME.
poll_other ==
    /\ lp = "poll" /\ Readable = {}
    /\ lp' = "unwant"
    /\ UNCHANGED <<ch, todo, pend, postfork>> /\ looping

unwant ==
    /\ lp = "unwant"
    /\ ch' = [ch EXCEPT !.wanted = FALSE]
    /\ lp' = "skipped"
    /\ UNCHANGED <<todo, pend, postfork>> /\ looping

skipped ==
    /\ lp = "skipped"
    /\ pend' = IF ch.skipped THEN pend \cup {"pipe"} ELSE pend
    /\ lp' = "user"
    /\ UNCHANGED <<ch, todo, postfork>> /\ looping

\* sigfdcb reads all there is.
sigfdcb == UNION {sig[s].head : s \in kernel}

\* EV_INVOKE_PENDING: pipecb, sigfdcb or a callback of the program.
invoke(w) ==
    /\ lp = "user" /\ w \in pend
    /\ pend' = (pend \ {w}) \cup
               IF w = "sigfd" THEN sigfdcb ELSE {}
    /\ kernel' = IF w = "sigfd" THEN {} ELSE kernel
    /\ lp' = IF w = "pipe" THEN "read" ELSE "user"
    /\ owed' = owed \ {w}
    /\ UNCHANGED <<sig, ch, pc, todo, postfork, ops>>

\* pipecb.  It reads the descriptor if it was readable when polled.
pipecb_read ==
    /\ lp = "read"
    /\ ch' = [ch EXCEPT !.readable = @ /\ ~ch.got, !.got = FALSE]
    /\ lp' = "unskip"
    /\ UNCHANGED <<todo, pend, postfork>> /\ looping

pipecb_unskip ==
    /\ lp = "unskip"
    /\ ch' = [ch EXCEPT !.skipped = FALSE]
    /\ lp' = "signals"
    /\ UNCHANGED <<todo, pend, postfork>> /\ looping

pipecb_signals ==
    /\ lp = "signals"
    /\ lp' = IF ch.sig_pending THEN "scan" ELSE "asyncs"
    /\ todo' = IF ch.sig_pending THEN Signal ELSE {}
    /\ ch' = [ch EXCEPT !.sig_pending = FALSE]
    /\ UNCHANGED <<pend, postfork>> /\ looping

\* From the highest signal down; one that is not pending is passed over.
pipecb_scan ==
    /\ lp = "scan"
    /\ IF todo = {} THEN lp' = "asyncs" /\ UNCHANGED todo
       ELSE IF sig[Max(todo)].pending THEN lp' = "feed" /\ UNCHANGED todo
       ELSE todo' = todo \ {Max(todo)} /\ UNCHANGED lp
    /\ UNCHANGED <<ch, pend, postfork>> /\ looping

ev_feed_signal_event ==
    LET s == Max(todo)
    IN  /\ lp = "feed"
        /\ sig' = [sig EXCEPT ![s].pending = FALSE]
        /\ pend' = pend \cup sig[s].head
        /\ todo' = todo \ {s}
        /\ lp' = "scan"
        /\ UNCHANGED <<ch, pc, kernel, owed, postfork, ops>>

\* A faulty variant: the flag is cleared after the watchers have been looked at.
pipecb_asyncs_late ==
    /\ \/ /\ lp = "asyncs"
          /\ lp' = IF ch.async_pending THEN "late" ELSE "user"
          /\ pend' = IF ch.async_pending /\ ch.sent THEN pend \cup {"async"} ELSE pend
          /\ ch' = [ch EXCEPT !.sent = @ /\ ~ch.async_pending]
       \/ lp = "late" /\ lp' = "user" /\ ch' = [ch EXCEPT !.async_pending = FALSE] /\ UNCHANGED pend
    /\ UNCHANGED <<todo, postfork>> /\ looping

pipecb_asyncs ==
    /\ lp = "asyncs"
    /\ lp' = IF ch.async_pending THEN "sent" ELSE "user"
    /\ ch' = [ch EXCEPT !.async_pending = FALSE]
    /\ UNCHANGED <<todo, pend, postfork>> /\ looping

pipecb_sent ==
    /\ lp = "sent"
    /\ pend' = IF ch.sent THEN pend \cup {"async"} ELSE pend
    /\ ch' = [ch EXCEPT !.sent = FALSE]
    /\ lp' = "user"
    /\ UNCHANGED <<todo, postfork>> /\ looping

loop ==
    \/ want \/ check \/ poll \/ unwant \/ skipped
    \/ \E w \in pend : invoke(w)
    \/ pipecb_read \/ pipecb_unskip \/ pipecb_signals \/ pipecb_scan
    \/ ev_feed_signal_event \/ pipecb_asyncs \/ pipecb_sent

Next == program \/ poll_other \/ loop \/ \E t \in Thread : writer(t)

Spec == Init /\ [][Next]_vars

\* Threads and the loop run on.  That something else ends the wait is not assumed.
LiveSpec == Spec /\ WF_vars(loop) /\ \A t \in Thread : WF_vars(writer(t))

-------------------------------------------------------------------------------

TypeOK ==
    /\ sig \in [Signal -> [pending : BOOLEAN, head : SUBSET Watcher,
                           handler : BOOLEAN, masked : BOOLEAN]]
    /\ \A f \in DOMAIN ch : ch[f] \in BOOLEAN
    /\ pc \in [Thread -> [at : {"idle", "pending", "flag", "skip", "wanted", "unskip", "write"},
                          sig : 0 .. NSig]]
    /\ pend \subseteq Watcher \cup {"pipe", "sigfd", "async"}
    /\ todo \subseteq Signal /\ kernel \subseteq Signal

\* A thread that is about to set a flag or to write.
Busy == \E t \in Thread : pc[t] # Idle

\* The loop does not wait, once all writers are through, with a wake-up it has
\* not seen: one that was recorded or sent leaves the descriptor readable, or
\* the loop, after a fork, has pipecb pending.
NoLostWakeup ==
    lp = "poll" /\ ~Busy /\ "pipe" \notin pend
        /\ (ch.sig_pending \/ ch.async_pending \/ ch.skipped) => ch.readable

\* A signal that came is never forgotten on its way from the handler through
\* the two flags to the watcher.
SignalOnItsWay ==
    \A w \in owed :
        \/ w \in pend
        \/ signum(w) \in kernel
        \/ \E t \in Thread : pc[t].sig = signum(w)
        \/ sig[signum(w)].pending /\ (ch.sig_pending \/ signum(w) \in todo)

===============================================================================
