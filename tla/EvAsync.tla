------------------------------- MODULE EvAsync -------------------------------
(***************************************************************************)
(* The wake-up channel of libev, as far as gs uses it: one ev_async        *)
(* watcher, the event descriptor behind it and the flags that let a sender *)
(* skip the system call (libs/libev/ev.c).  Pure operators on a record; a  *)
(* module with a thread model decides who applies them and when.           *)
(*   pending   the global async_pending                                    *)
(*   sent      the watcher's own sent flag                                 *)
(*   skipped   pipe_write_skipped: a wake-up recorded without a write      *)
(*   wanted    pipe_write_wanted: the loop is about to poll, or polling    *)
(*   readable  the event descriptor holds an unread count                  *)
(***************************************************************************)

Channel == [pending: BOOLEAN, sent: BOOLEAN, skipped: BOOLEAN,
            wanted: BOOLEAN, readable: BOOLEAN]

\* The zero-initialised default loop after loop_init.
channel_init == [pending |-> FALSE, sent |-> FALSE, skipped |-> FALSE,
                 wanted |-> FALSE, readable |-> FALSE]

\* A faulty variant: the wake-up is not recorded as skipped.
evpipe_write_unrecorded(ch) ==
    IF ch.pending THEN ch ELSE [ch EXCEPT !.pending = TRUE, !.readable = @ \/ ch.wanted]

\* evpipe_write(&async_pending): nothing if a wake-up is already recorded;
\* otherwise record it, and write to the descriptor only if the loop polls.
evpipe_write(ch) ==
    IF ch.pending
    THEN ch
    ELSE [ch EXCEPT !.pending  = TRUE,
                    !.skipped  = ~ch.wanted,
                    !.readable = @ \/ ch.wanted]

ev_async_send(ch) == evpipe_write([ch EXCEPT !.sent = TRUE])

\* ev_async_start on an inactive watcher clears its sent flag.
ev_async_start(ch) == [ch EXCEPT !.sent = FALSE]

\* pipecb, the callback of pipe_w, called with the event mask revents while
\* the async watcher is registered iff active.
pipecb(ch, revents, active) ==
    [ch EXCEPT !.readable = @ /\ "READ" \notin revents,
               !.skipped  = FALSE,
               !.pending  = FALSE,
               !.sent     = @ /\ ~(ch.pending /\ active)]

\* pipecb feeds an event to the async watcher iff this holds.
pipecb_feeds(ch, active) == ch.pending /\ active /\ ch.sent

\* A faulty variant: only a readable descriptor counts.
pipe_revents_polled(ch, gotReadable) == IF gotReadable THEN {"READ"} ELSE {}

\* The mask ev_run and epoll_poll feed to pipe_w: a readable descriptor seen
\* by epoll_wait, and a skipped write found after it.
pipe_revents(ch, gotReadable) ==
    (IF gotReadable THEN {"READ"} ELSE {})
        \cup (IF ch.skipped THEN {"CUSTOM"} ELSE {})
==============================================================================
