--------------------------------- MODULE EvFd ---------------------------------
(***************************************************************************)
(* The file descriptor layer of libev (src/libs/libev/ev.c): io watchers   *)
(* on descriptors, the list of descriptors whose watchers changed, and the *)
(* pending events.  Each back end extends this module with its modify and  *)
(* poll functions, which are the operators that fd_reify and the loop      *)
(* take; the program and the kernel's descriptors are the same for all.    *)
(*                                                                         *)
(* What a loop function changes is one record c: c.ev is libev's common    *)
(* state, c.back the state of the back end and of the kernel behind it.    *)
(***************************************************************************)
EXTENDS Integers, EvSteps

CONSTANTS
    NFd,        \* descriptors are 0 .. NFd - 1
    Watcher,    \* the io watchers of the program
    File,       \* open files a descriptor can refer to
    Closed,     \* what a closed descriptor refers to
    Masks,      \* the event masks the program asks for
    Readiness,  \* what files can be ready for
    Restart,    \* may a watcher start again without ev_io_set?
    CloseWhilePolling,  \* may a client close a descriptor that poll() or io_uring_enter uses?
    MaxOps      \* bound on the operations of the program

ASSUME FdAssumption ==
    /\ NFd \in Nat \ {0} /\ MaxOps \in Nat
    /\ Restart \in BOOLEAN /\ CloseWhilePolling \in BOOLEAN
    /\ Closed \notin File
    /\ Masks \subseteq (SUBSET {"READ", "WRITE"}) \ {{}}
    /\ Readiness \subseteq (SUBSET {"READ", "WRITE"}) \cup {{"HUP"}}

Fd == 0 .. NFd - 1
RW == {"READ", "WRITE"}

VARIABLES
    c,      \* libev, see above
    tab,    \* the file each descriptor refers to
    ready,  \* the readiness of each file; HUP stands for both events
    seen,   \* history: what each file has been ready for since the poll began,
            \* or since the last one ended
    phase,  \* "user": callbacks run; "polling": inside the system call;
            \* "polled": the call has its result, the loop not yet the lock
    ops     \* number of operations of the program

vars == <<c, tab, ready, seen, phase, ops>>

\* An io watcher that was never set, or must be set again.
Unset == [fd |-> -1, events |-> {}, fresh |-> TRUE]

ev_init ==
    [io      |-> [w \in Watcher |-> Unset],         \* the watchers' fields
     head    |-> [fd \in Fd |-> <<>>],              \* ANFD: active watchers
     events  |-> [fd \in Fd |-> {}],                \* ANFD: the mask in force
     reify   |-> [fd \in Fd |-> {}],                \* ANFD: why it changed
     changes |-> <<>>,                              \* fdchanges
     pend    |-> <<>>]                              \* pendings, the top last

Active(e, w) == \E fd \in Fd : Contains(e.head[fd], w)
Pending(e, w) == \E i \in DOMAIN e.pend : e.pend[i].w = w

-------------------------------------------------------------------------------
(* Events. *)

ev_feed_event(e, w, revents) ==
    IF Pending(e, w)
    THEN [e EXCEPT !.pend = [i \in DOMAIN @ |->
            IF @[i].w = w THEN [w |-> w, revents |-> @[i].revents \cup revents] ELSE @[i]]]
    ELSE [e EXCEPT !.pend = Append(@, [w |-> w, revents |-> revents])]

fd_event_nocheck(e, fd, revents) ==
    LET feed(d, w) == LET got == d.io[w].events \cap revents
                      IN  IF got = {} THEN d ELSE ev_feed_event(d, w, got)
    IN  Steps(feed, e, e.head[fd])

fd_event(e, fd, revents) ==
    IF e.reify[fd] = {} THEN fd_event_nocheck(e, fd, revents) ELSE e

clear_pending(e, w) ==
    IF Pending(e, w)
    THEN [e EXCEPT !.pend = RemoveAt(@, CHOOSE i \in DOMAIN @ : @[i].w = w)] ELSE e

-------------------------------------------------------------------------------
(* Changes of the watchers. *)

\* A faulty variant: a descriptor that is on the list is put there again.
fd_change_twice(e, fd, flags) ==
    [e EXCEPT !.reify[fd] = @ \cup flags, !.changes = Append(@, fd)]

fd_change(e, fd, flags) ==
    [e EXCEPT !.reify[fd] = @ \cup flags,
              !.changes = IF e.reify[fd] = {} THEN Append(@, fd) ELSE @]

\* ev_io_start: the first start after ev_io_set says that the descriptor may
\* be another file now.
ev_io_start(e, w) ==
    LET fd == e.io[w].fd
        d  == [e EXCEPT !.head[fd] = <<w>> \o @, !.io[w].fresh = FALSE]
    IN  fd_change(d, fd, IF e.io[w].fresh THEN {"IOFDSET", "REIFY"} ELSE {"REIFY"})

ev_io_stop(e, w) ==
    LET d == clear_pending(e, w)
    IN  IF ~Active(e, w) THEN d
        ELSE fd_change([d EXCEPT !.head[e.io[w].fd] = RemoveFirst(@, w)],
                       e.io[w].fd, {"REIFY"})

\* A faulty variant: the watchers are only stopped.
fd_kill_silent(e, fd) == Steps(ev_io_stop, e, e.head[fd])

fd_kill(e, fd) ==
    LET kill(d, w) == ev_feed_event(ev_io_stop(d, w), w, RW \cup {"ERROR"})
    IN  Steps(kill, e, e.head[fd])

fd_valid(fd) == tab[fd] # Closed

Descending == [i \in 1 .. NFd |-> NFd - i]

fd_ebadf(e) ==
    LET test(d, fd) == IF d.events[fd] # {} /\ ~fd_valid(fd) THEN fd_kill(d, fd) ELSE d
    IN  Steps(test, e, Reverse(Descending))

\* Gives up the highest descriptor in force, for memory.
fd_enomem(e) ==
    LET used == {fd \in Fd : e.events[fd] # {}}
    IN  IF used = {} THEN e ELSE fd_kill(e, CHOOSE fd \in used : \A g \in used : g <= fd)

\* The emask of each descriptor belongs to the back end that calls this.
fd_rearm_all(e) ==
    LET rearm(d, fd) ==
            IF d.events[fd] = {} THEN d
            ELSE fd_change([d EXCEPT !.events[fd] = {}], fd, {"IOFDSET", "REIFY"})
    IN  Steps(rearm, e, Reverse(Descending))

\* The mask of a changed descriptor is what its watchers ask for now.
anfd_reify(x, fd) ==
    [x EXCEPT !.ev.reify[fd] = {},
              !.ev.events[fd] = UNION {x.ev.io[w].events : w \in ToSet(x.ev.head[fd])}]

\* fd_reify: the descriptors on the list when it is called; modify may add others.
fd_reify(d, modify(_, _, _, _)) ==
    LET one(x, fd) ==
            LET oev == x.ev.events[fd]
                y   == anfd_reify(x, fd)
                nev == y.ev.events[fd]
            IN  IF "IOFDSET" \in x.ev.reify[fd] \/ oev # nev
                THEN modify(y, fd, oev, nev) ELSE y
        r == Steps(one, d, d.ev.changes)
    IN  [r EXCEPT !.ev.changes = SubSeq(@, Len(d.ev.changes) + 1, Len(@))]

-------------------------------------------------------------------------------
(* The program and the kernel's descriptors. *)

\* What select, poll and epoll say of a file.
Levels(r) == IF "HUP" \in r THEN RW ELSE r
Level(f) == IF f = Closed THEN {} ELSE Levels(ready[f])

FdInit(back) ==
    /\ c = [ev |-> ev_init, back |-> back]
    /\ tab \in [Fd -> File \cup {Closed}]
    /\ ready \in [File -> Readiness]
    /\ seen = [f \in File |-> Level(f)]
    /\ phase = "user"
    /\ ops = 0

Op == ops < MaxOps /\ ops' = ops + 1

\* A callback, or a client thread while the loop polls without the lock, sets
\* and starts a watcher that is not active.
start(w) ==
    /\ Op
    /\ ~Active(c.ev, w)
    /\ \/ \E fd \in Fd, mask \in Masks :
            /\ tab[fd] # Closed
            /\ LET set == [fd |-> fd, events |-> mask, fresh |-> TRUE]
               IN  c' = [c EXCEPT !.ev = ev_io_start([@ EXCEPT !.io[w] = set], w)]
       \/ /\ Restart /\ c.ev.io[w] # Unset
          /\ c' = [c EXCEPT !.ev = ev_io_start(@, w)]
    /\ UNCHANGED <<tab, ready, seen, phase>>

stop(w) ==
    /\ Op
    /\ Active(c.ev, w) \/ Pending(c.ev, w)
    /\ c' = [c EXCEPT !.ev = ev_io_stop(@, w)]
    /\ UNCHANGED <<tab, ready, seen, phase>>

\* open, or dup of another descriptor
open(fd, f) ==
    /\ Op
    /\ tab[fd] = Closed
    /\ tab' = [tab EXCEPT ![fd] = f]
    /\ UNCHANGED <<c, ready, seen, phase>>

\* The program closes a descriptor without active watchers and sets its
\* watchers again before it starts them.  The back end says what the kernel
\* forgets: left is c.back after the close.
close(fd, left) ==
    /\ Op
    /\ tab[fd] # Closed
    /\ c.ev.head[fd] = <<>>
    /\ tab' = [tab EXCEPT ![fd] = Closed]
    /\ c' = [c EXCEPT !.back = left,
                      !.ev.io = [w \in Watcher |-> IF @[w].fd = fd THEN Unset ELSE @[w]]]
    /\ UNCHANGED <<ready, seen, phase>>

\* A file becomes ready or is no longer, or its other end goes away.
becomes(f) ==
    /\ Op
    /\ \E r \in Readiness \ {ready[f]} :
         /\ ready' = [ready EXCEPT ![f] = r]
         /\ seen' = [seen EXCEPT ![f] = @ \cup Levels(r)]
    /\ UNCHANGED <<c, tab, phase>>

\* What a back end that keeps nothing in the kernel has after a close.
forget(b, fd) == b

NotWhilePolling ==
    \A fd \in Fd : tab[fd] # Closed /\ tab'[fd] = Closed => CloseWhilePolling \/ phase # "polling"

Program(closed(_, _)) ==
    \/ \E w \in Watcher : start(w) \/ stop(w)
    \/ \E fd \in Fd : close(fd, closed(c.back, fd)) \/ \E f \in File : open(fd, f)
    \/ \E f \in File : becomes(f)

\* The loop goes into the system call, whose result the back end keeps.
enter_poll ==
    /\ phase = "user" /\ c.ev.pend = <<>>
    /\ phase' = "polling"
    /\ UNCHANGED <<tab, ready, ops>>

Now == [f \in File |-> Level(f)]
from_now_on == seen' = Now

poll_returns == phase = "polling" /\ phase' = "polled" /\ UNCHANGED <<tab, ready, seen, ops>>

after_poll == phase = "polled" /\ phase' = "user" /\ from_now_on /\ UNCHANGED <<tab, ready, ops>>

\* EV_INVOKE_PENDING runs the callback on top of the stack.
invoke ==
    /\ phase = "user"
    /\ c.ev.pend # <<>>
    /\ c' = [c EXCEPT !.ev.pend = Front(@)]
    /\ UNCHANGED <<tab, ready, seen, phase, ops>>

-------------------------------------------------------------------------------
(* Properties, the same for every back end. *)

Revents == RW \cup {"ERROR"}

\* The part of the type invariant that all back ends share.
FdTypeOK ==
    /\ c.ev.io \in [Watcher -> [fd : Fd \cup {-1}, events : SUBSET RW, fresh : BOOLEAN]]
    /\ c.ev.head \in [Fd -> Seq(Watcher)]
    /\ c.ev.events \in [Fd -> SUBSET RW]
    /\ c.ev.reify \in [Fd -> SUBSET {"IOFDSET", "REIFY"}]
    /\ c.ev.changes \in Seq(Fd)
    /\ c.ev.pend \in Seq([w : Watcher, revents : SUBSET Revents])
    /\ tab \in [Fd -> File \cup {Closed}]
    /\ phase \in {"user", "polling", "polled"}

\* ev_verify on descriptors.
ev_verify ==
    /\ IsInjective(c.ev.changes)
    /\ ToSet(c.ev.changes) = {fd \in Fd : c.ev.reify[fd] # {}}
    /\ \A fd \in Fd :
         /\ IsInjective(c.ev.head[fd])
         /\ \A w \in ToSet(c.ev.head[fd]) : c.ev.io[w].fd = fd

\* The list of changed descriptors is right, and a descriptor that is not on
\* it has the mask its watchers ask for: no change of a watcher is forgotten,
\* whenever a client makes it.
ChangesListed ==
    /\ ev_verify
    /\ \A fd \in Fd : c.ev.reify[fd] = {} =>
         c.ev.events[fd] = UNION {c.ev.io[w].events : w \in ToSet(c.ev.head[fd])}

-------------------------------------------------------------------------------
(* What a back end promises to the program. *)

\* The watchers' masks in force, and what is reported to them.
Wanted == [w \in Watcher |-> IF Active(c.ev, w) THEN c.ev.io[w].events ELSE {}]
Told == [w \in Watcher |-> UNION {p.revents : p \in {q \in ToSet(c.ev.pend) : q.w = w}}]
Level_of == [w \in Watcher |->
    IF c.ev.io[w].fd = -1 THEN {} ELSE Level(tab[c.ev.io[w].fd])]
Seen_of == [w \in Watcher |->
    IF c.ev.io[w].fd = -1 \/ tab[c.ev.io[w].fd] = Closed THEN {} ELSE seen[tab[c.ev.io[w].fd]]]

Contract == INSTANCE EvIo WITH wanted <- Wanted, told <- Told, level <- Seen_of

\* A watcher is told only of what it waits for and of what the file that its
\* descriptor refers to has been ready for since the poll began.
IoContract == Contract!Spec

\* When the loop itself stops a watcher, because the kernel refuses it, the
\* watcher is told of an error.
ErrorIsTold ==
    [][\A w \in Watcher :
         phase' # phase /\ Active(c.ev, w) /\ ~Active(c.ev', w) => "ERROR" \in Told'[w]]_vars

\* A watcher does not stay active for ever on a file that is ready for it
\* without being told: no readiness is lost between changed watchers, closed
\* and reused descriptors and the back end.
ReadyIsTold ==
    \A w \in Watcher :
        []<>(\/ ~Active(c.ev, w)
             \/ Told[w] # {}
             \/ Wanted[w] \cap Level_of[w] = {})
===============================================================================
