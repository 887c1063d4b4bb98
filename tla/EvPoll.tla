--------------------------------- MODULE EvPoll ---------------------------------
(***************************************************************************)
(* The poll back end (src/libs/libev/ev_poll.c): a dense array of the      *)
(* descriptors in use and an index from descriptors into it.               *)
(***************************************************************************)
EXTENDS EvFd

\* polls is the array, from index 0, and idxs the index, -1 where unused.
poll_init == [polls |-> <<>>, idxs |-> [fd \in Fd |-> -1], errno |-> "", result |-> <<>>]

poll_cnt(b) == Len(b.polls)

\* The last entry takes the place of the one that goes.
poll_remove(b, fd) ==
    LET last == b.polls[poll_cnt(b)]
    IN  [b EXCEPT !.polls = Front([@ EXCEPT ![b.idxs[fd] + 1] = last]),
                  !.idxs = [@ EXCEPT ![last.fd] = b.idxs[fd], ![fd] = -1]]

\* A faulty variant: the index is that of the entry after the new one.
poll_set_after(b, fd, mask) ==
    IF b.idxs[fd] = -1
    THEN [b EXCEPT !.polls = Append(@, [fd |-> fd, events |-> mask]), !.idxs[fd] = poll_cnt(b) + 1]
    ELSE [b EXCEPT !.polls[b.idxs[fd] + 1].events = mask]

poll_set(b, fd, mask) ==
    IF b.idxs[fd] = -1
    THEN [b EXCEPT !.polls = Append(@, [fd |-> fd, events |-> mask]), !.idxs[fd] = poll_cnt(b)]
    ELSE [b EXCEPT !.polls[b.idxs[fd] + 1].events = mask]

poll_modify(x, fd, oev, nev) ==
    IF oev = nev THEN x
    ELSE [x EXCEPT !.back = IF nev = {} THEN poll_remove(@, fd) ELSE poll_set(@, fd, nev)]

poll_begins == enter_poll /\ from_now_on /\ c' = fd_reify(c, poll_modify)

\* poll() fills the entries: hang-up whatever was asked for, and NVAL for a
\* descriptor that has been closed since.
poll_revents(p) ==
    IF tab[p.fd] = Closed THEN {"NVAL"}
    ELSE IF "HUP" \in ready[tab[p.fd]] THEN RW ELSE p.events \cap ready[tab[p.fd]]

poll_ok ==
    /\ poll_returns
    /\ c' = [c EXCEPT !.back.result = [i \in DOMAIN c.back.polls |-> poll_revents(c.back.polls[i])]]

\* poll() fails: it was interrupted, or there is no memory.
poll_fails ==
    /\ poll_returns
    /\ \E errno \in {"EINTR", "ENOMEM"} : c' = [c EXCEPT !.back.errno = errno]

poll_events(x, res) ==
    LET one(y, i) ==
            LET fd == y.back.polls[i].fd
            IN  [y EXCEPT !.ev = IF res[i] = {"NVAL"} THEN fd_kill(@, fd)
                                 ELSE fd_event(@, fd, res[i])]
    IN  Steps(one, x, [i \in DOMAIN res |-> i])

poll_poll ==
    /\ after_poll
    /\ LET res == c.back.result
           x   == [c EXCEPT !.back.result = <<>>, !.back.errno = ""]
       IN  c' = CASE c.back.errno = "EINTR" -> x
                  [] c.back.errno = "ENOMEM" -> [x EXCEPT !.ev = fd_enomem(@)]
                  [] OTHER -> poll_events(x, res)

-------------------------------------------------------------------------------

PollInit == FdInit(poll_init)

poll_client == Program(forget) /\ NotWhilePolling

poll_loop == invoke \/ poll_begins \/ poll_ok \/ poll_fails \/ poll_poll

-------------------------------------------------------------------------------

PollTypeOK ==
    /\ FdTypeOK
    /\ c.back.polls \in Seq([fd : Fd, events : SUBSET RW])
    /\ c.back.idxs \in [Fd -> -1 .. poll_cnt(c.back) - 1]

\* Array and index agree, and while the loop polls the array has exactly the
\* descriptors with watchers, each with the mask they ask for, but for those
\* whose watchers have changed since.
ArrayAsWanted ==
    /\ \A fd \in Fd : \A i \in 0 .. poll_cnt(c.back) - 1 :
         c.back.idxs[fd] = i <=> c.back.polls[i + 1].fd = fd
    /\ phase # "user" => \A fd \in Fd : c.ev.reify[fd] = {} =>
         IF c.ev.events[fd] = {} THEN c.back.idxs[fd] = -1
         ELSE c.back.polls[c.back.idxs[fd] + 1].events = c.ev.events[fd]

===============================================================================
