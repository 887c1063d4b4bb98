------------------------------- MODULE EvIoUring -------------------------------
(***************************************************************************)
(* The io_uring back end (src/libs/libev/ev_iouring.c): poll requests that *)
(* complete once, sent through a ring of submissions and answered through  *)
(* a ring of completions, and generations that tell old answers from new.  *)
(***************************************************************************)
EXTENDS EvFd, FiniteSetsExt

CONSTANTS
    Entries,            \* iouring_entries at the start
    KernelMax,          \* the entries from which on io_uring_setup fails
    NoDrop              \* does the kernel keep completions that do not fit?

UringAssumption ==
    /\ Entries \in Nat \ {0} /\ KernelMax \in Nat /\ Entries < KernelMax
    /\ NoDrop \in BOOLEAN

\* The state of a ring that was just set up.
ring == [sq |-> <<>>, to_submit |-> 0, reqs |-> {}, cq |-> <<>>, backlog |-> <<>>,
         overflow |-> FALSE]

\* limit: iouring_max_entries is set; refs: what iouring_tfd_w adds to activecnt
iouring_init ==
    [ring |-> ring, egen |-> [fd \in Fd |-> 0], entries |-> Entries, limit |-> FALSE,
     postfork |-> FALSE, refs |-> 0, spins |-> FALSE, switched |-> FALSE]

-------------------------------------------------------------------------------
(* The kernel. *)

\* A completion, when the ring of completions (twice the entries) is full.
post(b, cqe) ==
    IF Len(b.ring.cq) < 2 * b.entries THEN [b EXCEPT !.ring.cq = Append(@, cqe)]
    ELSE IF NoDrop THEN [b EXCEPT !.ring.backlog = Append(@, cqe)]
    ELSE [b EXCEPT !.ring.overflow = TRUE]

Cqe(fd, gen, res) == [fd |-> fd, gen |-> gen, res |-> res]
Removed == Cqe(-1, -1, {})

\* One submission.  A request that is removed completes, too.
consume(b, sqe) ==
    IF sqe.op = "POLL_ADD"
    THEN IF tab[sqe.fd] = Closed THEN post(b, Cqe(sqe.fd, sqe.gen, {"EBADF"}))
         ELSE [b EXCEPT !.ring.reqs = @ \cup
                 {[fd |-> sqe.fd, gen |-> sqe.gen, file |-> tab[sqe.fd], mask |-> sqe.mask]}]
    ELSE LET old == {r \in b.ring.reqs : r.fd = sqe.fd /\ r.gen = sqe.gen}
             d   == [b EXCEPT !.ring.reqs = @ \ old]
         IN  post(IF old = {} THEN d ELSE post(d, Cqe(sqe.fd, sqe.gen, {"ECANCELED"})), Removed)

\* io_uring_enter brings back what did not fit; it refuses with EBUSY while
\* that is not possible.
flush(b) ==
    LET room == Min({2 * b.entries - Len(b.ring.cq), Len(b.ring.backlog)})
    IN  [b EXCEPT !.ring.cq = @ \o SubSeq(b.ring.backlog, 1, room),
                  !.ring.backlog = SubSeq(@, room + 1, Len(@))]
busy(b) == flush(b).ring.backlog # <<>>

\* A request whose file is ready completes.
RequestFires(r) == "HUP" \in ready[r.file] \/ r.mask \cap ready[r.file] # {}
complete(r) ==
    /\ RequestFires(r)
    /\ c' = [c EXCEPT !.back = post([c.back EXCEPT !.ring.reqs = @ \ {r}],
                                    Cqe(r.fd, r.gen, Levels(ready[r.file]) \cap
                                        (IF "HUP" \in ready[r.file] THEN RW ELSE r.mask)))]
    /\ UNCHANGED <<tab, ready, seen, phase, ops>>

-------------------------------------------------------------------------------
(* Submission. *)

iouring_entered(b, taken) ==
    [b EXCEPT !.ring.sq = SubSeq(@, taken + 1, Len(@)), !.ring.to_submit = 0]

\* iouring_enter: the count is reset even when the kernel refuses.
iouring_enter(b) ==
    IF busy(b) THEN [flush(b) EXCEPT !.ring.to_submit = 0]
    ELSE LET n == b.ring.to_submit
         IN  iouring_entered(Steps(consume, flush(b), SubSeq(b.ring.sq, 1, n)), n)

iouring_sqe_free(b) == Len(b.ring.sq) < b.entries

\* iouring_sqe_get and iouring_sqe_submit.  If the kernel refuses, the second
\* try submits nothing and succeeds, and the search for a free entry never ends.
iouring_sqe(b, sqe) ==
    CHOOSE r \in {
        IF b.spins \/ ~iouring_sqe_free(d) THEN [d EXCEPT !.spins = TRUE]
        ELSE [d EXCEPT !.ring.sq = Append(@, sqe), !.ring.to_submit = @ + 1] :
        d \in {IF iouring_sqe_free(b) THEN b ELSE iouring_enter(b)}} : TRUE

\* A request of the descriptor's generation.  With the old request its answers
\* are out of date, too.
iouring_request(b, sqe) ==
    [iouring_sqe(b, [sqe EXCEPT !.gen = b.egen[sqe.fd]])
        EXCEPT !.egen[sqe.fd] = IF sqe.op = "POLL_REMOVE" THEN @ + 1 ELSE @]

iouring_modify(x, fd, oev, nev) ==
    LET Sqe(op, mask) == [op |-> op, fd |-> fd, gen |-> 0, mask |-> mask]
        remove == IF oev = {} THEN <<>> ELSE <<Sqe("POLL_REMOVE", {})>>
        add    == IF nev = {} THEN <<>> ELSE <<Sqe("POLL_ADD", nev)>>
    IN  [x EXCEPT !.back = Steps(iouring_request, @, remove \o add)]

\* iouring_internal_init: when io_uring_setup fails, half the entries are the limit.
iouring_internal_init(b) ==
    LET over == b.entries >= KernelMax
    IN  [b EXCEPT !.ring = ring, !.entries = IF over THEN @ \div 2 ELSE @,
                  !.limit = @ \/ over]

\* iouring_fork: a new ring.  iouring_tfd_w is started without ev_unref.
iouring_fork(x) ==
    [x EXCEPT !.ev = fd_rearm_all(@),
              !.back = [iouring_internal_init(x.back) EXCEPT !.refs = @ + 1, !.postfork = FALSE]]

-------------------------------------------------------------------------------
(* Completion. *)

\* The request is used up; the next fd_reify makes another one.
iouring_rearm(e, fd) == fd_change([e EXCEPT !.events[fd] = {}], fd, {"REIFY"})

iouring_current(b, cqe) == cqe # Removed /\ cqe.gen = b.egen[cqe.fd]

iouring_process_cqe(x, cqe) ==
    IF ~iouring_current(x.back, cqe) THEN x
    ELSE IF cqe.res = {"EBADF"} THEN [x EXCEPT !.ev = fd_kill(@, cqe.fd)]
    ELSE [x EXCEPT !.ev = iouring_rearm(fd_event(@, cqe.fd, cqe.res \cap RW), cqe.fd)]

\* Twice the entries, or epoll once the kernel's limit is known.
iouring_overflow(x) ==
    LET y == [x EXCEPT !.ev = fd_rearm_all(@)]
    IN  IF ~y.back.limit THEN iouring_fork([y EXCEPT !.back.entries = 2 * @])
        ELSE [y EXCEPT !.back.ring = ring, !.back.switched = TRUE]

iouring_overflown(b) == b.ring.overflow

iouring_handle_cq(x) ==
    IF x.back.ring.cq = <<>> THEN x
    ELSE IF iouring_overflown(x.back) THEN iouring_overflow(x)
    ELSE [Steps(iouring_process_cqe, x, x.back.ring.cq) EXCEPT !.back.ring.cq = <<>>]

-------------------------------------------------------------------------------

\* An iteration of ev_run: a fork, the changes, the completions there are, and
\* io_uring_enter if there is something to submit or to wait for.  A loop that
\* spins does not come to the poll.
iouring_begins ==
    /\ ~c.back.switched /\ ~c.back.spins
    /\ enter_poll /\ UNCHANGED seen
    /\ \E x \in {fd_reify(IF c.back.postfork THEN iouring_fork(c) ELSE c, iouring_modify)} :
         c' = IF x.back.spins THEN x ELSE iouring_handle_cq(x)

\* The system call: nothing to submit and no wait, or an interrupted wait, do
\* not enter it.
iouring_enters ==
    /\ ~c.back.switched /\ ~c.back.spins
    /\ poll_returns
    /\ c' = IF c.back.ring.to_submit = 0 /\ c.back.ring.backlog = <<>> THEN c
            ELSE [c EXCEPT !.back = iouring_enter(@)]

iouring_poll ==
    /\ after_poll
    /\ c' = iouring_handle_cq(c)

\* What is left of the poll when epoll has taken over.
go_on == c.back.switched /\ phase' = "user" /\ from_now_on /\ UNCHANGED <<tab, ready, ops>>

\* iouring_loop_fork, after a fork
iouring_loop_fork ==
    /\ Op /\ phase = "user"
    /\ c' = [c EXCEPT !.back.postfork = TRUE]
    /\ UNCHANGED <<tab, ready, seen, phase>>

UringInit == FdInit(iouring_init)

iouring_client == Program(forget) /\ NotWhilePolling

iouring_loop == ~c.back.switched /\ (invoke \/ iouring_begins \/ iouring_enters \/ iouring_poll)

iouring_kernel == \E r \in c.back.ring.reqs : complete(r)

answers(fd) == \E r \in c.back.ring.reqs : r.fd = fd /\ complete(r)

-------------------------------------------------------------------------------

UringTypeOK ==
    /\ FdTypeOK
    /\ c.back.egen \in [Fd -> Nat]
    /\ c.back.entries \in 1 .. KernelMax
    /\ Len(c.back.ring.sq) <= c.back.entries
    /\ Len(c.back.ring.cq) <= 2 * c.back.entries
    /\ {c.back.limit, c.back.postfork, c.back.spins, c.back.switched} \subseteq BOOLEAN

\* Whatever is between libev and the kernel for a descriptor: submissions,
\* requests and completions of its generation.
InFlight(fd) ==
    LET gen == c.back.egen[fd]
        of(s) == {i \in DOMAIN s : s[i].fd = fd /\ s[i].gen = gen}
        sent == {i \in of(c.back.ring.sq) : c.back.ring.sq[i].op = "POLL_ADD"}
    IN  Cardinality(sent) + Cardinality({r \in c.back.ring.reqs : r.fd = fd /\ r.gen = gen})
        + Cardinality(of(c.back.ring.cq)) + Cardinality(of(c.back.ring.backlog))

\* A descriptor has exactly one request under way when libev takes it to be
\* armed and none when not, whatever is stopped, started, forked or resized,
\* unless completions were lost, which iouring_overflow repairs.
OneRequest ==
    ~c.back.ring.overflow /\ ~c.back.switched /\ ~c.back.postfork =>
        \A fd \in Fd : InFlight(fd) = IF c.ev.events[fd] = {} THEN 0 ELSE 1

\* When epoll takes over, every descriptor with watchers is on the list of
\* changes, to be registered anew.
SwitchRegistersAll ==
    c.back.switched => \A fd \in Fd : c.ev.head[fd] # <<>> => fd \in ToSet(c.ev.changes)

===============================================================================
