-------------------------------- MODULE EvEpoll --------------------------------
(***************************************************************************)
(* The epoll back end (src/libs/libev/ev_epoll.c), the one gs runs on, and *)
(* the interest set of the kernel behind it.                               *)
(*                                                                         *)
(* The kernel's set is keyed by descriptor and file, and an entry outlives *)
(* its descriptor as long as another descriptor refers to the file.        *)
(***************************************************************************)
EXTENDS EvFd, Functions, FiniteSetsExt

CONSTANTS
    Regular,    \* the files epoll refuses with EPERM, always ready
    MaxWatches, \* the entries the kernel grants (ENOSPC beyond)
    StartMax,   \* epoll_eventmax at the start
    DupBack     \* may a descriptor refer again to a file it referred to before?

EpollAssumption ==
    /\ Regular \subseteq File
    /\ MaxWatches \in Nat /\ StartMax \in Nat \ {0} /\ DupBack \in BOOLEAN

EPERM == {"EPERM"}

\* kern: from <<descriptor, file>> to the mask and the data of epoll_event
epoll_init ==
    [emask |-> [fd \in Fd |-> {}], egen |-> [fd \in Fd |-> 0], eperms |-> <<>>,
     eventmax |-> StartMax, postfork |-> {}, kern |-> <<>>, result |-> <<>>]

-------------------------------------------------------------------------------
(* The kernel. *)

Key(fd) == <<fd, tab[fd]>>
Set(b, fd, mask, gen) ==
    [b EXCEPT !.kern = [k \in DOMAIN @ \cup {Key(fd)} |->
        IF k = Key(fd) THEN [mask |-> mask, egen |-> gen] ELSE @[k]]]

\* epoll_ctl: what it returns
epoll_add(b, fd) ==
    IF tab[fd] = Closed THEN "EBADF"
    ELSE IF tab[fd] \in Regular THEN "EPERM"
    ELSE IF Key(fd) \in DOMAIN b.kern THEN "EEXIST"
    ELSE IF Cardinality(DOMAIN b.kern) >= MaxWatches THEN "ENOSPC" ELSE "OK"

epoll_mod(b, fd) ==
    IF tab[fd] = Closed THEN "EBADF"
    ELSE IF tab[fd] \in Regular THEN "EPERM"
    ELSE IF Key(fd) \in DOMAIN b.kern THEN "OK" ELSE "ENOENT"

\* The last descriptor of a file takes the entries of the file with it.
forget_file(b, fd) ==
    IF \E g \in Fd \ {fd} : tab[g] = tab[fd] THEN b
    ELSE [b EXCEPT !.kern = Restrict(@, {k \in DOMAIN @ : k[2] # tab[fd]})]

\* The entries that are ready: hang-up is reported whatever the mask.
EpollFires(b) == {k \in DOMAIN b.kern :
    "HUP" \in ready[k[2]] \/ b.kern[k].mask \cap ready[k[2]] # {}}

-------------------------------------------------------------------------------

\* A faulty variant: the new generation stays although the kernel has not got it.
dec_egen_not(b, fd) == b

\* epoll_ctl did not take the event: its generation is not in force.
dec_egen(b, fd) == [b EXCEPT !.egen[fd] = @ - 1]

\* The calls of epoll_ctl in epoll_modify, b before the call: ADD or MOD, and
\* the other one if the entry turns out to be gone or to be there.  An entry
\* that is there with the mask of the last call is taken to be in force.
epoll_ctl(b, fd, oev, nev) ==
    LET old == b.emask[fd]
    IN  IF oev # {} /\ old # nev
        THEN IF epoll_mod(b, fd) = "ENOENT" THEN epoll_add(b, fd) ELSE epoll_mod(b, fd)
        ELSE IF epoll_add(b, fd) = "EEXIST" /\ old # nev THEN epoll_mod(b, fd)
             ELSE epoll_add(b, fd)

\* Deletions are left to the kernel and to epoll_poll.
epoll_modify(x, fd, oev, nev) ==
    LET b   == x.back
        try == [b EXCEPT !.emask[fd] = nev, !.egen[fd] = @ + 1]
        res == epoll_ctl(b, fd, oev, nev)
    IN  IF nev = {} THEN x
        ELSE CASE res = "OK" -> [x EXCEPT !.back = Set(try, fd, nev, try.egen[fd])]
               [] res = "EEXIST" -> [x EXCEPT !.back = dec_egen(try, fd)]
               [] res = "EPERM" ->
                    [x EXCEPT !.back = [try EXCEPT
                        !.emask[fd] = EPERM,
                        !.eperms = IF b.emask[fd] = EPERM THEN @ ELSE Append(@, fd)]]
               [] OTHER -> [x EXCEPT !.ev = fd_kill(@, fd), !.back = dec_egen(try, fd)]

\* close and epoll_create: the kernel's set is empty again.
epoll_fork(x) ==
    [x EXCEPT !.back = [@ EXCEPT !.kern = <<>>, !.postfork = {},
                !.emask = [fd \in Fd |-> IF x.ev.events[fd] = {} THEN x.back.emask[fd] ELSE {}]],
              !.ev = fd_rearm_all(@)]

\* The top of an iteration of ev_run up to epoll_wait.
epoll_begins ==
    /\ enter_poll /\ from_now_on
    /\ c' = LET x == IF c.back.postfork # {} THEN epoll_fork(c) ELSE c
            IN  fd_reify(x, epoll_modify)

\* epoll_wait returns ready entries, as many as there are or as fit; it does
\* not wait when EPERM descriptors are there.  An interrupted call returns none.
epoll_wait(n) ==
    /\ poll_returns
    /\ \E s \in kSubset(n, EpollFires(c.back)) :
         c' = [c EXCEPT !.back.result =
                [i \in 1 .. n |-> LET k == SetToSeq(s)[i]
                                  IN  [fd |-> k[1], egen |-> c.back.kern[k].egen,
                                       got |-> Level(k[2])]]]

-------------------------------------------------------------------------------

\* A faulty variant: a descriptor is taken for the file it was added with.
spurious_not(b, r) == FALSE

\* The entry is older than the last change of its descriptor.
spurious(b, r) == b.egen[r.fd] # r.egen

\* One event: an older generation, or a change the kernel refuses, has the
\* kernel's set made anew.
epoll_event(x, r) ==
    LET b    == x.back
        want == x.ev.events[r.fd]
        told == [x EXCEPT !.ev = fd_event(@, r.fd, r.got)]
        kern == IF want = {} THEN Restrict(b.kern, DOMAIN b.kern \ {Key(r.fd)})
                ELSE [b.kern EXCEPT ![Key(r.fd)].mask = want]
        ok   == epoll_mod(b, r.fd) = "OK"
        anew == [x EXCEPT !.back.postfork = {2}]
    IN  IF spurious(b, r) THEN anew
        ELSE IF r.got \subseteq want THEN told
        ELSE IF ~ok THEN [anew EXCEPT !.back.emask[r.fd] = want]
        ELSE [told EXCEPT !.back = [b EXCEPT !.emask[r.fd] = want, !.kern = kern]]

\* A faulty variant: the array for events does not grow.
array_nextsize_not(b, cnt) == b

\* The array for events grows when it was full: by how much does not matter to a
\* loop that polls again, and the code rounds it up to the allocator's sizes.
array_nextsize(b, cnt) == IF cnt = b.eventmax THEN [b EXCEPT !.eventmax = 2 * @] ELSE b

\* The descriptors epoll refuses are always ready; those that are not wanted
\* any more leave the list.
epoll_eperm(x, i) ==
    LET fd  == x.back.eperms[i]
        n   == Len(x.back.eperms)
    IN  IF x.back.emask[fd] = EPERM /\ x.ev.events[fd] # {}
        THEN [x EXCEPT !.ev = fd_event(@, fd, x.ev.events[fd])]
        ELSE [x EXCEPT !.back.eperms = Front([@ EXCEPT ![i] = x.back.eperms[n]]),
                       !.back.emask[fd] = {}]

epoll_poll ==
    /\ after_poll
    /\ LET res == c.back.result
           x   == Steps(epoll_event, [c EXCEPT !.back.result = <<>>], res)
           y   == [x EXCEPT !.back = array_nextsize(@, Len(res))]
           len == Len(y.back.eperms)
       IN  c' = Steps(epoll_eperm, y, [i \in 1 .. len |-> len + 1 - i])

\* ev_loop_fork, after a fork: the child makes a set of its own.
epoll_loop_fork ==
    /\ Op
    /\ c' = [c EXCEPT !.back.postfork = {1}]
    /\ UNCHANGED <<tab, ready, seen, phase>>

-------------------------------------------------------------------------------

EpollInit == FdInit(epoll_init) /\ \A f \in Regular : ready[f] = RW

epoll_client ==
    /\ \/ Program(forget_file)
       \/ phase = "user" /\ epoll_loop_fork
    /\ \A f \in Regular : UNCHANGED ready[f]
    /\ \A fd \in Fd : tab[fd] = Closed /\ tab'[fd] # Closed =>
         DupBack \/ <<fd, tab'[fd]>> \notin DOMAIN c.back.kern

Room == Min({c.back.eventmax, Cardinality(EpollFires(c.back))})

epoll_loop ==
    \/ invoke
    \/ epoll_begins
    \/ \E n \in 0 .. Room : epoll_wait(n)
    \/ epoll_poll

-------------------------------------------------------------------------------

EpollTypeOK ==
    /\ FdTypeOK
    /\ c.back.emask \in [Fd -> SUBSET (RW \cup EPERM)]
    /\ c.back.egen \in [Fd -> Nat]
    /\ c.back.eperms \in Seq(Fd)
    /\ DOMAIN c.back.kern \subseteq Fd \X File
    /\ c.back.postfork \subseteq {1, 2}

\* While the loop polls, each descriptor whose watchers have not changed is in
\* the kernel's set with the mask they ask for and with its generation, or
\* epoll_poll makes its events up.  The kernel does not say what it holds, so
\* libev infers it from emask and from the errors of epoll_ctl.
ArmedAsWanted ==
    phase # "user" => \A fd \in Fd :
        c.ev.reify[fd] = {} /\ c.ev.events[fd] # {} =>
            \/ /\ Key(fd) \in DOMAIN c.back.kern
               /\ c.back.kern[Key(fd)] = [mask |-> c.ev.events[fd], egen |-> c.back.egen[fd]]
            \/ c.back.emask[fd] = EPERM /\ Contains(c.back.eperms, fd)

===============================================================================
