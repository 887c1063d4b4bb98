------------------------------- MODULE EvIoLoop -------------------------------
(***************************************************************************)
(* The io side of a loop whichever back end loop_init                      *)
(* (src/libs/libev/ev.c) has chosen: gs takes the default, epoll, and the  *)
(* environment variable LIBEV_FLAGS may ask for select, poll or io_uring.  *)
(* The back ends are EvEpoll, EvPoll, EvSelect and EvIoUring, the state is *)
(* theirs; the only step of this module is the one by which io_uring gives *)
(* up and epoll goes on.                                                   *)
(***************************************************************************)
EXTENDS EvEpoll, EvPoll, EvSelect, EvIoUring

CONSTANT Backends   \* what loop_init may choose

ASSUME BackendAssumption ==
    /\ Backends \subseteq {"EPOLL", "POLL", "SELECT", "IOURING"}
    /\ EpollAssumption /\ SelectAssumption /\ UringAssumption

VARIABLE backend

allvars == <<vars, backend>>

Init ==
    /\ backend \in Backends
    /\ \/ backend = "EPOLL" /\ EpollInit
       \/ backend = "POLL" /\ PollInit
       \/ backend = "SELECT" /\ SelectInit
       \/ backend = "IOURING" /\ UringInit

client ==
    /\ UNCHANGED backend
    /\ \/ backend = "EPOLL" /\ epoll_client
       \/ backend = "POLL" /\ poll_client
       \/ backend = "SELECT" /\ select_client
       \/ backend = "IOURING" /\ (iouring_client \/ iouring_loop_fork)

\* The end of iouring_overflow: epoll_init; anfds keeps its generations.
iouring_gives_up ==
    /\ backend = "IOURING" /\ go_on
    /\ backend' = "EPOLL"
    /\ c' = [c EXCEPT !.back = [epoll_init EXCEPT !.egen = c.back.egen]]

loop ==
    \/ /\ UNCHANGED backend
       /\ \/ backend = "EPOLL" /\ epoll_loop
          \/ backend = "POLL" /\ poll_loop
          \/ backend = "SELECT" /\ select_loop
          \/ backend = "IOURING" /\ iouring_loop
    \/ iouring_gives_up

kernel == backend = "IOURING" /\ iouring_kernel /\ UNCHANGED backend

Next == client \/ loop \/ kernel

Spec == Init /\ [][Next]_allvars

\* The system call of a back end that is asked brings all there is.
answered ==
    /\ UNCHANGED backend
    /\ \/ backend = "EPOLL" /\ epoll_wait(Room)
       \/ backend = "POLL" /\ poll_ok
       \/ backend = "SELECT" /\ select_ok

completed(fd) == backend = "IOURING" /\ answers(fd) /\ UNCHANGED backend

\* The loop runs on; the system call is not interrupted, and does not fail,
\* each time; and the kernel completes requests.
LiveSpec ==
    /\ Spec
    /\ WF_allvars(loop)
    /\ SF_allvars(answered)
    /\ \A fd \in Fd : WF_allvars(completed(fd))

-------------------------------------------------------------------------------

TypeOK ==
    /\ backend \in Backends \cup {"EPOLL"}
    /\ backend = "EPOLL" => EpollTypeOK
    /\ backend = "POLL" => PollTypeOK
    /\ backend = "SELECT" => SelectTypeOK
    /\ backend = "IOURING" => UringTypeOK

\* What the back end has asked the kernel for is what the watchers of each
\* descriptor want, although the kernel does not say what it holds: see the
\* properties of the four modules.
InForce ==
    /\ backend = "EPOLL" => ArmedAsWanted
    /\ backend = "POLL" => ArrayAsWanted
    /\ backend = "SELECT" => BitsAsWanted
    /\ backend = "IOURING" => OneRequest /\ SwitchRegistersAll
===============================================================================
