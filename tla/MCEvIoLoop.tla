------------------------------ MODULE MCEvIoLoop ------------------------------
(***************************************************************************)
(* EvIoLoop for TLC, a part at a time: all back ends over files that can   *)
(* be polled, and epoll over one that it refuses, when the kernel grants a *)
(* single entry (a watcher that it stops is set again before it starts).   *)
(* The properties are those of EvIoLoop, which are the same in both parts. *)
(***************************************************************************)
EXTENDS EvIoLoop

CONSTANT Unpollable     \* the files that epoll refuses in the second part

VARIABLE part

Refused == INSTANCE EvIoLoop WITH
    Backends <- {"EPOLL"}, Regular <- Unpollable, MaxWatches <- 1,
    Readiness <- {{}, {"READ", "WRITE"}}, Restart <- FALSE

PartsInit ==
    \/ part = "sockets" /\ Init
    \/ part = "refused" /\ Refused!Init

PartsNext ==
    /\ UNCHANGED part
    /\ \/ part = "sockets" /\ Next
       \/ part = "refused" /\ Refused!Next

PartsSpec == PartsInit /\ [][PartsNext]_<<part, allvars>>
===============================================================================
