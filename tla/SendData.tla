------------------------------- MODULE SendData -------------------------------
(***************************************************************************)
(* The bytes of one send task: write_fn of src/task.c and the write_cb of  *)
(* test/gs.c, which writes until everything is written or write_fn does    *)
(* not return GS_OK.                                                       *)
(***************************************************************************)
EXTENDS Naturals, FiniteSetsExt

CONSTANTS
    Size,   \* bytes to send, at least one
    Cap     \* bytes the socket can buffer, at least one

VARIABLES
    left,   \* bytes write_cb has still to write
    room,   \* bytes the socket can take now
    broken, \* the connection is gone: write fails
    state   \* "waiting" for the socket, "writing", "completed" or "cancelled"

vars == <<left, room, broken, state>>

Init ==
    /\ left = Size
    /\ room \in 0 .. Cap
    /\ broken \in BOOLEAN
    /\ state = "waiting"

\* The peer takes bytes from the socket, or the connection breaks.
peer ==
    /\ \/ room' \in room .. Cap /\ UNCHANGED broken
       \/ broken' = TRUE /\ UNCHANGED room
    /\ UNCHANGED <<left, state>>

\* The io event of the task, or its timeout.
ready == state = "waiting" /\ (room > 0 \/ broken)
         /\ state' = "writing" /\ UNCHANGED <<left, room, broken>>
timeout == state = "waiting"
           /\ state' = "cancelled" /\ UNCHANGED <<left, room, broken>>

\* What write_fn can return for size bytes: a code and a number of bytes.
write_fn(size) ==
    IF size = 0 THEN {<<"INVAL", 0>>}
    ELSE IF broken THEN {<<"ERROR", 0>>}
    ELSE IF room = 0 THEN {<<"EOF", 0>>}
    ELSE {<<"OK", n>> : n \in 1 .. Min({size, room})}

\* One turn of the loop in write_cb, and what write_cb of src/task.c makes of
\* the code it ends with.
write_cb ==
    /\ state = "writing"
    /\ \E result \in write_fn(left) :
         LET rc == result[1]  sz == result[2]
         IN  /\ left' = left - sz
             /\ room' = room - sz
             /\ state' = IF rc = "EOF" \/ left' = 0 THEN "completed"
                         ELSE IF rc = "OK" THEN "writing" ELSE "cancelled"
    /\ UNCHANGED broken

Finished == state \in {"completed", "cancelled"} /\ UNCHANGED vars

Next == peer \/ ready \/ timeout \/ write_cb \/ Finished

Spec == Init /\ [][Next]_vars

\* A send task that is done and not cancelled has sent everything: write_cb of
\* test/gs.c returns GS_EOF when nothing is left to write.  Does not hold: write_fn returns
\* GS_EOF for a socket that is full, too.
CompletedMeansSent == state = "completed" => left = 0
===============================================================================
