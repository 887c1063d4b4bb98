-------------------------------- MODULE EvSteps --------------------------------
(***************************************************************************)
(* Loops of the code as recursive functions over states.                   *)
(***************************************************************************)
EXTENDS SequencesExt

\* op(... op(op(x, s[1]), s[2]) ...), each state evaluated once.
Steps(op(_, _), x, s) ==
    LET after[n \in 0 .. Len(s)] ==
            IF n = 0 THEN x ELSE CHOOSE z \in {op(v, s[n]) : v \in {after[n - 1]}} : TRUE
    IN  after[Len(s)]
===============================================================================
