----------------------------- MODULE MCKillSwitch -----------------------------
(***************************************************************************)
(* Model values for TLC: two requests that may overlap.                    *)
(***************************************************************************)
EXTENDS KillSwitch

CONSTANTS q1, q2

Requests == {q1, q2}

=============================================================================
