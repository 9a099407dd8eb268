----------------------------- MODULE MCSupervisor -----------------------------
(***************************************************************************)
(* Two agents for TLC, of which the second has a stop() that may raise.    *)
(***************************************************************************)
EXTENDS Supervisor

SecondFragile == {2}

=============================================================================
