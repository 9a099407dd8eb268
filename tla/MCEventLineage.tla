--------------------------- MODULE MCEventLineage ---------------------------
(***************************************************************************)
(* Model values for TLC: two calls on one client, a third on another, all  *)
(* about one strategy; one of the first two names no parent event.         *)
(***************************************************************************)
EXTENDS EventLineage, TLC

CONSTANTS c1, c2, c3, k1, k2, s1

Calls == {c1, c2, c3}
ParentedCalls == {c1, c3}
Clients == {k1, k2}
OneStream == {s1}
ClientsOfCalls == c1 :> k1 @@ c2 :> k1 @@ c3 :> k2
StreamsOfCalls == c1 :> s1 @@ c2 :> s1 @@ c3 :> s1

=============================================================================
