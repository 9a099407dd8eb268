-------------------------- MODULE MCStrategyPipeline --------------------------
(***************************************************************************)
(* Model values for TLC: two strategies and two runners.                   *)
(***************************************************************************)
EXTENDS StrategyPipeline

CONSTANTS s1, s2, r1, r2

Strategies == {s1, s2}
Runners2 == {r1, r2}

=============================================================================
