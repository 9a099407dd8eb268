---------------------------- MODULE StrategyQueue ----------------------------
(***************************************************************************)
(* What the pipeline promises for each strategy: it is coded, waits in a   *)
(* queue, is held by one runner, is judged, and its verdict stands.  Only  *)
(* the runner that holds it settles it, and only when it has let go of it  *)
(* can it return to the queue.  Nothing is promised of a strategy that is  *)
(* forfeit.                                                                *)
(***************************************************************************)
CONSTANTS Strategy, Runner, Nobody

VARIABLES
  job,      \* place of each strategy and the runner that holds it
  forfeit

At(place) == [place |-> place, holder |-> Nobody]
HeldBy(r) == [place |-> "held", holder |-> r]

Move(old, new) ==
  \/ old = At("none") /\ new = At("coding")
  \/ old = At("coding") /\ new \in {At("queued"), At("closed")}
  \/ old = At("queued") /\ \E r \in Runner : new = HeldBy(r)
  \/ \E r \in Runner :
       /\ old = HeldBy(r)
       /\ new \in {At("held"), At("judging"), At("closed")}
  \/ old = At("held") /\ new = At("queued")
  \/ old = At("judging") /\ new = At("closed")

Init ==
  /\ job = [s \in Strategy |-> At("none")]
  /\ forfeit = {}

Next ==
  /\ forfeit \subseteq forfeit'
  /\ \A s \in Strategy \ forfeit' :
       job'[s] = job[s] \/ Move(job[s], job'[s])

vars == <<job, forfeit>>

Spec == Init /\ [][Next]_vars

=============================================================================
