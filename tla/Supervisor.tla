------------------------------ MODULE Supervisor ------------------------------
(***************************************************************************)
(* The supervisor of the autonomous cycle                                  *)
(* (atlas/scripts/full_autonomous_cycle.py, main): it looks at the tasks   *)
(* of all agents one after the other and starts a dead agent again, unless *)
(* its last start was too short a time ago.  Then it is reported and never *)
(* looked at any more.  stop() and start() are awaits in the middle of the *)
(* pass: meanwhile all other agents go on.                                 *)
(***************************************************************************)
EXTENDS AgentBase

CONSTANTS Fragile  \* agents whose own stop() may raise

ASSUME FragileAssumption == Fragile \subseteq Agent

VARIABLES
  at,        \* where the supervisor stands
  cursor,    \* the agent it looks at; beyond the last one it sleeps
  reported,  \* _reported
  blocked    \* agents in their restart cooldown

superVars == <<at, cursor, reported, blocked>>
vars == <<agentVars, superVars>>

Init ==
  /\ AgentInit
  /\ at = "scan" /\ cursor = 1
  /\ reported = {} /\ blocked = {}

Looks(a) == at = "scan" /\ cursor = a
ToRevive(a) == Dead(a) /\ a \notin reported

-----------------------------------------------------------------------------
Pass(a) ==
  /\ Looks(a)
  /\ ~ToRevive(a)
  /\ cursor' = cursor + 1
  /\ UNCHANGED <<agentVars, at, reported, blocked>>

GiveUp(a) ==
  /\ Looks(a)
  /\ ToRevive(a) /\ a \in blocked
  /\ reported' = reported \cup {a}
  /\ cursor' = cursor + 1
  /\ UNCHANGED <<agentVars, at, blocked>>

StopDead(a) ==
  /\ Looks(a)
  /\ ToRevive(a) /\ a \notin blocked
  /\ Stop({a})
  /\ at' = "starting"
  /\ UNCHANGED <<cursor, reported, blocked>>

StopRaises(a) ==
  /\ Looks(a)
  /\ ToRevive(a) /\ a \notin blocked
  /\ a \in Fragile
  /\ reported' = reported \cup {a}
  /\ blocked' = blocked \cup {a}
  /\ cursor' = cursor + 1
  /\ UNCHANGED <<agentVars, at>>

(* A fault: only a failed restart is followed by a cooldown. *)
StartAgainAtOnce(a) ==
  /\ at = "starting" /\ cursor = a
  /\ Start(a)
  /\ at' = "scan" /\ cursor' = cursor + 1
  /\ reported' = IF main'[a] = "ready" THEN reported \ {a} ELSE reported \cup {a}
  /\ UNCHANGED blocked

(* A fault: a restarted agent is reported as well. *)
StartReports(a) ==
  /\ at = "starting" /\ cursor = a
  /\ Start(a)
  /\ at' = "scan" /\ cursor' = cursor + 1
  /\ reported' = reported \cup {a}
  /\ blocked' = blocked \cup {a}

StartAgain(a) ==
  /\ at = "starting" /\ cursor = a
  /\ Start(a)
  /\ at' = "scan" /\ cursor' = cursor + 1
  /\ reported' = IF main'[a] = "ready" THEN reported \ {a} ELSE reported \cup {a}
  /\ blocked' = blocked \cup {a}

(* The pause after a pass. *)
NextPass ==
  /\ at = "scan" /\ cursor > NAgents
  /\ cursor' = 1
  /\ UNCHANGED <<agentVars, at, reported, blocked>>

(* 60 s after the first restart, up to 600 s after the fourth. *)
CooldownEnds(a) ==
  /\ a \in blocked
  /\ at # "down"
  /\ blocked' = blocked \ {a}
  /\ UNCHANGED <<agentVars, at, cursor, reported>>

(* The time is over. *)
Shutdown ==
  /\ at = "scan" /\ cursor > NAgents
  /\ Stop(Agent)
  /\ at' = "down"
  /\ UNCHANGED <<cursor, reported, blocked>>

Supervise ==
  \/ \E a \in Agent : Pass(a) \/ GiveUp(a) \/ StopDead(a) \/ StartAgain(a)
  \/ NextPass

Next ==
  \/ Supervise \/ Shutdown
  \/ \E a \in Agent :
       \/ StopRaises(a) \/ CooldownEnds(a)
       \/ AgentStep(a) /\ UNCHANGED superVars

(***************************************************************************)
(* The pass, the pauses and the conditions of the loops come to their end; *)
(* run() may go on for ever, and the process need not be shut down.        *)
(***************************************************************************)
Fairness ==
  /\ WF_vars(Supervise)
  /\ \A a \in Agent :
       /\ WF_vars(AgentGoesOn(a) /\ UNCHANGED superVars)
       /\ WF_vars(CooldownEnds(a))

Spec == Init /\ [][Next]_vars /\ Fairness

-----------------------------------------------------------------------------
(* Type invariant of the agents and of the supervisor's tables. *)
SupervisorTypeOK ==
  /\ status \in [Agent -> AgentStatus]
  /\ retries \in [Agent -> 0 .. MaxRetries + 1]
  /\ main \in [Agent -> {"none", "ready", "run", "pad", "backoff", "done"}]
  /\ beat \in [Agent -> BOOLEAN]
  /\ at \in {"scan", "starting", "down"}
  /\ cursor \in 1 .. NAgents + 1
  /\ reported \subseteq Agent /\ blocked \subseteq Agent

(***************************************************************************)
(* No agent is at work that the supervisor has given up: whatever runs is  *)
(* looked at in the next pass.                                             *)
(***************************************************************************)
WatchedWhileAlive == \A a \in Agent : Dead(a) \/ a \notin reported

(***************************************************************************)
(* "ALWAYS apply exponential backoff after any restart attempt": no agent  *)
(* is started before the cooldown of its last start is over, and every     *)
(* start begins one.                                                       *)
(***************************************************************************)
RestartsSpaced ==
  [][\A a \in Agent :
       Dead(a) /\ ~Dead(a)' => a \notin blocked /\ a \in blocked']_vars

(***************************************************************************)
(* "exceeded max retries" is final: whatever is stopped and started, run() *)
(* is not called again after the last retry.                               *)
(***************************************************************************)
ErrorIsFinal ==
  [][\A a \in Agent : retries[a] > MaxRetries => main'[a] # "run"]_vars

(***************************************************************************)
(* "AUTO-RESTART": an agent found dead while it has retries left and is in *)
(* no cooldown runs again, however long the restart of others takes.       *)
(***************************************************************************)
RevivedInTime ==
  \A a \in Agent \ Fragile :
    (Dead(a) /\ a \notin reported \cup blocked /\ retries[a] <= MaxRetries)
      ~> (main[a] = "run" \/ at = "down")

=============================================================================
