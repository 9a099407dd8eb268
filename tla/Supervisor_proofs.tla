--------------------------- MODULE Supervisor_proofs ---------------------------
(***************************************************************************)
(* The supervisor watches every agent that is alive, spaces the restarts   *)
(* and never revives an agent whose retries are used up, for any number of *)
(* agents and of retries.                                                  *)
(***************************************************************************)
EXTENDS Supervisor, TLAPS

Where == {"none", "ready", "run", "pad", "backoff", "done"}

SupervisorInv ==
  /\ SupervisorTypeOK
  /\ WatchedWhileAlive
  /\ \A a \in Agent : main[a] = "run" => retries[a] <= MaxRetries
  /\ at = "starting" =>
       cursor \in Agent /\ cursor \notin blocked /\ main[cursor] = "none"

(***************************************************************************)
(* What a step may do to one agent.                                        *)
(***************************************************************************)
StepOK(a) ==
  /\ Dead(a)' \/ a \notin reported'
  /\ main'[a] = "run" => retries'[a] <= MaxRetries
  /\ Dead(a) /\ ~Dead(a)' => a \notin blocked /\ a \in blocked'
  /\ retries[a] > MaxRetries => main'[a] # "run"

(* The inductive invariant, and the two action properties with it. *)
SafeStep == SupervisorInv' /\ \A a \in Agent : StepOK(a)

LEMMA AgentNumbers ==
  /\ Agent \subseteq Nat /\ NAgents \in Nat /\ MaxRetries \in Nat
  /\ \A a \in Agent : a \in 1 .. NAgents + 1 /\ a + 1 \in 1 .. NAgents + 1
  BY AgentAssumption DEF Agent

LEMMA InitOK == Init => SupervisorInv
<1> SUFFICES ASSUME Init PROVE SupervisorInv
  OBVIOUS
<1>1. SupervisorTypeOK
  BY AgentAssumption, AgentNumbers
  DEF Init, AgentInit, SupervisorTypeOK, AgentStatus
<1> QED
  BY <1>1, AgentNumbers
  DEF Init, AgentInit, SupervisorInv, WatchedWhileAlive, Dead

(***************************************************************************)
(* The agents.                                                             *)
(***************************************************************************)
LEMMA AgentOK ==
  ASSUME SupervisorInv, NEW b \in Agent, AgentStep(b), UNCHANGED superVars
  PROVE  SafeStep
<1>0. /\ status \in [Agent -> AgentStatus] /\ main \in [Agent -> Where]
      /\ retries \in [Agent -> 0 .. MaxRetries + 1] /\ beat \in [Agent -> BOOLEAN]
      /\ UNCHANGED <<at, cursor, reported, blocked>>
  BY DEF SupervisorInv, SupervisorTypeOK, superVars, Where
<1>1. /\ main' \in [Agent -> Where] /\ \A a \in Agent \ {b} : main'[a] = main[a]
      /\ main'[b] # main[b] => ~Dead(b)
      /\ main'[b] = "run" => main[b] = "run" \/ retries[b] <= MaxRetries
      /\ main[b] \in {"none", "done"} => main'[b] = main[b]
  BY <1>0
  DEF AgentStep, AgentGoesOn, Enter, PadEnds, BackoffEnds, RunReturns,
      RunRaises, BeatEnds, MainGoes, Where, Dead
<1>2. /\ status' \in [Agent -> AgentStatus] /\ beat' \in [Agent -> BOOLEAN]
  BY <1>0
  DEF AgentStep, AgentGoesOn, Enter, PadEnds, BackoffEnds, RunReturns,
      RunRaises, BeatEnds, Becomes, AgentStatus
<1>3. /\ retries' \in [Agent -> 0 .. MaxRetries + 1]
      /\ \A a \in Agent : retries'[a] = retries[a] \/ main'[a] # "run"
  <2>1. CASE retries' = retries
    BY <1>0, <2>1
  <2>2. CASE RunRaises(b)
    <3>1. retries[b] \in 0 .. MaxRetries
      BY <1>0, <2>2, AgentNumbers DEF RunRaises, SupervisorInv
    <3>2. retries' = [retries EXCEPT ![b] = retries[b] + 1]
      BY <2>2 DEF RunRaises
    <3>3. retries' \in [Agent -> 0 .. MaxRetries + 1]
      BY <1>0, <3>1, <3>2, AgentNumbers
    <3>4. main'[b] # "run"
      BY <1>0, <2>2 DEF RunRaises, MainGoes
    <3> QED BY <1>0, <3>2, <3>3, <3>4
  <2> QED
    BY <2>1, <2>2
    DEF AgentStep, AgentGoesOn, Enter, PadEnds, BackoffEnds, RunReturns,
        BeatEnds
<1>4. SupervisorTypeOK'
  BY <1>0, <1>1, <1>2, <1>3 DEF SupervisorInv, SupervisorTypeOK, Where
<1>5. \A a \in Agent : main'[a] = "run" => retries'[a] <= MaxRetries
  BY <1>1, <1>3 DEF SupervisorInv
<1>6. \A a \in Agent : Dead(a) => Dead(a)'
  BY <1>1 DEF Dead
<1>7. \A a \in Agent : retries[a] > MaxRetries => main'[a] # "run"
  <2> SUFFICES ASSUME NEW a \in Agent, retries[a] > MaxRetries, main'[a] = "run"
               PROVE  FALSE
    OBVIOUS
  <2>1. ~(retries[a] <= MaxRetries)
    BY <1>0, AgentNumbers
  <2> QED BY <1>1, <2>1 DEF SupervisorInv
<1> QED
  BY <1>0, <1>1, <1>4, <1>5, <1>6, <1>7
  DEF SupervisorInv, WatchedWhileAlive, SafeStep, StepOK

(***************************************************************************)
(* The supervisor.                                                         *)
(***************************************************************************)
LEMMA LooksOK ==
  ASSUME SupervisorInv, NEW b \in Agent,
         Pass(b) \/ GiveUp(b) \/ StopRaises(b) \/ CooldownEnds(b)
  PROVE  SafeStep
<1>1. /\ UNCHANGED <<agentVars, at>> /\ cursor' \in 1 .. NAgents + 1
      /\ reported' \subseteq Agent /\ blocked' \subseteq Agent
      /\ \A a \in Agent : a \in reported' => a \in reported \/ Dead(a)
      /\ at = "starting" => cursor' = cursor /\ blocked' \subseteq blocked
  BY AgentNumbers
  DEF Pass, GiveUp, StopRaises, CooldownEnds, Looks, ToRevive, SupervisorInv,
      SupervisorTypeOK
<1>2. /\ UNCHANGED <<status, retries, main, beat>>
      /\ \A a \in Agent : Dead(a)' <=> Dead(a)
  BY <1>1 DEF agentVars, Dead
<1>3. SupervisorInv'
  BY <1>1, <1>2 DEF SupervisorInv, SupervisorTypeOK, WatchedWhileAlive
<1>4. \A a \in Agent : retries[a] > MaxRetries => ~(retries[a] <= MaxRetries)
  BY AgentNumbers DEF SupervisorInv, SupervisorTypeOK
<1> QED
  BY <1>2, <1>3, <1>4 DEF SafeStep, StepOK, SupervisorInv, WatchedWhileAlive

LEMMA StopOK ==
  ASSUME SupervisorInv, (StopDead(cursor) /\ cursor \in Agent) \/ Shutdown
  PROVE  SafeStep
<1>1. PICK A \in SUBSET Agent :
        /\ Stop(A) /\ UNCHANGED <<cursor, reported, blocked>>
        /\ \/ at' = "down"
           \/ /\ at' = "starting" /\ A = {cursor} /\ cursor \in Agent
              /\ cursor \notin blocked
  BY DEF StopDead, Shutdown
<1>2. /\ status' \in [Agent -> AgentStatus] /\ main' \in [Agent -> Where]
      /\ beat' \in [Agent -> BOOLEAN] /\ retries' = retries
      /\ \A a \in Agent : main'[a] = IF a \in A THEN "none" ELSE main[a]
  <2>1. status' \in [Agent -> AgentStatus]
    BY <1>1 DEF Stop, SupervisorInv, SupervisorTypeOK, AgentStatus
  <2>2. main' \in [Agent -> Where]
    BY <1>1 DEF Stop, SupervisorInv, SupervisorTypeOK, Where
  <2>3. beat' \in [Agent -> BOOLEAN]
    BY <1>1 DEF Stop, SupervisorInv, SupervisorTypeOK
  <2> QED BY <1>1, <2>1, <2>2, <2>3 DEF Stop
<1>3. SupervisorTypeOK'
  BY <1>1, <1>2 DEF SupervisorInv, SupervisorTypeOK, Where
<1>4. \A a \in Agent : Dead(a) => Dead(a)'
  BY <1>2 DEF Dead
<1>5. \A a \in Agent : retries[a] > MaxRetries => ~(retries[a] <= MaxRetries)
  BY AgentNumbers DEF SupervisorInv, SupervisorTypeOK
<1>6. \A a \in Agent :
        /\ main'[a] = "run" => main[a] = "run"
        /\ Dead(a)' \/ a \notin reported'
  BY <1>1, <1>2, <1>4 DEF SupervisorInv, WatchedWhileAlive
<1> QED
  BY <1>1, <1>2, <1>3, <1>4, <1>5, <1>6
  DEF SafeStep, StepOK, SupervisorInv, WatchedWhileAlive

LEMMA StartOK ==
  ASSUME SupervisorInv, NEW b \in Agent, StartAgain(b)
  PROVE  SafeStep
<1>1. /\ at = "starting" /\ at' = "scan" /\ cursor = b /\ cursor' = b + 1
      /\ main[b] = "none" /\ b \notin blocked /\ blocked' = blocked \cup {b}
      /\ retries' = retries
  BY DEF StartAgain, Start, SupervisorInv
<1>2. /\ status' \in [Agent -> AgentStatus] /\ main' \in [Agent -> Where]
      /\ beat' \in [Agent -> BOOLEAN]
      /\ \A a \in Agent \ {b} : main'[a] = main[a]
      /\ main'[b] \in {"none", "ready"}
      /\ reported' = IF main'[b] = "ready" THEN reported \ {b}
                     ELSE reported \cup {b}
  BY <1>1
  DEF StartAgain, Start, Becomes, MainGoes, SupervisorInv, SupervisorTypeOK,
      AgentStatus, Where
<1>3. SupervisorTypeOK'
  BY <1>1, <1>2, AgentNumbers DEF SupervisorInv, SupervisorTypeOK, Where
<1>4. \A a \in Agent : Dead(a)' \/ a \notin reported'
  BY <1>2 DEF SupervisorInv, WatchedWhileAlive, Dead
<1>5. \A a \in Agent : retries[a] > MaxRetries => ~(retries[a] <= MaxRetries)
  BY AgentNumbers DEF SupervisorInv, SupervisorTypeOK
<1>6. \A a \in Agent : main'[a] = "run" => main[a] = "run"
  BY <1>2
<1>7. \A a \in Agent : Dead(a) /\ ~Dead(a)' => a = b
  BY <1>2 DEF Dead
<1> QED
  BY <1>1, <1>3, <1>4, <1>5, <1>6, <1>7
  DEF SafeStep, StepOK, SupervisorInv, WatchedWhileAlive

LEMMA QuietOK ==
  ASSUME SupervisorInv, NextPass \/ UNCHANGED vars
  PROVE  SafeStep
<1>1. /\ UNCHANGED <<status, retries, main, beat, at, reported, blocked>>
      /\ cursor' = cursor \/ (at = "scan" /\ cursor' = 1)
  BY DEF NextPass, vars, agentVars, superVars
<1>2. 1 \in 1 .. NAgents + 1
  BY AgentNumbers, AgentAssumption
<1>3. \A a \in Agent : Dead(a)' <=> Dead(a)
  BY <1>1 DEF Dead
<1>4. SupervisorInv'
  BY <1>1, <1>2, <1>3 DEF SupervisorInv, SupervisorTypeOK, WatchedWhileAlive
<1>5. \A a \in Agent : retries[a] > MaxRetries => ~(retries[a] <= MaxRetries)
  BY AgentNumbers DEF SupervisorInv, SupervisorTypeOK
<1> QED
  BY <1>1, <1>3, <1>4, <1>5 DEF SafeStep, StepOK, SupervisorInv, WatchedWhileAlive

-----------------------------------------------------------------------------
LEMMA EveryStepSafe == SupervisorInv /\ [Next]_vars => SafeStep
<1> SUFFICES ASSUME SupervisorInv, [Next]_vars PROVE SafeStep
  OBVIOUS
<1>1. ASSUME NEW a \in Agent, StopDead(a) PROVE SafeStep
  <2>1. cursor = a
    BY <1>1 DEF StopDead, Looks
  <2> QED BY <1>1, <2>1, StopOK
<1> QED
  BY <1>1, AgentOK, LooksOK, StopOK, StartOK, QuietOK DEF Next, Supervise

LEMMA SupervisorInvariant == Spec => []SupervisorInv
<1>1. SupervisorInv /\ [Next]_vars => SupervisorInv'
  BY EveryStepSafe DEF SafeStep
<1> QED BY InitOK, <1>1, PTL DEF Spec

(***************************************************************************)
(* The agents and the supervisor's tables keep their types; in particular  *)
(* the retries never exceed their limit by more than one.                  *)
(***************************************************************************)
THEOREM SupervisorTypeCorrect == Spec => []SupervisorTypeOK
<1>1. SupervisorInv => SupervisorTypeOK
  BY DEF SupervisorInv
<1> QED BY <1>1, SupervisorInvariant, PTL

(***************************************************************************)
(* No agent is at work that the supervisor has given up.                   *)
(***************************************************************************)
THEOREM AliveIsWatched == Spec => []WatchedWhileAlive
<1>1. SupervisorInv => WatchedWhileAlive
  BY DEF SupervisorInv
<1> QED BY <1>1, SupervisorInvariant, PTL

(***************************************************************************)
(* An agent is started only out of its cooldown, and the start begins one. *)
(***************************************************************************)
THEOREM RestartsAreSpaced == Spec => RestartsSpaced
<1>1. SupervisorInv /\ [Next]_vars =>
        [\A a \in Agent :
           Dead(a) /\ ~Dead(a)' => a \notin blocked /\ a \in blocked']_vars
  BY EveryStepSafe DEF SafeStep, StepOK
<1> QED BY <1>1, SupervisorInvariant, PTL DEF Spec, RestartsSpaced

(***************************************************************************)
(* run() is not called again after the last retry.                         *)
(***************************************************************************)
THEOREM ErrorsAreFinal == Spec => ErrorIsFinal
<1>1. SupervisorInv /\ [Next]_vars =>
        [\A a \in Agent : retries[a] > MaxRetries => main'[a] # "run"]_vars
  BY EveryStepSafe DEF SafeStep, StepOK
<1> QED BY <1>1, SupervisorInvariant, PTL DEF Spec, ErrorIsFinal

-----------------------------------------------------------------------------
(***************************************************************************)
(* What "AUTO-RESTART" needs of every step: a restart makes a task, and a  *)
(* task ends before its first run() only if the retries are used up or the *)
(* process stops.                                                          *)
(***************************************************************************)
Effect(a) ==
  /\ at = "starting" /\ cursor = a /\ at' = "scan" => main'[a] = "ready"
  /\ main[a] \in {"ready", "backoff"} /\ Dead(a)' =>
       retries[a] > MaxRetries \/ at' = "down"

RestartTakesEffect == [][\A a \in Agent : Effect(a)]_vars

(* start() does nothing for an agent that reports "running". *)
ReportInv ==
  /\ \A a \in Agent : ~Dead(a) => status[a] = "running"
  /\ at = "starting" => status[cursor] # "running"

LEMMA AgentReports ==
  ASSUME SupervisorInv, ReportInv, NEW b \in Agent, AgentStep(b),
         UNCHANGED superVars
  PROVE  ReportInv' /\ \A a \in Agent : Effect(a)
<1>0. /\ status \in [Agent -> AgentStatus] /\ main \in [Agent -> Where]
      /\ UNCHANGED <<at, cursor>>
      /\ \A a \in Agent : ~Dead(a) => status[a] = "running"
      /\ at = "starting" =>
           cursor \in Agent /\ Dead(cursor) /\ status[cursor] # "running"
  BY DEF SupervisorInv, SupervisorTypeOK, superVars, Where, ReportInv, Dead
<1>1. /\ \A a \in Agent \ {b} : main'[a] = main[a] /\ status'[a] = status[a]
      /\ status'[b] = status[b] \/ (Dead(b)' /\ ~Dead(b))
      /\ Dead(b) => main'[b] = main[b]
      /\ main[b] = "ready" /\ Dead(b)' =>
           ~(retries[b] <= MaxRetries /\ status[b] = "running")
      /\ main[b] = "backoff" => ~Dead(b)'
  BY <1>0
  DEF AgentStep, AgentGoesOn, Enter, PadEnds, BackoffEnds, RunReturns,
      RunRaises, BeatEnds, MainGoes, Becomes, Dead, Where
<1>2. ReportInv'
  BY <1>0, <1>1 DEF ReportInv, Dead
<1>3. \A a \in Agent : retries[a] <= MaxRetries \/ retries[a] > MaxRetries
  BY AgentNumbers DEF SupervisorInv, SupervisorTypeOK
<1> QED BY <1>0, <1>1, <1>2, <1>3 DEF Effect, Dead

LEMMA StopReports ==
  ASSUME SupervisorInv, ReportInv,
         (StopDead(cursor) /\ cursor \in Agent) \/ Shutdown
  PROVE  ReportInv' /\ \A a \in Agent : Effect(a)
<1>1. PICK A \in SUBSET Agent :
        /\ Stop(A) /\ cursor' = cursor /\ at = "scan"
        /\ \/ at' = "down"
           \/ /\ at' = "starting" /\ A = {cursor} /\ cursor \in Agent
              /\ Dead(cursor)
  BY DEF StopDead, Shutdown, Looks, ToRevive
<1>2. \A a \in Agent :
        /\ main'[a] = IF a \in A THEN "none" ELSE main[a]
        /\ a \notin A => status'[a] = status[a]
        /\ a \in A => status'[a] \in {"stopped", "error"}
  BY <1>1 DEF Stop, SupervisorInv, SupervisorTypeOK
<1>3. ReportInv'
  BY <1>1, <1>2 DEF ReportInv, Dead
<1>4. \A a \in Agent : at' # "down" => (Dead(a)' <=> Dead(a))
  BY <1>1, <1>2 DEF Dead
<1> QED BY <1>1, <1>3, <1>4 DEF Effect, Dead

LEMMA SupervisorReports ==
  ASSUME SupervisorInv, ReportInv, NEW b \in Agent,
         \/ Pass(b) \/ GiveUp(b) \/ StopRaises(b) \/ CooldownEnds(b)
         \/ StartAgain(b) \/ NextPass \/ UNCHANGED vars
  PROVE  ReportInv' /\ \A a \in Agent : Effect(a)
<1>1. CASE StartAgain(b)
  <2>1. /\ at' = "scan" /\ cursor = b /\ status[b] # "running"
        /\ status \in [Agent -> AgentStatus] /\ main \in [Agent -> Where]
    BY <1>1
    DEF StartAgain, ReportInv, SupervisorInv, SupervisorTypeOK, Where
  <2>2. /\ status' = [status EXCEPT ![b] = "running"]
        /\ main' = [main EXCEPT ![b] = "ready"]
    BY <1>1, <2>1 DEF StartAgain, Start, Becomes, MainGoes
  <2> QED BY <2>1, <2>2 DEF ReportInv, Effect, Dead
<1>2. CASE ~StartAgain(b)
  <2>1. /\ UNCHANGED <<status, main>> /\ at' = at
        /\ at = "starting" => cursor' = cursor
    BY <1>2
    DEF Pass, GiveUp, StopRaises, CooldownEnds, NextPass, Looks, agentVars,
        superVars, vars
  <2> QED BY <2>1 DEF ReportInv, Effect, Dead
<1> QED BY <1>1, <1>2

(***************************************************************************)
(* A restart by the supervisor is never in vain: it finds the agent not    *)
(* "running", so that start() makes a task, and that task comes to run()   *)
(* as long as the agent has retries left.                                  *)
(***************************************************************************)
THEOREM RestartsTakeEffect == Spec => RestartTakesEffect
<1>1. Init => ReportInv
  BY DEF Init, AgentInit, ReportInv
<1>2. SupervisorInv /\ ReportInv /\ [Next]_vars =>
        ReportInv' /\ \A a \in Agent : Effect(a)
  <2> SUFFICES ASSUME SupervisorInv, ReportInv, [Next]_vars
               PROVE  ReportInv' /\ \A a \in Agent : Effect(a)
    OBVIOUS
  <2>1. ASSUME NEW a \in Agent, StopDead(a) PROVE StopDead(cursor) /\ cursor \in Agent
    BY <2>1 DEF StopDead, Looks
  <2>2. 1 \in Agent
    BY AgentAssumption DEF Agent
  <2> QED
    BY <2>1, <2>2, AgentReports, StopReports, SupervisorReports
    DEF Next, Supervise
<1>3. SupervisorInv /\ ReportInv /\ [Next]_vars => [\A a \in Agent : Effect(a)]_vars
  BY <1>2
<1> QED BY <1>1, <1>2, <1>3, SupervisorInvariant, PTL DEF Spec, RestartTakesEffect

=============================================================================
