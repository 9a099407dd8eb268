------------------------------- MODULE AgentBase -------------------------------
(***************************************************************************)
(* BaseAgent (atlas/core/agent_base.py): start() makes a heartbeat and the *)
(* main task, which calls run() again after an error, with growing pauses, *)
(* until the retries are used up.  They are never given back.              *)
(*                                                                         *)
(* pause() and resume() have no caller and are left out.                   *)
(***************************************************************************)
EXTENDS Naturals

CONSTANTS
  NAgents,     \* agents of the process, numbered as in its list
  MaxRetries   \* MAX_RETRIES

ASSUME AgentAssumption == NAgents \in Nat \ {0} /\ MaxRetries \in Nat

Agent == 1 .. NAgents

VARIABLES
  status,   \* self.status
  retries,  \* self._retry_count
  main,     \* where self._main_task stands; "none" when there is no task
  beat      \* the heartbeat task is alive

agentVars == <<status, retries, main, beat>>

AgentStatus == {"stopped", "running", "error"}
Dead(a) == main[a] \in {"done", "none"}

(* Every agent has just been started, and no task has had its first turn. *)
AgentInit ==
  /\ status = [a \in Agent |-> "running"]
  /\ retries = [a \in Agent |-> 0]
  /\ main = [a \in Agent |-> "ready"]
  /\ beat = [a \in Agent |-> TRUE]

MainGoes(a, where) == main' = [main EXCEPT ![a] = where]
Becomes(a, what) == status' = [status EXCEPT ![a] = what]

(* start(), after its wait for the least interval between two starts. *)
Start(a) ==
  /\ UNCHANGED retries
  /\ IF status[a] = "running" THEN UNCHANGED <<status, main, beat>>
     ELSE /\ Becomes(a, "running")
          /\ MainGoes(a, "ready")
          /\ beat' = [beat EXCEPT ![a] = TRUE]

(* A fault: an agent whose run has ended stays "running". *)
StopKeepsStatus(A) ==
  /\ main' = [a \in Agent |-> IF a \in A THEN "none" ELSE main[a]]
  /\ beat' = [a \in Agent |-> beat[a] /\ a \notin A]
  /\ status' = [a \in Agent |-> IF a \in A THEN "running" ELSE status[a]]
  /\ UNCHANGED retries

(* stop() of the agents in A; what is left of their tasks is cancelled. *)
Stop(A) ==
  /\ status' = [a \in Agent |->
                  IF a \in A /\ status[a] # "error" THEN "stopped" ELSE status[a]]
  /\ main' = [a \in Agent |-> IF a \in A THEN "none" ELSE main[a]]
  /\ beat' = [a \in Agent |-> beat[a] /\ a \notin A]
  /\ UNCHANGED retries

-----------------------------------------------------------------------------
(***************************************************************************)
(* _run_with_retry                                                         *)
(***************************************************************************)
(* A fault: the loop does not look at the retries. *)
EnterAnyway(a) ==
  /\ main[a] = "ready"
  /\ MainGoes(a, IF status[a] = "running" THEN "run" ELSE "done")
  /\ UNCHANGED <<status, retries, beat>>

(* The condition of the loop. *)
Enter(a) ==
  /\ main[a] = "ready"
  /\ MainGoes(a, IF retries[a] <= MaxRetries /\ status[a] = "running"
                 THEN "run" ELSE "done")
  /\ UNCHANGED <<status, retries, beat>>

(* A run shorter than a minute is padded. *)
RunReturns(a) ==
  /\ main[a] = "run"
  /\ MainGoes(a, "pad")
  /\ UNCHANGED <<status, retries, beat>>

PadEnds(a) ==
  /\ main[a] = "pad"
  /\ MainGoes(a, "done")
  /\ Becomes(a, "stopped")
  /\ UNCHANGED <<retries, beat>>

RunRaises(a) ==
  /\ main[a] = "run"
  /\ retries' = [retries EXCEPT ![a] = @ + 1]
  /\ IF retries'[a] <= MaxRetries
     THEN MainGoes(a, "backoff") /\ UNCHANGED status
     ELSE MainGoes(a, "done") /\ Becomes(a, "error")
  /\ UNCHANGED beat

BackoffEnds(a) ==
  /\ main[a] = "backoff"
  /\ MainGoes(a, "ready")
  /\ UNCHANGED <<status, retries, beat>>

(* The heartbeat looks at the status, or Redis raises and it is gone. *)
BeatEnds(a) ==
  /\ beat[a]
  /\ beat' = [beat EXCEPT ![a] = FALSE]
  /\ UNCHANGED <<status, retries, main>>

AgentGoesOn(a) == Enter(a) \/ PadEnds(a) \/ BackoffEnds(a)
AgentStep(a) == AgentGoesOn(a) \/ RunReturns(a) \/ RunRaises(a) \/ BeatEnds(a)

=============================================================================
