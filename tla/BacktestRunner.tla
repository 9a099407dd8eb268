---------------------------- MODULE BacktestRunner ----------------------------
(***************************************************************************)
(* BacktestRunner processes (atlas/agents/l3_backtest/backtest_runner.py): *)
(* each reclaims, claims a batch, and waits for the tasks of the batch,    *)
(* one per strategy, that run process_strategy.  When one task raises,     *)
(* gather() raises too and the loop goes on, but the other tasks of the    *)
(* batch are not cancelled.                                                *)
(*                                                                         *)
(* An action ends at the next await that touches shared state.             *)
(***************************************************************************)
EXTENDS StrategyStore

CONSTANTS
  Runner,    \* processes
  MaxCopies, \* bound: tasks of one runner for one strategy
  MaxTasks,  \* bound: tasks alive at one time, over all processes
  MaxFaults, \* bound: outages, crashes, commits without an answer
  Nobody

ASSUME RunnerAssumption ==
  /\ MaxCopies \in Nat \ {0} /\ MaxTasks \in Nat \ {0} /\ MaxFaults \in Nat
  /\ Nobody \notin Runner

(* A task is named by its runner, its strategy and a number. *)
Task == Runner \X Strategy \X (1 .. MaxCopies)
RunnerOf(t) == t[1]
StrategyOf(t) == t[2]

VARIABLES
  loop,       \* where the loop of a runner stands
  task,       \* tasks of process_strategy
  disturbed,  \* history: strategies a fault or a slow task has put in a race
  faults

runnerVars == <<loop, task>>

Place == {"down", "reclaim", "claim", "gather"}
(* Where a task stands.  In hand: its claim is not settled yet. *)
InHand == {"testing", "saved", "except", "handler"}
Stage == {"free", "rewrite"} \cup InHand

Free == [stage |-> "free", awaited |-> FALSE]
Fresh == [stage |-> "testing", awaited |-> TRUE]

RunnerInit ==
  /\ loop = [r \in Runner |-> "reclaim"]
  /\ task = [t \in Task |-> Free]
  /\ disturbed = {}
  /\ faults = 0

Alive == {t \in Task : task[t].stage # "free"}
Working(s) == {t \in Alive : StrategyOf(t) = s /\ task[t].stage \in InHand}
Of(r) == {t \in Alive : RunnerOf(t) = r}

(* The task r starts for s. *)
IsNew(t, r, s) ==
  /\ RunnerOf(t) = r /\ StrategyOf(t) = s /\ t \notin Alive
  /\ \A n \in 1 .. t[3] - 1 : <<r, s, n>> \in Alive

Goes(t, stage) == task' = [task EXCEPT ![t].stage = stage]
Ends(t) == task' = [task EXCEPT ![t] = Free]
Disturb(S) == disturbed' = disturbed \cup S
Fault == faults < MaxFaults /\ faults' = faults + 1

-----------------------------------------------------------------------------
(***************************************************************************)
(* run()                                                                   *)
(***************************************************************************)
(* A claim may be taken from a task that is still at work. *)
ReclaimThose(r, X) ==
  /\ loop[r] = "reclaim"
  /\ ReclaimStaleBacktesting(X)
  /\ loop' = [loop EXCEPT ![r] = "claim"]
  /\ Disturb({s \in X : Working(s) # {}})
  /\ UNCHANGED <<task, faults>>

Reclaim(r) == \E X \in SUBSET Strategy : ReclaimThose(r, X)

Claim(r) ==
  /\ loop[r] = "claim"
  /\ \E C \in SUBSET Strategy :
       LET new == {t \in Task : \E s \in C : IsNew(t, r, s)} IN
       /\ ClaimPendingBacktest(C)
       /\ Cardinality(Alive) + Cardinality(C) <= MaxTasks
       /\ \A s \in C : \E t \in new : StrategyOf(t) = s
       /\ task' = [t \in Task |-> IF t \in new THEN Fresh ELSE task[t]]
       /\ loop' = [loop EXCEPT ![r] = IF C = {} THEN "reclaim" ELSE "gather"]
  /\ UNCHANGED <<disturbed, faults>>

(* The loop's own except: it sleeps and begins again. *)
LoopRaises(r) ==
  /\ ~dbUp
  /\ loop[r] = "claim"
  /\ loop' = [loop EXCEPT ![r] = "reclaim"]
  /\ UNCHANGED <<storeVars, task, disturbed, faults>>

Gathered(r) ==
  /\ loop[r] = "gather"
  /\ \A t \in Of(r) : ~task[t].awaited
  /\ loop' = [loop EXCEPT ![r] = "reclaim"]
  /\ UNCHANGED <<storeVars, task, disturbed, faults>>

(* The process dies with all its tasks, and is started again. *)
Crash(r) ==
  /\ loop[r] # "down"
  /\ Fault
  /\ loop' = [loop EXCEPT ![r] = "down"]
  /\ task' = [t \in Task |-> IF t \in Of(r) THEN Free ELSE task[t]]
  /\ UNCHANGED <<storeVars, disturbed>>

Restart(r) ==
  /\ loop[r] = "down"
  /\ loop' = [loop EXCEPT ![r] = "reclaim"]
  /\ UNCHANGED <<storeVars, task, disturbed, faults>>

-----------------------------------------------------------------------------
(***************************************************************************)
(* process_strategy                                                        *)
(***************************************************************************)
(* The code does not run, the data do not do, there is no signal.  What    *)
(* follows a write of the status, publish and lifecycle event, logs its    *)
(* errors.                                                                 *)
Rejects(t) ==
  /\ task[t].stage = "testing"
  /\ \E x \in {"code_failed", "backtest_failed"} : WriteStatus(StrategyOf(t), x)

Reject(t) ==
  /\ Rejects(t)
  /\ Ends(t)
  /\ UNCHANGED <<loop, disturbed, faults>>

(* A fault: the row of the results is not written. *)
BacktestUnsaved(t) ==
  /\ task[t].stage = "testing"
  /\ dbUp
  /\ Goes(t, "saved")
  /\ UNCHANGED <<storeVars, loop, disturbed, faults>>

(* The backtest, the advanced validation and the row of its results. *)
Backtest(t) ==
  /\ task[t].stage = "testing"
  /\ SaveResults(StrategyOf(t))
  /\ Goes(t, "saved")
  /\ UNCHANGED <<loop, disturbed, faults>>

(* A fault: a status the validator does not know. *)
CompleteMisspelt(t) ==
  /\ task[t].stage = "saved"
  /\ WriteStatus(StrategyOf(t), "backtested")
  /\ Ends(t)
  /\ UNCHANGED <<loop, disturbed, faults>>

(* The metrics and the trades are written, and then the status. *)
Complete(t) ==
  /\ task[t].stage = "saved"
  /\ WriteStatus(StrategyOf(t), "pending_validation")
  /\ Ends(t)
  /\ UNCHANGED <<loop, disturbed, faults>>

(* A commit that is not answered: update_strategy_code tries again; what   *)
(* still raises is taken for a failed backtest.                            *)
CompleteUnanswered(t) ==
  /\ task[t].stage = "saved"
  /\ WriteStatus(StrategyOf(t), "pending_validation")
  /\ Fault
  /\ Disturb({StrategyOf(t)})
  /\ UNCHANGED task \/ Goes(t, "except")
  /\ UNCHANGED loop

RejectUnanswered(t) ==
  /\ Rejects(t)
  /\ Fault
  /\ Disturb({StrategyOf(t)})
  /\ Goes(t, "except")
  /\ UNCHANGED loop

(* The outer except, from a statement or from the strategy's own code. *)
Raises(t) ==
  /\ \/ task[t].stage = "testing"
     \/ task[t].stage = "saved" /\ ~dbUp
  /\ Goes(t, "except")
  /\ UNCHANGED <<storeVars, loop, disturbed, faults>>

(* A fault: a strategy whose backtest raised is queued again at once. *)
ExceptRequeues(t) ==
  /\ task[t].stage = "except"
  /\ WriteStatus(StrategyOf(t), "pending_backtest")
  /\ Ends(t)
  /\ UNCHANGED <<loop, disturbed, faults>>

Except(t) ==
  /\ task[t].stage = "except"
  /\ WriteStatus(StrategyOf(t), "backtest_failed")
  /\ Ends(t)
  /\ UNCHANGED <<loop, disturbed, faults>>

ExceptRaises(t) ==
  /\ task[t].stage = "except"
  /\ ~dbUp
  /\ Goes(t, "handler")
  /\ UNCHANGED <<storeVars, loop, disturbed, faults>>

ExceptUnanswered(t) ==
  /\ task[t].stage = "except"
  /\ WriteStatus(StrategyOf(t), "backtest_failed")
  /\ Fault
  /\ Goes(t, "rewrite")
  /\ UNCHANGED <<loop, disturbed>>

(* The handler of _process_with_limit. *)
Handler(t) ==
  /\ task[t].stage \in {"handler", "rewrite"}
  /\ WriteStatus(StrategyOf(t), "backtest_failed")
  /\ Ends(t)
  /\ UNCHANGED <<loop, disturbed, faults>>

(* What it raises ends the gather, and no task is waited for any more. *)
HandlerRaises(t) ==
  LET r == RunnerOf(t) IN
  /\ task[t].stage \in {"handler", "rewrite"}
  /\ ~dbUp
  /\ task' = [u \in Task |->
                IF u = t THEN Free
                ELSE IF task[t].awaited /\ u \in Of(r)
                THEN [task[u] EXCEPT !.awaited = FALSE] ELSE task[u]]
  /\ UNCHANGED <<storeVars, loop, disturbed, faults>>

TaskStep(t) ==
  \/ Reject(t) \/ Backtest(t) \/ Complete(t) \/ Raises(t) \/ Except(t)
  \/ ExceptRaises(t) \/ Handler(t) \/ HandlerRaises(t)

Unanswered(t) ==
  CompleteUnanswered(t) \/ RejectUnanswered(t) \/ ExceptUnanswered(t)

LoopStep(r) == Reclaim(r) \/ Claim(r) \/ LoopRaises(r) \/ Gathered(r)

=============================================================================
