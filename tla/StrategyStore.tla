---------------------------- MODULE StrategyStore ----------------------------
(***************************************************************************)
(* The strategies table and the results of backtests                       *)
(* (atlas/data/storage/timescale_client.py), as the agents of the pipeline *)
(* use them.  Each operation is one transaction.                           *)
(*                                                                         *)
(* Statuses nothing in the pipeline tells apart are one value:             *)
(* backtest_failed is also no_signal_strategy, failed_validation is also   *)
(* research_candidate and the tiers below it, validated is also elite.     *)
(***************************************************************************)
EXTENDS Naturals, FiniteSets

CONSTANTS
  Strategy,   \* ids of strategies
  BatchSize   \* CLAIM_BATCH_SIZE

ASSUME StoreAssumption == BatchSize \in Nat \ {0}

VARIABLES
  status,   \* strategies.status, or "absent" before the row is there
  results,  \* strategies that have a row in backtest_results
  dbUp      \* FALSE: every statement raises

storeVars == <<status, results, dbUp>>

Verdict == {"code_failed", "backtest_failed", "failed_validation", "validated"}
Status == {"absent", "pending_code", "pending_backtest", "backtesting",
           "pending_validation"} \cup Verdict

StoreInit ==
  /\ status = [s \in Strategy |-> "absent"]
  /\ results = {}
  /\ dbUp = TRUE

HaveStatus(x) == {s \in Strategy : status[s] = x}

(* update_strategy_status, update_strategy_code: whatever the row's status. *)
WriteStatus(s, x) ==
  /\ dbUp
  /\ status' = [status EXCEPT ![s] = x]
  /\ UNCHANGED <<results, dbUp>>

(* save_strategy: the row of a new strategy. *)
SaveStrategy(s) == status[s] = "absent" /\ WriteStatus(s, "pending_code")

SaveResults(s) ==
  /\ dbUp
  /\ results' = results \cup {s}
  /\ UNCHANGED <<status, dbUp>>

(* A fault: a strategy that is being tested is claimed as well. *)
ClaimUnsettled(C) ==
  /\ dbUp
  /\ C \subseteq HaveStatus("pending_backtest") \cup HaveStatus("backtesting")
  /\ Cardinality(C) <= BatchSize
  /\ status' = [s \in Strategy |-> IF s \in C THEN "backtesting" ELSE status[s]]
  /\ UNCHANGED <<results, dbUp>>

(* The oldest rows first, of which any may be the oldest. *)
ClaimPendingBacktest(C) ==
  /\ dbUp
  /\ C \subseteq HaveStatus("pending_backtest")
  /\ Cardinality(C) <= BatchSize
  /\ Cardinality(C) < BatchSize => C = HaveStatus("pending_backtest")
  /\ status' = [s \in Strategy |-> IF s \in C THEN "backtesting" ELSE status[s]]
  /\ UNCHANGED <<results, dbUp>>

(* A fault: no claim is ever old enough. *)
ReclaimNothing(X) == dbUp /\ UNCHANGED storeVars

(* X: those whose claimed_at is older than RECLAIM_MINUTES. *)
ReclaimStaleBacktesting(X) ==
  /\ dbUp
  /\ X \subseteq HaveStatus("backtesting")
  /\ status' = [s \in Strategy |->
                  IF s \in X THEN "pending_backtest" ELSE status[s]]
  /\ UNCHANGED <<results, dbUp>>

Outage ==
  /\ dbUp
  /\ dbUp' = FALSE
  /\ UNCHANGED <<status, results>>

OutageEnds ==
  /\ ~dbUp
  /\ dbUp' = TRUE
  /\ UNCHANGED <<status, results>>

=============================================================================
