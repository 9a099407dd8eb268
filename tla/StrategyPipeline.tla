--------------------------- MODULE StrategyPipeline ---------------------------
(***************************************************************************)
(* The way of a strategy from the idea to the verdict: the ideator saves   *)
(* it, the CoderAgent writes its code, BacktestRunners test it, and the    *)
(* ValidatorAgent judges the results.  The agents share nothing but the    *)
(* strategies table.                                                       *)
(***************************************************************************)
EXTENDS BacktestRunner

VARIABLES
  recoding,  \* strategy whose code the coder is writing once more
  todo       \* strategies the validator has listed and not yet judged

vars == <<storeVars, runnerVars, disturbed, faults, recoding, todo>>

Init ==
  /\ StoreInit /\ RunnerInit
  /\ recoding = Nobody
  /\ todo = {}

-----------------------------------------------------------------------------
(***************************************************************************)
(* IdeatorAgent, MutationEngine, CombinerAgent: a new row.                 *)
(***************************************************************************)
Ideate(s) ==
  /\ SaveStrategy(s)
  /\ UNCHANGED <<runnerVars, disturbed, faults, recoding, todo>>

-----------------------------------------------------------------------------
(***************************************************************************)
(* CoderAgent: one process that lists pending_code and codes one after the *)
(* other; nobody else moves a strategy out of that status.                 *)
(***************************************************************************)
ToCode(s) == IF recoding = Nobody THEN status[s] = "pending_code"
             ELSE s = recoding

Code(s) ==
  /\ ToCode(s)
  /\ WriteStatus(s, "pending_backtest")
  /\ recoding' = Nobody
  /\ UNCHANGED <<runnerVars, disturbed, faults, todo>>

(* It does not compile, leaves no entry condition, or anything else raises: *)
(* also the last attempt after one that has committed.                      *)
CodeFails(s) ==
  /\ ToCode(s)
  /\ WriteStatus(s, "code_failed")
  /\ recoding' = Nobody
  /\ UNCHANGED <<runnerVars, disturbed, faults, todo>>

(* The attempts are used up, and code_failed cannot be written either. *)
CodeGivesUp ==
  /\ recoding # Nobody
  /\ recoding' = Nobody
  /\ UNCHANGED <<storeVars, runnerVars, disturbed, faults, todo>>

(* update_strategy_code has committed, is not answered and tries again. *)
CodeUnanswered(s) ==
  /\ ToCode(s)
  /\ WriteStatus(s, "pending_backtest")
  /\ Fault
  /\ recoding' = s
  /\ Disturb({s})
  /\ UNCHANGED <<runnerVars, todo>>

-----------------------------------------------------------------------------
(***************************************************************************)
(* ValidatorAgent: it lists pending_validation and judges one after the    *)
(* other, whatever has become of them; an error is logged.                 *)
(***************************************************************************)
ListPendingValidation ==
  /\ dbUp
  /\ todo = {}
  /\ HaveStatus("pending_validation") # {}
  /\ todo' = HaveStatus("pending_validation")
  /\ UNCHANGED <<storeVars, runnerVars, disturbed, faults, recoding>>

Judge(s) ==
  /\ s \in todo
  /\ s \in results
  /\ \E x \in {"failed_validation", "validated"} : WriteStatus(s, x)
  /\ todo' = todo \ {s}
  /\ UNCHANGED <<runnerVars, disturbed, faults, recoding>>

(* No result, a statement that raised, or any other exception, a fault. *)
JudgeGivesUp(s) ==
  /\ s \in todo
  /\ IF s \in results /\ dbUp THEN Fault ELSE UNCHANGED faults
  /\ todo' = todo \ {s}
  /\ UNCHANGED <<storeVars, runnerVars, disturbed, recoding>>

-----------------------------------------------------------------------------
Runners ==
  /\ \/ \E r \in Runner : LoopStep(r) \/ Crash(r) \/ Restart(r)
     \/ \E t \in Task : TaskStep(t) \/ Unanswered(t)
  /\ UNCHANGED <<recoding, todo>>

DatabaseFails ==
  /\ Outage /\ Fault
  /\ UNCHANGED <<runnerVars, disturbed, recoding, todo>>

DatabaseReturns ==
  /\ OutageEnds
  /\ UNCHANGED <<runnerVars, disturbed, faults, recoding, todo>>

Next ==
  \/ \E s \in Strategy :
       \/ Ideate(s) \/ Code(s) \/ CodeFails(s) \/ CodeUnanswered(s)
       \/ Judge(s) \/ JudgeGivesUp(s)
  \/ CodeGivesUp \/ ListPendingValidation
  \/ Runners
  \/ DatabaseFails \/ DatabaseReturns

ReclaimOf(s) ==
  /\ \E r \in Runner, X \in SUBSET Strategy : s \in X /\ ReclaimThose(r, X)
  /\ UNCHANGED <<recoding, todo>>

(***************************************************************************)
(* The loops run and the tasks go on, a dead runner is started again, an   *)
(* outage ends, and the claim of a strategy that stays in backtesting is   *)
(* old enough for a reclaim at some time.  Assumed of the data: the code   *)
(* of a strategy does not hang its runner, and _validate_one does not      *)
(* raise on one result for ever.                                           *)
(***************************************************************************)
Fairness ==
  /\ \A s \in Strategy :
       /\ WF_vars(Code(s))
       /\ WF_vars(Judge(s) \/ JudgeGivesUp(s))
  /\ WF_vars(ListPendingValidation)
  /\ \A r \in Runner :
       WF_vars((LoopStep(r) \/ Restart(r)) /\ UNCHANGED <<recoding, todo>>)
  /\ \A t \in Task : WF_vars(TaskStep(t) /\ UNCHANGED <<recoding, todo>>)
  /\ \A s \in Strategy : SF_vars(ReclaimOf(s))
  /\ WF_vars(DatabaseReturns)

Spec == Init /\ [][Next]_vars /\ Fairness

-----------------------------------------------------------------------------
(* Type invariant of the table and of the agents' local state. *)
PipelineTypeOK ==
  /\ status \in [Strategy -> Status]
  /\ results \subseteq Strategy
  /\ dbUp \in BOOLEAN
  /\ loop \in [Runner -> Place]
  /\ task \in [Task -> [stage : Stage, awaited : BOOLEAN]]
  /\ disturbed \subseteq Strategy
  /\ faults \in 0 .. MaxFaults
  /\ recoding \in Strategy \cup {Nobody}
  /\ todo \subseteq Strategy

(***************************************************************************)
(* "Two concurrent BacktestRunners can never claim the same strategy": two *)
(* tasks work on one strategy only if its claim was taken from a task that *)
(* was still at work, or a write that was not answered was made twice; and *)
(* a task that has not settled its claim still finds it in the table.      *)
(***************************************************************************)
OneTaskPerClaim ==
  \A s \in Strategy \ disturbed :
    /\ \A t, u \in Working(s) : t = u
    /\ Working(s) # {} => status[s] = "backtesting"

(***************************************************************************)
(* A strategy that is judged, or waits for it, has results, faults or not. *)
(***************************************************************************)
JudgedByResults ==
  \A s \in Strategy :
    status[s] \in {"pending_validation", "failed_validation", "validated"} =>
      s \in results

(***************************************************************************)
(* The runners, the coder, the validator and the table together keep the   *)
(* promise of StrategyQueue.                                               *)
(***************************************************************************)
PlaceOf(s) ==
  CASE status[s] = "absent" -> "none"
    [] status[s] = "pending_code" -> "coding"
    [] status[s] = "pending_backtest" -> "queued"
    [] status[s] = "backtesting" -> "held"
    [] status[s] = "pending_validation" -> "judging"
    [] status[s] \in Verdict -> "closed"

HolderOf(s) ==
  IF status[s] = "backtesting" /\ Working(s) # {}
  THEN RunnerOf(CHOOSE t \in Working(s) : TRUE) ELSE Nobody

Queue == INSTANCE StrategyQueue
  WITH job <- [s \in Strategy |-> [place |-> PlaceOf(s), holder |-> HolderOf(s)]],
       forfeit <- disturbed

ImplementsStrategyQueue == Queue!Spec

(***************************************************************************)
(* "Work is never permanently lost": every strategy comes to a verdict,    *)
(* whatever crashes, raises or gets no answer on the way.                  *)
(***************************************************************************)
EveryStrategyIsJudged ==
  \A s \in Strategy : status[s] # "absent" ~> status[s] \in Verdict

=============================================================================
