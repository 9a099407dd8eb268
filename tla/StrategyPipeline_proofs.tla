------------------------ MODULE StrategyPipeline_proofs ------------------------
(***************************************************************************)
(* The pipeline keeps its claims, its verdicts and its queue, for any      *)
(* number of strategies, runners, tasks and faults.                        *)
(***************************************************************************)
EXTENDS StrategyPipeline, TLAPS

TaskState == [stage : Stage, awaited : BOOLEAN]

LEMMA TaskParts ==
  ASSUME NEW t \in Task
  PROVE  /\ RunnerOf(t) \in Runner /\ StrategyOf(t) \in Strategy
         /\ t[3] \in 1 .. MaxCopies
         /\ t = <<RunnerOf(t), StrategyOf(t), t[3]>>
  BY DEF Task, RunnerOf, StrategyOf

LEMMA StagesExist ==
  /\ InHand \subseteq Stage /\ "rewrite" \notin InHand /\ "free" \notin InHand
  /\ "rewrite" \in Stage /\ "free" \in Stage
  /\ Free \in TaskState /\ Fresh \in TaskState
  BY DEF InHand, Stage, Free, Fresh, TaskState

-----------------------------------------------------------------------------
(***************************************************************************)
(* Types, in the groups of variables the actions work on.                  *)
(***************************************************************************)
StoreTypeOK ==
  /\ status \in [Strategy -> Status]
  /\ results \subseteq Strategy
  /\ dbUp \in BOOLEAN

AgentsTypeOK ==
  /\ loop \in [Runner -> Place]
  /\ task \in [Task -> TaskState]

RestTypeOK ==
  /\ disturbed \subseteq Strategy
  /\ faults \in 0 .. MaxFaults
  /\ recoding \in Strategy \cup {Nobody}
  /\ todo \subseteq Strategy

LEMMA TypeGroups == PipelineTypeOK <=> StoreTypeOK /\ AgentsTypeOK /\ RestTypeOK
  BY DEF PipelineTypeOK, StoreTypeOK, AgentsTypeOK, RestTypeOK, TaskState

LEMMA TypesNext ==
  ASSUME StoreTypeOK', AgentsTypeOK', RestTypeOK'
  PROVE  PipelineTypeOK'
  BY DEF PipelineTypeOK, StoreTypeOK, AgentsTypeOK, RestTypeOK, TaskState

LEMMA WriteType ==
  ASSUME StoreTypeOK, NEW s \in Strategy, NEW x \in Status, WriteStatus(s, x)
  PROVE  StoreTypeOK'
  BY DEF StoreTypeOK, WriteStatus

LEMMA StoreSame == StoreTypeOK /\ UNCHANGED storeVars => StoreTypeOK'
  BY DEF StoreTypeOK, storeVars

LEMMA GoesType ==
  ASSUME AgentsTypeOK, NEW t \in Task, UNCHANGED loop,
         Ends(t) \/ \E stage \in Stage : Goes(t, stage)
  PROVE  AgentsTypeOK'
  BY StagesExist DEF AgentsTypeOK, Ends, Goes, TaskState

LEMMA RestSame ==
  ASSUME RestTypeOK, UNCHANGED <<recoding, todo>>,
         UNCHANGED faults \/ Fault,
         UNCHANGED disturbed \/ \E S \in SUBSET Strategy : Disturb(S)
  PROVE  RestTypeOK'
<1>1. faults' \in 0 .. MaxFaults
  BY RunnerAssumption DEF RestTypeOK, Fault
<1> QED BY <1>1 DEF RestTypeOK, Disturb

LEMMA StatusesExist ==
  /\ Verdict \subseteq Status
  /\ {"absent", "pending_code", "pending_backtest", "backtesting",
      "pending_validation"} \subseteq Status
  /\ {"code_failed", "backtest_failed", "failed_validation", "validated"}
       \subseteq Status
  BY DEF Status, Verdict

LEMMA InitType == Init => PipelineTypeOK
  BY StagesExist, StatusesExist, TypeGroups, RunnerAssumption
  DEF Init, StoreInit, RunnerInit, StoreTypeOK, AgentsTypeOK, RestTypeOK,
      Place

LEMMA TaskType ==
  ASSUME PipelineTypeOK, NEW t \in Task, TaskStep(t) \/ Unanswered(t),
         UNCHANGED <<recoding, todo>>
  PROVE  PipelineTypeOK'
<1> USE TypeGroups, TypesNext
<1> DEFINE s == StrategyOf(t)
<1>0. s \in Strategy /\ {s} \in SUBSET Strategy
  BY TaskParts
<1>1. CASE HandlerRaises(t)
  <2>1. task' \in [Task -> TaskState]
    BY <1>1, StagesExist DEF HandlerRaises, AgentsTypeOK, TaskState
  <2> QED BY <1>1, <2>1, StoreSame, RestSame DEF HandlerRaises, AgentsTypeOK
<1>2. CASE ~HandlerRaises(t)
  <2>1. StoreTypeOK'
    <3>1. CASE \E x \in Status : WriteStatus(s, x)
      BY <3>1, <1>0, WriteType
    <3>2. CASE SaveResults(s)
      BY <3>2, <1>0 DEF SaveResults, StoreTypeOK
    <3>3. CASE UNCHANGED storeVars
      BY <3>3, StoreSame
    <3> QED
      BY <1>2, <3>1, <3>2, <3>3, StatusesExist
      DEF TaskStep, Unanswered, Reject, Rejects, Backtest, Complete, Raises,
          Except, ExceptRaises, Handler, CompleteUnanswered, RejectUnanswered,
          ExceptUnanswered
  <2>2. AgentsTypeOK'
    <3>1. CASE UNCHANGED <<loop, task>>
      BY <3>1 DEF AgentsTypeOK
    <3>2. CASE UNCHANGED loop /\ (Ends(t) \/ \E stage \in Stage : Goes(t, stage))
      BY <3>2, GoesType
    <3> QED
      BY <1>2, <3>1, <3>2
      DEF TaskStep, Unanswered, Reject, Rejects, Backtest, Complete, Raises,
          Except, ExceptRaises, Handler, CompleteUnanswered, RejectUnanswered,
          ExceptUnanswered, Stage, InHand
  <2>3. RestTypeOK'
    <3>1. /\ UNCHANGED faults \/ Fault
          /\ UNCHANGED disturbed \/ Disturb({s})
      BY <1>2
      DEF TaskStep, Unanswered, Reject, Backtest, Complete, Raises,
          Except, ExceptRaises, Handler, CompleteUnanswered, RejectUnanswered,
          ExceptUnanswered
    <3> QED BY <3>1, <1>0, RestSame
  <2> QED BY <2>1, <2>2, <2>3
<1> QED BY <1>1, <1>2

LEMMA LoopType ==
  ASSUME PipelineTypeOK, NEW r \in Runner,
         LoopStep(r) \/ Crash(r) \/ Restart(r), UNCHANGED <<recoding, todo>>
  PROVE  PipelineTypeOK'
<1> USE TypeGroups, TypesNext
<1>1. CASE Reclaim(r)
  <2>1. PICK X \in SUBSET Strategy : ReclaimThose(r, X)
    BY <1>1 DEF Reclaim
  <2>2. StoreTypeOK'
    BY <2>1, StatusesExist
    DEF ReclaimThose, ReclaimStaleBacktesting, StoreTypeOK
  <2>3. AgentsTypeOK'
    BY <2>1 DEF ReclaimThose, AgentsTypeOK, Place
  <2>4. RestTypeOK'
    BY <2>1, RestSame DEF ReclaimThose
  <2> QED BY <2>2, <2>3, <2>4
<1>2. CASE Claim(r)
  <2>1. StoreTypeOK'
    BY <1>2, StatusesExist DEF Claim, ClaimPendingBacktest, StoreTypeOK
  <2>2. AgentsTypeOK'
    BY <1>2, StagesExist DEF Claim, AgentsTypeOK, Place
  <2> QED BY <1>2, <2>1, <2>2, RestSame DEF Claim
<1>3. CASE LoopRaises(r) \/ Gathered(r) \/ Restart(r)
  <2>1. AgentsTypeOK'
    BY <1>3 DEF LoopRaises, Gathered, Restart, AgentsTypeOK, Place
  <2> QED
    BY <1>3, <2>1, RestSame, StoreSame DEF LoopRaises, Gathered, Restart
<1>4. CASE Crash(r)
  <2>1. AgentsTypeOK'
    BY <1>4, StagesExist DEF Crash, AgentsTypeOK, Place
  <2> QED BY <1>4, <2>1, RestSame, StoreSame DEF Crash
<1> QED BY <1>1, <1>2, <1>3, <1>4 DEF LoopStep

LEMMA OthersType ==
  ASSUME PipelineTypeOK,
         \/ \E s \in Strategy :
              \/ Ideate(s) \/ Code(s) \/ CodeFails(s) \/ CodeUnanswered(s)
              \/ Judge(s) \/ JudgeGivesUp(s)
         \/ CodeGivesUp \/ ListPendingValidation \/ DatabaseFails \/ DatabaseReturns
  PROVE  PipelineTypeOK'
<1> USE TypeGroups, TypesNext
<1>1. ASSUME NEW s \in Strategy,
             \/ Ideate(s) \/ Code(s) \/ CodeFails(s) \/ CodeUnanswered(s)
             \/ Judge(s) \/ JudgeGivesUp(s)
      PROVE  PipelineTypeOK'
  <2>1. StoreTypeOK'
    <3>1. CASE \E x \in Status : WriteStatus(s, x)
      BY <3>1, WriteType
    <3>2. CASE UNCHANGED storeVars
      BY <3>2, StoreSame
    <3> QED
      BY <1>1, <3>1, <3>2, StatusesExist
      DEF Ideate, SaveStrategy, Code, CodeFails, CodeUnanswered, Judge,
          JudgeGivesUp
  <2>2. AgentsTypeOK'
    BY <1>1
    DEF Ideate, Code, CodeFails, CodeUnanswered, Judge, JudgeGivesUp,
        runnerVars, AgentsTypeOK
  <2>3. RestTypeOK'
    <3>1. faults' \in 0 .. MaxFaults
      BY <1>1, RunnerAssumption
      DEF Ideate, Code, CodeFails, CodeUnanswered, Judge, JudgeGivesUp,
          Fault, RestTypeOK
    <3> QED
      BY <1>1, <3>1
      DEF Ideate, Code, CodeFails, CodeUnanswered, Judge, JudgeGivesUp,
          Disturb, RestTypeOK
  <2> QED BY <2>1, <2>2, <2>3
<1>2. CASE CodeGivesUp \/ ListPendingValidation
  BY <1>2, StoreSame
  DEF CodeGivesUp, ListPendingValidation, HaveStatus, runnerVars, AgentsTypeOK, RestTypeOK
<1>3. CASE DatabaseFails \/ DatabaseReturns
  <2>1. StoreTypeOK' /\ AgentsTypeOK'
    BY <1>3
    DEF DatabaseFails, DatabaseReturns, Outage, OutageEnds, runnerVars,
        StoreTypeOK, AgentsTypeOK
  <2> QED BY <1>3, <2>1, RestSame DEF DatabaseFails, DatabaseReturns
<1> QED BY <1>1, <1>2, <1>3

LEMMA StutterType ==
  ASSUME PipelineTypeOK, UNCHANGED vars
  PROVE  PipelineTypeOK'
  BY DEF PipelineTypeOK, vars, storeVars, runnerVars

(***************************************************************************)
(* The table and the agents' state keep their types.                       *)
(***************************************************************************)
THEOREM PipelineTypeCorrect == Spec => []PipelineTypeOK
<1>1. PipelineTypeOK /\ [Next]_vars => PipelineTypeOK'
  BY TaskType, LoopType, OthersType, StutterType DEF Next, Runners
<1> QED BY InitType, <1>1, PTL DEF Spec

-----------------------------------------------------------------------------
(***************************************************************************)
(* One task per claim, verdicts that rest on results, and the refinement   *)
(* of StrategyQueue.  All follow from one inductive invariant, and every   *)
(* action is looked at once: what it does to a strategy keeps the          *)
(* invariant of that strategy and is a move of its job, StepOK.            *)
(***************************************************************************)

Rewriting(s) == {t \in Alive : StrategyOf(t) = s /\ task[t].stage = "rewrite"}

(* What holds of a strategy that no fault has touched. *)
ClaimInv(s) ==
  s \notin disturbed =>
    /\ \A t, u \in Working(s) : t = u
    /\ Working(s) # {} => status[s] = "backtesting"
    /\ Rewriting(s) # {} => status[s] = "backtest_failed"
    /\ s \in todo => status[s] = "pending_validation"

SavedHasResults ==
  \A t \in Task : task[t].stage = "saved" => StrategyOf(t) \in results

PipelineInv ==
  /\ PipelineTypeOK
  /\ JudgedByResults
  /\ SavedHasResults
  /\ recoding # Nobody => recoding \in disturbed
  /\ \A s \in Strategy : ClaimInv(s)

Job(s) == [place |-> PlaceOf(s), holder |-> HolderOf(s)]

JobMoves(s) == Job(s)' = Job(s) \/ Queue!Move(Job(s), Job(s)')

StepOK(s) == ClaimInv(s)' /\ (s \notin disturbed' => JobMoves(s))

-----------------------------------------------------------------------------
(***************************************************************************)
(* What may happen to one strategy.                                        *)
(***************************************************************************)
LEMMA Disturbed ==
  ASSUME NEW s \in Strategy, s \in disturbed'
  PROVE  StepOK(s)
  BY DEF StepOK, ClaimInv

(* Nothing, as far as the claim goes. *)
LEMMA Quiet ==
  ASSUME NEW s \in Strategy, ClaimInv(s),
         status'[s] = status[s],
         Working(s)' = Working(s), Rewriting(s)' \subseteq Rewriting(s),
         s \in todo' => s \in todo \/ status[s] = "pending_validation",
         disturbed \subseteq disturbed'
  PROVE  StepOK(s)
<1>1. ClaimInv(s)'
  BY DEF ClaimInv
<1>2. PlaceOf(s)' = PlaceOf(s)
  BY DEF PlaceOf
<1>3. HolderOf(s)' = HolderOf(s)
  BY DEF HolderOf
<1> QED BY <1>1, <1>2, <1>3 DEF StepOK, JobMoves, Job

LEMMA HolderAlone ==
  ASSUME NEW s \in Strategy, NEW t \in Task,
         Working(s) = {t}, status[s] = "backtesting"
  PROVE  Job(s) = Queue!HeldBy(RunnerOf(t))
<1>1. (CHOOSE u \in Working(s) : TRUE) = t
  OBVIOUS
<1>2. HolderOf(s) = RunnerOf(t)
  BY <1>1 DEF HolderOf
<1>3. PlaceOf(s) = "held"
  BY DEF PlaceOf, Verdict
<1> QED BY <1>2, <1>3 DEF Job, Queue!HeldBy

LEMMA NoHolder ==
  ASSUME NEW s \in Strategy, Working(s) = {} \/ status[s] # "backtesting"
  PROVE  Job(s) = Queue!At(PlaceOf(s))
  BY DEF HolderOf, Job, Queue!At

LEMMA WorkingTask == ASSUME NEW s \in Strategy PROVE Working(s) \subseteq Task
  BY DEF Working, Alive

(* The task that holds it is gone, and the claim stays. *)
LEMMA Dropped ==
  ASSUME NEW s \in Strategy, ClaimInv(s),
         status'[s] = status[s],
         Working(s)' \subseteq Working(s), Rewriting(s)' \subseteq Rewriting(s),
         todo' = todo, disturbed' = disturbed
  PROVE  StepOK(s)
<1>1. CASE s \in disturbed
  BY <1>1, Disturbed
<1>2. CASE Working(s)' = Working(s)
  BY <1>2, Quiet
<1>3. CASE s \notin disturbed /\ Working(s)' # Working(s)
  <2>1. PICK t \in Task : Working(s) = {t}
    BY <1>3, WorkingTask DEF ClaimInv
  <2>2. Working(s)' = {} /\ status[s] = "backtesting"
    BY <1>3, <2>1 DEF ClaimInv
  <2>3. Job(s) = Queue!HeldBy(RunnerOf(t)) /\ RunnerOf(t) \in Runner
    BY <2>1, <2>2, HolderAlone, TaskParts
  <2>4. Job(s)' = Queue!At("held")
    BY <2>2 DEF Job, HolderOf, PlaceOf, Verdict, Queue!At
  <2>5. ClaimInv(s)'
    BY <2>2 DEF ClaimInv
  <2> QED BY <2>3, <2>4, <2>5 DEF StepOK, JobMoves, Queue!Move
<1> QED BY <1>1, <1>2, <1>3

(* The task that holds it writes a status and lets go of it. *)
LEMMA Settled ==
  ASSUME NEW s \in Strategy, ClaimInv(s), NEW t \in Task, t \in Working(s),
         Working(s)' \subseteq Working(s) \ {t},
         status'[s] \in {"pending_validation", "code_failed", "backtest_failed"},
         Rewriting(s)' \subseteq Rewriting(s) \/ status'[s] = "backtest_failed",
         todo' = todo, disturbed' = disturbed
  PROVE  StepOK(s)
<1>1. CASE s \in disturbed
  BY <1>1, Disturbed
<1>2. CASE s \notin disturbed
  <2>1. /\ Working(s) = {t} /\ status[s] = "backtesting"
        /\ Rewriting(s) = {} /\ s \notin todo
    BY <1>2 DEF ClaimInv
  <2>2. Working(s)' = {}
    BY <2>1
  <2>3. ClaimInv(s)'
    BY <2>1, <2>2 DEF ClaimInv
  <2>4. Job(s) = Queue!HeldBy(RunnerOf(t)) /\ RunnerOf(t) \in Runner
    BY <2>1, HolderAlone, TaskParts
  <2>5. PlaceOf(s)' \in {"judging", "closed"}
    BY DEF PlaceOf, Verdict
  <2>6. Job(s)' = Queue!At(PlaceOf(s)')
    BY <2>2 DEF Job, HolderOf, Queue!At
  <2> QED BY <2>3, <2>4, <2>5, <2>6 DEF StepOK, JobMoves, Queue!Move
<1> QED BY <1>1, <1>2

-----------------------------------------------------------------------------
(***************************************************************************)
(* The tasks.                                                              *)
(***************************************************************************)
LEMMA Elsewhere ==
  ASSUME NEW t \in Task, NEW s \in Strategy, s # StrategyOf(t),
         \A u \in Task \ {t} : task'[u].stage = task[u].stage
  PROVE  Working(s)' = Working(s) /\ Rewriting(s)' = Rewriting(s)
  BY DEF Working, Rewriting, Alive

LEMMA Here ==
  ASSUME NEW t \in Task, NEW s \in Strategy, s = StrategyOf(t),
         \A u \in Task \ {t} : task'[u].stage = task[u].stage
  PROVE  /\ Working(s)' \ {t} = Working(s) \ {t}
         /\ Rewriting(s)' \ {t} = Rewriting(s) \ {t}
         /\ t \in Working(s) <=> task[t].stage \in InHand
         /\ t \in Working(s)' <=> task'[t].stage \in InHand
         /\ t \in Rewriting(s) <=> task[t].stage = "rewrite"
         /\ t \in Rewriting(s)' <=> task'[t].stage = "rewrite"
  BY StagesExist DEF Working, Rewriting, Alive

LEMMA SameBut ==
  ASSUME NEW A, NEW B, NEW t, A \ {t} = B \ {t}, t \in A <=> t \in B
  PROVE  A = B
  OBVIOUS

LEMMA GoesEffect ==
  ASSUME AgentsTypeOK, NEW t \in Task, NEW stage, Goes(t, stage)
  PROVE  /\ task'[t].stage = stage
         /\ \A u \in Task \ {t} : task'[u].stage = task[u].stage
  BY DEF AgentsTypeOK, TaskState, Goes

LEMMA EndsEffect ==
  ASSUME AgentsTypeOK, NEW t \in Task, Ends(t)
  PROVE  /\ task'[t].stage = "free"
         /\ \A u \in Task \ {t} : task'[u].stage = task[u].stage
  BY DEF AgentsTypeOK, TaskState, Ends, Free

(* What a task does to the strategies of the others. *)
LEMMA OthersQuiet ==
  ASSUME PipelineInv, NEW t \in Task, NEW s \in Strategy, s # StrategyOf(t),
         \A u \in Task \ {t} : task'[u].stage = task[u].stage,
         status'[s] = status[s], todo' = todo, disturbed \subseteq disturbed'
  PROVE  StepOK(s)
<1>1. ClaimInv(s)
  BY DEF PipelineInv
<1>2. Working(s)' = Working(s) /\ Rewriting(s)' = Rewriting(s)
  BY Elsewhere
<1> QED BY <1>1, <1>2, Quiet

LEMMA WriteEffect ==
  ASSUME StoreTypeOK, NEW s \in Strategy, NEW x, WriteStatus(s, x)
  PROVE  /\ status'[s] = x /\ results' = results
         /\ \A z \in Strategy \ {s} : status'[z] = status[z]
  BY DEF StoreTypeOK, WriteStatus

(* The task ends, or goes to "rewrite", and its strategy has a new status. *)
LEMMA TaskSettles ==
  ASSUME PipelineInv, NEW t \in Task, task[t].stage \in InHand,
         NEW x \in {"pending_validation", "code_failed", "backtest_failed"},
         WriteStatus(StrategyOf(t), x),
         Ends(t) \/ (Goes(t, "rewrite") /\ x = "backtest_failed"),
         todo' = todo, disturbed' = disturbed
  PROVE  \A s \in Strategy : StepOK(s)
<1> DEFINE own == StrategyOf(t)
<1>0. own \in Strategy /\ AgentsTypeOK /\ StoreTypeOK
  BY TaskParts, TypeGroups DEF PipelineInv
<1>1. /\ task'[t].stage \in {"free", "rewrite"}
      /\ task'[t].stage = "rewrite" => x = "backtest_failed"
      /\ \A u \in Task \ {t} : task'[u].stage = task[u].stage
  BY <1>0, GoesEffect, EndsEffect
<1>2. /\ status'[own] = x
      /\ \A z \in Strategy \ {own} : status'[z] = status[z]
  BY <1>0, WriteEffect
<1>3. ASSUME NEW s \in Strategy, s # own PROVE StepOK(s)
  BY <1>1, <1>2, <1>3, OthersQuiet
<1>4. StepOK(own)
  <2>1. t \in Working(own) /\ Working(own)' \subseteq Working(own) \ {t}
    BY <1>0, <1>1, Here, StagesExist
  <2>2. Rewriting(own)' \subseteq Rewriting(own) \/ x = "backtest_failed"
    BY <1>0, <1>1, Here
  <2>3. ClaimInv(own)
    BY <1>0 DEF PipelineInv
  <2> QED BY <1>0, <1>2, <2>1, <2>2, <2>3, Settled
<1> QED BY <1>3, <1>4

(* The task goes on with its claim in hand. *)
LEMMA TaskGoesOn ==
  ASSUME PipelineInv, NEW t \in Task, task[t].stage \in InHand,
         NEW stage \in InHand, Goes(t, stage),
         status' = status, todo' = todo, disturbed' = disturbed
  PROVE  \A s \in Strategy : StepOK(s)
<1> DEFINE own == StrategyOf(t)
<1>0. own \in Strategy /\ AgentsTypeOK
  BY TaskParts, TypeGroups DEF PipelineInv
<1>1. /\ task'[t].stage \in InHand
      /\ \A u \in Task \ {t} : task'[u].stage = task[u].stage
  BY <1>0, GoesEffect
<1>2. ASSUME NEW s \in Strategy, s # own PROVE StepOK(s)
  BY <1>1, <1>2, OthersQuiet
<1>3. StepOK(own)
  <2>1. Working(own)' = Working(own)
    <3>1. /\ Working(own)' \ {t} = Working(own) \ {t}
          /\ t \in Working(own) /\ t \in Working(own)'
      BY <1>0, <1>1, Here
    <3> QED BY <3>1, SameBut
  <2>2. Rewriting(own)' \subseteq Rewriting(own)
    BY <1>0, <1>1, Here, StagesExist
  <2>3. ClaimInv(own)
    BY <1>0 DEF PipelineInv
  <2> QED BY <1>0, <2>1, <2>2, <2>3, Quiet
<1> QED BY <1>2, <1>3

LEMMA HandlerOK ==
  ASSUME PipelineInv, NEW t \in Task, Handler(t), todo' = todo
  PROVE  \A s \in Strategy : StepOK(s)
<1> DEFINE own == StrategyOf(t)
<1>1. CASE task[t].stage = "handler"
  BY <1>1, TaskSettles DEF Handler, InHand
<1>2. CASE task[t].stage = "rewrite"
  <2>0. own \in Strategy /\ AgentsTypeOK /\ StoreTypeOK /\ ClaimInv(own)
    BY TaskParts, TypeGroups DEF PipelineInv
  <2>1. /\ task'[t].stage = "free"
        /\ \A u \in Task \ {t} : task'[u].stage = task[u].stage
    BY <2>0, EndsEffect DEF Handler
  <2>2. /\ status'[own] = "backtest_failed"
        /\ \A z \in Strategy \ {own} : status'[z] = status[z]
    BY <2>0, WriteEffect DEF Handler
  <2>3. ASSUME NEW s \in Strategy, s # own PROVE StepOK(s)
    BY <2>1, <2>2, <2>3, OthersQuiet DEF Handler
  <2>4. Working(own)' = Working(own) /\ Rewriting(own)' \subseteq Rewriting(own)
    <3>1. /\ Working(own)' \ {t} = Working(own) \ {t}
          /\ Rewriting(own)' \ {t} = Rewriting(own) \ {t}
          /\ t \notin Working(own) /\ t \notin Working(own)'
          /\ t \notin Rewriting(own)'
      BY <1>2, <2>0, <2>1, Here, StagesExist
    <3> QED BY <3>1, SameBut
  <2>5. own \in disturbed \/ status[own] = "backtest_failed"
    BY <1>2, <2>0, <2>1, Here DEF ClaimInv
  <2>6. StepOK(own)
    BY <2>0, <2>2, <2>4, <2>5, Quiet, Disturbed DEF Handler
  <2> QED BY <2>3, <2>6
<1> QED BY <1>1, <1>2 DEF Handler

LEMMA HandlerRaisesOK ==
  ASSUME PipelineInv, NEW t \in Task, HandlerRaises(t), todo' = todo
  PROVE  \A s \in Strategy : StepOK(s)
<1>1. \A u \in Task : task'[u].stage \in {task[u].stage, "free"}
  BY TypeGroups
  DEF HandlerRaises, PipelineInv, AgentsTypeOK, TaskState, Free
<1> TAKE s \in Strategy
<1>2. Working(s)' \subseteq Working(s) /\ Rewriting(s)' \subseteq Rewriting(s)
  BY <1>1, StagesExist DEF Working, Rewriting, Alive
<1>3. ClaimInv(s) /\ status'[s] = status[s] /\ disturbed' = disturbed
  BY DEF PipelineInv, HandlerRaises, storeVars
<1> QED BY <1>2, <1>3, Dropped

(* A commit that is not answered: the strategy may be in a race. *)
LEMMA UnansweredOK ==
  ASSUME PipelineInv, NEW t \in Task,
         CompleteUnanswered(t) \/ RejectUnanswered(t), todo' = todo
  PROVE  \A s \in Strategy : StepOK(s)
<1> DEFINE own == StrategyOf(t)
<1>0. own \in Strategy /\ AgentsTypeOK /\ StoreTypeOK
  BY TaskParts, TypeGroups DEF PipelineInv
<1>1. \A u \in Task \ {t} : task'[u].stage = task[u].stage
  BY <1>0, GoesEffect DEF CompleteUnanswered, RejectUnanswered
<1>2. \A z \in Strategy \ {own} : status'[z] = status[z]
  BY <1>0, WriteEffect DEF CompleteUnanswered, RejectUnanswered, Rejects
<1>3. own \in disturbed' /\ disturbed \subseteq disturbed'
  BY DEF CompleteUnanswered, RejectUnanswered, Disturb
<1>4. ASSUME NEW s \in Strategy, s # own PROVE StepOK(s)
  BY <1>1, <1>2, <1>3, <1>4, OthersQuiet
<1> QED BY <1>0, <1>3, <1>4, Disturbed

LEMMA TaskOK ==
  ASSUME PipelineInv, NEW t \in Task, TaskStep(t) \/ Unanswered(t), todo' = todo
  PROVE  \A s \in Strategy : StepOK(s)
<1>1. CASE Reject(t)
  <2>1. PICK x \in {"code_failed", "backtest_failed"} :
          WriteStatus(StrategyOf(t), x)
    BY <1>1 DEF Reject, Rejects
  <2>2. task[t].stage \in InHand /\ Ends(t) /\ disturbed' = disturbed
    BY <1>1 DEF Reject, Rejects, InHand
  <2> QED BY <2>1, <2>2, TaskSettles
<1>2. CASE Backtest(t)
  BY <1>2, TaskGoesOn DEF Backtest, SaveResults, InHand
<1>3. CASE Complete(t)
  <2>1. /\ WriteStatus(StrategyOf(t), "pending_validation")
        /\ task[t].stage \in InHand /\ Ends(t) /\ disturbed' = disturbed
    BY <1>3 DEF Complete, InHand
  <2> QED BY <2>1, TaskSettles
<1>4. CASE Raises(t)
  BY <1>4, TaskGoesOn DEF Raises, InHand, storeVars
<1>5. CASE Except(t)
  BY <1>5, TaskSettles DEF Except, InHand
<1>6. CASE ExceptRaises(t)
  BY <1>6, TaskGoesOn DEF ExceptRaises, InHand, storeVars
<1>7. CASE ExceptUnanswered(t)
  BY <1>7, TaskSettles DEF ExceptUnanswered, InHand
<1> QED
  BY <1>1, <1>2, <1>3, <1>4, <1>5, <1>6, <1>7, HandlerOK, HandlerRaisesOK,
     UnansweredOK
  DEF TaskStep, Unanswered

-----------------------------------------------------------------------------
(***************************************************************************)
(* The loops of the runners.                                               *)
(***************************************************************************)
LEMMA ReclaimOK ==
  ASSUME PipelineInv, NEW r \in Runner, Reclaim(r), todo' = todo
  PROVE  \A s \in Strategy : StepOK(s)
<1>1. PICK X \in SUBSET Strategy : ReclaimThose(r, X)
  BY DEF Reclaim
<1> TAKE s \in Strategy
<1>2. /\ Working(s)' = Working(s) /\ Rewriting(s)' = Rewriting(s)
      /\ ClaimInv(s) /\ disturbed \subseteq disturbed'
  BY <1>1
  DEF ReclaimThose, Disturb, Working, Rewriting, Alive, PipelineInv
<1>3. CASE s \notin X
  <2>1. status'[s] = status[s]
    BY <1>1, <1>3 DEF ReclaimThose, ReclaimStaleBacktesting
  <2> QED BY <1>2, <2>1, Quiet
<1>4. CASE s \in X /\ s \in disturbed'
  BY <1>4, Disturbed
<1>5. CASE s \in X /\ s \notin disturbed'
  <2>1. Working(s) = {}
    BY <1>1, <1>5 DEF ReclaimThose, Disturb
  <2>2. status[s] = "backtesting" /\ status'[s] = "pending_backtest"
    BY <1>1, <1>5 DEF ReclaimThose, ReclaimStaleBacktesting, HaveStatus
  <2>3. Job(s) = Queue!At("held") /\ Job(s)' = Queue!At("queued")
    BY <1>2, <2>1, <2>2 DEF Job, HolderOf, PlaceOf, Verdict, Queue!At
  <2>4. ClaimInv(s)'
    BY <1>2, <1>5, <2>1, <2>2 DEF ClaimInv
  <2> QED BY <2>3, <2>4 DEF StepOK, JobMoves, Queue!Move
<1> QED BY <1>3, <1>4, <1>5

(* A runner starts one task for a strategy. *)
LEMMA NewIsOne ==
  ASSUME NEW r \in Runner, NEW s \in Strategy, NEW t \in Task, NEW u \in Task,
         IsNew(t, r, s), IsNew(u, r, s)
  PROVE  t = u
<1>1. /\ t = <<r, s, t[3]>> /\ t[3] \in 1 .. MaxCopies
      /\ u = <<r, s, u[3]>> /\ u[3] \in 1 .. MaxCopies
  BY TaskParts DEF IsNew
<1>2. t \notin Alive /\ u \notin Alive
  BY DEF IsNew
<1>3. ~(t[3] < u[3])
  <2> SUFFICES ASSUME t[3] < u[3] PROVE FALSE
    OBVIOUS
  <2>1. t[3] \in 1 .. u[3] - 1
    BY <1>1, RunnerAssumption
  <2>2. <<r, s, t[3]>> \in Alive
    BY <2>1 DEF IsNew
  <2> QED BY <1>1, <1>2, <2>2
<1>4. ~(u[3] < t[3])
  <2> SUFFICES ASSUME u[3] < t[3] PROVE FALSE
    OBVIOUS
  <2>1. u[3] \in 1 .. t[3] - 1
    BY <1>1, RunnerAssumption
  <2>2. <<r, s, u[3]>> \in Alive
    BY <2>1 DEF IsNew
  <2> QED BY <1>1, <1>2, <2>2
<1>5. t[3] = u[3]
  BY <1>1, <1>3, <1>4, RunnerAssumption
<1> QED BY <1>1, <1>5

LEMMA ClaimOK ==
  ASSUME PipelineInv, NEW r \in Runner, Claim(r), todo' = todo
  PROVE  \A s \in Strategy : StepOK(s)
<1> DEFINE New(C) == {t \in Task : \E s \in C : IsNew(t, r, s)}
<1>1. PICK C \in SUBSET Strategy :
        /\ ClaimPendingBacktest(C)
        /\ \A s \in C : \E t \in New(C) : StrategyOf(t) = s
        /\ task' = [t \in Task |-> IF t \in New(C) THEN Fresh ELSE task[t]]
  BY DEF Claim
<1> TAKE s \in Strategy
<1>2. ClaimInv(s) /\ disturbed' = disturbed
  BY DEF PipelineInv, Claim
<1>3. CASE s \notin C
  <2>1. \A t \in Task : StrategyOf(t) = s => task'[t] = task[t]
    BY <1>1, <1>3 DEF IsNew
  <2>2. Working(s)' = Working(s) /\ Rewriting(s)' = Rewriting(s)
    BY <2>1 DEF Working, Rewriting, Alive
  <2>3. status'[s] = status[s]
    BY <1>1, <1>3 DEF ClaimPendingBacktest
  <2> QED BY <1>2, <2>2, <2>3, Quiet
<1>4. CASE s \in C /\ s \in disturbed
  BY <1>2, <1>4, Disturbed
<1>5. CASE s \in C /\ s \notin disturbed
  <2>1. status[s] = "pending_backtest" /\ status'[s] = "backtesting"
    BY <1>1, <1>5 DEF ClaimPendingBacktest, HaveStatus
  <2>2. Working(s) = {} /\ Rewriting(s) = {} /\ s \notin todo
    BY <1>2, <1>5, <2>1 DEF ClaimInv
  <2>3. PICK t \in New(C) : StrategyOf(t) = s
    BY <1>1, <1>5
  <2>4. t \in Task /\ IsNew(t, r, s) /\ RunnerOf(t) = r
    BY <2>3 DEF IsNew
  <2>5. ASSUME NEW u \in Task, StrategyOf(u) = s, task'[u].stage # "free"
        PROVE  u = t /\ task'[u] = Fresh
    <3>1. u \in New(C)
      <4> SUFFICES ASSUME u \notin New(C) PROVE FALSE
        OBVIOUS
      <4>1. task'[u] = task[u]
        BY <1>1
      <4>2. task[u].stage \in InHand \/ task[u].stage = "rewrite"
        BY <2>5, <4>1, TypeGroups
        DEF PipelineInv, AgentsTypeOK, TaskState, Stage
      <4> QED BY <2>2, <2>5, <4>1, <4>2 DEF Working, Rewriting, Alive
    <3>2. IsNew(u, r, s)
      BY <2>5, <3>1 DEF IsNew
    <3> QED BY <1>1, <2>4, <3>1, <3>2, NewIsOne
  <2>6. task'[t] = Fresh
    BY <1>1, <2>3
  <2>7. Working(s)' = {t} /\ Rewriting(s)' = {}
    BY <2>3, <2>4, <2>5, <2>6 DEF Working, Rewriting, Alive, Fresh, InHand
  <2>8. Job(s) = Queue!At("queued")
    BY <2>1 DEF Job, HolderOf, PlaceOf, Verdict, Queue!At
  <2>9. Job(s)' = Queue!HeldBy(r)
    <3>1. (CHOOSE u \in {t} : TRUE) = t
      OBVIOUS
    <3>2. HolderOf(s)' = r
      BY <2>1, <2>4, <2>7, <3>1 DEF HolderOf
    <3>3. PlaceOf(s)' = "held"
      BY <2>1 DEF PlaceOf, Verdict
    <3> QED BY <3>2, <3>3 DEF Job, Queue!HeldBy
  <2>10. ClaimInv(s)'
    BY <1>2, <2>1, <2>2, <2>7 DEF ClaimInv
  <2> QED BY <2>8, <2>9, <2>10 DEF StepOK, JobMoves, Queue!Move
<1> QED BY <1>3, <1>4, <1>5

LEMMA LoopOK ==
  ASSUME PipelineInv, NEW r \in Runner,
         LoopStep(r) \/ Crash(r) \/ Restart(r), todo' = todo
  PROVE  \A s \in Strategy : StepOK(s)
<1>1. CASE Reclaim(r)
  BY <1>1, ReclaimOK
<1>2. CASE Claim(r)
  BY <1>2, ClaimOK
<1>3. CASE LoopRaises(r) \/ Gathered(r) \/ Restart(r) \/ Crash(r)
  <2>1. /\ status' = status /\ disturbed' = disturbed
        /\ \A u \in Task : task'[u].stage \in {task[u].stage, "free"}
    BY <1>3 DEF LoopRaises, Gathered, Restart, Crash, storeVars, Free
  <2> TAKE s \in Strategy
  <2>2. Working(s)' \subseteq Working(s) /\ Rewriting(s)' \subseteq Rewriting(s)
    BY <2>1, StagesExist DEF Working, Rewriting, Alive
  <2> QED BY <2>1, <2>2, Dropped DEF PipelineInv
<1> QED BY <1>1, <1>2, <1>3 DEF LoopStep

-----------------------------------------------------------------------------
(***************************************************************************)
(* The ideator, the coder, the validator and the database.                 *)
(***************************************************************************)
LEMMA TasksSame ==
  ASSUME NEW s \in Strategy, task' = task
  PROVE  Working(s)' = Working(s) /\ Rewriting(s)' = Rewriting(s)
  BY DEF Working, Rewriting, Alive

(* A strategy that no runner holds has a new status. *)
LEMMA Moved ==
  ASSUME NEW s \in Strategy, ClaimInv(s), s \notin disturbed,
         task' = task, disturbed' = disturbed,
         status[s] \in {"absent", "pending_code", "pending_validation"},
         s \in todo' => s \in todo /\ status[s] # "pending_validation",
         Queue!Move(Queue!At(PlaceOf(s)), Queue!At(PlaceOf(s)')),
         status'[s] # "backtesting"
  PROVE  StepOK(s)
<1>1. Working(s) = {} /\ Rewriting(s) = {} /\ s \notin todo'
  BY DEF ClaimInv
<1>2. Working(s)' = {} /\ Rewriting(s)' = {}
  BY <1>1, TasksSame
<1>3. ClaimInv(s)'
  BY <1>1, <1>2 DEF ClaimInv
<1>4. Job(s) = Queue!At(PlaceOf(s))
  BY <1>1, NoHolder
<1>5. Job(s)' = Queue!At(PlaceOf(s)')
  BY <1>2 DEF Job, HolderOf, Queue!At
<1> QED BY <1>3, <1>4, <1>5 DEF StepOK, JobMoves

(* One row is written, the tasks go on, and the others see nothing of it. *)
LEMMA WriterOK ==
  ASSUME PipelineInv, NEW s \in Strategy, NEW x, WriteStatus(s, x),
         task' = task, disturbed \subseteq disturbed', todo' \subseteq todo,
         StepOK(s)
  PROVE  \A z \in Strategy : StepOK(z)
<1> SUFFICES ASSUME NEW z \in Strategy, z # s PROVE StepOK(z)
  OBVIOUS
<1>1. status'[z] = status[z]
  BY WriteEffect, TypeGroups DEF PipelineInv
<1> QED BY <1>1, TasksSame, Quiet DEF PipelineInv

LEMMA IdeateOK ==
  ASSUME PipelineInv, NEW s \in Strategy, Ideate(s)
  PROVE  \A z \in Strategy : StepOK(z)
<1>1. /\ status[s] = "absent" /\ status'[s] = "pending_code"
      /\ WriteStatus(s, "pending_code")
  BY WriteEffect, TypeGroups DEF Ideate, SaveStrategy, PipelineInv
<1>2. CASE s \in disturbed
  BY <1>1, <1>2, WriterOK, Disturbed DEF Ideate, runnerVars
<1>3. CASE s \notin disturbed
  <2>1. Queue!Move(Queue!At(PlaceOf(s)), Queue!At(PlaceOf(s)'))
    BY <1>1 DEF PlaceOf, Queue!Move, Verdict
  <2>2. ClaimInv(s) /\ s \notin todo
    BY <1>1, <1>3 DEF PipelineInv, ClaimInv
  <2>3. StepOK(s)
    BY <1>1, <1>3, <2>1, <2>2, Moved DEF Ideate, runnerVars
  <2> QED BY <1>1, <2>3, WriterOK DEF Ideate, runnerVars
<1> QED BY <1>2, <1>3

LEMMA CodeOK ==
  ASSUME PipelineInv, NEW s \in Strategy,
         Code(s) \/ CodeFails(s) \/ CodeUnanswered(s)
  PROVE  \A z \in Strategy : StepOK(z)
<1>1. PICK x \in {"pending_backtest", "code_failed"} : WriteStatus(s, x)
  BY DEF Code, CodeFails, CodeUnanswered
<1>2. status'[s] = x
  BY <1>1, WriteEffect, TypeGroups DEF PipelineInv
<1>3. task' = task /\ todo' = todo /\ disturbed \subseteq disturbed'
  BY DEF Code, CodeFails, CodeUnanswered, runnerVars, Disturb
<1>4. CASE s \in disturbed'
  BY <1>1, <1>3, <1>4, WriterOK, Disturbed
<1>5. CASE s \notin disturbed'
  <2>1. disturbed' = disturbed
    BY <1>5 DEF Code, CodeFails, CodeUnanswered, Disturb
  <2>2. status[s] = "pending_code"
    BY <1>5, <2>1 DEF Code, CodeFails, CodeUnanswered, ToCode, PipelineInv
  <2>3. Queue!Move(Queue!At(PlaceOf(s)), Queue!At(PlaceOf(s)'))
    BY <1>2, <2>2 DEF PlaceOf, Queue!Move, Verdict
  <2>4. StepOK(s)
    BY <1>2, <1>3, <1>5, <2>1, <2>2, <2>3, Moved DEF PipelineInv
  <2> QED BY <1>1, <1>3, <2>4, WriterOK
<1> QED BY <1>4, <1>5

LEMMA JudgeOK ==
  ASSUME PipelineInv, NEW s \in Strategy, Judge(s)
  PROVE  \A z \in Strategy : StepOK(z)
<1>1. PICK x \in {"failed_validation", "validated"} : WriteStatus(s, x)
  BY DEF Judge
<1>2. status'[s] = x
  BY <1>1, WriteEffect, TypeGroups DEF PipelineInv
<1>3. /\ task' = task /\ todo' = todo \ {s} /\ disturbed' = disturbed
      /\ s \in todo
  BY DEF Judge, runnerVars
<1>4. CASE s \in disturbed
  BY <1>1, <1>3, <1>4, WriterOK, Disturbed
<1>5. CASE s \notin disturbed
  <2>1. status[s] = "pending_validation"
    BY <1>3, <1>5 DEF PipelineInv, ClaimInv
  <2>2. Queue!Move(Queue!At(PlaceOf(s)), Queue!At(PlaceOf(s)'))
    BY <1>2, <2>1 DEF PlaceOf, Queue!Move, Verdict
  <2>3. StepOK(s)
    BY <1>2, <1>3, <1>5, <2>1, <2>2, Moved DEF PipelineInv
  <2> QED BY <1>1, <1>3, <2>3, WriterOK
<1> QED BY <1>4, <1>5

LEMMA RestOK ==
  ASSUME PipelineInv,
         \/ \E s \in Strategy : JudgeGivesUp(s)
         \/ CodeGivesUp \/ ListPendingValidation \/ DatabaseFails \/ DatabaseReturns
         \/ UNCHANGED vars
  PROVE  \A z \in Strategy : StepOK(z)
<1> TAKE z \in Strategy
<1>1. status' = status /\ task' = task /\ disturbed' = disturbed
  BY DEF JudgeGivesUp, CodeGivesUp, ListPendingValidation, DatabaseFails, DatabaseReturns,
         Outage, OutageEnds, vars, storeVars, runnerVars
<1>2. z \in todo' => z \in todo \/ status[z] = "pending_validation"
  BY DEF JudgeGivesUp, CodeGivesUp, ListPendingValidation, HaveStatus, DatabaseFails,
         DatabaseReturns, vars
<1> QED BY <1>1, <1>2, TasksSame, Quiet DEF PipelineInv

LEMMA EveryStepOK ==
  ASSUME PipelineInv, [Next]_vars
  PROVE  \A s \in Strategy : StepOK(s)
  BY TaskOK, LoopOK, IdeateOK, CodeOK, JudgeOK, RestOK DEF Next, Runners

-----------------------------------------------------------------------------
(***************************************************************************)
(* The rest of the invariant: no status of a verdict without results.      *)
(***************************************************************************)
LEMMA ResultsStay ==
  ASSUME [Next]_vars
  PROVE  results \subseteq results'
<1>1. CASE \E r \in Runner : LoopStep(r) \/ Crash(r) \/ Restart(r)
  BY <1>1
  DEF LoopStep, Reclaim, ReclaimThose, ReclaimStaleBacktesting, Claim,
      ClaimPendingBacktest, LoopRaises, Gathered, Crash, Restart, storeVars
<1>2. CASE \E t \in Task : TaskStep(t) \/ Unanswered(t)
  BY <1>2
  DEF TaskStep, Unanswered, Reject, Rejects, Backtest, SaveResults, Complete,
      Raises, Except, ExceptRaises, Handler, HandlerRaises,
      CompleteUnanswered, RejectUnanswered, ExceptUnanswered, WriteStatus,
      storeVars
<1> QED
  BY <1>1, <1>2
  DEF Next, Runners, Ideate, SaveStrategy, Code, CodeFails, CodeUnanswered,
      Judge, JudgeGivesUp, CodeGivesUp, ListPendingValidation, DatabaseFails,
      DatabaseReturns, Outage, OutageEnds, WriteStatus, vars, storeVars

(* A task is "saved" from the moment the row of its results is there. *)
LEMMA SavedNext ==
  ASSUME PipelineInv, [Next]_vars
  PROVE  SavedHasResults'
<1> SUFFICES ASSUME NEW t \in Task, task'[t].stage = "saved"
             PROVE  StrategyOf(t) \in results'
  BY DEF SavedHasResults
<1>1. CASE task[t].stage = "saved"
  BY <1>1, ResultsStay DEF PipelineInv, SavedHasResults
<1>2. CASE task[t].stage # "saved"
  <2>0. AgentsTypeOK
    BY TypeGroups DEF PipelineInv
  <2>1. ASSUME NEW r \in Runner, LoopStep(r) \/ Crash(r) \/ Restart(r)
        PROVE  FALSE
    <3>1. CASE Claim(r)
      <4>1. task'[t] \in {task[t], Fresh}
        BY <3>1 DEF Claim
      <4> QED BY <1>2, <4>1 DEF Fresh
    <3>2. CASE Crash(r)
      BY <1>2, <3>2 DEF Crash, Free
    <3>3. CASE task' = task
      BY <1>2, <3>3
    <3> QED
      BY <2>1, <3>1, <3>2, <3>3
      DEF LoopStep, Reclaim, ReclaimThose, LoopRaises, Gathered, Restart
  <2>2. ASSUME NEW u \in Task, TaskStep(u) \/ Unanswered(u)
        PROVE  StrategyOf(t) \in results'
    <3>1. CASE Backtest(u)
      <4>1. u = t
        BY <1>2, <2>0, <3>1, GoesEffect DEF Backtest
      <4> QED BY <3>1, <4>1 DEF Backtest, SaveResults
    <3>2. CASE Ends(u) \/ UNCHANGED task \/ HandlerRaises(u)
      BY <1>2, <2>0, <3>2, EndsEffect
      DEF HandlerRaises, AgentsTypeOK, TaskState, Free
    <3>3. CASE \E stage \in {"except", "handler", "rewrite"} : Goes(u, stage)
      BY <1>2, <2>0, <3>3, GoesEffect
    <3> QED
      BY <2>2, <3>1, <3>2, <3>3
      DEF TaskStep, Unanswered, Reject, Complete, Raises, Except,
          ExceptRaises, Handler, CompleteUnanswered, RejectUnanswered,
          ExceptUnanswered
  <2>3. CASE task' = task
    BY <1>2, <2>3
  <2> QED
    BY <2>1, <2>2, <2>3
    DEF Next, Runners, Ideate, Code, CodeFails, CodeUnanswered, Judge,
        JudgeGivesUp, CodeGivesUp, ListPendingValidation, DatabaseFails, DatabaseReturns,
        vars, runnerVars
<1> QED BY <1>1, <1>2

Judged == {"pending_validation", "failed_validation", "validated"}

(* A status with results is written by a task that has saved them, or by   *)
(* the validator, which has read them.                                     *)
LEMMA JudgedNext ==
  ASSUME PipelineInv, [Next]_vars
  PROVE  JudgedByResults'
<1> SUFFICES ASSUME NEW s \in Strategy, status'[s] \in Judged
             PROVE  s \in results'
  BY DEF JudgedByResults, Judged
<1>1. CASE status'[s] = status[s]
  BY <1>1, ResultsStay DEF PipelineInv, JudgedByResults, Judged
<1>2. CASE status'[s] # status[s]
  <2>0. StoreTypeOK
    BY TypeGroups DEF PipelineInv
  <2>1. ASSUME NEW z \in Strategy, NEW x, WriteStatus(z, x),
               x \in Judged => z \in results
        PROVE  s \in results'
    <3>1. s = z /\ status'[s] = x /\ results' = results
      BY <1>2, <2>0, <2>1, WriteEffect
    <3> QED BY <2>1, <3>1
  <2>2. ASSUME NEW r \in Runner, LoopStep(r) \/ Crash(r) \/ Restart(r)
        PROVE  FALSE
    BY <1>2, <2>2
    DEF LoopStep, Reclaim, ReclaimThose, ReclaimStaleBacktesting, Claim,
        ClaimPendingBacktest, LoopRaises, Gathered, Crash, Restart, storeVars,
        Judged
  <2>3. ASSUME NEW t \in Task, TaskStep(t) \/ Unanswered(t)
        PROVE  s \in results'
    <3>1. StrategyOf(t) \in Strategy
      BY TaskParts
    <3>2. task[t].stage = "saved" => StrategyOf(t) \in results
      BY DEF PipelineInv, SavedHasResults
    <3>3. \/ status' = status
          \/ \E x \in {"code_failed", "backtest_failed"} :
               WriteStatus(StrategyOf(t), x)
          \/ /\ task[t].stage = "saved"
             /\ WriteStatus(StrategyOf(t), "pending_validation")
      BY <2>3
      DEF TaskStep, Unanswered, Reject, Rejects, Backtest, SaveResults,
          Complete, Raises, Except, ExceptRaises, Handler, HandlerRaises,
          CompleteUnanswered, RejectUnanswered, ExceptUnanswered, storeVars
    <3> QED BY <1>2, <2>1, <3>1, <3>2, <3>3 DEF Judged
  <2>4. ASSUME NEW z \in Strategy,
               \/ Ideate(z) \/ Code(z) \/ CodeFails(z) \/ CodeUnanswered(z)
               \/ Judge(z) \/ JudgeGivesUp(z)
        PROVE  s \in results'
    <3>1. \/ status' = status
          \/ \E x \in {"pending_code", "pending_backtest", "code_failed"} :
               WriteStatus(z, x)
          \/ z \in results /\ \E x \in Judged : WriteStatus(z, x)
      BY <2>4
      DEF Ideate, SaveStrategy, Code, CodeFails, CodeUnanswered, Judge,
          JudgeGivesUp, storeVars, Judged
    <3> QED BY <1>2, <2>1, <3>1 DEF Judged
  <2>5. CASE status' = status
    BY <1>2, <2>5
  <2> QED
    BY <2>2, <2>3, <2>4, <2>5
    DEF Next, Runners, CodeGivesUp, ListPendingValidation, DatabaseFails, DatabaseReturns,
        Outage, OutageEnds, vars, storeVars
<1> QED BY <1>1, <1>2

LEMMA DisturbedStay ==
  ASSUME [Next]_vars
  PROVE  disturbed \subseteq disturbed'
<1>1. CASE \E r \in Runner : LoopStep(r) \/ Crash(r) \/ Restart(r)
  BY <1>1
  DEF LoopStep, Reclaim, ReclaimThose, Claim, LoopRaises, Gathered, Crash,
      Restart, Disturb
<1>2. CASE \E t \in Task : TaskStep(t) \/ Unanswered(t)
  BY <1>2
  DEF TaskStep, Unanswered, Reject, Backtest, Complete, Raises, Except,
      ExceptRaises, Handler, HandlerRaises, CompleteUnanswered,
      RejectUnanswered, ExceptUnanswered, Disturb
<1> QED
  BY <1>1, <1>2
  DEF Next, Runners, Ideate, Code, CodeFails, CodeUnanswered, Judge,
      JudgeGivesUp, CodeGivesUp, ListPendingValidation, DatabaseFails, DatabaseReturns,
      Disturb, vars

(* What the coder writes once more was not answered. *)
LEMMA RecodingNext ==
  ASSUME PipelineInv, [Next]_vars
  PROVE  (recoding # Nobody => recoding \in disturbed)'
<1>1. recoding' \in {recoding, Nobody} \/ recoding' \in disturbed'
  BY DEF Next, Runners, Ideate, Code, CodeFails, CodeUnanswered, Judge,
      JudgeGivesUp, CodeGivesUp, ListPendingValidation, DatabaseFails, DatabaseReturns,
      Disturb, vars
<1> QED BY <1>1, DisturbedStay DEF PipelineInv

LEMMA InitPipelineInv ==
  ASSUME Init
  PROVE  PipelineInv
<1>1. \A s \in Strategy :
        Working(s) = {} /\ Rewriting(s) = {} /\ status[s] = "absent"
  BY DEF Init, StoreInit, RunnerInit, Working, Rewriting, Alive, Free
<1>2. \A s \in Strategy : ClaimInv(s)
  BY <1>1 DEF Init, ClaimInv
<1>3. SavedHasResults
  BY DEF Init, RunnerInit, SavedHasResults, Free
<1>4. JudgedByResults
  BY <1>1 DEF JudgedByResults
<1> QED BY <1>2, <1>3, <1>4, InitType DEF Init, PipelineInv

LEMMA PipelineInvNext ==
  ASSUME PipelineInv, [Next]_vars
  PROVE  PipelineInv'
<1>1. PipelineTypeOK'
  BY TaskType, LoopType, OthersType, StutterType DEF Next, Runners, PipelineInv
<1>2. \A s \in Strategy : ClaimInv(s)'
  BY EveryStepOK DEF StepOK
<1> QED
  BY <1>1, <1>2, SavedNext, JudgedNext, RecodingNext DEF PipelineInv

LEMMA PipelineInvariant == Spec => []PipelineInv
  BY InitPipelineInv, PipelineInvNext, PTL DEF Spec

-----------------------------------------------------------------------------
(***************************************************************************)
(* Two tasks work on a strategy only if its claim was taken from a task at *)
(* work, or a write that was not answered was made twice.                  *)
(***************************************************************************)
THEOREM ClaimsAreExclusive == Spec => []OneTaskPerClaim
<1>1. PipelineInv => OneTaskPerClaim
  BY DEF PipelineInv, ClaimInv, OneTaskPerClaim
<1> QED BY <1>1, PipelineInvariant, PTL

(***************************************************************************)
(* No strategy is judged, or waits for it, without a row of results.       *)
(***************************************************************************)
THEOREM VerdictsRestOnResults == Spec => []JudgedByResults
<1>1. PipelineInv => JudgedByResults
  BY DEF PipelineInv
<1> QED BY <1>1, PipelineInvariant, PTL

(***************************************************************************)
(* The pipeline implements StrategyQueue: each step of it moves the job of *)
(* every strategy that is not forfeit as the queue allows, or leaves it.   *)
(***************************************************************************)
THEOREM PipelineIsAQueue == Spec => ImplementsStrategyQueue
<1>1. Init => Queue!Init
  <2> SUFFICES ASSUME Init PROVE Queue!Init
    OBVIOUS
  <2>1. \A s \in Strategy : Job(s) = Queue!At("none")
    BY DEF Init, StoreInit, Job, PlaceOf, HolderOf, Verdict, Queue!At
  <2> QED BY <2>1 DEF Init, RunnerInit, Queue!Init, Job
<1>2. PipelineInv /\ [Next]_vars => [Queue!Next]_(Queue!vars)
  <2> SUFFICES ASSUME PipelineInv, [Next]_vars PROVE Queue!Next
    BY DEF Queue!vars
  <2>1. \A s \in Strategy \ disturbed' : JobMoves(s)
    BY EveryStepOK DEF StepOK
  <2> QED BY <2>1, DisturbedStay DEF JobMoves, Job, Queue!Next
<1> QED
  BY <1>1, <1>2, PipelineInvariant, PTL DEF Spec, ImplementsStrategyQueue, Queue!Spec

=============================================================================
