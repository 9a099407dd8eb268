----------------------- MODULE ExecutionGateway_proofs ----------------------
EXTENDS ExecutionGateway, TLAPS

LEMMA LogType ==
  ASSUME TrackerTypeOK, NEW o \in Order, NEW s \in OrderState,
         Transition(o, s) \/ TransitionRaises(o, s), KeepOwnership
  PROVE  TrackerTypeOK'
<1>1. lease' \in [Order -> LeaseState] /\ owned' \in SUBSET Order
  BY DEF TrackerTypeOK, KeepOwnership
<1>3. WriteExecutionLog(o, s)
  BY DEF Transition, TransitionRaises
<1>4. log' \in [Order -> Seq(OrderState)]
  <2>1. Append(log[o], s) \in Seq(OrderState)
    BY DEF TrackerTypeOK
  <2> QED BY <1>3, <2>1 DEF WriteExecutionLog, TrackerTypeOK
<1> QED BY <1>1, <1>4 DEF TrackerTypeOK

-----------------------------------------------------------------------------
(* The type invariant, in the groups of variables the actions work on.     *)

TaskTypeOK ==
  /\ pc \in [Order -> Point]
  /\ runner \in [Order -> Instance \cup {Nobody}]
  /\ attempts \in [Order -> 0..(MaxSubmitAttempts - 1)]

BookTypeOK ==
  /\ active \in SUBSET Order
  /\ booked \in [Order -> Nat]

ProcTypeOK ==
  /\ proc \in [Instance -> Stage]
  /\ recovered \in SUBSET Instance
  /\ scan \in [Instance -> SUBSET Order]
  /\ todo \in [Instance -> SUBSET letters]
  /\ sent \in [Instance -> SUBSET letters]
  /\ restarts \in 0..MaxRestarts

RiskTypeOK ==
  /\ halted \in BOOLEAN
  /\ past \in SUBSET (Order \cup Instance)

LEMMA TypeGroups ==
  GatewayTypeOK <=> /\ TrackerTypeOK /\ BrokerTypeOK /\ LetterTypeOK
                    /\ TaskTypeOK /\ BookTypeOK /\ ProcTypeOK /\ RiskTypeOK
  BY DEF GatewayTypeOK, TaskTypeOK, BookTypeOK, ProcTypeOK, RiskTypeOK

LEMMA TrackerSame == TrackerTypeOK /\ UNCHANGED trackerVars => TrackerTypeOK'
  BY DEF TrackerTypeOK, trackerVars

LEMMA BrokerSame == BrokerTypeOK /\ UNCHANGED brokerVars => BrokerTypeOK'
  BY DEF BrokerTypeOK, brokerVars

LEMMA LetterSame == LetterTypeOK /\ UNCHANGED letterVars => LetterTypeOK'
  BY DEF LetterTypeOK, letterVars

LEMMA TaskSame ==
  TaskTypeOK /\ UNCHANGED <<pc, runner, attempts>> => TaskTypeOK'
  BY DEF TaskTypeOK

LEMMA BookSame == BookTypeOK /\ UNCHANGED <<active, booked>> => BookTypeOK'
  BY DEF BookTypeOK

LEMMA LettersGrow ==
  ASSUME UNCHANGED letterVars \/ \E o \in Order : RecordDeadLetter(o)
  PROVE  letters \subseteq letters'
  BY DEF letterVars, RecordDeadLetter, RecordLetter, Record, RecordRaises

LEMMA ProcSame ==
  ProcTypeOK /\ UNCHANGED procVars /\ letters \subseteq letters' => ProcTypeOK'
  BY DEF ProcTypeOK, procVars

LEMMA RiskSame == RiskTypeOK /\ UNCHANGED riskVars => RiskTypeOK'
  BY DEF RiskTypeOK, riskVars

LEMMA GotoType ==
  ASSUME TaskTypeOK, NEW o \in Order, NEW to \in Point, Goto(o, to)
  PROVE  TaskTypeOK'
  BY DEF TaskTypeOK, Goto

LEMMA LogStepType ==
  ASSUME TrackerTypeOK, TaskTypeOK, NEW o \in Order, NEW s \in OrderState,
         NEW to \in Point, NEW onRaise \in Point, Log(o, s, to, onRaise)
  PROVE  TrackerTypeOK' /\ TaskTypeOK'
  BY LogType, GotoType DEF Log

LEMMA SubmitType ==
  ASSUME BrokerTypeOK, NEW o \in Order, SubmitReturns(o) \/ SubmitRaises(o)
  PROVE  BrokerTypeOK'
  BY DEF BrokerTypeOK, SubmitReturns, SubmitRaises, NewBrokerOrder,
         brokerVars, VenueState

LEMMA CancelType ==
  ASSUME BrokerTypeOK, NEW o \in Order,
         CancelReturns(o) \/ CancelRaises(o) \/ VenueMoves(o) \/ Arrives(o)
  PROVE  BrokerTypeOK'
  BY DEF BrokerTypeOK, CancelReturns, CancelRaises, VenueMoves, Arrives,
         Cancelled,
         Working, brokerVars, VenueState

LEMMA CancelAllType ==
  ASSUME BrokerTypeOK, CancelAllOrders
  PROVE  BrokerTypeOK'
  BY DEF BrokerTypeOK, CancelAllOrders, Cancelled, brokerVars, VenueState

LEMMA PointsExist ==
  /\ {"dup", "halt", "receive", "ended", "killed"} \subseteq Point
  /\ Guarded \subseteq Point
  BY DEF Point, Unguarded

LEMMA ExecuteType ==
  ASSUME GatewayTypeOK, NEW o \in Order, Execute(o)
  PROVE  GatewayTypeOK'
<1> USE TypeGroups, GatewayAssumption
<1>1. /\ UNCHANGED riskVars /\ UNCHANGED procVars
  BY DEF Execute, DupCheck, HaltGate, Receive, KillGate, RiskGate, Submit,
         Exhausted, Ack, PollFill, Fill, Book, Trade, Partial, Timeout,
         Cancel, LogCancel, Error, RecordDeadLetter, RecordLetter, Cleanup
<1>2. ProcTypeOK' /\ RiskTypeOK'
  <2>1. UNCHANGED letterVars \/ RecordDeadLetter(o)
    BY DEF Execute, DupCheck, HaltGate, Receive, KillGate, RiskGate, Submit,
         Exhausted, Ack, PollFill, Fill, Book, Trade, Partial, Timeout,
         Cancel, LogCancel, Error, Cleanup
  <2> QED BY <1>1, <2>1, LettersGrow, ProcSame, RiskSame
<1>3. BrokerTypeOK'
  <2>1. CASE Submit(o)
    BY <2>1, SubmitType DEF Submit
  <2>2. CASE Cancel(o)
    BY <2>2, CancelType DEF Cancel
  <2>3. CASE ~Submit(o) /\ ~Cancel(o)
    <3>1. UNCHANGED brokerVars
      BY <2>3 DEF Execute, DupCheck, HaltGate, Receive, KillGate, RiskGate,
         Exhausted, Ack, PollFill, Fill, Book, Trade, Partial, Timeout,
         LogCancel, Error, RecordDeadLetter, RecordLetter, Cleanup
    <3> QED BY <3>1, BrokerSame
  <2> QED BY <2>1, <2>2, <2>3
<1>4. LetterTypeOK'
  <2>1. CASE RecordDeadLetter(o)
    BY <2>1 DEF RecordDeadLetter, RecordLetter, Record, RecordRaises,
         LetterTypeOK, letterVars, Letter, Reason
  <2>2. CASE ~RecordDeadLetter(o)
    <3>1. UNCHANGED letterVars
      BY <2>2 DEF Execute, DupCheck, HaltGate, Receive, KillGate, RiskGate,
         Submit, Exhausted, Ack, PollFill, Fill, Book, Trade, Partial,
         Timeout, Cancel, LogCancel, Error, Cleanup
    <3> QED BY <3>1, LetterSame
  <2> QED BY <2>1, <2>2
<1>5. BookTypeOK'
  BY DEF Execute, DupCheck, HaltGate, Receive, KillGate, RiskGate, Submit,
         Exhausted, Ack, PollFill, Fill, Book, Trade, Partial, Timeout,
         Cancel, LogCancel, Error, RecordDeadLetter, RecordLetter, Cleanup,
         BookTypeOK
<1>6. TrackerTypeOK' /\ TaskTypeOK'
  <2> USE DEF OrderState, Point, Unguarded, Guarded
  <2>1. CASE DupCheck(o)
    BY <2>1, LogStepType, GotoType, TrackerSame DEF DupCheck
  <2>2. CASE HaltGate(o)
    BY <2>2, LogStepType, GotoType, TrackerSame DEF HaltGate
  <2>3. CASE Receive(o)
    BY <2>3, LogStepType DEF Receive
  <2>4. CASE KillGate(o)
    BY <2>4, LogStepType, GotoType, TrackerSame DEF KillGate
  <2>5. CASE RiskGate(o)
    BY <2>5, LogStepType DEF RiskGate
  <2>6. CASE Submit(o)
    <3>1. TrackerTypeOK'
      BY <2>6, TrackerSame DEF Submit
    <3>2. TaskTypeOK'
      BY <2>6 DEF Submit, TaskTypeOK
    <3> QED BY <3>1, <3>2
  <2>7. CASE Exhausted(o)
    BY <2>7, LogStepType DEF Exhausted
  <2>8. CASE Ack(o)
    BY <2>8, LogStepType DEF Ack
  <2>9. CASE PollFill(o)
    BY <2>9, GotoType, TrackerSame DEF PollFill
  <2>10. CASE Fill(o)
    BY <2>10, LogStepType DEF Fill
  <2>11. CASE Book(o)
    BY <2>11, GotoType, TrackerSame DEF Book
  <2>12. CASE Trade(o)
    BY <2>12, GotoType, TrackerSame DEF Trade
  <2>13. CASE Partial(o)
    BY <2>13, LogStepType DEF Partial
  <2>14. CASE Timeout(o)
    BY <2>14, LogStepType DEF Timeout
  <2>15. CASE Cancel(o)
    BY <2>15, GotoType, TrackerSame DEF Cancel
  <2>16. CASE LogCancel(o)
    BY <2>16, LogStepType DEF LogCancel
  <2>17. CASE Error(o)
    BY <2>17, LogStepType DEF Error
  <2>18. CASE RecordDeadLetter(o)
    BY <2>18, GotoType, TrackerSame DEF RecordDeadLetter, RecordLetter
  <2>19. CASE Cleanup(o)
    <3>1. TaskTypeOK'
      BY <2>19, GotoType DEF Cleanup
    <3>2. lease' \in [Order -> LeaseState]
      BY <2>19 DEF Cleanup, ReleaseLock, TrackerTypeOK, LeaseState
    <3>3. TrackerTypeOK'
      BY <2>19, <3>2 DEF Cleanup, TrackerTypeOK
    <3> QED BY <3>1, <3>3
  <2> HIDE DEF OrderState, Point, Unguarded, Guarded
  <2> QED
    BY <2>1, <2>2, <2>3, <2>4, <2>5, <2>6, <2>7, <2>8, <2>9, <2>10, <2>11,
       <2>12, <2>13, <2>14, <2>15, <2>16, <2>17, <2>18, <2>19 DEF Execute
<1> QED
  BY <1>2, <1>3, <1>4, <1>5, <1>6
  DEF GatewayTypeOK, TaskTypeOK, BookTypeOK, ProcTypeOK, RiskTypeOK

LEMMA FailType ==
  ASSUME ProcTypeOK, NEW i \in Instance, RecoveryFails(i), letters' = letters
  PROVE  ProcTypeOK'
  BY DEF ProcTypeOK, RecoveryFails, Advance, Forget, Stage, Reconciling

LEMMA TransitionType ==
  ASSUME TrackerTypeOK, NEW o \in Order,
         Transition(o, "dead_letter") \/ TransitionRaises(o, "dead_letter"),
         KeepOwnership
  PROVE  TrackerTypeOK'
<1>1. "dead_letter" \in OrderState
  BY DEF OrderState
<1> QED BY <1>1, LogType

LEMMA RecoverKeepsTasks ==
  ASSUME NEW i \in Instance, Recover(i) \/ BeginRecovery(i)
  PROVE  UNCHANGED taskVars /\ UNCHANGED riskVars
<1>1. ASSUME NEW o \in Order, RecoverLease(i, o) \/ MarkLostOrder(i, o)
      PROVE  UNCHANGED taskVars /\ UNCHANGED riskVars
  BY <1>1 DEF RecoverLease, MarkLostOrder
<1>2. ASSUME NEW letter \in Letter,
             ReplayLetter(i, letter) \/ ResolveLetter(i, letter)
      PROVE  UNCHANGED taskVars /\ UNCHANGED riskVars
  BY <1>2 DEF ReplayLetter, ResolveLetter
<1>3. CASE \/ BeginRecovery(i) \/ RecoverOrders(i) \/ ListLeases(i) \/ ListLetters(i)
           \/ EndRecovery(i) \/ ListLostOrders(i) \/ Serve(i)
  BY <1>3 DEF BeginRecovery, RecoverOrders, ListLeases, ListLetters, EndRecovery,
     ListLostOrders, Serve
<1> QED BY <1>1, <1>2, <1>3 DEF Recover

LEMMA RecoverType ==
  ASSUME GatewayTypeOK, NEW i \in Instance, Recover(i) \/ BeginRecovery(i)
  PROVE  GatewayTypeOK'
<1> USE TypeGroups
<1> DEFINE Letters == \E letter \in Letter :
                        ReplayLetter(i, letter) \/ ResolveLetter(i, letter)
           Orders == \E o \in Order : RecoverLease(i, o) \/ MarkLostOrder(i, o)
<1>1. UNCHANGED taskVars /\ UNCHANGED riskVars
  BY RecoverKeepsTasks
<1>2. TaskTypeOK' /\ BookTypeOK' /\ RiskTypeOK'
  BY <1>1, TaskSame, BookSame, RiskSame DEF taskVars
<1>3. TrackerTypeOK'
  <2>1. CASE Orders
    <3>1. PICK o \in Order : RecoverLease(i, o) \/ MarkLostOrder(i, o)
      BY <2>1
    <3>2. CASE RecoverLease(i, o)
      <4>1. CASE UNCHANGED log
        BY <3>2, <4>1 DEF RecoverLease, KeepOwnership, TrackerTypeOK
      <4>2. CASE ~UNCHANGED log
        BY <3>2, <4>2, TransitionType DEF RecoverLease
      <4> QED BY <4>1, <4>2
    <3>3. CASE MarkLostOrder(i, o)
      BY <3>3, TransitionType DEF MarkLostOrder
    <3> QED BY <3>1, <3>2, <3>3
  <2>2. CASE ~Orders
    <3>1. UNCHANGED trackerVars
      BY <2>2 DEF Recover, BeginRecovery, RecoverOrders, ListLeases, ListLetters,
         EndRecovery, ListLostOrders, Serve, ReplayLetter, ResolveLetter
    <3> QED BY <3>1, TrackerSame
  <2> QED BY <2>1, <2>2
<1>4. BrokerTypeOK'
  <2>1. CASE RecoverOrders(i)
    BY <2>1, CancelAllType, BrokerSame DEF RecoverOrders
  <2>2. CASE \E letter \in Letter : ReplayLetter(i, letter)
    <3>1. PICK letter \in Letter : ReplayLetter(i, letter)
      BY <2>2
    <3>2. letter[1] \in Order
      BY DEF Letter
    <3> QED BY <3>1, <3>2, SubmitType, BrokerSame DEF ReplayLetter
  <2>3. CASE ~RecoverOrders(i) /\ ~\E letter \in Letter : ReplayLetter(i, letter)
    <3>1. UNCHANGED brokerVars
      BY <2>3 DEF Recover, BeginRecovery, ListLeases, ListLetters, EndRecovery,
         ListLostOrders, Serve, RecoverLease, MarkLostOrder, ResolveLetter
    <3> QED BY <3>1, BrokerSame
  <2> QED BY <2>1, <2>2, <2>3
<1>5. LetterTypeOK'
  <2>1. CASE \E letter \in Letter : ResolveLetter(i, letter)
    <3>1. PICK letter \in Letter : ResolveLetter(i, letter)
      BY <2>1
    <3>2. letter \in letters
      BY <3>1 DEF ResolveLetter, ProcTypeOK
    <3>3. CASE Resolve(letter)
      BY <3>2, <3>3 DEF Resolve, LetterTypeOK
    <3>4. CASE ~Resolve(letter)
      <4>1. UNCHANGED letterVars
        BY <3>1, <3>4 DEF ResolveLetter
      <4> QED BY <4>1, LetterSame
    <3> QED BY <3>3, <3>4
  <2>2. CASE ~\E letter \in Letter : ResolveLetter(i, letter)
    <3>1. UNCHANGED letterVars
      BY <2>2 DEF Recover, BeginRecovery, RecoverOrders, ListLeases, ListLetters,
         EndRecovery, ListLostOrders, Serve, RecoverLease, MarkLostOrder,
         ReplayLetter
    <3> QED BY <3>1, LetterSame
  <2> QED BY <2>1, <2>2
<1>6. ProcTypeOK'
  <2>1. letters' = letters
    BY DEF Recover, BeginRecovery, RecoverOrders, ListLeases, ListLetters, EndRecovery,
         ListLostOrders, Serve, RecoverLease, MarkLostOrder, ReplayLetter,
         ResolveLetter, Resolve, letterVars
  <2>2. CASE RecoveryFails(i)
    BY <2>1, <2>2, FailType
  <2>3. CASE BeginRecovery(i) /\ ~RecoveryFails(i)
    BY <2>1, <2>3 DEF BeginRecovery, Advance, ProcTypeOK, Stage, Reconciling
  <2>4. CASE RecoverOrders(i) /\ ~RecoveryFails(i)
    BY <2>1, <2>4 DEF RecoverOrders, Advance, ProcTypeOK, Stage, Reconciling
  <2>11. CASE ListLeases(i)
    <3>1. {o \in Order : lease[o] # "none"} \subseteq Order
      OBVIOUS
    <3> QED BY <2>1, <2>11, <3>1
            DEF ListLeases, Advance, ProcTypeOK, Stage, Reconciling
  <2>5. CASE ListLetters(i) /\ ~RecoveryFails(i)
    <3>1. GetUnresolved \subseteq letters
      BY DEF GetUnresolved
    <3> QED BY <2>1, <2>5, <3>1
            DEF ListLetters, Advance, ProcTypeOK, Stage, Reconciling
  <2>6. CASE EndRecovery(i)
    BY <2>1, <2>6 DEF EndRecovery, Advance, ProcTypeOK, Stage
  <2>7. CASE ListLostOrders(i)
    <3>1. LostOrders({o \in Order : runner[o] = i}) \subseteq Order
      BY DEF LostOrders
    <3> QED BY <2>1, <2>7, <3>1 DEF ListLostOrders, Advance, ProcTypeOK, Stage
  <2>8. CASE Serve(i)
    BY <2>1, <2>8 DEF Serve, Advance, ProcTypeOK, Stage
  <2>9. CASE Orders
    BY <2>1, <2>9 DEF RecoverLease, MarkLostOrder, ProcTypeOK
  <2>10. CASE Letters /\ ~RecoveryFails(i)
    <3>1. PICK letter \in Letter :
                 ReplayLetter(i, letter) \/ ResolveLetter(i, letter)
      BY <2>10
    <3>2. letter \in letters
      BY <3>1 DEF ReplayLetter, ResolveLetter, ProcTypeOK
    <3> QED
      BY <2>1, <2>10, <3>1, <3>2
      DEF ReplayLetter, ResolveLetter, LetterDone, ProcTypeOK
  <2> QED
    BY <2>2, <2>3, <2>4, <2>5, <2>6, <2>7, <2>8, <2>9, <2>10,
       <2>11 DEF Recover
<1> QED
  BY <1>2, <1>3, <1>4, <1>5, <1>6
  DEF GatewayTypeOK, TaskTypeOK, BookTypeOK, ProcTypeOK, RiskTypeOK

LEMMA OtherType ==
  ASSUME GatewayTypeOK,
         NEW o, NEW i,
         \/ o \in Order /\ (Renew(o) \/ LeaseAges(o) \/ Market(o))
         \/ o \in Order /\ i \in Instance /\ Start(o, i)
         \/ i \in Instance /\ (Crash(i) \/ Shutdown(i) \/ RunRaises(i))
         \/ Halt \/ Resume
  PROVE  GatewayTypeOK'
<1> USE TypeGroups
<1>1. UNCHANGED letterVars
  BY DEF Renew, LeaseAges, Market, Start, Crash, Shutdown, RunRaises, Halt,
         Resume
<1>2. LetterTypeOK' /\ letters \subseteq letters'
  BY <1>1, LetterSame, LettersGrow
<1>3. BrokerTypeOK'
  <2>1. CASE i \in Instance /\ KillTasks(i)
    <3>1. \A letter \in todo[i] : letter[1] \in Order
      BY <2>1 DEF ProcTypeOK, LetterTypeOK, Letter
    <3>2. Requested(i) \subseteq Order
      BY <2>1, <3>1 DEF Requested, Tasks
    <3> QED BY <2>1, <3>2 DEF KillTasks, BrokerTypeOK
  <2>2. CASE o \in Order /\ Market(o)
    BY <2>2, CancelType DEF Market
  <2>3. CASE UNCHANGED brokerVars
    BY <2>3, BrokerSame
  <2> QED BY <2>1, <2>2, <2>3
          DEF Renew, LeaseAges, Start, Crash, Shutdown, RunRaises, Halt, Resume
<1>4. RiskTypeOK'
  <2>1. CASE Halt \/ Resume
    BY <2>1 DEF Halt, Resume, RiskTypeOK
  <2>2. CASE ~Halt /\ ~Resume
    <3>1. UNCHANGED riskVars
      BY <2>2 DEF Renew, LeaseAges, Market, Start, Crash, Shutdown, RunRaises
    <3> QED BY <3>1, RiskSame
  <2> QED BY <2>1, <2>2
<1>5. ProcTypeOK'
  <2>1. CASE i \in Instance /\ StopRun(i) /\ recovered' \in SUBSET Instance
    BY <1>2, <2>1, GatewayAssumption
    DEF StopRun, Forget, Advance, ProcTypeOK, Stage
  <2>2. CASE UNCHANGED procVars
    BY <1>2, <2>2, ProcSame
  <2>3. \/ i \in Instance /\ StopRun(i) /\ recovered' \in SUBSET Instance
        \/ UNCHANGED procVars
    BY DEF Renew, LeaseAges, Market, Start, Crash, Shutdown, RunRaises, Halt,
       Resume, ProcTypeOK
  <2> QED BY <2>1, <2>2, <2>3
<1>6. TaskTypeOK' /\ BookTypeOK'
  <2>1. CASE Renew(o)
    BY <2>1 DEF Renew, TaskTypeOK, BookTypeOK
  <2>2. CASE o \in Order /\ i \in Instance /\ Start(o, i)
    BY <2>2 DEF Start, TaskTypeOK, BookTypeOK, Point, Unguarded
  <2>3. CASE KillTasks(i)
    <3>1. 0 \in 0..(MaxSubmitAttempts - 1) /\ "killed" \in Point
      BY GatewayAssumption DEF Point
    <3> QED BY <2>3, <3>1 DEF KillTasks, TaskTypeOK, BookTypeOK
  <2>4. CASE UNCHANGED taskVars
    BY <2>4, TaskSame, BookSame DEF taskVars
  <2> QED
    BY <2>1, <2>2, <2>3, <2>4
    DEF LeaseAges, Market, Crash, Shutdown, RunRaises, Halt, Resume
<1>7. TrackerTypeOK'
  <2>1. CASE Renew(o)
    <3>1. lease' \in [Order -> LeaseState]
      BY <2>1 DEF Renew, RenewLease, TrackerTypeOK, LeaseState
    <3> QED BY <2>1, <3>1 DEF Renew, TrackerTypeOK
  <2>2. CASE LeaseAges(o)
    <3>1. lease' \in [Order -> LeaseState]
      BY <2>2 DEF LeaseAges, TrackerTypeOK, LeaseState
    <3> QED BY <2>2, <3>1 DEF LeaseAges, TrackerTypeOK
  <2>3. CASE o \in Order /\ Start(o, i)
    <3>1. lease' \in [Order -> LeaseState]
      BY <2>3 DEF Start, AcquireLock, TrackerTypeOK, LeaseState
    <3> QED BY <2>3, <3>1 DEF Start, AcquireLock, TrackerTypeOK
  <2>4. CASE Shutdown(i)
    <3>1. lease' \in [Order -> LeaseState]
      BY <2>4 DEF Shutdown, TrackerTypeOK, LeaseState
    <3> QED BY <2>4, <3>1 DEF Shutdown, TrackerTypeOK
  <2>5. CASE UNCHANGED trackerVars
    BY <2>5, TrackerSame
  <2>6. CASE Crash(i)
    BY <2>6 DEF Crash, TrackerTypeOK
  <2> QED
    BY <2>1, <2>2, <2>3, <2>4, <2>5, <2>6
    DEF Market, RunRaises, Halt, Resume
<1> QED
  BY <1>2, <1>3, <1>4, <1>5, <1>6, <1>7
  DEF GatewayTypeOK, TaskTypeOK, BookTypeOK, ProcTypeOK, RiskTypeOK

LEMMA InitType == Init => GatewayTypeOK
<1> SUFFICES ASSUME Init PROVE GatewayTypeOK
  OBVIOUS
<1>1. TrackerTypeOK
  BY DEF Init, TrackerInit, TrackerTypeOK, LeaseState
<1>2. BrokerTypeOK /\ LetterTypeOK
  BY DEF Init, BrokerInit, LetterInit, BrokerTypeOK, LetterTypeOK, VenueState
<1>3. TaskTypeOK /\ BookTypeOK
  BY GatewayAssumption DEF Init, TaskTypeOK, BookTypeOK, Point
<1>4. restarts \in 0..MaxRestarts
  BY GatewayAssumption DEF Init
<1>5. proc \in [Instance -> Stage] /\ recovered \in SUBSET Instance
  BY DEF Init, Stage
<1>6. ProcTypeOK
  BY <1>4, <1>5 DEF Init, ProcTypeOK
<1>7. RiskTypeOK
  BY DEF Init, RiskTypeOK
<1> QED BY <1>1, <1>2, <1>3, <1>6, <1>7, TypeGroups

LEMMA NextType == GatewayTypeOK /\ [Next]_vars => GatewayTypeOK'
<1> SUFFICES ASSUME GatewayTypeOK, [Next]_vars PROVE GatewayTypeOK'
  OBVIOUS
<1>1. CASE \E o \in Order : Execute(o)
  BY <1>1, ExecuteType
<1>2. CASE \E i \in Instance : BeginRecovery(i) \/ Recover(i)
  BY <1>2, RecoverType
<1>3. CASE UNCHANGED vars
  <2>1. /\ TrackerTypeOK' /\ BrokerTypeOK' /\ LetterTypeOK' /\ RiskTypeOK'
    BY <1>3, TypeGroups, TrackerSame, BrokerSame, LetterSame, RiskSame DEF vars
  <2>2. TaskTypeOK' /\ BookTypeOK' /\ ProcTypeOK'
    BY <1>3, TypeGroups, TaskSame, BookSame, LettersGrow, ProcSame
    DEF vars, taskVars
  <2> QED
    BY <2>1, <2>2
    DEF GatewayTypeOK, TaskTypeOK, BookTypeOK, ProcTypeOK, RiskTypeOK
<1>4. CASE \E o \in Order : Renew(o) \/ LeaseAges(o) \/ Market(o)
  <2>1. PICK o \in Order : Renew(o) \/ LeaseAges(o) \/ Market(o)
    BY <1>4
  <2> QED BY <2>1, OtherType
<1>5. CASE \E o \in Order, i \in Instance : Start(o, i)
  <2>1. PICK o \in Order, i \in Instance : Start(o, i)
    BY <1>5
  <2> QED BY <2>1, OtherType
<1>6. CASE \E i \in Instance : Crash(i) \/ Shutdown(i) \/ RunRaises(i)
  <2>1. PICK i \in Instance : Crash(i) \/ Shutdown(i) \/ RunRaises(i)
    BY <1>6
  <2> QED BY <2>1, OtherType
<1>7. CASE Halt \/ Resume
  BY <1>7, OtherType
<1> QED BY <1>1, <1>2, <1>3, <1>4, <1>5, <1>6, <1>7 DEF Next

(***************************************************************************)
(* Every variable of the gateway stays in its type, for every number of    *)
(* orders and instances, every adapter and every set of failures.          *)
(***************************************************************************)
THEOREM TypeCorrect == Spec => []GatewayTypeOK
<1> QED BY InitType, NextType, PTL DEF Spec

=============================================================================
