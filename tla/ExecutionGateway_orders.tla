---------------------- MODULE ExecutionGateway_orders -----------------------
(***************************************************************************)
(* Proofs about the fate of an order: its lease, its replay, what the halt *)
(* stops, what failover leaves alone, where its fill ends up, and how far  *)
(* statements of the code that do not hold in general do hold.             *)
(***************************************************************************)
EXTENDS ExecutionGateway_fills

-----------------------------------------------------------------------------
(* Leases.  Only Receive adds a key to the active set, and a coroutine     *)
(* inside the try leaves it by the cleanup alone.                          *)

ActiveGuarded == \A o \in active : pc[o] \in Guarded

LeaseInv == GatewayTypeOK /\ ActiveGuarded

(* The own step of a coroutine, as the active set sees it. *)
LEMMA ExecuteActive ==
  ASSUME GatewayTypeOK, NEW o \in Order, Execute(o)
  PROVE  /\ active' \subseteq active \cup {o}
         /\ o \in active' => \/ pc'[o] \in Guarded
                             \/ o \in active /\ pc[o] \notin Guarded
<1> USE DEF Guarded, Goto, Log
<1>0. pc \in [Order -> Point] /\ active \in SUBSET Order
  BY DEF GatewayTypeOK
<1>1. CASE Receive(o)
  <2>1. ~IsTerminal("signal_received")
    BY DEF IsTerminal
  <2>2. pc'[o] = "gate"
    BY <1>0, <1>1, <2>1 DEF Receive, TransitionRaises
  <2> QED BY <1>1, <2>2 DEF Receive
<1>2. CASE Cleanup(o)
  BY <1>0, <1>2 DEF Cleanup
<1>3. CASE DupCheck(o) \/ HaltGate(o)
  BY <1>0, <1>3 DEF DupCheck, HaltGate
<1>4. CASE KillGate(o) \/ RiskGate(o) \/ Submit(o)
  BY <1>0, <1>4 DEF KillGate, RiskGate, Submit
<1>5. CASE Exhausted(o) \/ Ack(o) \/ PollFill(o) \/ Fill(o)
  BY <1>0, <1>5 DEF Exhausted, Ack, PollFill, Fill
<1>6. CASE Book(o) \/ Trade(o) \/ Partial(o) \/ Timeout(o)
  BY <1>0, <1>6 DEF Book, Trade, Partial, Timeout
<1>7. CASE Cancel(o) \/ LogCancel(o) \/ Error(o) \/ RecordDeadLetter(o)
  BY <1>0, <1>7 DEF Cancel, LogCancel, Error, RecordDeadLetter, RecordLetter
<1> QED BY <1>1, <1>2, <1>3, <1>4, <1>5, <1>6, <1>7 DEF Execute

LEMMA NextLease == LeaseInv /\ [Next]_vars => LeaseInv'
<1> SUFFICES ASSUME LeaseInv, [Next]_vars PROVE LeaseInv'
  OBVIOUS
<1>0. GatewayTypeOK /\ ActiveGuarded /\ GatewayTypeOK'
  BY NextType DEF LeaseInv
<1> SUFFICES ASSUME NEW o \in active' PROVE pc'[o] \in Guarded
  BY <1>0 DEF LeaseInv, ActiveGuarded
<1>1. o \in Order
  BY <1>0 DEF GatewayTypeOK
<1>2. o \in active => pc[o] \in Guarded
  BY <1>0 DEF ActiveGuarded
<1>3. CASE \E p \in Order : Execute(p)
  <2>1. PICK p \in Order : Execute(p)
    BY <1>3
  <2>2. CASE p = o
    BY <1>0, <1>2, <2>1, <2>2, ExecuteActive
  <2>3. CASE p # o
    <3>1. o \in active
      BY <1>0, <2>1, <2>3, ExecuteActive
    <3>2. pc'[o] = pc[o]
      BY <1>0, <1>1, <2>1, <2>3, ExecuteOwn
    <3> QED BY <1>2, <3>1, <3>2
  <2> QED BY <2>2, <2>3
<1>4. CASE \E i \in Instance : BeginRecovery(i) \/ Recover(i)
  BY <1>2, <1>4, RecoverKeepsTasks DEF taskVars
<1>5. CASE \E p \in Order, i \in Instance : Start(p, i)
  <2>1. PICK p \in Order, i \in Instance : Start(p, i)
    BY <1>5
  <2>2. p # o
    BY <1>2, <2>1 DEF Start, Guarded
  <2> QED BY <1>0, <1>1, <1>2, <2>1, <2>2 DEF Start, GatewayTypeOK
<1>6. CASE \E i \in Instance : Crash(i) \/ Shutdown(i)
  <2>1. PICK i \in Instance : KillTasks(i)
    BY <1>6 DEF Crash, Shutdown
  <2> QED BY <1>1, <1>2, <2>1 DEF KillTasks
<1>7. CASE \/ \E p \in Order : Renew(p) \/ LeaseAges(p) \/ Market(p)
           \/ \E i \in Instance : RunRaises(i)
           \/ Halt \/ Resume \/ UNCHANGED vars
  BY <1>2, <1>7
  DEF Renew, LeaseAges, Market, RunRaises, Halt, Resume, vars, taskVars
<1> QED BY <1>3, <1>4, <1>5, <1>6, <1>7 DEF Next

(***************************************************************************)
(* Leases: _lease_maintenance never renews the lease of a coroutine that   *)
(* is gone, however it went, so its order is not hidden from failover.     *)
(***************************************************************************)
THEOREM LeasesOfTheLiving == Spec => []OnlyLivingLeases
<1>1. Init => LeaseInv
  BY InitType DEF Init, LeaseInv, ActiveGuarded
<1>2. LeaseInv => OnlyLivingLeases
  BY DEF LeaseInv, ActiveGuarded, OnlyLivingLeases, Alive
<1> QED BY <1>1, <1>2, NextLease, PTL DEF Spec

-----------------------------------------------------------------------------
(* Replays.  A letter is resolved by the recovery whose replay the broker  *)
(* answered, and the venue forgets no order.                               *)

AnsweredReplay ==
  \A i \in Instance : \A letter \in sent[i] : venue[letter[1]] # "none"

ReplayInv == FillInv /\ AnsweredReplay /\ ReplayedThenResolved

LEMMA SentStep ==
  ASSUME GatewayTypeOK, [Next]_vars, NEW i \in Instance,
         NEW letter \in sent'[i], letter \notin sent[i]
  PROVE  letter \in Letter /\ SubmitReturns(letter[1])
<1>0. sent \in [Instance -> SUBSET letters]
  BY DEF GatewayTypeOK
<1>1. CASE \E j \in Instance : \E l \in Letter : ReplayLetter(j, l)
  <2>1. PICK j \in Instance, l \in Letter : ReplayLetter(j, l)
    BY <1>1
  <2>2. SubmitReturns(l[1]) /\ sent' = [sent EXCEPT ![j] = {l}]
    BY <1>0, <2>1 DEF ReplayLetter, RecoveryFails, Forget
  <2> QED BY <1>0, <2>2
<1>2. ASSUME NEW j \in Instance, Recover(j) \/ BeginRecovery(j),
             ~\E l \in Letter : ReplayLetter(j, l)
      PROVE  sent'[i] \subseteq sent[i]
  BY <1>0, <1>2 DEF Recover, BeginRecovery, RecoverOrders, ListLeases,
     ListLetters, EndRecovery, ListLostOrders, Serve, RecoverLease,
     MarkLostOrder, ResolveLetter, RecoveryFails, Forget
<1>3. CASE \E j \in Instance : Crash(j) \/ Shutdown(j) \/ RunRaises(j)
  BY <1>0, <1>3 DEF Crash, Shutdown, RunRaises, StopRun, Forget
<1>4. CASE \E o \in Order : Execute(o)
  BY <1>4 DEF Execute, DupCheck, HaltGate, Receive, KillGate, RiskGate, Submit,
     Exhausted, Ack, PollFill, Fill, Book, Trade, Partial, Timeout, Cancel,
     LogCancel, Error, RecordDeadLetter, RecordLetter, Cleanup, procVars
<1>5. CASE \/ \E o \in Order : Renew(o) \/ LeaseAges(o) \/ Market(o)
           \/ \E o \in Order, j \in Instance : Start(o, j)
           \/ Halt \/ Resume \/ UNCHANGED vars
  BY <1>5 DEF Renew, LeaseAges, Market, Start, Halt, Resume, vars, procVars
<1> QED BY <1>1, <1>2, <1>3, <1>4, <1>5 DEF Next

LEMMA ResolvedStep ==
  ASSUME GatewayTypeOK, [Next]_vars, NEW letter \in resolved',
         letter \notin resolved, IsReplayed(letter)
  PROVE  \E i \in Instance : letter \in sent[i]
<1>1. CASE \E i \in Instance : \E l \in Letter : ResolveLetter(i, l)
  BY <1>1 DEF ResolveLetter, Resolve, letterVars
<1>2. ASSUME NEW i \in Instance, Recover(i) \/ BeginRecovery(i),
             ~\E l \in Letter : ResolveLetter(i, l)
      PROVE  resolved' = resolved
  BY <1>2 DEF Recover, BeginRecovery, RecoverOrders, ListLeases,
     ListLetters, EndRecovery, ListLostOrders, Serve, RecoverLease,
     MarkLostOrder, ReplayLetter, letterVars
<1>3. CASE \E o \in Order : Execute(o)
  BY <1>3 DEF Execute, DupCheck, HaltGate, Receive, KillGate, RiskGate, Submit,
     Exhausted, Ack, PollFill, Fill, Book, Trade, Partial, Timeout, Cancel,
     LogCancel, Error, RecordDeadLetter, RecordLetter, Record, RecordRaises,
     Cleanup, letterVars
<1>4. CASE \/ \E o \in Order : Renew(o) \/ LeaseAges(o) \/ Market(o)
           \/ \E o \in Order, i \in Instance : Start(o, i)
           \/ \E i \in Instance : Crash(i) \/ Shutdown(i) \/ RunRaises(i)
           \/ Halt \/ Resume \/ UNCHANGED vars
  BY <1>4 DEF Renew, LeaseAges, Market, Start, Crash, Shutdown, RunRaises,
     Halt, Resume, vars, letterVars
<1> QED BY <1>1, <1>2, <1>3, <1>4 DEF Next

LEMMA NextReplay == ReplayInv /\ [Next]_vars => ReplayInv'
<1> SUFFICES ASSUME ReplayInv, [Next]_vars PROVE ReplayInv'
  OBVIOUS
<1>0. FillInv /\ AnsweredReplay /\ ReplayedThenResolved /\ FillInv'
  BY NextFill DEF ReplayInv
<1>1. /\ GatewayTypeOK /\ SimulatorFills /\ GatewayTypeOK'
  BY <1>0 DEF FillInv
<1>2. ASSUME NEW o \in Order, venue[o] # "none" PROVE venue'[o] # "none"
  BY <1>1, <1>2, VenueStep DEF BrokerMoves, Moves, Again
<1>3. ASSUME NEW i \in Instance, NEW letter \in sent[i]
      PROVE  letter[1] \in Order
  BY <1>1 DEF GatewayTypeOK, LetterTypeOK, Letter
<1>4. AnsweredReplay'
  <2> SUFFICES ASSUME NEW i \in Instance, NEW letter \in sent'[i]
               PROVE  venue'[letter[1]] # "none"
    BY DEF AnsweredReplay
  <2>1. CASE letter \in sent[i]
    BY <1>0, <1>2, <1>3, <2>1 DEF AnsweredReplay
  <2>2. CASE letter \notin sent[i]
    <3>1. letter \in Letter /\ SubmitReturns(letter[1])
      BY <1>1, <2>2, SentStep
    <3>2. letter[1] \in Order
      BY <3>1 DEF Letter
    <3> QED BY <1>1, <3>1, <3>2 DEF GatewayTypeOK, BrokerTypeOK,
               SubmitReturns, NewBrokerOrder, IdTaken, Working, brokerVars
  <2> QED BY <2>1, <2>2
<1>5. ReplayedThenResolved'
  <2> SUFFICES ASSUME NEW letter \in resolved', IsReplayed(letter)
               PROVE  venue'[letter[1]] # "none"
    BY DEF ReplayedThenResolved, IsReplayed
  <2>1. letter[1] \in Order
    BY <1>1 DEF GatewayTypeOK, LetterTypeOK, Letter
  <2>2. CASE letter \in resolved
    BY <1>0, <1>2, <2>1, <2>2 DEF ReplayedThenResolved
  <2>3. CASE letter \notin resolved
    <3>1. PICK i \in Instance : letter \in sent[i]
      BY <1>1, <2>3, ResolvedStep
    <3> QED BY <1>0, <1>2, <2>1, <3>1 DEF AnsweredReplay
  <2> QED BY <2>2, <2>3
<1> QED BY <1>0, <1>4, <1>5 DEF ReplayInv

(***************************************************************************)
(* Dead letters: reconcile_unresolved closes a letter it must replay only  *)
(* when the broker holds an order for its key, whatever two recovering     *)
(* gateways do to each other.                                              *)
(***************************************************************************)
THEOREM ResolvedIsAtBroker == Spec => []ReplayedThenResolved
<1>1. Init => ReplayInv
  <2> SUFFICES ASSUME Init PROVE ReplayInv
    OBVIOUS
  <2>1. AnsweredReplay /\ ReplayedThenResolved
    BY DEF Init, LetterInit, AnsweredReplay, ReplayedThenResolved
  <2> QED BY <2>1, InitFill DEF ReplayInv
<1>2. ReplayInv => ReplayedThenResolved
  BY DEF ReplayInv
<1> QED BY <1>1, <1>2, NextReplay, PTL DEF Spec

-----------------------------------------------------------------------------
(* The halt.  While the switch is set, everyone past its check is in       *)
(* "past": no coroutine and no recovery passes a check meanwhile.          *)

PassedAreKnown ==
  halted => /\ \A o \in Order : pc[o] \in PastGate => o \in past
            /\ \A i \in Instance : proc[i] \in Reconciling => i \in past

(* The list of letters is held by recoveries at that stage only. *)
LettersInStage == \A i \in Instance : todo[i] # {} => proc[i] = "letters"

HaltInv == GatewayTypeOK /\ PassedAreKnown /\ LettersInStage

LEMMA GateStep ==
  ASSUME GatewayTypeOK, [Next]_vars, halted, NEW o \in Order,
         pc'[o] \in PastGate
  PROVE  pc[o] \in PastGate
<1>0. pc \in [Order -> Point]
  BY DEF GatewayTypeOK
<1>1. CASE \E p \in Order : Execute(p) /\ p # o
  BY <1>1, ExecuteOwn
<1>2. CASE Execute(o)
  BY <1>0, <1>2 DEF Execute, DupCheck, HaltGate, Receive, KillGate, RiskGate,
     Submit, Exhausted, Ack, PollFill, Fill, Book, Trade, Partial, Timeout,
     Cancel, LogCancel, Error, RecordDeadLetter, RecordLetter, Cleanup, Log,
     Goto, PastGate
<1>3. CASE \E i \in Instance : BeginRecovery(i) \/ Recover(i)
  BY <1>3, RecoverKeepsTasks DEF taskVars
<1>4. CASE \E p \in Order, i \in Instance : Start(p, i)
  BY <1>0, <1>4 DEF Start, PastGate
<1>5. CASE \E i \in Instance : Crash(i) \/ Shutdown(i)
  BY <1>0, <1>5 DEF Crash, Shutdown, KillTasks, PastGate
<1>6. CASE \/ \E p \in Order : Renew(p) \/ LeaseAges(p) \/ Market(p)
           \/ \E i \in Instance : RunRaises(i)
           \/ Halt \/ Resume \/ UNCHANGED vars
  BY <1>6 DEF Renew, LeaseAges, Market, RunRaises, Halt, Resume, vars, taskVars
<1> QED BY <1>1, <1>2, <1>3, <1>4, <1>5, <1>6 DEF Next

(* What a step does to the stage of a recovery and its list of letters. *)
StageOK(i) ==
  /\ halted /\ proc'[i] \in Reconciling => proc[i] \in Reconciling
  /\ todo'[i] # {} => proc'[i] = "letters"

LEMMA RecoverStage ==
  ASSUME GatewayTypeOK, LettersInStage, NEW i \in Instance, NEW j \in Instance,
         BeginRecovery(j) \/ Recover(j)
  PROVE  StageOK(i)
<1>0. /\ proc \in [Instance -> Stage] /\ todo \in [Instance -> SUBSET letters]
      /\ todo[i] # {} => proc[i] = "letters"
  BY DEF GatewayTypeOK, LettersInStage
<1> USE DEF Advance, Reconciling, RecoveryFails, Forget, StageOK
<1>1. CASE BeginRecovery(j)
  BY <1>0, <1>1 DEF BeginRecovery
<1>2. CASE RecoverOrders(j)
  BY <1>0, <1>2 DEF RecoverOrders
<1>3. CASE ListLeases(j) \/ ListLetters(j) \/ EndRecovery(j)
  BY <1>0, <1>3 DEF ListLeases, ListLetters, EndRecovery
<1>4. CASE ListLostOrders(j) \/ Serve(j)
  BY <1>0, <1>4 DEF ListLostOrders, Serve
<1>5. CASE \E o \in Order : RecoverLease(j, o) \/ MarkLostOrder(j, o)
  BY <1>0, <1>5 DEF RecoverLease, MarkLostOrder
<1>6. ASSUME NEW l \in Letter, ReplayLetter(j, l)
      PROVE  StageOK(i)
  BY <1>0, <1>6 DEF ReplayLetter, LetterDone
<1>7. ASSUME NEW l \in Letter, ResolveLetter(j, l)
      PROVE  StageOK(i)
  BY <1>0, <1>7 DEF ResolveLetter, LetterDone
<1> QED BY <1>1, <1>2, <1>3, <1>4, <1>5, <1>6, <1>7 DEF Recover

LEMMA StageStep ==
  ASSUME GatewayTypeOK, LettersInStage, [Next]_vars, NEW i \in Instance
  PROVE  StageOK(i)
<1>0. proc \in [Instance -> Stage] /\ todo \in [Instance -> SUBSET letters]
  BY DEF GatewayTypeOK
<1>1. CASE \E j \in Instance : BeginRecovery(j) \/ Recover(j)
  BY <1>1, RecoverStage
<1>2. CASE \E j \in Instance : Crash(j) \/ Shutdown(j) \/ RunRaises(j)
  BY <1>0, <1>2 DEF Crash, Shutdown, RunRaises, StopRun, Forget, Advance,
     StageOK, LettersInStage, Reconciling
<1>3. CASE UNCHANGED procVars
  BY <1>3 DEF procVars, StageOK, LettersInStage
<1>4. CASE \E o \in Order : Execute(o)
  BY <1>3, <1>4 DEF Execute, DupCheck, HaltGate, Receive, KillGate, RiskGate,
     Submit, Exhausted, Ack, PollFill, Fill, Book, Trade, Partial, Timeout,
     Cancel, LogCancel, Error, RecordDeadLetter, RecordLetter, Cleanup
<1>5. CASE \/ \E o \in Order : Renew(o) \/ LeaseAges(o) \/ Market(o)
           \/ \E o \in Order, j \in Instance : Start(o, j)
           \/ Halt \/ Resume \/ UNCHANGED vars
  BY <1>3, <1>5 DEF Renew, LeaseAges, Market, Start, Halt, Resume, vars
<1> QED BY <1>1, <1>2, <1>4, <1>5 DEF Next

(* The switch and the history change in Halt and Resume only. *)
LEMMA SwitchStep ==
  ASSUME [Next]_vars
  PROVE  UNCHANGED riskVars \/ Halt \/ Resume
<1>1. CASE \E o \in Order : Execute(o)
  BY <1>1 DEF Execute, DupCheck, HaltGate, Receive, KillGate, RiskGate, Submit,
     Exhausted, Ack, PollFill, Fill, Book, Trade, Partial, Timeout, Cancel,
     LogCancel, Error, RecordDeadLetter, RecordLetter, Cleanup
<1>2. CASE \E j \in Instance : BeginRecovery(j) \/ Recover(j)
  BY <1>2, RecoverKeepsTasks
<1>3. CASE \/ \E o \in Order : Renew(o) \/ LeaseAges(o) \/ Market(o)
           \/ \E o \in Order, j \in Instance : Start(o, j)
           \/ \E j \in Instance : Crash(j) \/ Shutdown(j) \/ RunRaises(j)
           \/ UNCHANGED vars
  BY <1>3 DEF Renew, LeaseAges, Market, Start, Crash, Shutdown, RunRaises, vars
<1> QED BY <1>1, <1>2, <1>3 DEF Next

LEMMA NextHalt == HaltInv /\ [Next]_vars => HaltInv'
<1> SUFFICES ASSUME HaltInv, [Next]_vars PROVE HaltInv'
  OBVIOUS
<1>0. GatewayTypeOK /\ PassedAreKnown /\ LettersInStage /\ GatewayTypeOK'
  BY NextType DEF HaltInv
<1>1. ASSUME NEW i \in Instance PROVE StageOK(i)
  BY <1>0, StageStep
<1>2. LettersInStage'
  BY <1>1 DEF StageOK, LettersInStage
<1>3. PassedAreKnown'
  <2>1. CASE Halt
    BY <2>1 DEF Halt, PassedAreKnown, taskVars, procVars
  <2>2. CASE Resume
    BY <2>2 DEF Resume, PassedAreKnown
  <2>3. CASE UNCHANGED riskVars
    <3>1. ASSUME halted, NEW o \in Order, pc'[o] \in PastGate PROVE o \in past
      BY <1>0, <3>1, GateStep DEF PassedAreKnown
    <3>2. ASSUME halted, NEW i \in Instance, proc'[i] \in Reconciling
          PROVE  i \in past
      BY <1>0, <1>1, <3>2 DEF PassedAreKnown, StageOK
    <3> QED BY <2>3, <3>1, <3>2 DEF riskVars, PassedAreKnown
  <2> QED BY <2>1, <2>2, <2>3, SwitchStep
<1> QED BY <1>0, <1>2, <1>3 DEF HaltInv

(* Who sends an order to the broker. *)
Sender(o) ==
  \/ pc[o] = "submit"
  \/ \E i \in Instance : <<o, "retriable">> \in todo[i]

LEMMA RequestSends ==
  ASSUME GatewayTypeOK, NEW p \in Order, SubmitReturns(p) \/ SubmitRaises(p),
         NEW o \in Order, Sent(o)
  PROVE  o = p
  BY DEF GatewayTypeOK, BrokerTypeOK, SubmitReturns, SubmitRaises,
     NewBrokerOrder, brokerVars, Sent

LEMMA RetriableLetter ==
  ASSUME NEW letter \in Letter, IsReplayed(letter)
  PROVE  letter = <<letter[1], "retriable">>
  BY DEF Letter, IsReplayed

LEMMA SendStep ==
  ASSUME GatewayTypeOK, [Next]_vars, NEW o \in Order, Sent(o)
  PROVE  Sender(o)
<1>0. ~UNCHANGED brokerVars
  BY DEF Sent, brokerVars
<1>1. CASE \E p \in Order : Submit(p)
  <2>1. PICK p \in Order : Submit(p)
    BY <1>1
  <2>2. SubmitReturns(p) \/ SubmitRaises(p)
    BY <2>1 DEF Submit
  <2>3. o = p
    BY <2>2, RequestSends
  <2> QED BY <2>1, <2>3 DEF Submit, Sender
<1>2. CASE \/ \E p \in Order : CancelReturns(p) \/ CancelRaises(p) \/ VenueMoves(p)
           \/ CancelAllOrders
  BY <1>2 DEF CancelReturns, CancelRaises, VenueMoves, CancelAllOrders, Sent,
     brokerVars
<1>3. CASE \E p \in Order : Arrives(p)
  BY <1>3 DEF Arrives, Sent, GatewayTypeOK, BrokerTypeOK
<1>4. CASE \E i \in Instance, l \in Letter : ReplayLetter(i, l)
  <2>1. PICK i \in Instance, l \in Letter : ReplayLetter(i, l)
    BY <1>4
  <2>2. l \in todo[i] /\ IsReplayed(l)
    BY <2>1 DEF ReplayLetter
  <2>3. SubmitReturns(l[1]) \/ SubmitRaises(l[1])
    BY <1>0, <2>1 DEF ReplayLetter
  <2>4. l[1] \in Order
    BY DEF Letter
  <2>5. o = l[1]
    BY <2>3, <2>4, RequestSends
  <2> QED BY <2>2, <2>5, RetriableLetter DEF Sender
<1>5. CASE \E i \in Instance : KillTasks(i)
  <2>1. PICK i \in Instance : KillTasks(i)
    BY <1>5
  <2>2. o \in Requested(i)
    BY <2>1 DEF KillTasks, Sent
  <2>3. CASE o \in {p \in Tasks(i) : pc[p] = "submit"}
    BY <2>3 DEF Sender
  <2>4. CASE \E l \in todo[i] : IsReplayed(l) /\ o = l[1]
    <3>1. PICK l \in todo[i] : IsReplayed(l) /\ o = l[1]
      BY <2>4
    <3>2. l \in Letter
      BY DEF GatewayTypeOK, LetterTypeOK
    <3> QED BY <3>1, <3>2, RetriableLetter DEF Sender
  <2> QED BY <2>2, <2>3, <2>4 DEF Requested
<1> QED BY <1>0, <1>1, <1>2, <1>3, <1>4, <1>5, BrokerStep

(***************************************************************************)
(* Kill switch: while it is set, the coroutines and recoveries that had    *)
(* passed their check before are the only ones that send anything, for     *)
(* every adapter and whatever fails (gateway 537 and 607, recovery 71).    *)
(***************************************************************************)
THEOREM HaltStopsSenders == Spec => HaltHolds
<1>1. Init => HaltInv
  BY InitType DEF Init, HaltInv, PassedAreKnown, LettersInStage
<1>2. HaltInv /\ [Next]_vars =>
        [halted => \A o \in Order :
           Sent(o) =>
             \/ o \in past /\ pc[o] = "submit"
             \/ \E i \in past \cap Instance :
                  proc[i] = "letters" /\ <<o, "retriable">> \in todo[i]]_vars
  <2> SUFFICES ASSUME HaltInv, [Next]_vars, halted, NEW o \in Order, Sent(o)
               PROVE  \/ o \in past /\ pc[o] = "submit"
                      \/ \E i \in past \cap Instance :
                           proc[i] = "letters" /\ <<o, "retriable">> \in todo[i]
    OBVIOUS
  <2>1. Sender(o)
    BY SendStep DEF HaltInv
  <2> QED BY <2>1 DEF HaltInv, PassedAreKnown, LettersInStage, Sender,
             PastGate, Reconciling
<1> QED BY <1>1, <1>2, NextHalt, PTL DEF Spec, HaltHolds

-----------------------------------------------------------------------------
(* Failover.  While no process stalls and Redis answers, a living          *)
(* coroutine holds a lease with time left, and recovery writes only about  *)
(* orders without one.                                                     *)

Timely == Faults \cap {"stall", "redis"} = {}

LivingLeased == \A o \in Order : Alive(o) => lease[o] = "live"

(* What recovery may come across was started before. *)
KnownStarted ==
  \A o \in Order :
    pc[o] = "idle" => /\ lease[o] = "none" /\ o \notin owned
                      /\ \A i \in Instance : o \notin scan[i]

MarkedGone ==
  \A i \in Instance :
    proc[i] = "marking" => \A o \in scan[i] : pc[o] \in {"ended", "killed"}

(* The points after the first terminal row. *)
AfterEnd == { "book", "trade", "dl_exhausted", "error", "dl_error", "cleanup",
              "ended", "killed" }

EndedPoint == \A o \in Order : ReachedTerminal(o) => pc[o] \in AfterEnd

FailoverInv ==
  /\ Timely
  /\ GatewayTypeOK
  /\ LivingLeased
  /\ KnownStarted
  /\ MarkedGone
  /\ EndedPoint

(* One step of a coroutine: how far it moves and what it writes.           *)
Written(o) ==
  \E row \in OrderState :
    /\ log'[o] = Append(log[o], row)
    /\ pc'[o] # pc[o]
    /\ IsTerminal(row) => pc'[o] \in AfterEnd
    /\ pc[o] \in AfterEnd => row = "dead_letter"

LEMMA ExecuteWrites ==
  ASSUME GatewayTypeOK, Timely, NEW o \in Order, Execute(o)
  PROVE  /\ log'[o] = log[o] \/ Written(o)
         /\ pc[o] \in AfterEnd => pc'[o] \in AfterEnd
         /\ pc'[o] # "idle"
         /\ \/ pc'[o] = "ended"
            \/ lease'[o] = lease[o]
<1>0. pc \in [Order -> Point] /\ log \in [Order -> Seq(OrderState)]
  BY DEF GatewayTypeOK, TrackerTypeOK
<1>1. ASSUME NEW row \in OrderState, NEW to, NEW onRaise,
             Log(o, row, to, onRaise)
      PROVE  /\ lease' = lease
             /\ pc'[o] = to
             /\ log'[o] = log[o] \/ log'[o] = Append(log[o], row)
  BY <1>0, <1>1 DEF Log, Goto, Transition, TransitionRaises, KeepOwnership,
     WriteExecutionLog, Timely
<1> USE DEF AfterEnd, OrderState, IsTerminal, Written
<1>2. CASE DupCheck(o)
  BY <1>0, <1>1, <1>2 DEF DupCheck, Goto, trackerVars
<1>3. CASE HaltGate(o)
  BY <1>0, <1>1, <1>3 DEF HaltGate, Goto, trackerVars
<1>4. CASE Receive(o)
  BY <1>0, <1>1, <1>4 DEF Receive
<1>5. CASE KillGate(o)
  BY <1>0, <1>1, <1>5 DEF KillGate, Goto, trackerVars
<1>6. CASE RiskGate(o)
  BY <1>0, <1>1, <1>6 DEF RiskGate
<1>7. CASE Exhausted(o) \/ Ack(o) \/ Fill(o)
  BY <1>0, <1>1, <1>7 DEF Exhausted, Ack, Fill
<1>8. CASE Partial(o) \/ Timeout(o) \/ LogCancel(o) \/ Error(o)
  BY <1>0, <1>1, <1>8 DEF Partial, Timeout, LogCancel, Error
<1>9. CASE \/ Submit(o) \/ PollFill(o) \/ Book(o) \/ Trade(o) \/ Cancel(o)
           \/ RecordDeadLetter(o)
  BY <1>0, <1>9 DEF Submit, PollFill, Book, Trade, Cancel, RecordDeadLetter,
     RecordLetter, Goto, trackerVars
<1>10. CASE Cleanup(o)
  BY <1>0, <1>10 DEF Cleanup, Goto
<1> QED BY <1>2, <1>3, <1>4, <1>5, <1>6, <1>7, <1>8, <1>9, <1>10 DEF Execute

LEMMA ExecuteOthers ==
  ASSUME GatewayTypeOK, NEW p \in Order, Execute(p), NEW o \in Order, o # p
  PROVE  lease'[o] = lease[o]
  BY DEF Execute, DupCheck, HaltGate, Receive, KillGate, RiskGate,
     Submit, Exhausted, Ack, PollFill, Fill, Book, Trade, Partial, Timeout,
     Cancel, LogCancel, Error, RecordDeadLetter, RecordLetter, Cleanup,
     Log, KeepOwnership, ReleaseLock, trackerVars, GatewayTypeOK, TrackerTypeOK

LEMMA ExecuteKeeps ==
  ASSUME NEW o \in Order, Execute(o)
  PROVE  owned' = owned /\ scan' = scan /\ proc' = proc
<1>1. owned' = owned
  BY DEF Execute, DupCheck, HaltGate, Receive, KillGate, RiskGate,
     Submit, Exhausted, Ack, PollFill, Fill, Book, Trade, Partial, Timeout,
     Cancel, LogCancel, Error, RecordDeadLetter, RecordLetter, Cleanup,
     Log, KeepOwnership, trackerVars
<1>2. scan' = scan /\ proc' = proc
  BY DEF Execute, DupCheck, HaltGate, Receive, KillGate, RiskGate,
     Submit, Exhausted, Ack, PollFill, Fill, Book, Trade, Partial, Timeout,
     Cancel, LogCancel, Error, RecordDeadLetter, RecordLetter, Cleanup,
     procVars
<1> QED BY <1>1, <1>2

(* Recovery writes DEAD_LETTER about started orders that live no more. *)
LEMMA RecoverWrites ==
  ASSUME FailoverInv, NEW i \in Instance, BeginRecovery(i) \/ Recover(i),
         NEW o \in Order
  PROVE  \/ log'[o] = log[o]
         \/ pc[o] \in {"ended", "killed"}
            /\ log'[o] = Append(log[o], "dead_letter")
<1>0. /\ Timely /\ LivingLeased /\ KnownStarted /\ MarkedGone
      /\ log \in [Order -> Seq(OrderState)] /\ pc \in [Order -> Point]
  BY DEF FailoverInv, GatewayTypeOK, TrackerTypeOK
<1>1. ASSUME NEW p \in Order, RecoverLease(i, p)
      PROVE  \/ log'[o] = log[o]
             \/ pc[o] \in {"ended", "killed"}
                /\ log'[o] = Append(log[o], "dead_letter")
  <2>1. CASE log' = log
    BY <2>1
  <2>2. CASE log' # log
    <3>1. p \in scan[i] /\ lease[p] # "live" /\ WriteExecutionLog(p, "dead_letter")
      BY <1>1, <2>2 DEF RecoverLease, Transition, TransitionRaises
    <3>2. pc[p] # "idle" /\ ~Alive(p)
      BY <1>0, <3>1 DEF KnownStarted, LivingLeased
    <3>3. pc[p] \in {"ended", "killed"}
      BY <1>0, <3>2 DEF Alive, Point
    <3> QED BY <1>0, <3>1, <3>3 DEF WriteExecutionLog
  <2> QED BY <2>1, <2>2
<1>2. ASSUME NEW p \in Order, MarkLostOrder(i, p)
      PROVE  \/ log'[o] = log[o]
             \/ pc[o] \in {"ended", "killed"}
                /\ log'[o] = Append(log[o], "dead_letter")
  <2>1. pc[p] \in {"ended", "killed"} /\ WriteExecutionLog(p, "dead_letter")
    BY <1>0, <1>2 DEF MarkLostOrder, MarkedGone, Transition, TransitionRaises
  <2> QED BY <1>0, <2>1 DEF WriteExecutionLog
<1>3. CASE ~\E p \in Order : RecoverLease(i, p) \/ MarkLostOrder(i, p)
  BY <1>3 DEF Recover, BeginRecovery, RecoverOrders, ListLeases, ListLetters,
     EndRecovery, ListLostOrders, Serve, ReplayLetter, ResolveLetter,
     trackerVars
<1> QED BY <1>1, <1>2, <1>3

(* What recovery takes up for its scans. *)
LEMMA RecoverScans ==
  ASSUME FailoverInv, NEW i \in Instance, BeginRecovery(i) \/ Recover(i),
         NEW j \in Instance, NEW o \in scan'[j]
  PROVE  /\ pc[o] # "idle"
         /\ proc'[j] = "marking" => pc[o] \in {"ended", "killed"}
<1>0. /\ Timely /\ LivingLeased /\ KnownStarted /\ MarkedGone
      /\ scan \in [Instance -> SUBSET Order] /\ pc \in [Order -> Point]
      /\ proc \in [Instance -> Stage]
  BY DEF FailoverInv, GatewayTypeOK
<1>1. o \in scan[j] => pc[o] # "idle"
  BY <1>0 DEF KnownStarted
<1>2. o \in scan[j] /\ proc[j] = "marking" => pc[o] \in {"ended", "killed"}
  BY <1>0 DEF MarkedGone
<1> USE DEF Advance
<1>3. CASE ListLeases(i)
  BY <1>0, <1>1, <1>2, <1>3 DEF ListLeases, KnownStarted, Timely
<1>4. CASE ListLostOrders(i)
  <2>1. scan' = [scan EXCEPT ![i] = LostOrders({p \in Order : runner[p] = i})]
    BY <1>0, <1>4 DEF ListLostOrders, Timely
  <2>2. ASSUME NEW p \in LostOrders({q \in Order : runner[q] = i})
        PROVE  pc[p] \in {"ended", "killed"}
    BY <1>0 DEF LostOrders, KnownStarted, LivingLeased, Alive, Point
  <2> QED BY <1>0, <1>1, <1>2, <1>4, <2>1, <2>2 DEF ListLostOrders
<1>5. CASE \E p \in Order : RecoverLease(i, p) \/ MarkLostOrder(i, p)
  BY <1>0, <1>1, <1>2, <1>5 DEF RecoverLease, MarkLostOrder
<1>6. CASE \/ BeginRecovery(i) \/ RecoverOrders(i) \/ ListLetters(i)
           \/ EndRecovery(i) \/ Serve(i)
  BY <1>0, <1>1, <1>2, <1>6 DEF BeginRecovery, RecoverOrders, ListLetters,
     EndRecovery, Serve, RecoveryFails, Forget
<1>7. CASE \E l \in Letter : ReplayLetter(i, l)
  BY <1>0, <1>1, <1>2, <1>7 DEF ReplayLetter, RecoveryFails, Forget
<1>8. CASE \E l \in Letter : ResolveLetter(i, l)
  BY <1>0, <1>1, <1>2, <1>8 DEF ResolveLetter, RecoveryFails, Forget
<1> QED BY <1>3, <1>4, <1>5, <1>6, <1>7, <1>8 DEF Recover

LEMMA RecoverKeepsLeases ==
  ASSUME NEW i \in Instance, BeginRecovery(i) \/ Recover(i)
  PROVE  lease' = lease /\ owned' = owned
  BY DEF Recover, BeginRecovery, RecoverOrders, ListLeases, ListLetters,
     EndRecovery, ListLostOrders, Serve, ReplayLetter, ResolveLetter,
     RecoverLease, MarkLostOrder, KeepOwnership, trackerVars

(* The other steps write nothing and end coroutines only. *)
LEMMA OtherWrites ==
  ASSUME FailoverInv,
         \/ \E p \in Order : Renew(p) \/ LeaseAges(p) \/ Market(p)
         \/ \E p \in Order, i \in Instance : Start(p, i)
         \/ \E i \in Instance : Crash(i) \/ Shutdown(i) \/ RunRaises(i)
         \/ Halt \/ Resume \/ UNCHANGED vars,
         NEW o \in Order
  PROVE  /\ log'[o] = log[o]
         /\ \/ pc'[o] = pc[o] /\ (lease'[o] = lease[o] \/ ~Alive(o)
                                   \/ lease'[o] = "live")
            \/ pc[o] = "idle" /\ pc'[o] = "dup" /\ lease'[o] = "live"
            \/ pc'[o] = "killed"
<1>0. /\ Timely /\ pc \in [Order -> Point] /\ lease \in [Order -> LeaseState]
  BY DEF FailoverInv, GatewayTypeOK, TrackerTypeOK
<1>1. CASE \E p \in Order : Renew(p) \/ LeaseAges(p) \/ Market(p)
  BY <1>0, <1>1 DEF Renew, RenewLease, LeaseAges, Market, Timely, taskVars,
     trackerVars
<1>2. CASE \E p \in Order, i \in Instance : Start(p, i)
  <2>1. PICK p \in Order, i \in Instance : Start(p, i)
    BY <1>2
  <2>2. /\ lease' = [lease EXCEPT ![p] = "live"] /\ log' = log
        /\ pc[p] = "idle" /\ pc' = [pc EXCEPT ![p] = "dup"]
    BY <1>0, <2>1 DEF Start, AcquireLock, Timely
  <2> QED BY <1>0, <2>2
<1>3. CASE \E i \in Instance : Crash(i)
  BY <1>0, <1>3 DEF Crash, KillTasks
<1>4. CASE \E i \in Instance : Shutdown(i)
  <2>1. PICK i \in Instance : Shutdown(i)
    BY <1>4
  <2>2. pc'[o] = IF o \in Tasks(i) THEN "killed" ELSE pc[o]
    BY <2>1 DEF Shutdown, KillTasks
  <2>3. o \notin Tasks(i) => lease'[o] = lease[o]
    BY <2>1 DEF Shutdown, ReleasedBy
  <2> QED BY <2>1, <2>2, <2>3 DEF Shutdown
<1>5. CASE \/ \E i \in Instance : RunRaises(i)
           \/ Halt \/ Resume \/ UNCHANGED vars
  BY <1>5 DEF RunRaises, Halt, Resume, vars, taskVars, trackerVars
<1> QED BY <1>1, <1>2, <1>3, <1>4, <1>5

(* They take up no order for a scan, and own only what they start. *)
LEMMA OtherScans ==
  ASSUME FailoverInv,
         \/ \E p \in Order : Renew(p) \/ LeaseAges(p) \/ Market(p)
         \/ \E p \in Order, i \in Instance : Start(p, i)
         \/ \E i \in Instance : Crash(i) \/ Shutdown(i) \/ RunRaises(i)
         \/ Halt \/ Resume \/ UNCHANGED vars,
         NEW o \in Order
  PROVE  /\ pc'[o] = "idle" =>
              (o \in owned' => o \in owned)
              /\ (lease[o] = "none" => lease'[o] = "none")
         /\ \A j \in Instance :
              o \in scan'[j] => o \in scan[j] /\ proc'[j] = proc[j]
<1>0. /\ pc \in [Order -> Point] /\ lease \in [Order -> LeaseState]
      /\ scan \in [Instance -> SUBSET Order] /\ proc \in [Instance -> Stage]
  BY DEF FailoverInv, GatewayTypeOK, TrackerTypeOK
<1>1. CASE \E p \in Order : Renew(p) \/ LeaseAges(p) \/ Market(p)
  BY <1>0, <1>1 DEF Renew, RenewLease, LeaseAges, Market, procVars, trackerVars
<1>2. CASE \E p \in Order, i \in Instance : Start(p, i)
  BY <1>0, <1>2 DEF Start, AcquireLock, procVars
<1>3. CASE \E i \in Instance : Crash(i) \/ Shutdown(i) \/ RunRaises(i)
  <2>1. PICK i \in Instance : Crash(i) \/ Shutdown(i) \/ RunRaises(i)
    BY <1>3
  <2>2. StopRun(i)
    BY <2>1 DEF Crash, Shutdown, RunRaises
  <2>3. owned' \subseteq owned /\ (lease[o] = "none" => lease'[o] = "none")
    BY <1>0, <2>1 DEF Crash, Shutdown, RunRaises, trackerVars
  <2> QED BY <1>0, <2>2, <2>3 DEF StopRun, Forget, Advance
<1>4. CASE Halt \/ Resume \/ UNCHANGED vars
  BY <1>4 DEF Halt, Resume, vars, procVars, trackerVars
<1> QED BY <1>1, <1>2, <1>3, <1>4

(* A step of Next, by the lemmas above. *)
LEMMA FailoverCases ==
  ASSUME [Next]_vars
  PROVE  \/ \E p \in Order : Execute(p)
         \/ \E i \in Instance : BeginRecovery(i) \/ Recover(i)
         \/ \E p \in Order : Renew(p) \/ LeaseAges(p) \/ Market(p)
         \/ \E p \in Order, i \in Instance : Start(p, i)
         \/ \E i \in Instance : Crash(i) \/ Shutdown(i) \/ RunRaises(i)
         \/ Halt \/ Resume \/ UNCHANGED vars
  BY DEF Next

LEMMA TerminalGrows ==
  ASSUME GatewayTypeOK, NEW o \in Order, NEW row \in OrderState,
         log'[o] = Append(log[o], row), ReachedTerminal(o)'
  PROVE  ReachedTerminal(o) \/ IsTerminal(row)
<1>1. log[o] \in Seq(OrderState)
  BY DEF GatewayTypeOK, TrackerTypeOK
<1>2. PICK n \in 1..Len(log'[o]) : IsTerminal(log'[o][n])
  BY DEF ReachedTerminal, IsTerminal
<1>3. CASE n \in 1..Len(log[o])
  <2>1. log'[o][n] = log[o][n]
    BY <1>1, <1>3
  <2> QED BY <1>2, <1>3, <2>1 DEF ReachedTerminal
<1>4. CASE n \notin 1..Len(log[o])
  <2>1. log'[o][n] = row
    BY <1>1, <1>2, <1>4
  <2> QED BY <1>2, <2>1
<1> QED BY <1>3, <1>4

LEMMA TerminalSame ==
  ASSUME NEW o \in Order, log'[o] = log[o], ReachedTerminal(o)'
  PROVE  ReachedTerminal(o)
  BY DEF ReachedTerminal, IsTerminal

LEMMA NextFailover == FailoverInv /\ [Next]_vars => FailoverInv'
<1> SUFFICES ASSUME FailoverInv, [Next]_vars PROVE FailoverInv'
  OBVIOUS
<1>0. /\ Timely /\ GatewayTypeOK /\ LivingLeased /\ KnownStarted
      /\ MarkedGone /\ EndedPoint /\ GatewayTypeOK' /\ pc \in [Order -> Point]
  BY NextType DEF FailoverInv, GatewayTypeOK
<1> DEFINE Kept(o) == /\ Alive(o)' => lease'[o] = "live"
                      /\ pc'[o] = "idle" =>
                           /\ lease'[o] = "none" /\ o \notin owned'
                           /\ \A j \in Instance : o \notin scan'[j]
                      /\ \A j \in Instance :
                           proc'[j] = "marking" /\ o \in scan'[j] =>
                             pc'[o] \in {"ended", "killed"}
                      /\ ReachedTerminal(o)' => pc'[o] \in AfterEnd
<1>1. ASSUME NEW p \in Order, Execute(p), NEW o \in Order PROVE Kept(o)
  <2>1. owned' = owned /\ scan' = scan /\ proc' = proc
    BY <1>1, ExecuteKeeps
  <2>2. CASE o = p
    <3>1. /\ log'[o] = log[o] \/ Written(o)
          /\ pc[o] \in AfterEnd => pc'[o] \in AfterEnd
          /\ pc'[o] # "idle"
          /\ pc'[o] = "ended" \/ lease'[o] = lease[o]
      BY <1>0, <1>1, <2>2, ExecuteWrites
    <3>2. pc[o] \notin {"idle", "ended", "killed"}
      BY <1>1, <2>2 DEF Execute, DupCheck, HaltGate, Receive, KillGate,
         RiskGate, Submit, Exhausted, Ack, PollFill, Fill, Book, Trade,
         Partial, Timeout, Cancel, LogCancel, Error, RecordDeadLetter,
         RecordLetter, Cleanup
    <3>3. Alive(o)
      BY <1>0, <3>2 DEF Alive, Point
    <3>4. Alive(o)' => lease'[o] = "live"
      BY <1>0, <3>1, <3>3 DEF LivingLeased, Alive, Unguarded, Guarded
    <3>5. \A j \in Instance : ~(proc'[j] = "marking" /\ o \in scan'[j])
      BY <1>0, <2>1, <3>2 DEF MarkedGone
    <3>6. ReachedTerminal(o)' => pc'[o] \in AfterEnd
      <4>1. CASE log'[o] = log[o]
        BY <1>0, <3>1, <4>1, TerminalSame DEF EndedPoint
      <4>2. CASE Written(o)
        BY <1>0, <3>1, <4>2, TerminalGrows DEF EndedPoint, Written
      <4> QED BY <3>1, <4>1, <4>2
    <3> QED BY <3>1, <3>4, <3>5, <3>6
  <2>3. CASE o # p
    <3>1. pc'[o] = pc[o] /\ log'[o] = log[o] /\ lease'[o] = lease[o]
      BY <1>0, <1>1, <2>3, ExecuteOwn, ExecuteOthers
    <3>2. ReachedTerminal(o)' => ReachedTerminal(o)
      BY <3>1, TerminalSame
    <3> QED BY <1>0, <2>1, <3>1, <3>2
            DEF LivingLeased, KnownStarted, MarkedGone, EndedPoint, Alive
  <2> QED BY <2>2, <2>3
<1>2. ASSUME NEW i \in Instance, BeginRecovery(i) \/ Recover(i),
             NEW o \in Order
      PROVE  Kept(o)
  <2>1. pc' = pc /\ lease' = lease /\ owned' = owned
    BY <1>2, RecoverKeepsTasks, RecoverKeepsLeases DEF taskVars
  <2>2. Alive(o)' => lease'[o] = "live"
    BY <1>0, <2>1 DEF LivingLeased, Alive
  <2>3. \A j \in Instance :
          o \in scan'[j] =>
            /\ pc[o] # "idle"
            /\ proc'[j] = "marking" => pc[o] \in {"ended", "killed"}
    BY <1>2, RecoverScans
  <2>4. ReachedTerminal(o)' => pc'[o] \in AfterEnd
    <3>1. CASE log'[o] = log[o]
      BY <1>0, <2>1, <3>1, TerminalSame DEF EndedPoint
    <3>2. CASE log'[o] # log[o]
      BY <1>2, <2>1, <3>2, RecoverWrites DEF AfterEnd
    <3> QED BY <3>1, <3>2
  <2> QED BY <1>0, <2>1, <2>2, <2>3, <2>4 DEF KnownStarted
<1>3. ASSUME \/ \E p \in Order : Renew(p) \/ LeaseAges(p) \/ Market(p)
             \/ \E p \in Order, i \in Instance : Start(p, i)
             \/ \E i \in Instance : Crash(i) \/ Shutdown(i) \/ RunRaises(i)
             \/ Halt \/ Resume \/ UNCHANGED vars,
             NEW o \in Order
      PROVE  Kept(o)
  <2>1. /\ log'[o] = log[o]
        /\ \/ pc'[o] = pc[o] /\ (lease'[o] = lease[o] \/ ~Alive(o)
                                  \/ lease'[o] = "live")
           \/ pc[o] = "idle" /\ pc'[o] = "dup" /\ lease'[o] = "live"
           \/ pc'[o] = "killed"
    BY <1>3, OtherWrites
  <2>2. /\ pc'[o] = "idle" =>
             (o \in owned' => o \in owned)
             /\ (lease[o] = "none" => lease'[o] = "none")
        /\ \A j \in Instance :
             o \in scan'[j] => o \in scan[j] /\ proc'[j] = proc[j]
    BY <1>3, OtherScans
  <2>3. Alive(o)' => lease'[o] = "live"
    BY <1>0, <2>1 DEF LivingLeased, Alive, Unguarded, Guarded
  <2>4. pc'[o] = "idle" => pc[o] = "idle"
    BY <2>1
  <2>5. pc[o] \in {"ended", "killed"} => pc'[o] \in {"ended", "killed"}
    BY <2>1
  <2>6. ReachedTerminal(o)' => pc'[o] \in AfterEnd
    <3>1. ReachedTerminal(o)' => pc[o] \in AfterEnd
      BY <1>0, <2>1, TerminalSame DEF EndedPoint
    <3> QED BY <2>1, <3>1 DEF AfterEnd
  <2>7. pc'[o] = "idle" => /\ lease'[o] = "none" /\ o \notin owned'
                           /\ \A j \in Instance : o \notin scan'[j]
    BY <1>0, <2>2, <2>4 DEF KnownStarted
  <2>8. \A j \in Instance : proc'[j] = "marking" /\ o \in scan'[j] =>
                              pc'[o] \in {"ended", "killed"}
    BY <1>0, <2>2, <2>5 DEF MarkedGone
  <2> QED BY <2>3, <2>6, <2>7, <2>8
<1>4. ASSUME NEW o \in Order PROVE Kept(o)
  BY <1>1, <1>2, <1>3, FailoverCases
<1>5. LivingLeased' /\ KnownStarted' /\ EndedPoint'
  BY <1>4 DEF LivingLeased, KnownStarted, EndedPoint
<1>6. MarkedGone'
  BY <1>0, <1>4 DEF MarkedGone, GatewayTypeOK
<1> QED BY <1>0, <1>5, <1>6 DEF FailoverInv, Timely

LEMMA InitFailover == Timely /\ Init => FailoverInv
<1> SUFFICES ASSUME Timely, Init PROVE FailoverInv
  OBVIOUS
<1>1. LivingLeased /\ KnownStarted /\ MarkedGone
  BY DEF Init, TrackerInit, LivingLeased, KnownStarted, MarkedGone, Alive,
     Unguarded, Guarded
<1>2. EndedPoint
  <2>1. ASSUME NEW o \in Order PROVE ~ReachedTerminal(o)
    <3>1. log[o] = << >>
      BY DEF Init, TrackerInit
    <3> QED BY <3>1 DEF ReachedTerminal
  <2> QED BY <2>1 DEF EndedPoint
<1> QED BY <1>1, <1>2, InitType DEF FailoverInv

(***************************************************************************)
(* Failover: recovery and the marking of lost orders write nothing about   *)
(* an order whose coroutine lives, if no process stalls past a lease and   *)
(* Redis answers; both are needed (_recover_expired_leases, get_lost_orders*)
(* read the lease and nothing else).                                       *)
(***************************************************************************)
THEOREM FailoverSparesTheLiving == Timely /\ Spec => LivingOrdersLeftAlone
<1>1. FailoverInv /\ [Next]_vars =>
        [\A o \in Order : Alive(o) /\ log'[o] # log[o] => pc'[o] # pc[o]]_vars
  <2> SUFFICES ASSUME FailoverInv, [Next]_vars, NEW o \in Order, Alive(o),
                      log'[o] # log[o]
               PROVE  pc'[o] # pc[o]
    OBVIOUS
  <2>0. GatewayTypeOK /\ Timely
    BY DEF FailoverInv
  <2>1. CASE \E p \in Order : Execute(p)
    BY <2>0, <2>1, ExecuteOwn, ExecuteWrites DEF Written
  <2>2. CASE \E i \in Instance : BeginRecovery(i) \/ Recover(i)
    BY <2>2, RecoverWrites DEF Alive, Unguarded, Guarded
  <2> QED BY <2>1, <2>2, OtherWrites, FailoverCases
<1>2. Timely /\ Spec => []FailoverInv
  BY InitFailover, NextFailover, PTL DEF Spec
<1> QED BY <1>1, <1>2, PTL DEF Spec, LivingOrdersLeftAlone

(***************************************************************************)
(* Audit: under the same assumption only DEAD_LETTER rows follow a row     *)
(* that OrderState.is_terminal calls terminal.                             *)
(***************************************************************************)
THEOREM TerminalIsTheEnd == Timely /\ Spec => OnlyDeadLetterAfterEnd
<1>1. FailoverInv /\ [Next]_vars =>
        [\A o \in Order :
           ReachedTerminal(o) /\ log'[o] # log[o] =>
             log'[o] = Append(log[o], "dead_letter")]_vars
  <2> SUFFICES ASSUME FailoverInv, [Next]_vars, NEW o \in Order,
                      ReachedTerminal(o), log'[o] # log[o]
               PROVE  log'[o] = Append(log[o], "dead_letter")
    OBVIOUS
  <2>0. GatewayTypeOK /\ Timely /\ pc[o] \in AfterEnd
    BY DEF FailoverInv, EndedPoint
  <2>1. CASE \E p \in Order : Execute(p)
    BY <2>0, <2>1, ExecuteOwn, ExecuteWrites DEF Written
  <2>2. CASE \E i \in Instance : BeginRecovery(i) \/ Recover(i)
    BY <2>2, RecoverWrites
  <2> QED BY <2>1, <2>2, OtherWrites, FailoverCases
<1>2. Timely /\ Spec => []FailoverInv
  BY InitFailover, NextFailover, PTL DEF Spec
<1> QED BY <1>1, <1>2, PTL DEF Spec, OnlyDeadLetterAfterEnd

-----------------------------------------------------------------------------
(* An order the broker has never seen.                                     *)

LEMMA FirstOrder ==
  ASSUME GatewayTypeOK, [Next]_vars, NEW o \in Order,
         venue[o] = "none", venue'[o] # "none"
  PROVE  Sent(o) \/ o \in inflight
<1>0. /\ venue \in [Order -> VenueState] /\ accepted \in [Order -> Nat]
      /\ ~UNCHANGED brokerVars
  BY DEF GatewayTypeOK, BrokerTypeOK, brokerVars
<1>1. ASSUME NEW p \in Order, SubmitReturns(p) \/ SubmitRaises(p)
      PROVE  Sent(o)
  BY <1>0, <1>1 DEF SubmitReturns, SubmitRaises, NewBrokerOrder, brokerVars,
     Sent
<1>2. CASE \E p \in Order : Submit(p)
  BY <1>1, <1>2 DEF Submit
<1>3. CASE \E i \in Instance, l \in Letter : ReplayLetter(i, l)
  <2>1. PICK i \in Instance, l \in Letter : ReplayLetter(i, l)
    BY <1>3
  <2>2. l[1] \in Order
    BY DEF Letter
  <2>3. SubmitReturns(l[1]) \/ SubmitRaises(l[1])
    BY <1>0, <2>1 DEF ReplayLetter
  <2> QED BY <1>1, <2>2, <2>3
<1>4. CASE \/ \E p \in Order : CancelReturns(p) \/ CancelRaises(p) \/ VenueMoves(p)
           \/ CancelAllOrders
  BY <1>0, <1>4 DEF CancelReturns, CancelRaises, VenueMoves, CancelAllOrders,
     Working, brokerVars
<1>5. CASE \E p \in Order : Arrives(p)
  BY <1>0, <1>5 DEF Arrives
<1>6. CASE \E i \in Instance : KillTasks(i)
  BY <1>6 DEF KillTasks
<1> QED BY <1>0, <1>2, <1>3, <1>4, <1>5, <1>6, BrokerStep

Unseen(o) == venue[o] = "none" /\ o \notin inflight

LEMMA UnseenStep ==
  ASSUME GatewayTypeOK, [Next]_vars, NEW o \in Order, Unseen(o), ~Sender(o)
  PROVE  Unseen(o)'
<1>1. ~Sent(o)
  BY SendStep
<1>2. venue'[o] = "none"
  BY <1>1, FirstOrder DEF Unseen
<1>3. o \notin inflight'
  BY <1>1 DEF Sent, Unseen
<1> QED BY <1>2, <1>3 DEF Unseen

(* Who records a letter. *)
LEMMA LetterStep ==
  ASSUME [Next]_vars, NEW o \in Order
  PROVE  /\ HasLetter(o) => HasLetter(o)'
         /\ HasLetter(o)' => \/ HasLetter(o)
                             \/ pc[o] \in {"dl_exhausted", "dl_partial", "dl_error"}
<1>1. CASE UNCHANGED letters
  BY <1>1 DEF HasLetter
<1>2. CASE \E p \in Order : RecordDeadLetter(p)
  BY <1>2 DEF RecordDeadLetter, RecordLetter, Record, RecordRaises, letterVars,
     HasLetter
<1>3. ASSUME NEW p \in Order, Execute(p)
      PROVE  UNCHANGED letters \/ RecordDeadLetter(p)
  BY <1>3 DEF Execute, DupCheck, HaltGate, Receive, KillGate, RiskGate, Submit,
     Exhausted, Ack, PollFill, Fill, Book, Trade, Partial, Timeout, Cancel,
     LogCancel, Error, Cleanup, letterVars
<1>4. CASE \E i \in Instance : BeginRecovery(i) \/ Recover(i)
  BY <1>1, <1>4 DEF Recover, BeginRecovery, RecoverOrders, ListLeases,
     ListLetters, EndRecovery, ListLostOrders, Serve, RecoverLease,
     MarkLostOrder, ReplayLetter, ResolveLetter, Resolve, letterVars
<1>5. CASE \/ \E p \in Order : Renew(p) \/ LeaseAges(p) \/ Market(p)
           \/ \E p \in Order, i \in Instance : Start(p, i)
           \/ \E i \in Instance : Crash(i) \/ Shutdown(i) \/ RunRaises(i)
           \/ Halt \/ Resume \/ UNCHANGED vars
  BY <1>1, <1>5 DEF Renew, LeaseAges, Market, Start, Crash, Shutdown, RunRaises,
     Halt, Resume, vars, letterVars
<1> QED BY <1>1, <1>2, <1>3, <1>4, <1>5, FailoverCases

LEMMA SenderOf ==
  ASSUME GatewayTypeOK, NEW o \in Order, Sender(o)
  PROVE  pc[o] = "submit" \/ HasLetter(o)
  BY DEF GatewayTypeOK, Sender, HasLetter, Reason

-----------------------------------------------------------------------------
(* No lost fill.                                                           *)

(* Alpaca or the simulator, while database and Redis answer. *)
Accountable == Adapter # "binance" /\ Faults \cap {"db", "log", "redis"} = {}

BeforeSubmit == {"idle", "gate", "risk"} \cup Unguarded

Settled(o) ==
  \/ HasLetter(o)
  \/ booked[o] = 1
  \/ InLog(o, "cancelled")
  \/ Unseen(o)

(* What a coroutine that goes on without a letter leaves behind. *)
Accounted(o) ==
  /\ pc[o] \in BeforeSubmit => Unseen(o) /\ ~HasLetter(o)
  /\ pc[o] = "trade" => booked[o] = 1
  /\ pc[o] \in {"cleanup", "ended"} => Settled(o)

AccountInv == Accountable /\ FillInv /\ \A o \in Order : Accounted(o)

(* A row of the log stays there. *)
LEMMA RowStays ==
  ASSUME GatewayTypeOK, [Next]_vars, NEW o \in Order, NEW s, InLog(o, s)
  PROVE  InLog(o, s)'
<1>1. CASE log'[o] = log[o]
  BY <1>1 DEF InLog
<1>2. CASE RowWritten(o)
  <2>1. PICK row \in OrderState : log'[o] = Append(log[o], row)
    BY <1>2 DEF RowWritten
  <2>2. log[o] \in Seq(OrderState)
    BY DEF GatewayTypeOK, TrackerTypeOK
  <2>3. PICK n \in 1..Len(log[o]) : log[o][n] = s
    BY DEF InLog
  <2>4. n \in 1..Len(log'[o]) /\ log'[o][n] = s
    BY <2>1, <2>2, <2>3
  <2> QED BY <2>4 DEF InLog
<1> QED BY <1>1, <1>2, LogStep

LEMMA SettledStep ==
  ASSUME FillInv, [Next]_vars, NEW o \in Order, Settled(o),
         pc[o] \in {"cleanup", "ended"}
  PROVE  Settled(o)'
<1>0. GatewayTypeOK /\ SimulatorFills
  BY DEF FillInv
<1>1. CASE HasLetter(o)
  BY <1>1, LetterStep DEF Settled
<1>2. CASE booked[o] = 1
  <2>1. booked'[o] = booked[o]
    BY <1>0, BookingStep DEF GatewayTypeOK
  <2> QED BY <1>2, <2>1 DEF Settled
<1>3. CASE InLog(o, "cancelled")
  BY <1>0, <1>3, RowStays DEF Settled
<1>4. CASE Unseen(o) /\ ~HasLetter(o)
  BY <1>0, <1>4, UnseenStep, SenderOf DEF Settled
<1> QED BY <1>1, <1>2, <1>3, <1>4 DEF Settled

(* The own steps of a coroutine that settle its order. *)
LEMMA ExecuteSettles ==
  ASSUME AccountInv, NEW o \in Order, Execute(o)
  PROVE  \/ pc'[o] \in BeforeSubmit \ {"idle"} /\ pc[o] \in BeforeSubmit
         \/ pc'[o] \in {"cleanup", "ended"} /\ pc[o] \in BeforeSubmit
         \/ pc'[o] = "trade" /\ booked'[o] = 1
         \/ pc'[o] = "cleanup" /\ HasLetter(o)'
         \/ pc'[o] = "cleanup" /\ InLog(o, "cancelled")'
         \/ pc'[o] = "cleanup" /\ pc[o] = "trade"
         \/ pc'[o] = "ended" /\ pc[o] = "cleanup"
         \/ pc'[o] \notin BeforeSubmit \cup {"trade", "cleanup", "ended"}
<1>0. /\ Accountable /\ pc \in [Order -> Point] /\ booked \in [Order -> Nat]
      /\ venue \in [Order -> VenueState] /\ UnbookedBefore /\ SimulatorFills
      /\ PointTellsVenue
  BY DEF AccountInv, FillInv, GatewayTypeOK, BrokerTypeOK
<1>1. ASSUME NEW row, NEW to, NEW onRaise, Log(o, row, to, onRaise)
      PROVE  pc'[o] = to
  BY <1>0, <1>1 DEF Log, Goto, TransitionRaises, Accountable
<1>2. CASE DupCheck(o) \/ HaltGate(o)
  BY <1>0, <1>1, <1>2 DEF DupCheck, HaltGate, Goto, Accountable, BeforeSubmit,
     Unguarded
<1>3. CASE Receive(o) \/ KillGate(o)
  BY <1>0, <1>1, <1>3 DEF Receive, KillGate, Goto, Accountable, BeforeSubmit,
     Unguarded
<1>4. CASE RiskGate(o)
  BY <1>0, <1>1, <1>4 DEF RiskGate, BeforeSubmit, Unguarded
<1>5. CASE Submit(o) \/ PollFill(o)
  BY <1>0, <1>5 DEF Submit, PollFill, Goto, BeforeSubmit, Unguarded
<1>6. CASE Exhausted(o) \/ Ack(o) \/ Fill(o)
  BY <1>0, <1>1, <1>6 DEF Exhausted, Ack, Fill, BeforeSubmit, Unguarded
<1>7. CASE Book(o)
  <2>1. pc[o] = "book" => booked[o] = 0
    BY <1>0 DEF UnbookedBefore, MayBeBooked
  <2> QED BY <1>0, <1>7, <2>1 DEF Book, Goto, BeforeSubmit, Unguarded
<1>8. CASE Trade(o)
  BY <1>0, <1>8 DEF Trade, Goto, Accountable
<1>9. CASE Partial(o) \/ Timeout(o) \/ Error(o)
  BY <1>0, <1>1, <1>9 DEF Partial, Timeout, Error, BeforeSubmit, Unguarded
<1>13. CASE LogCancel(o)
  <2>1. log[o] \in Seq(OrderState) /\ log'[o] = Append(log[o], "cancelled")
    BY <1>0, <1>13 DEF LogCancel, Log, Transition, TransitionRaises,
       WriteExecutionLog, Accountable, AccountInv, FillInv, GatewayTypeOK,
       TrackerTypeOK
  <2>2. /\ Len(log[o]) + 1 \in 1..Len(log'[o])
        /\ log'[o][Len(log[o]) + 1] = "cancelled"
    BY <2>1
  <2> QED BY <1>1, <1>13, <2>2 DEF LogCancel, InLog
<1>10. CASE Cancel(o)
  BY <1>0, <1>10 DEF Cancel, Goto, BeforeSubmit, Unguarded
<1>11. CASE RecordDeadLetter(o)
  <2>1. ASSUME NEW from, NEW reason \in Reason, NEW onRaise,
               RecordLetter(o, from, reason, onRaise)
        PROVE  pc'[o] = "cleanup" /\ HasLetter(o)'
    BY <1>0, <2>1 DEF RecordLetter, Record, RecordRaises, Accountable, Goto,
       HasLetter
  <2> QED BY <1>11, <2>1 DEF RecordDeadLetter, Reason
<1>12. CASE Cleanup(o)
  BY <1>0, <1>12 DEF Cleanup, Goto
<1> QED BY <1>2, <1>3, <1>4, <1>5, <1>6, <1>7, <1>8, <1>9, <1>10, <1>11,
           <1>12, <1>13 DEF Execute

LEMMA BeforeStep ==
  ASSUME AccountInv, [Next]_vars, NEW o \in Order, pc[o] \in BeforeSubmit
  PROVE  Unseen(o)' /\ ~HasLetter(o)'
<1>0. GatewayTypeOK /\ Unseen(o) /\ ~HasLetter(o)
  BY DEF AccountInv, FillInv, Accounted
<1>1. pc[o] \notin {"submit", "dl_exhausted", "dl_partial", "dl_error"}
  BY DEF BeforeSubmit, Unguarded
<1> QED BY <1>0, <1>1, UnseenStep, SenderOf, LetterStep

(* Only its own steps, its start and its end move a coroutine. *)
LEMMA TaskStep ==
  ASSUME GatewayTypeOK, [Next]_vars, NEW o \in Order
  PROVE  \/ pc'[o] = pc[o] \/ Execute(o) \/ pc'[o] = "killed"
         \/ pc[o] = "idle" /\ pc'[o] = "dup"
<1>1. CASE \E p \in Order : Execute(p)
  BY <1>1, ExecuteOwn
<1>2. CASE \E i \in Instance : BeginRecovery(i) \/ Recover(i)
  BY <1>2, RecoverKeepsTasks DEF taskVars
<1>3. CASE \E p \in Order, i \in Instance : Start(p, i)
  BY <1>3 DEF Start, GatewayTypeOK
<1>4. CASE \E i \in Instance : Crash(i) \/ Shutdown(i)
  BY <1>4 DEF Crash, Shutdown, KillTasks
<1>5. CASE \/ \E p \in Order : Renew(p) \/ LeaseAges(p) \/ Market(p)
           \/ \E i \in Instance : RunRaises(i)
           \/ Halt \/ Resume \/ UNCHANGED vars
  BY <1>5 DEF Renew, LeaseAges, Market, RunRaises, Halt, Resume, vars,
     taskVars
<1> QED BY <1>1, <1>2, <1>3, <1>4, <1>5 DEF Next

LEMMA NextAccount == AccountInv /\ [Next]_vars => AccountInv'
<1> SUFFICES ASSUME AccountInv, [Next]_vars PROVE AccountInv'
  OBVIOUS
<1>0. /\ Accountable /\ FillInv /\ FillInv' /\ GatewayTypeOK /\ SimulatorFills
      /\ pc \in [Order -> Point]
  BY NextFill DEF AccountInv, FillInv, GatewayTypeOK
<1> SUFFICES ASSUME NEW o \in Order PROVE Accounted(o)'
  BY <1>0 DEF AccountInv, Accountable
<1>1. Accounted(o)
  BY DEF AccountInv
<1>2. pc[o] \in BeforeSubmit => Unseen(o)' /\ ~HasLetter(o)'
  BY BeforeStep
<1>3. booked[o] = 1 => booked'[o] = 1 \/ pc[o] = "book"
  BY <1>0, BookingStep DEF GatewayTypeOK
<1>5. pc[o] \in {"cleanup", "ended"} => Settled(o)'
  BY <1>0, <1>1, SettledStep DEF Accounted
<1>6. CASE pc'[o] = pc[o]
  BY <1>1, <1>2, <1>3, <1>5, <1>6 DEF Accounted
<1>7. CASE Execute(o)
  <2>1. \/ pc'[o] \in BeforeSubmit \ {"idle"} /\ pc[o] \in BeforeSubmit
        \/ pc'[o] \in {"cleanup", "ended"} /\ pc[o] \in BeforeSubmit
        \/ pc'[o] = "trade" /\ booked'[o] = 1
        \/ pc'[o] = "cleanup" /\ HasLetter(o)'
        \/ pc'[o] = "cleanup" /\ InLog(o, "cancelled")'
        \/ pc'[o] = "cleanup" /\ pc[o] = "trade"
        \/ pc'[o] = "ended" /\ pc[o] = "cleanup"
        \/ pc'[o] \notin BeforeSubmit \cup {"trade", "cleanup", "ended"}
    BY <1>7, ExecuteSettles
  <2> QED BY <1>1, <1>2, <1>3, <1>5, <2>1
          DEF Accounted, Settled, BeforeSubmit, Unguarded
<1>8. \/ pc'[o] = pc[o] \/ Execute(o) \/ pc'[o] = "killed"
      \/ pc[o] = "idle" /\ pc'[o] = "dup"
  BY <1>0, TaskStep
<1>9. CASE pc'[o] = "killed" \/ (pc[o] = "idle" /\ pc'[o] = "dup")
  BY <1>2, <1>9 DEF Accounted, BeforeSubmit, Unguarded
<1> QED BY <1>6, <1>7, <1>8, <1>9

(***************************************************************************)
(* Money: for Alpaca and the simulator, while database and Redis answer,   *)
(* the cancel whose outcome nobody looks at (lines 806-813) is the only    *)
(* place where execute() loses a fill: however retries, the time limit,    *)
(* raising cancels and refused bookings cross it, an order that was filled *)
(* when execute() has returned is booked, has a dead letter, or is the one *)
(* the log calls CANCELLED.                                                *)
(***************************************************************************)
THEOREM NoFillIsLost == Accountable /\ Spec => []FillAccounted
<1>1. Accountable /\ Init => AccountInv
  <2> SUFFICES ASSUME Accountable, Init PROVE AccountInv
    OBVIOUS
  <2>1. ASSUME NEW o \in Order PROVE Accounted(o)
    BY DEF Init, BrokerInit, LetterInit, Accounted, Unseen, HasLetter
  <2> QED BY <2>1, InitFill DEF AccountInv
<1>2. AccountInv => FillAccounted
  BY DEF AccountInv, Accounted, Settled, Unseen, FillAccounted
<1> QED BY <1>1, <1>2, NextAccount, PTL DEF Spec

-----------------------------------------------------------------------------
(* Approval.                                                               *)

(* While database and Redis answer, also for the rows of execution_log. *)
Approving == Faults \cap {"db", "log", "redis"} = {}

Approved(o) == InLog(o, "risk_approved")

(* A coroutine past the risk check, a letter, a request and an order at    *)
(* the broker all come after the approval.                                 *)
ApprovedFirst(o) ==
  /\ pc[o] \notin BeforeSubmit \cup {"cleanup", "ended", "killed"} => Approved(o)
  /\ HasLetter(o) => Approved(o)
  /\ o \in inflight => Approved(o)
  /\ accepted[o] > 0 => Approved(o)

ApprovalInv ==
  Approving /\ GatewayTypeOK /\ \A o \in Order : ApprovedFirst(o)

LEMMA NextApproved ==
  ASSUME GatewayTypeOK, [Next]_vars, NEW o \in Order, Approved(o)
  PROVE  Approved(o)'
  BY RowStays DEF Approved

LEMMA ExecuteApproves ==
  ASSUME ApprovalInv, NEW o \in Order, Execute(o)
  PROVE  \/ pc'[o] \in BeforeSubmit \cup {"cleanup", "ended", "killed"}
         \/ pc[o] \notin BeforeSubmit \cup {"cleanup", "ended", "killed"}
         \/ Approved(o)'
<1>0. /\ Approving /\ pc \in [Order -> Point]
      /\ log \in [Order -> Seq(OrderState)]
  BY DEF ApprovalInv, GatewayTypeOK, TrackerTypeOK
<1>1. ASSUME NEW row, NEW to, NEW onRaise, Log(o, row, to, onRaise)
      PROVE  pc'[o] = to /\ log'[o] = Append(log[o], row)
  BY <1>0, <1>1 DEF Log, Goto, Transition, TransitionRaises, WriteExecutionLog,
     Approving
<1>2. CASE DupCheck(o) \/ HaltGate(o)
  BY <1>0, <1>1, <1>2 DEF DupCheck, HaltGate, Goto, Approving, BeforeSubmit,
     Unguarded
<1>3. CASE Receive(o) \/ KillGate(o)
  BY <1>0, <1>1, <1>3 DEF Receive, KillGate, Goto, Approving, BeforeSubmit,
     Unguarded
<1>4. CASE RiskGate(o)
  <2>1. CASE Log(o, "risk_rejected", "cleanup", "error")
    BY <1>1, <2>1
  <2>2. CASE Log(o, "risk_approved", "submit", "error")
    <3>1. log'[o] = Append(log[o], "risk_approved")
      BY <1>1, <2>2
    <3>2. Len(log[o]) + 1 \in 1..Len(log'[o])
          /\ log'[o][Len(log[o]) + 1] = "risk_approved"
      <4>1. log[o] \in Seq(OrderState) /\ "risk_approved" \in OrderState
        BY <1>0 DEF OrderState
      <4> QED BY <3>1, <4>1
    <3> QED BY <3>2 DEF Approved, InLog
  <2> QED BY <1>4, <2>1, <2>2 DEF RiskGate
<1>5. CASE Cleanup(o)
  BY <1>0, <1>5 DEF Cleanup, Goto
<1>6. CASE \/ Submit(o) \/ Exhausted(o) \/ Ack(o) \/ PollFill(o) \/ Fill(o)
           \/ Book(o) \/ Trade(o) \/ Partial(o) \/ Timeout(o) \/ Cancel(o)
           \/ LogCancel(o) \/ Error(o) \/ RecordDeadLetter(o)
  BY <1>6 DEF Submit, Exhausted, Ack, PollFill, Fill, Book, Trade, Partial,
     Timeout, Cancel, LogCancel, Error, RecordDeadLetter, RecordLetter,
     BeforeSubmit, Unguarded
<1> QED BY <1>2, <1>3, <1>4, <1>5, <1>6 DEF Execute

LEMMA NextApproval == ApprovalInv /\ [Next]_vars => ApprovalInv'
<1> SUFFICES ASSUME ApprovalInv, [Next]_vars PROVE ApprovalInv'
  OBVIOUS
<1>0. /\ Approving /\ GatewayTypeOK /\ GatewayTypeOK'
      /\ pc \in [Order -> Point] /\ accepted \in [Order -> Nat]
  BY NextType DEF ApprovalInv, GatewayTypeOK, BrokerTypeOK
<1> SUFFICES ASSUME NEW o \in Order PROVE ApprovedFirst(o)'
  BY <1>0 DEF ApprovalInv, Approving
<1>1. ApprovedFirst(o)
  BY DEF ApprovalInv
<1>2. Approved(o) => Approved(o)'
  BY <1>0, NextApproved
<1>3. Sender(o) => Approved(o)
  BY <1>0, <1>1, SenderOf DEF ApprovedFirst, BeforeSubmit, Unguarded
<1>4. Sent(o) => Approved(o)
  BY <1>0, <1>3, SendStep
<1>5. o \in inflight' => Approved(o)
  BY <1>1, <1>4 DEF Sent, ApprovedFirst
<1>6. accepted'[o] > 0 => Approved(o)
  BY <1>0, <1>1, <1>4 DEF Sent, ApprovedFirst
<1>7. HasLetter(o)' => Approved(o)
  BY <1>1, LetterStep DEF ApprovedFirst, BeforeSubmit, Unguarded
<1>8. pc'[o] \notin BeforeSubmit \cup {"cleanup", "ended", "killed"}
        => Approved(o)'
  <2>1. CASE pc'[o] = pc[o]
    BY <1>1, <1>2, <2>1 DEF ApprovedFirst
  <2>2. CASE Execute(o)
    BY <1>1, <1>2, <2>2, ExecuteApproves DEF ApprovedFirst
  <2>3. \/ pc'[o] = pc[o] \/ Execute(o) \/ pc'[o] \in {"dup", "killed"}
    BY <1>0, TaskStep
  <2> QED BY <2>1, <2>2, <2>3 DEF BeforeSubmit, Unguarded
<1> QED BY <1>2, <1>5, <1>6, <1>7, <1>8 DEF ApprovedFirst

(***************************************************************************)
(* Risk: while database and Redis answer, every order the broker holds,    *)
(* sent by a coroutine, arrived late or replayed, was approved before      *)
(* (the unapproved replay of the finding needs a failing database).        *)
(***************************************************************************)
THEOREM OrdersAreApproved == Approving /\ Spec => []OnlyApprovedOrders
<1>1. Approving /\ Init => ApprovalInv
  <2> SUFFICES ASSUME Approving, Init PROVE ApprovalInv
    OBVIOUS
  <2>1. ASSUME NEW o \in Order PROVE ApprovedFirst(o)
    <3>1. accepted[o] = 0 /\ o \notin inflight /\ ~HasLetter(o) /\ pc[o] = "idle"
      BY DEF Init, BrokerInit, LetterInit, HasLetter
    <3> QED BY <3>1 DEF ApprovedFirst, BeforeSubmit
  <2> QED BY <2>1, InitType DEF ApprovalInv
<1>2. ApprovalInv => OnlyApprovedOrders
  BY DEF ApprovalInv, ApprovedFirst, Approved, OnlyApprovedOrders
<1> QED BY <1>1, <1>2, NextApproval, PTL DEF Spec

-----------------------------------------------------------------------------
(***************************************************************************)
(* Second executions.  The simulator knows no client_order_id, and yet     *)
(* only a dead letter can send it an order that was sent before.           *)
(***************************************************************************)
SecondExecutionIsAReplay ==
  \A o \in Order : accepted[o] > 1 => HasLetter(o)

NotSentYet == BeforeSubmit \cup {"submit"}

OnceUntilLetter(o) ==
  HasLetter(o) \/ accepted[o] <= IF pc[o] \in NotSentYet THEN 0 ELSE 1

OnceInv == ~Remote /\ FillInv /\ \A o \in Order : OnceUntilLetter(o)

(* Without a letter, only its own submission makes a simulator's order. *)
LEMMA SimulatorAccepts ==
  ASSUME GatewayTypeOK, SimulatorFills, ~Remote, [Next]_vars, NEW o \in Order,
         accepted'[o] # accepted[o], ~HasLetter(o)
  PROVE  pc[o] = "submit" /\ pc'[o] = "ack"
<1>0. /\ accepted \in [Order -> Nat] /\ pc \in [Order -> Point]
      /\ ~UNCHANGED brokerVars
  BY DEF GatewayTypeOK, BrokerTypeOK, brokerVars
<1>9. Sent(o)
  BY DEF Sent, SimulatorFills
<1>1. CASE \E p \in Order : Submit(p)
  <2>1. PICK p \in Order : Submit(p)
    BY <1>1
  <2>2. o = p
    BY <1>9, <2>1, RequestSends DEF Submit
  <2>3. ~SubmitRaises(o)
    BY DEF SubmitRaises
  <2> QED BY <1>0, <2>1, <2>2, <2>3 DEF Submit
<1>2. CASE \/ \E p \in Order : CancelReturns(p) \/ CancelRaises(p) \/ VenueMoves(p)
           \/ CancelAllOrders \/ \E i \in Instance : KillTasks(i)
  BY <1>0, <1>2 DEF CancelReturns, CancelRaises, VenueMoves, CancelAllOrders,
     KillTasks, brokerVars
<1>3. CASE \E p \in Order : Arrives(p)
  BY <1>3 DEF Arrives, SimulatorFills
<1>4. CASE \E i \in Instance, l \in Letter : ReplayLetter(i, l)
  <2>1. PICK i \in Instance, l \in Letter : ReplayLetter(i, l)
    BY <1>4
  <2>2. /\ l[1] \in Order /\ l \in letters /\ l[2] \in Reason
        /\ l = <<l[1], l[2]>>
    BY <2>1 DEF Letter, ReplayLetter, GatewayTypeOK
  <2>3. SubmitReturns(l[1]) \/ SubmitRaises(l[1])
    BY <1>0, <2>1 DEF ReplayLetter
  <2>4. o = l[1]
    BY <1>9, <2>2, <2>3, RequestSends
  <2> QED BY <2>2, <2>4 DEF HasLetter
<1> QED BY <1>0, <1>1, <1>2, <1>3, <1>4, BrokerStep

(* No coroutine comes back to a point before its submission. *)
LEMMA NoWayBack ==
  ASSUME GatewayTypeOK, NEW o \in Order, Execute(o), pc[o] \notin NotSentYet
  PROVE  pc'[o] \notin NotSentYet
<1>0. pc \in [Order -> Point]
  BY DEF GatewayTypeOK
<1>1. ASSUME NEW row, NEW to, NEW onRaise, Log(o, row, to, onRaise)
      PROVE  pc'[o] \in {to, onRaise}
  BY <1>0, <1>1 DEF Log, Goto
<1>2. CASE \/ DupCheck(o) \/ HaltGate(o) \/ Receive(o) \/ KillGate(o)
           \/ RiskGate(o) \/ Submit(o)
  BY <1>2 DEF DupCheck, HaltGate, Receive, KillGate, RiskGate, Submit,
     NotSentYet, BeforeSubmit, Unguarded
<1>3. CASE \/ Exhausted(o) \/ Ack(o) \/ Fill(o) \/ Partial(o) \/ Timeout(o)
           \/ LogCancel(o) \/ Error(o)
  BY <1>1, <1>3 DEF Exhausted, Ack, Fill, Partial, Timeout, LogCancel, Error,
     NotSentYet, BeforeSubmit, Unguarded
<1>4. CASE \/ PollFill(o) \/ Book(o) \/ Trade(o) \/ Cancel(o)
           \/ RecordDeadLetter(o) \/ Cleanup(o)
  BY <1>0, <1>4 DEF PollFill, Book, Trade, Cancel, RecordDeadLetter,
     RecordLetter, Cleanup, Goto, NotSentYet, BeforeSubmit, Unguarded
<1> QED BY <1>2, <1>3, <1>4 DEF Execute

LEMMA NextOnce == OnceInv /\ [Next]_vars => OnceInv'
<1> SUFFICES ASSUME OnceInv, [Next]_vars PROVE OnceInv'
  OBVIOUS
<1>0. /\ ~Remote /\ FillInv /\ FillInv' /\ GatewayTypeOK /\ SimulatorFills
      /\ accepted \in [Order -> Nat] /\ pc \in [Order -> Point]
  BY NextFill DEF OnceInv, FillInv, GatewayTypeOK, BrokerTypeOK
<1> SUFFICES ASSUME NEW o \in Order PROVE OnceUntilLetter(o)'
  BY <1>0 DEF OnceInv, Remote
<1>1. OnceUntilLetter(o)
  BY DEF OnceInv
<1>2. accepted'[o] \in {accepted[o], accepted[o] + 1}
  BY <1>0, VenueStep DEF BrokerMoves
<1> SUFFICES ASSUME ~HasLetter(o)'
             PROVE  accepted'[o] <= IF pc'[o] \in NotSentYet THEN 0 ELSE 1
  BY <1>1 DEF OnceUntilLetter
<1>3. ~HasLetter(o) /\ accepted[o] <= IF pc[o] \in NotSentYet THEN 0 ELSE 1
  BY <1>1, LetterStep DEF OnceUntilLetter
<1>4. CASE accepted'[o] = accepted[o]
  <2>1. pc'[o] \in NotSentYet => pc[o] \in NotSentYet
    BY <1>0, TaskStep, NoWayBack DEF NotSentYet, BeforeSubmit, Unguarded
  <2> QED BY <1>0, <1>3, <1>4, <2>1
<1>5. CASE accepted'[o] # accepted[o]
  <2>1. pc[o] = "submit" /\ pc'[o] = "ack"
    BY <1>0, <1>3, <1>5, SimulatorAccepts
  <2>2. "submit" \in NotSentYet /\ "ack" \notin NotSentYet
    BY DEF NotSentYet, BeforeSubmit, Unguarded
  <2> QED BY <1>0, <1>2, <1>3, <1>5, <2>1, <2>2
<1> QED BY <1>4, <1>5

(***************************************************************************)
(* What is true of dead_letter.py 119 at the simulator, which takes every  *)
(* request for a new order: whatever fails, races or restarts, an order    *)
(* that was executed twice has a dead letter, so a replay executed it the  *)
(* second time (never a retry of execute, a failover or another gateway).  *)
(***************************************************************************)
THEOREM SecondExecutionsAreReplays ==
  ~Remote /\ Spec => []SecondExecutionIsAReplay
<1>1. ~Remote /\ Init => OnceInv
  <2> SUFFICES ASSUME ~Remote, Init PROVE OnceInv
    OBVIOUS
  <2>1. ASSUME NEW o \in Order PROVE OnceUntilLetter(o)
    BY DEF Init, BrokerInit, OnceUntilLetter
  <2> QED BY <2>1, InitFill DEF OnceInv
<1>2. OnceInv => SecondExecutionIsAReplay
  BY DEF OnceInv, FillInv, GatewayTypeOK, BrokerTypeOK, OnceUntilLetter,
     SecondExecutionIsAReplay
<1> QED BY <1>1, <1>2, NextOnce, PTL DEF Spec

-----------------------------------------------------------------------------
(* What is true of the recovery lock.                                      *)

(* While Redis answers, run() does not leave its coroutines behind. *)
Orderly == "redis" \notin Faults

(* A coroutine lives only while its gateway serves signals. *)
RunnersServe ==
  \A o \in Order :
    Alive(o) => runner[o] \in Instance /\ proc[runner[o]] = "serving"

ServeInv == Orderly /\ GatewayTypeOK /\ RunnersServe

LEMMA ExecuteLives ==
  ASSUME GatewayTypeOK, NEW p \in Order, Execute(p)
  PROVE  Alive(p) /\ runner' = runner
<1>1. pc[p] \notin {"idle", "ended", "killed"} /\ runner' = runner
  BY DEF Execute, DupCheck, HaltGate, Receive, KillGate, RiskGate, Submit,
     Exhausted, Ack, PollFill, Fill, Book, Trade, Partial, Timeout, Cancel,
     LogCancel, Error, RecordDeadLetter, RecordLetter, Cleanup, Log, Goto
<1> QED BY <1>1 DEF GatewayTypeOK, Alive, Point

(* Recovery stops nobody's service. *)
LEMMA ServingStays ==
  ASSUME GatewayTypeOK, NEW i \in Instance, BeginRecovery(i) \/ Recover(i),
         NEW j \in Instance, proc[j] = "serving"
  PROVE  proc'[j] = "serving"
<1>0. proc \in [Instance -> Stage]
  BY DEF GatewayTypeOK
<1> USE DEF Advance
<1>1. CASE \/ BeginRecovery(i) \/ RecoverOrders(i) \/ ListLeases(i)
           \/ ListLetters(i) \/ EndRecovery(i) \/ ListLostOrders(i) \/ Serve(i)
  BY <1>0, <1>1 DEF BeginRecovery, RecoverOrders, ListLeases, ListLetters,
     EndRecovery, ListLostOrders, Serve, RecoveryFails
<1>2. CASE \E o \in Order : RecoverLease(i, o) \/ MarkLostOrder(i, o)
  BY <1>2 DEF RecoverLease, MarkLostOrder
<1>3. CASE \E l \in Letter : ReplayLetter(i, l) \/ ResolveLetter(i, l)
  BY <1>0, <1>3 DEF ReplayLetter, ResolveLetter, RecoveryFails
<1> QED BY <1>1, <1>2, <1>3 DEF Recover

LEMMA NextServe == ServeInv /\ [Next]_vars => ServeInv'
<1> SUFFICES ASSUME ServeInv, [Next]_vars PROVE ServeInv'
  OBVIOUS
<1>0. /\ Orderly /\ GatewayTypeOK /\ GatewayTypeOK' /\ RunnersServe
      /\ pc \in [Order -> Point] /\ proc \in [Instance -> Stage]
      /\ runner \in [Order -> Instance \cup {Nobody}]
  BY NextType DEF ServeInv, GatewayTypeOK
<1>1. ASSUME NEW p \in Order, Execute(p) PROVE RunnersServe'
  <2>1. proc' = proc /\ runner' = runner /\ Alive(p)
    BY <1>0, <1>1, ExecuteKeeps, ExecuteLives
  <2>2. \A o \in Order : Alive(o)' => Alive(o)
    BY <1>0, <1>1, <2>1, ExecuteOwn DEF Alive
  <2> QED BY <1>0, <2>1, <2>2 DEF RunnersServe
<1>2. ASSUME NEW i \in Instance, BeginRecovery(i) \/ Recover(i)
      PROVE  RunnersServe'
  BY <1>0, <1>2, RecoverKeepsTasks, ServingStays
  DEF RunnersServe, Alive, taskVars
<1>3. ASSUME \/ \E p \in Order : Renew(p) \/ LeaseAges(p) \/ Market(p)
             \/ Halt \/ Resume \/ UNCHANGED vars
      PROVE  RunnersServe'
  <2>1. UNCHANGED <<pc, runner, proc>>
    BY <1>3 DEF Renew, LeaseAges, Market, Halt, Resume, vars, taskVars, procVars
  <2> QED BY <1>0, <2>1 DEF RunnersServe, Alive
<1>4. ASSUME NEW p \in Order, NEW i \in Instance, Start(p, i)
      PROVE  RunnersServe'
  <2>1. /\ proc' = proc /\ proc[i] = "serving"
        /\ runner' = [runner EXCEPT ![p] = i] /\ pc' = [pc EXCEPT ![p] = "dup"]
    BY <1>4 DEF Start, procVars
  <2> QED BY <1>0, <2>1 DEF RunnersServe, Alive
<1>5. ASSUME NEW i \in Instance, Crash(i) \/ Shutdown(i) \/ RunRaises(i)
      PROVE  RunnersServe'
  <2>1. /\ KillTasks(i) /\ proc' = [proc EXCEPT ![i] = "down"]
    BY <1>0, <1>5 DEF Crash, Shutdown, RunRaises, StopRun, Advance, Orderly
  <2>2. /\ runner' = runner
        /\ \A o \in Order : pc'[o] = IF o \in Tasks(i) THEN "killed" ELSE pc[o]
    BY <2>1 DEF KillTasks
  <2>3. ASSUME NEW o \in Order, Alive(o)'
        PROVE  runner[o] \in Instance /\ proc'[runner[o]] = "serving"
    <3>1. o \notin Tasks(i)
      BY <2>2, <2>3 DEF Alive, Unguarded, Guarded
    <3>2. Alive(o) /\ runner[o] # i
      BY <2>2, <2>3, <3>1 DEF Tasks, Alive
    <3> QED BY <1>0, <2>1, <3>2 DEF RunnersServe
  <2> QED BY <2>2, <2>3 DEF RunnersServe
<1>6. RunnersServe'
  BY <1>1, <1>2, <1>3, <1>4, <1>5, FailoverCases
<1> QED BY <1>0, <1>6 DEF ServeInv, Orderly

(***************************************************************************)
(* recovery_manager.py 65 says "locally, and via redis globally".  The     *)
(* first half holds although nothing reads the lock, as a gateway leaves   *)
(* its signal loop, and its coroutines, before it reconciles: a gateway    *)
(* that is alone sends no new order meanwhile, as long as Redis answers.   *)
(***************************************************************************)
THEOREM LoneRecoveryBlocks ==
  Orderly /\ (\A i, j \in Instance : i = j) /\ Spec => RecoveryBlocksExecution
<1> DEFINE Alone == \A i, j \in Instance : i = j
<1>1. Orderly /\ Init => ServeInv
  BY InitType DEF Init, ServeInv, RunnersServe, Alive, Unguarded, Guarded
<1>2. Alone /\ ServeInv /\ [Next]_vars =>
        [(\E i \in Instance : proc[i] \in Reconciling) =>
           \A o \in Order : pc[o] = "submit" => accepted'[o] = accepted[o]]_vars
  <2> SUFFICES ASSUME Alone, ServeInv, NEW i \in Instance,
                      proc[i] \in Reconciling, NEW o \in Order, pc[o] = "submit"
               PROVE  FALSE
    OBVIOUS
  <2>1. runner[o] = i /\ proc[i] = "serving"
    BY DEF ServeInv, RunnersServe, Alive, Guarded
  <2> QED BY <2>1 DEF Reconciling
<1>3. Alone /\ ServeInv /\ [Next]_vars => Alone' /\ ServeInv'
  BY NextServe
<1> QED BY <1>1, <1>2, <1>3, PTL DEF Spec, RecoveryBlocksExecution

=============================================================================
