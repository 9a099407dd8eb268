------------------------ MODULE ExecutionGateway_fills ----------------------
(***************************************************************************)
(* Proofs about fills and bookings: positions exist only for filled        *)
(* orders, the log speaks the truth about the venue, and the gateway       *)
(* implements FillBooking.                                                 *)
(***************************************************************************)
EXTENDS ExecutionGateway_proofs

-----------------------------------------------------------------------------
(* The inductive invariant.                                                *)

(* The points after a submission that returned an order. *)
Placed == { "ack", "poll", "fill", "book", "trade", "partial", "dl_partial",
            "timeout", "cancel", "log_cancel" }

(* The points a coroutine is at, or passes to, when its order was filled. *)
Filled == {"fill", "book", "trade"}

(* The points from which a coroutine may have a booking behind it. *)
MayBeBooked == {"trade", "error", "dl_error", "cleanup", "ended", "killed"}

SimulatorFills ==
  \A o \in Order :
    ~Remote => venue[o] \in {"none", "filled"} /\ o \notin inflight

PointTellsVenue ==
  \A o \in Order :
    /\ pc[o] \in Placed => venue[o] # "none"
    /\ pc[o] \in Filled => venue[o] = "filled"
    /\ pc[o] = "partial" => Executed(o) \/ accepted[o] > 1
    /\ venue[o] # "none" => accepted[o] > 0

UnbookedBefore ==
  \A o \in Order : pc[o] \notin MayBeBooked => booked[o] = 0

(* Binance never shows a filled order, so nothing is booked there. *)
BinanceBooksNothing ==
  Adapter = "binance" =>
    \A o \in Order :
      pc[o] \notin Filled /\ booked[o] = 0 /\ ~InLog(o, "filled")

FillInv ==
  /\ GatewayTypeOK
  /\ SimulatorFills
  /\ PointTellsVenue
  /\ UnbookedBefore
  /\ BinanceBooksNothing
  /\ NoPhantomPosition
  /\ LogTruthful

-----------------------------------------------------------------------------
(* What one step does to the venue.                                        *)

Moves(v) ==
  CASE v = "none"    -> {IF Adapter = "simulator" THEN "filled" ELSE "open"}
    [] v = "open"    -> {"partial", "filled", "cancelled"}
    [] v = "partial" -> {"filled", "cut"}
    [] OTHER         -> {}

(* Binance makes an order under the id of one that has ended. *)
Again(o) ==
  /\ Adapter = "binance"
  /\ venue[o] \in {"filled", "cancelled", "cut"}
  /\ venue'[o] = "open"
  /\ accepted'[o] = accepted[o] + 1

(* One step of the venue for an order; the simulator leaves no request. *)
BrokerMoves(o) ==
  /\ venue'[o] = venue[o] \/ venue'[o] \in Moves(venue[o]) \/ Again(o)
  /\ accepted'[o] \in {accepted[o], accepted[o] + 1}
  /\ venue[o] = "none" /\ venue'[o] # "none" => accepted'[o] = accepted[o] + 1
  /\ o \in inflight' => o \in inflight \/ Adapter # "simulator"

LEMMA SubmitMoves ==
  ASSUME GatewayTypeOK, SimulatorFills, NEW p \in Order, NEW o \in Order,
         SubmitReturns(p) \/ SubmitRaises(p)
  PROVE  BrokerMoves(o)
<1> USE AdapterAssumption DEF GatewayTypeOK, BrokerTypeOK, BrokerMoves
<1>1. CASE UNCHANGED <<venue, accepted>>
  BY <1>1 DEF SubmitReturns, SubmitRaises, NewBrokerOrder, brokerVars, Remote
<1>2. CASE NewBrokerOrder(p) /\ o # p
  BY <1>2 DEF NewBrokerOrder
<1>3. CASE NewBrokerOrder(p) /\ o = p
  <2>1. /\ venue'[o] = IF Remote THEN "open" ELSE "filled"
        /\ accepted'[o] = accepted[o] + 1
        /\ inflight' = inflight
        /\ ~IdTaken(o)
    BY <1>3 DEF NewBrokerOrder
  <2>2. CASE Adapter = "simulator"
    BY <2>1, <2>2 DEF SimulatorFills, Remote, Moves
  <2>3. CASE Adapter = "alpaca"
    BY <2>1, <2>3 DEF IdTaken, Remote, Moves
  <2>4. CASE Adapter = "binance"
    <3>1. venue[o] = "none" \/ venue[o] \in {"filled", "cancelled", "cut"}
      BY <2>1, <2>4 DEF IdTaken, Working, VenueState
    <3> QED BY <2>1, <2>4, <3>1 DEF Remote, Moves, Again
  <2> QED BY <2>2, <2>3, <2>4
<1> QED BY <1>1, <1>2, <1>3 DEF SubmitReturns, SubmitRaises, brokerVars

LEMMA CancelMoves ==
  ASSUME GatewayTypeOK, NEW p \in Order, NEW o \in Order,
         CancelReturns(p) \/ CancelRaises(p) \/ VenueMoves(p)
  PROVE  BrokerMoves(o)
  BY DEF GatewayTypeOK, BrokerTypeOK, CancelReturns, CancelRaises,
         VenueMoves, Cancelled, Working, brokerVars, Moves, VenueState,
         BrokerMoves

LEMMA ArrivesMoves ==
  ASSUME GatewayTypeOK, SimulatorFills, NEW p \in Order, NEW o \in Order,
         Arrives(p)
  PROVE  BrokerMoves(o)
<1> USE DEF GatewayTypeOK, BrokerTypeOK, BrokerMoves
<1>1. Adapter \in {"alpaca", "binance"}
  BY AdapterAssumption DEF SimulatorFills, Remote, Arrives
<1>2. CASE UNCHANGED <<venue, accepted>> \/ o # p
  BY <1>1, <1>2 DEF Arrives
<1>3. CASE ~UNCHANGED <<venue, accepted>> /\ o = p
  <2>1. /\ ~IdTaken(o) /\ venue'[o] = "open"
        /\ accepted'[o] = accepted[o] + 1
    BY <1>3 DEF Arrives
  <2>2. venue[o] = "none"
        \/ (Adapter = "binance" /\ venue[o] \in {"filled", "cancelled", "cut"})
    BY <1>1, <2>1 DEF IdTaken, Working, VenueState
  <2> QED BY <1>1, <2>1, <2>2 DEF Moves, Again
<1> QED BY <1>2, <1>3

LEMMA CancelAllMoves ==
  ASSUME GatewayTypeOK, CancelAllOrders, NEW o \in Order
  PROVE  BrokerMoves(o)
<1>1. /\ accepted'[o] = accepted[o] /\ inflight' = inflight
      /\ \/ venue'[o] = venue[o]
         \/ Working(o) /\ venue'[o] = Cancelled(o)
  BY DEF CancelAllOrders
<1> QED BY <1>1 DEF GatewayTypeOK, BrokerTypeOK, Cancelled, Working, Moves,
        BrokerMoves

(* The steps that touch the broker. *)
LEMMA BrokerStep ==
  ASSUME [Next]_vars
  PROVE  \/ UNCHANGED brokerVars
         \/ \E p \in Order : Submit(p)
         \/ \E i \in Instance, letter \in Letter : ReplayLetter(i, letter)
         \/ \E p \in Order : CancelReturns(p) \/ CancelRaises(p) \/ VenueMoves(p)
         \/ CancelAllOrders
         \/ \E p \in Order : Arrives(p)
         \/ \E i \in Instance : KillTasks(i)
<1>1. ASSUME NEW p \in Order, Execute(p)
      PROVE  \/ UNCHANGED brokerVars
             \/ Submit(p) \/ CancelReturns(p) \/ CancelRaises(p)
  BY <1>1 DEF Execute, DupCheck, HaltGate, Receive, KillGate, RiskGate,
     Exhausted, Ack, PollFill, Fill, Book, Trade, Partial, Timeout,
     Cancel, LogCancel, Error, RecordDeadLetter, RecordLetter, Cleanup
<1>2. ASSUME NEW i \in Instance, BeginRecovery(i) \/ Recover(i)
      PROVE  \/ UNCHANGED brokerVars \/ CancelAllOrders
             \/ \E letter \in Letter : ReplayLetter(i, letter)
  BY <1>2 DEF Recover, BeginRecovery, RecoverOrders, ListLeases, ListLetters,
     EndRecovery, ListLostOrders, Serve, RecoverLease, MarkLostOrder,
     ResolveLetter
<1>3. CASE \/ \E p \in Order : Renew(p) \/ LeaseAges(p) \/ Market(p)
           \/ \E p \in Order, i \in Instance : Start(p, i)
           \/ \E i \in Instance : Crash(i) \/ Shutdown(i) \/ RunRaises(i)
           \/ Halt \/ Resume \/ UNCHANGED vars
  BY <1>3 DEF Renew, LeaseAges, Market, Start, Crash, Shutdown, RunRaises,
     Halt, Resume, vars
<1> QED BY <1>1, <1>2, <1>3 DEF Next

LEMMA VenueStep ==
  ASSUME GatewayTypeOK, SimulatorFills, [Next]_vars, NEW o \in Order
  PROVE  BrokerMoves(o)
<1>1. CASE UNCHANGED brokerVars
  BY <1>1 DEF brokerVars, BrokerMoves, GatewayTypeOK, BrokerTypeOK
<1>2. CASE \E p \in Order : Submit(p)
  BY <1>2, SubmitMoves DEF Submit
<1>3. CASE \E i \in Instance, letter \in Letter : ReplayLetter(i, letter)
  <2>1. PICK i \in Instance, letter \in Letter : ReplayLetter(i, letter)
    BY <1>3
  <2>2. letter[1] \in Order
    BY DEF Letter
  <2>3. \/ UNCHANGED brokerVars
        \/ SubmitReturns(letter[1]) \/ SubmitRaises(letter[1])
    BY <2>1 DEF ReplayLetter
  <2> QED BY <1>1, <2>2, <2>3, SubmitMoves
<1>4. CASE \E p \in Order : CancelReturns(p) \/ CancelRaises(p) \/ VenueMoves(p)
  BY <1>4, CancelMoves
<1>5. CASE CancelAllOrders
  BY <1>5, CancelAllMoves
<1>6. CASE \E p \in Order : Arrives(p)
  BY <1>6, ArrivesMoves
<1>7. CASE \E i \in Instance : KillTasks(i)
  BY <1>7 DEF KillTasks, Remote, BrokerMoves, GatewayTypeOK, BrokerTypeOK
<1> QED BY <1>1, <1>2, <1>3, <1>4, <1>5, <1>6, <1>7, BrokerStep

-----------------------------------------------------------------------------
(* What one step does to the coroutine, the log and the booking of an      *)
(* order: only its own steps take it from one point to the next.           *)

LEMMA ExecuteOwn ==
  ASSUME GatewayTypeOK, NEW p \in Order, Execute(p), NEW o \in Order, o # p
  PROVE  pc'[o] = pc[o] /\ log'[o] = log[o] /\ booked'[o] = booked[o]
<1> USE DEF GatewayTypeOK, TrackerTypeOK, Goto
<1>1. pc'[o] = pc[o]
  BY DEF Execute, DupCheck, HaltGate, Receive, KillGate, RiskGate, Submit,
     Exhausted, Ack, PollFill, Fill, Book, Trade, Partial, Timeout, Cancel,
     LogCancel, Error, RecordDeadLetter, RecordLetter, Cleanup, Log
<1>2. booked'[o] = booked[o]
  BY DEF Execute, DupCheck, HaltGate, Receive, KillGate, RiskGate, Submit,
     Exhausted, Ack, PollFill, Fill, Book, Trade, Partial, Timeout, Cancel,
     LogCancel, Error, RecordDeadLetter, RecordLetter, Cleanup
<1>3. log'[o] = log[o]
  BY DEF Execute, DupCheck, HaltGate, Receive, KillGate, RiskGate, Submit,
     Exhausted, Ack, PollFill, Fill, Book, Trade, Partial, Timeout, Cancel,
     LogCancel, Error, RecordDeadLetter, RecordLetter, Cleanup, Log,
     Transition, TransitionRaises, WriteExecutionLog, trackerVars
<1> QED BY <1>1, <1>2, <1>3

(* The rows execute() writes itself, at the point where it writes them. *)
RowAt(o, row) ==
  /\ row = "broker_ack" => pc[o] = "ack"
  /\ row = "filled" => pc[o] = "fill"
  /\ row = "partially_filled" => pc[o] = "partial"

RowWritten(o) ==
  \E row \in OrderState : RowAt(o, row) /\ log'[o] = Append(log[o], row)

LEMMA RowStep ==
  ASSUME GatewayTypeOK, NEW p \in Order, NEW row \in OrderState,
         Transition(p, row) \/ TransitionRaises(p, row), RowAt(p, row),
         NEW o \in Order
  PROVE  log'[o] = log[o] \/ RowWritten(o)
  BY DEF GatewayTypeOK, TrackerTypeOK, Transition, TransitionRaises,
     WriteExecutionLog, RowWritten

LEMMA ExecuteRow ==
  ASSUME GatewayTypeOK, NEW o \in Order, Execute(o)
  PROVE  log'[o] = log[o] \/ RowWritten(o)
<1>1. ASSUME NEW row \in OrderState, NEW to, NEW onRaise,
             Log(o, row, to, onRaise), RowAt(o, row)
      PROVE  log'[o] = log[o] \/ RowWritten(o)
  BY <1>1, RowStep DEF Log
<1> USE DEF OrderState, RowAt
<1>2. CASE DupCheck(o) \/ HaltGate(o)
  BY <1>1, <1>2 DEF DupCheck, HaltGate, trackerVars
<1>3. CASE Receive(o) \/ KillGate(o) \/ RiskGate(o)
  BY <1>1, <1>3 DEF Receive, KillGate, RiskGate, trackerVars
<1>4. CASE Exhausted(o) \/ Ack(o) \/ Fill(o)
  BY <1>1, <1>4 DEF Exhausted, Ack, Fill
<1>5. CASE Partial(o) \/ Timeout(o) \/ LogCancel(o) \/ Error(o)
  BY <1>1, <1>5 DEF Partial, Timeout, LogCancel, Error
<1>6. CASE \/ Submit(o) \/ PollFill(o) \/ Book(o) \/ Trade(o) \/ Cancel(o)
           \/ RecordDeadLetter(o) \/ Cleanup(o)
  BY <1>6 DEF Submit, PollFill, Book, Trade, Cancel, RecordDeadLetter,
     RecordLetter, Cleanup, trackerVars
<1> QED BY <1>2, <1>3, <1>4, <1>5, <1>6 DEF Execute

LEMMA RecoverRow ==
  ASSUME GatewayTypeOK, NEW i \in Instance, BeginRecovery(i) \/ Recover(i),
         NEW o \in Order
  PROVE  log'[o] = log[o] \/ RowWritten(o)
<1>1. ASSUME NEW p \in Order, RecoverLease(i, p) \/ MarkLostOrder(i, p)
      PROVE  log'[o] = log[o] \/ RowWritten(o)
  <2>1. "dead_letter" \in OrderState /\ RowAt(p, "dead_letter")
    BY DEF OrderState, RowAt
  <2> QED BY <1>1, <2>1, RowStep DEF RecoverLease, MarkLostOrder
<1>2. CASE ~\E p \in Order : RecoverLease(i, p) \/ MarkLostOrder(i, p)
  BY <1>2 DEF Recover, BeginRecovery, RecoverOrders, ListLeases, ListLetters,
     EndRecovery, ListLostOrders, Serve, ReplayLetter, ResolveLetter,
     trackerVars
<1> QED BY <1>1, <1>2

LEMMA LogStep ==
  ASSUME GatewayTypeOK, [Next]_vars, NEW o \in Order
  PROVE  log'[o] = log[o] \/ RowWritten(o)
<1>1. ASSUME NEW p \in Order, Execute(p)
      PROVE  log'[o] = log[o] \/ RowWritten(o)
  BY <1>1, ExecuteOwn, ExecuteRow
<1>2. ASSUME NEW i \in Instance, BeginRecovery(i) \/ Recover(i)
      PROVE  log'[o] = log[o] \/ RowWritten(o)
  BY <1>2, RecoverRow
<1>3. CASE \/ \E p \in Order : Renew(p) \/ LeaseAges(p) \/ Market(p)
           \/ \E p \in Order, i \in Instance : Start(p, i)
           \/ \E i \in Instance : Crash(i) \/ Shutdown(i) \/ RunRaises(i)
           \/ Halt \/ Resume \/ UNCHANGED vars
  BY <1>3 DEF Renew, LeaseAges, Market, Start, Crash, Shutdown, RunRaises,
     Halt, Resume, vars, trackerVars
<1> QED BY <1>1, <1>2, <1>3 DEF Next

LEMMA RowsOfLog ==
  ASSUME GatewayTypeOK, NEW o \in Order, NEW s \in OrderState,
         log'[o] = log[o] \/ RowWritten(o), InLog(o, s)'
  PROVE  InLog(o, s) \/ RowAt(o, s)
<1>1. log[o] \in Seq(OrderState)
  BY DEF GatewayTypeOK, TrackerTypeOK
<1>2. CASE log'[o] = log[o]
  BY <1>2 DEF InLog
<1>3. CASE RowWritten(o)
  <2>1. PICK row \in OrderState :
          RowAt(o, row) /\ log'[o] = Append(log[o], row)
    BY <1>3 DEF RowWritten
  <2>2. PICK n \in 1..Len(log'[o]) : log'[o][n] = s
    BY DEF InLog
  <2>3. CASE n \in 1..Len(log[o])
    <3>1. log'[o][n] = log[o][n]
      BY <1>1, <2>1, <2>3
    <3> QED BY <2>2, <2>3, <3>1 DEF InLog
  <2>4. CASE n \notin 1..Len(log[o])
    <3>1. n = Len(log[o]) + 1 /\ log'[o][n] = row
      BY <1>1, <2>1, <2>2, <2>4
    <3> QED BY <2>1, <2>2, <3>1
  <2> QED BY <2>3, <2>4
<1> QED BY <1>2, <1>3

(***************************************************************************)
(* Where a coroutine comes from when it arrives at a point (Final: the     *)
(* points that tell nothing about the venue).                              *)
(***************************************************************************)
Final == {"error", "dl_error", "cleanup", "ended", "killed"}

Arrival(o) ==
  \/ pc'[o] \in Final
  \/ pc[o] = "idle" /\ pc'[o] = "dup"
  \/ pc'[o] \notin Placed /\ pc[o] \notin MayBeBooked
  \/ pc[o] = "submit" /\ pc'[o] = "ack" /\ venue'[o] # "none"
  \/ pc[o] = "ack" /\ pc'[o] = "poll"
  \/ /\ pc[o] = "poll" /\ pc'[o] = "fill"
     /\ venue[o] = "filled" /\ Adapter # "binance"
  \/ pc[o] = "poll" /\ pc'[o] = "partial" /\ venue[o] = "partial"
  \/ pc[o] = "poll" /\ pc'[o] = "timeout"
  \/ pc[o] = "fill" /\ pc'[o] = "book"
  \/ pc[o] = "book" /\ pc'[o] = "trade"
  \/ pc[o] = "partial" /\ pc'[o] = "dl_partial"
  \/ pc[o] = "timeout" /\ pc'[o] = "cancel"
  \/ pc[o] = "cancel" /\ pc'[o] = "log_cancel"

LEMMA ExecuteArrival ==
  ASSUME GatewayTypeOK, NEW o \in Order, Execute(o)
  PROVE  pc'[o] = pc[o] \/ Arrival(o)
<1> USE DEF Final, Placed, MayBeBooked, Arrival, Log, Goto
<1>0. pc \in [Order -> Point]
  BY DEF GatewayTypeOK
<1>1. CASE DupCheck(o) \/ HaltGate(o) \/ Receive(o)
  BY <1>0, <1>1 DEF DupCheck, HaltGate, Receive
<1>2. CASE KillGate(o) \/ RiskGate(o)
  BY <1>0, <1>2 DEF KillGate, RiskGate
<1>3. CASE Submit(o)
  <2>1. CASE SubmitReturns(o) /\ pc' = [pc EXCEPT ![o] = "ack"]
    <3>1. venue'[o] # "none"
      BY <2>1 DEF GatewayTypeOK, BrokerTypeOK, SubmitReturns, NewBrokerOrder,
         IdTaken, Working, brokerVars
    <3> QED BY <1>0, <1>3, <2>1, <3>1 DEF Submit
  <2>2. CASE ~(SubmitReturns(o) /\ pc' = [pc EXCEPT ![o] = "ack"])
    BY <1>0, <1>3, <2>2 DEF Submit
  <2> QED BY <2>1, <2>2
<1>4. CASE Exhausted(o) \/ Ack(o) \/ Fill(o)
  BY <1>0, <1>4 DEF Exhausted, Ack, Fill
<1>5. CASE PollFill(o)
  <2>1. StatusSeen(o) = "filled" => venue[o] = "filled" /\ Adapter # "binance"
    BY DEF StatusSeen, Working
  <2>2. StatusSeen(o) = "partial" => venue[o] = "partial"
    BY DEF StatusSeen, Working
  <2> QED BY <1>0, <1>5, <2>1, <2>2 DEF PollFill
<1>6. CASE Book(o) \/ Trade(o)
  BY <1>0, <1>6 DEF Book, Trade
<1>7. CASE Partial(o) \/ Timeout(o) \/ Cancel(o) \/ LogCancel(o)
  BY <1>0, <1>7 DEF Partial, Timeout, Cancel, LogCancel
<1>8. CASE Error(o) \/ RecordDeadLetter(o) \/ Cleanup(o)
  BY <1>0, <1>8 DEF Error, RecordDeadLetter, RecordLetter, Cleanup
<1> QED BY <1>1, <1>2, <1>3, <1>4, <1>5, <1>6, <1>7, <1>8 DEF Execute

LEMMA PointStep ==
  ASSUME GatewayTypeOK, [Next]_vars, NEW o \in Order
  PROVE  pc'[o] = pc[o] \/ Arrival(o)
<1>1. ASSUME NEW p \in Order, Execute(p)
      PROVE  pc'[o] = pc[o] \/ Arrival(o)
  BY <1>1, ExecuteOwn, ExecuteArrival
<1>2. ASSUME NEW p \in Order, NEW i \in Instance, Start(p, i)
      PROVE  pc'[o] = pc[o] \/ Arrival(o)
  BY <1>2 DEF Start, GatewayTypeOK, Arrival
<1>3. ASSUME NEW i \in Instance, Crash(i) \/ Shutdown(i)
      PROVE  pc'[o] = pc[o] \/ Arrival(o)
  BY <1>3 DEF Crash, Shutdown, KillTasks, Arrival, Final
<1>4. ASSUME NEW i \in Instance, BeginRecovery(i) \/ Recover(i)
      PROVE  pc' = pc
  BY <1>4, RecoverKeepsTasks DEF taskVars
<1>5. CASE \/ \E p \in Order : Renew(p) \/ LeaseAges(p) \/ Market(p)
           \/ \E i \in Instance : RunRaises(i)
           \/ Halt \/ Resume \/ UNCHANGED vars
  BY <1>5 DEF Renew, LeaseAges, Market, RunRaises, Halt, Resume, vars, taskVars
<1> QED BY <1>1, <1>2, <1>3, <1>4, <1>5 DEF Next

LEMMA BookingStep ==
  ASSUME GatewayTypeOK, [Next]_vars
  PROVE  \/ booked' = booked
         \/ \E o \in Order :
              /\ pc[o] = "book" /\ pc'[o] \in MayBeBooked
              /\ booked' = [booked EXCEPT ![o] = @ + 1]
              /\ UNCHANGED brokerVars
<1>1. ASSUME NEW o \in Order, Book(o), booked' # booked
      PROVE  /\ pc[o] = "book" /\ pc'[o] \in MayBeBooked
             /\ booked' = [booked EXCEPT ![o] = @ + 1]
             /\ UNCHANGED brokerVars
  BY <1>1 DEF Book, Goto, MayBeBooked, GatewayTypeOK
<1>2. ASSUME NEW o \in Order, Execute(o), ~Book(o)
      PROVE  booked' = booked
  BY <1>2 DEF Execute, DupCheck, HaltGate, Receive, KillGate, RiskGate,
     Submit, Exhausted, Ack, PollFill, Fill, Trade, Partial, Timeout, Cancel,
     LogCancel, Error, RecordDeadLetter, RecordLetter, Cleanup
<1>3. ASSUME NEW i \in Instance, BeginRecovery(i) \/ Recover(i)
      PROVE  booked' = booked
  BY <1>3, RecoverKeepsTasks DEF taskVars
<1>4. CASE \/ \E p \in Order : Renew(p) \/ LeaseAges(p) \/ Market(p)
           \/ \E p \in Order, i \in Instance : Start(p, i)
           \/ \E i \in Instance : Crash(i) \/ Shutdown(i) \/ RunRaises(i)
           \/ Halt \/ Resume \/ UNCHANGED vars
  BY <1>4 DEF Renew, LeaseAges, Market, Start, Crash, Shutdown, KillTasks,
     RunRaises, Halt, Resume, vars, taskVars
<1> QED BY <1>1, <1>2, <1>3, <1>4 DEF Next

-----------------------------------------------------------------------------
(* The invariant is inductive.                                             *)

LEMMA InitFill == Init => FillInv
<1> SUFFICES ASSUME Init PROVE FillInv
  OBVIOUS
<1>1. GatewayTypeOK
  BY InitType
<1>2. SimulatorFills
  BY DEF Init, BrokerInit, SimulatorFills
<1>3. PointTellsVenue /\ UnbookedBefore
  BY DEF Init, BrokerInit, PointTellsVenue, UnbookedBefore, Placed, Filled
<1>4. NoPhantomPosition
  <2>1. ASSUME NEW o \in Order
        PROVE  booked[o] <= 1 /\ ~(booked[o] > 0)
    <3>1. booked[o] = 0
      BY DEF Init
    <3> QED BY <3>1
  <2> QED BY <2>1 DEF NoPhantomPosition
<1>5. ASSUME NEW o \in Order, NEW s PROVE ~InLog(o, s)
  <2>1. log[o] = << >>
    BY DEF Init, TrackerInit
  <2> QED BY <2>1 DEF InLog
<1>6. LogTruthful
  BY <1>5 DEF LogTruthful
<1>7. BinanceBooksNothing
  BY <1>5 DEF Init, BinanceBooksNothing, Filled
<1> QED BY <1>1, <1>2, <1>3, <1>4, <1>6, <1>7 DEF FillInv

LEMMA NextFill == FillInv /\ [Next]_vars => FillInv'
<1> SUFFICES ASSUME FillInv, [Next]_vars PROVE FillInv'
  OBVIOUS
<1>0. /\ GatewayTypeOK /\ SimulatorFills /\ PointTellsVenue
      /\ UnbookedBefore /\ BinanceBooksNothing
      /\ NoPhantomPosition /\ LogTruthful
  BY DEF FillInv
<1>1. GatewayTypeOK'
  BY <1>0, NextType
<1>2. ASSUME NEW o \in Order
      PROVE  /\ \/ venue'[o] = venue[o] \/ venue'[o] \in Moves(venue[o])
                \/ Again(o)
             /\ accepted[o] \in Nat
             /\ accepted'[o] \in {accepted[o], accepted[o] + 1}
             /\ venue[o] = "none" /\ venue'[o] # "none" =>
                  accepted'[o] = accepted[o] + 1
  BY <1>0, VenueStep DEF BrokerMoves, GatewayTypeOK, BrokerTypeOK
<1>3. ASSUME NEW o \in Order
      PROVE  /\ venue[o] # "none" => venue'[o] # "none"
             /\ venue[o] = "filled" /\ Adapter # "binance" =>
                  venue'[o] = "filled"
  BY <1>2 DEF Moves, Again
<1>a. ASSUME NEW o \in Order, venue[o] # "none" => accepted[o] > 0,
             Executed(o) \/ accepted[o] > 1
      PROVE  Executed(o)' \/ accepted'[o] > 1
  <2>1. CASE accepted[o] > 1
    BY <1>2, <2>1
  <2>2. CASE Again(o)
    BY <1>2, <1>a, <2>2 DEF Again
  <2>3. CASE Executed(o) /\ ~Again(o)
    BY <1>2, <2>3 DEF Executed, Moves
  <2> QED BY <1>a, <2>1, <2>2, <2>3
<1>4. ASSUME NEW o \in Order PROVE pc'[o] = pc[o] \/ Arrival(o)
  BY <1>0, PointStep
<1>5. SimulatorFills'
  <2> SUFFICES ASSUME NEW o \in Order, Adapter = "simulator"
               PROVE  venue'[o] \in {"none", "filled"} /\ o \notin inflight'
    BY DEF SimulatorFills, Remote
  <2>1. venue[o] \in {"none", "filled"} /\ o \notin inflight
    BY <1>0 DEF SimulatorFills, Remote
  <2>2. \/ venue'[o] = venue[o]
        \/ venue[o] = "none" /\ venue'[o] = "filled"
    BY <1>2, <2>1 DEF Moves, Again
  <2>3. o \notin inflight'
    BY <1>0, <2>1, VenueStep DEF BrokerMoves
  <2> QED BY <2>1, <2>2, <2>3
<1>b. ASSUME Adapter = "binance", NEW o \in Order PROVE pc'[o] \notin Filled
  <2>1. pc[o] \notin Filled
    BY <1>0, <1>b DEF BinanceBooksNothing
  <2>2. CASE pc'[o] = pc[o]
    BY <2>1, <2>2
  <2>3. CASE Arrival(o)
    BY <1>b, <2>1, <2>3 DEF Arrival, Placed, Filled, Final
  <2> QED BY <1>4, <2>2, <2>3
<1>6. PointTellsVenue'
  <2> SUFFICES ASSUME NEW o \in Order
               PROVE  /\ pc'[o] \in Placed => venue'[o] # "none"
                      /\ pc'[o] \in Filled => venue'[o] = "filled"
                      /\ pc'[o] = "partial" =>
                           Executed(o)' \/ accepted'[o] > 1
                      /\ venue'[o] # "none" => accepted'[o] > 0
    BY DEF PointTellsVenue
  <2>0. venue[o] # "none" => accepted[o] > 0
    BY <1>0 DEF PointTellsVenue
  <2>1. venue'[o] # "none" => accepted'[o] > 0
    BY <1>2, <2>0
  <2>2. CASE pc'[o] = pc[o]
    <3>1. pc'[o] \in Placed => venue'[o] # "none"
      BY <1>0, <1>3, <2>2 DEF PointTellsVenue
    <3>2. pc'[o] \in Filled => venue'[o] = "filled"
      BY <1>0, <1>3, <1>b, <2>2 DEF PointTellsVenue
    <3>3. pc'[o] = "partial" => Executed(o)' \/ accepted'[o] > 1
      BY <1>0, <1>a, <2>0, <2>2 DEF PointTellsVenue
    <3> QED BY <2>1, <3>1, <3>2, <3>3
  <2>3. CASE Arrival(o)
    <3>1. pc'[o] \in Placed => venue'[o] # "none"
      BY <1>0, <1>3, <2>3 DEF PointTellsVenue, Arrival, Placed, Final
    <3>2. pc'[o] \in Filled => venue'[o] = "filled"
      BY <1>0, <1>3, <1>b, <2>3 DEF PointTellsVenue, Arrival, Placed, Filled,
         Final
    <3>3. pc'[o] = "partial" => Executed(o)' \/ accepted'[o] > 1
      <4>1. pc'[o] = "partial" => Executed(o)
        BY <2>3 DEF Arrival, Placed, Final, Executed
      <4> QED BY <1>a, <2>0, <4>1
    <3> QED BY <2>1, <3>1, <3>2, <3>3
  <2> QED BY <1>4, <2>2, <2>3
<1>7. UnbookedBefore'
  <2> SUFFICES ASSUME NEW o \in Order, pc'[o] \notin MayBeBooked
               PROVE  booked'[o] = 0
    BY DEF UnbookedBefore
  <2>1. pc[o] \notin MayBeBooked
    BY <1>4 DEF Arrival, MayBeBooked, Final
  <2>2. booked[o] = 0
    BY <1>0, <2>1 DEF UnbookedBefore
  <2>3. booked'[o] = booked[o]
    BY <1>0, BookingStep DEF GatewayTypeOK
  <2> QED BY <2>2, <2>3
<1>c. BinanceBooksNothing'
  <2>1. ASSUME Adapter = "binance", NEW o \in Order PROVE booked'[o] = 0
    <3>1. booked[o] = 0 /\ pc[o] # "book"
      BY <1>0, <2>1 DEF BinanceBooksNothing, Filled
    <3> QED BY <1>0, <3>1, BookingStep DEF GatewayTypeOK
  <2>2. ASSUME Adapter = "binance", NEW o \in Order, InLog(o, "filled")'
        PROVE  FALSE
    <3>1. ~InLog(o, "filled") /\ pc[o] # "fill"
      BY <1>0, <2>2 DEF BinanceBooksNothing, Filled
    <3>2. log'[o] = log[o] \/ RowWritten(o)
      BY <1>0, LogStep
    <3>3. InLog(o, "filled") \/ RowAt(o, "filled")
      BY <1>0, <2>2, <3>2, RowsOfLog DEF OrderState
    <3> QED BY <3>1, <3>3 DEF RowAt
  <2> QED BY <1>b, <2>1, <2>2 DEF BinanceBooksNothing
<1>8. NoPhantomPosition'
  <2> SUFFICES ASSUME NEW o \in Order
               PROVE  booked'[o] <= 1 /\ (booked'[o] > 0 => venue'[o] = "filled")
    BY DEF NoPhantomPosition
  <2>1. CASE booked'[o] = booked[o]
    <3>1. Adapter = "binance" => booked[o] = 0
      BY <1>0 DEF BinanceBooksNothing
    <3> QED BY <1>0, <1>3, <2>1, <3>1 DEF NoPhantomPosition
  <2>2. CASE booked'[o] # booked[o]
    <3>1. pc[o] = "book" /\ booked'[o] = booked[o] + 1
      BY <1>0, <2>2, BookingStep DEF GatewayTypeOK
    <3>2. booked[o] = 0
      BY <1>0, <3>1 DEF UnbookedBefore, MayBeBooked
    <3>3. venue'[o] = "filled"
      BY <1>0, <1>3, <3>1 DEF PointTellsVenue, BinanceBooksNothing, Filled
    <3> QED BY <3>1, <3>2, <3>3
  <2> QED BY <2>1, <2>2
<1>9. LogTruthful'
  <2> SUFFICES ASSUME NEW o \in Order
               PROVE  /\ InLog(o, "broker_ack")' => venue'[o] # "none"
                      /\ InLog(o, "filled")' => venue'[o] = "filled"
                      /\ InLog(o, "partially_filled")' =>
                           Executed(o)' \/ accepted'[o] > 1
    BY DEF LogTruthful
  <2>1. log'[o] = log[o] \/ RowWritten(o)
    BY <1>0, LogStep
  <2>2. ASSUME NEW s \in {"broker_ack", "filled", "partially_filled"},
               InLog(o, s)'
        PROVE  InLog(o, s) \/ RowAt(o, s)
    BY <1>0, <2>1, <2>2, RowsOfLog DEF OrderState
  <2>3. InLog(o, "broker_ack")' => venue'[o] # "none"
    BY <1>0, <1>3, <2>2 DEF LogTruthful, RowAt, PointTellsVenue, Placed
  <2>4. InLog(o, "filled")' => venue'[o] = "filled"
    <3>1. InLog(o, "filled")' => venue[o] = "filled" /\ Adapter # "binance"
      BY <1>0, <2>2 DEF LogTruthful, RowAt, PointTellsVenue,
         BinanceBooksNothing, Filled
    <3> QED BY <1>3, <3>1
  <2>5. InLog(o, "partially_filled")' => Executed(o)' \/ accepted'[o] > 1
    <3>1. venue[o] # "none" => accepted[o] > 0
      BY <1>0 DEF PointTellsVenue
    <3>2. InLog(o, "partially_filled")' => Executed(o) \/ accepted[o] > 1
      BY <1>0, <2>2 DEF LogTruthful, RowAt, PointTellsVenue
    <3> QED BY <1>a, <3>1, <3>2
  <2> QED BY <2>3, <2>4, <2>5
<1> QED BY <1>1, <1>5, <1>6, <1>7, <1>8, <1>9, <1>c DEF FillInv

LEMMA FillInvariant == Spec => []FillInv
<1> QED BY InitFill, NextFill, PTL DEF Spec

(***************************************************************************)
(* Money: in every behaviour a position exists only for an order the venue *)
(* filled as a whole, and at most once (execute, lines 693-731).           *)
(***************************************************************************)
THEOREM PositionsAreReal == Spec => []NoPhantomPosition
<1>1. FillInv => NoPhantomPosition
  BY DEF FillInv
<1> QED BY <1>1, FillInvariant, PTL

(***************************************************************************)
(* Audit: the rows of execution_log that say the broker took an order or   *)
(* executed it stay true of the venue (OrderTracker.transition, called by  *)
(* execute and by recovery; nothing is claimed of CANCELLED rows).         *)
(***************************************************************************)
THEOREM LogIsTrue == Spec => []LogTruthful
<1>1. FillInv => LogTruthful
  BY DEF FillInv
<1> QED BY <1>1, FillInvariant, PTL

-----------------------------------------------------------------------------
(* The gateway implements FillBooking.                                     *)

LEMMA PromiseInit == Init => Promise!Init
<1> SUFFICES ASSUME Init PROVE Promise!Init
  OBVIOUS
<1>1. \A o \in Order : ExposureOf(venue[o]) = "none"
  BY DEF Init, BrokerInit, ExposureOf
<1> QED BY <1>1 DEF Init, Promise!Init

LEMMA PromiseStep ==
  FillInv /\ FillInv' /\ [Next]_vars =>
    [Promise!Next]_<<[o \in Order |-> ExposureOf(venue[o])], booked>>
<1> SUFFICES ASSUME FillInv, FillInv', [Next]_vars
             PROVE  Promise!Next
  OBVIOUS
<1> DEFINE exposure == [o \in Order |-> ExposureOf(venue[o])]
<1>0. /\ GatewayTypeOK /\ SimulatorFills /\ PointTellsVenue
      /\ UnbookedBefore /\ BinanceBooksNothing /\ GatewayTypeOK'
  BY DEF FillInv
<1>1. CASE booked' = booked
  <2>1. ASSUME NEW o \in Order PROVE ExposureOf(venue'[o]) \in Promise!Exposure
    BY <1>0 DEF GatewayTypeOK, BrokerTypeOK, VenueState, ExposureOf,
       Promise!Exposure
  <2>2. ASSUME NEW o \in Order, ExposureOf(venue'[o]) # ExposureOf(venue[o])
        PROVE  \/ ExposureOf(venue'[o]) \in
                    Promise!Outcomes(ExposureOf(venue[o]))
               \/ /\ Adapter = "binance" /\ booked[o] = 0
                  /\ ExposureOf(venue[o]) \in Promise!Ended
                  /\ ExposureOf(venue'[o]) = "working"
    <3>1. CASE venue'[o] \in Moves(venue[o])
      <4>1. venue[o] \in VenueState
        BY <1>0 DEF GatewayTypeOK, BrokerTypeOK
      <4> QED BY <3>1, <4>1 DEF Moves, VenueState, ExposureOf, Promise!Outcomes
    <3>2. CASE Again(o)
      BY <1>0, <3>2 DEF Again, BinanceBooksNothing, ExposureOf, Promise!Ended
    <3> QED BY <1>0, <2>2, <3>1, <3>2, VenueStep DEF BrokerMoves
  <2>3. exposure' = [o \in Order |-> ExposureOf(venue'[o])]
    OBVIOUS
  <2> QED BY <1>1, <2>1, <2>2, <2>3 DEF Promise!Next, Promise!VenueStep
<1>2. CASE booked' # booked
  <2>1. PICK o \in Order :
          /\ pc[o] = "book"
          /\ booked' = [booked EXCEPT ![o] = @ + 1]
          /\ UNCHANGED brokerVars
    BY <1>0, <1>2, BookingStep
  <2>2. booked[o] = 0 /\ venue[o] = "filled"
    BY <1>0, <2>1 DEF UnbookedBefore, MayBeBooked, PointTellsVenue, Filled
  <2>3. booked' = [booked EXCEPT ![o] = 1]
    BY <2>1, <2>2
  <2>4. ExposureOf(venue[o]) = "whole"
    BY <2>2 DEF ExposureOf
  <2>5. exposure' = exposure
    BY <2>1 DEF brokerVars
  <2> QED BY <2>2, <2>3, <2>4, <2>5 DEF Promise!Next, Promise!Book
<1> QED BY <1>1, <1>2

(***************************************************************************)
(* Refinement: every behaviour of the gateway, with its retries, crashes,  *)
(* failovers and replays, is a behaviour of FillBooking.                   *)
(***************************************************************************)
THEOREM GatewayImplementsFillBooking == Spec => ImplementsFillBooking
<1>1. Spec => []FillInv
  BY FillInvariant
<1>2. Spec => [][Promise!Next]_<<[o \in Order |-> ExposureOf(venue[o])], booked>>
  BY <1>1, PromiseStep, PTL DEF Spec
<1>3. Spec => Promise!Init
  BY PromiseInit DEF Spec
<1> QED BY <1>2, <1>3, PTL DEF ImplementsFillBooking, Promise!Spec

=============================================================================
