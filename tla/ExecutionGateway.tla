-------------------------- MODULE ExecutionGateway --------------------------
(***************************************************************************)
(* atlas/agents/l5_execution/execution_gateway.py with the components it   *)
(* drives: the order tracker, the broker adapter, the dead letter table    *)
(* and the startup reconciliation of recovery_manager.py.                  *)
(*                                                                         *)
(* Actors: one execute() coroutine per order, the run() loop of every      *)
(* gateway instance (which starts with recovery), the kill switch, the     *)
(* venue, and the passing of time for a lease.  An action is the code      *)
(* between two awaits of one actor that touch shared state.                *)
(***************************************************************************)
EXTENDS OrderTracker, BrokerAdapter, DeadLetter

CONSTANTS
  MaxSubmitAttempts,  \* max_retries of _submit_with_retry (3 in the code)
  MaxRestarts         \* bound: how often a gateway stops or dies

ASSUME GatewayAssumption ==
  /\ MaxSubmitAttempts \in Nat \ {0}
  /\ MaxRestarts \in Nat

VARIABLES
  pc,        \* where the execute() coroutine of an order stands
  runner,    \* the instance that runs it
  attempts,  \* submissions that failed, while in _submit_with_retry
  active,    \* _active_lease_order_keys of the runner
  booked,    \* how many open_position transactions committed for the order
  proc,      \* where run() of an instance stands
  recovered, \* the instances with _recovery_complete
  scan,      \* order keys a recovery loop has still to look at
  todo,      \* dead letters reconcile_unresolved has still to look at
  sent,      \* the letter replay() submitted and has still to resolve
  restarts,  \* stops and deaths so far
  halted,    \* risk_state.halted of the portfolio
  past       \* history: who had passed its kill switch check at the halt

taskVars == <<pc, runner, attempts, active, booked>>
procVars == <<proc, recovered, scan, todo, sent, restarts>>
riskVars == <<halted, past>>

vars == <<trackerVars, brokerVars, letterVars, taskVars, procVars, riskVars>>

(***************************************************************************)
(* The points of execute().  "ended" is a return or an exception that left *)
(* the coroutine, "killed" the death of its process or its cancellation.   *)
(***************************************************************************)
Unguarded == {"dup", "halt", "receive"}      \* before the try of line 569
Guarded ==                                   \* inside it
  { "gate", "risk", "submit", "exhausted", "dl_exhausted", "ack", "poll",
    "fill", "book", "trade", "partial", "dl_partial", "timeout", "cancel",
    "log_cancel", "error", "dl_error", "cleanup" }
Point == {"idle", "ended", "killed"} \cup Unguarded \cup Guarded

(* The points of run(); the first ones are the startup reconciliation. *)
Reconciling == {"orders", "listing", "leases", "letters"}
Stage == {"down", "lost", "marking", "serving"} \cup Reconciling

Alive(o) == pc[o] \in Unguarded \cup Guarded

(* Past the second kill switch check, and not yet done submitting. *)
PastGate == {"risk", "submit"}

GatewayTypeOK ==
  /\ TrackerTypeOK
  /\ BrokerTypeOK
  /\ LetterTypeOK
  /\ pc \in [Order -> Point]
  /\ runner \in [Order -> Instance \cup {Nobody}]
  /\ attempts \in [Order -> 0..(MaxSubmitAttempts - 1)]
  /\ active \in SUBSET Order
  /\ booked \in [Order -> Nat]
  /\ proc \in [Instance -> Stage]
  /\ recovered \in SUBSET Instance
  /\ scan \in [Instance -> SUBSET Order]
  /\ todo \in [Instance -> SUBSET letters]
  /\ sent \in [Instance -> SUBSET letters]
  /\ restarts \in 0..MaxRestarts
  /\ halted \in BOOLEAN
  /\ past \in SUBSET (Order \cup Instance)

Init ==
  /\ TrackerInit
  /\ BrokerInit
  /\ LetterInit
  /\ pc = [o \in Order |-> "idle"]
  /\ runner = [o \in Order |-> Nobody]
  /\ attempts = [o \in Order |-> 0]
  /\ active = {}
  /\ booked = [o \in Order |-> 0]
  /\ proc = [i \in Instance |-> "down"]
  /\ recovered = {}
  /\ scan = [i \in Instance |-> {}]
  /\ todo = [i \in Instance |-> {}]
  /\ sent = [i \in Instance |-> {}]
  /\ restarts = 0
  /\ halted = FALSE
  /\ past = {}

-----------------------------------------------------------------------------
(* execute(): one action per step.  Goto leaves the other locals alone.    *)

Goto(o, to) ==
  /\ pc' = [pc EXCEPT ![o] = to]
  /\ UNCHANGED <<runner, attempts>>

KeepOwnership == UNCHANGED <<lease, owned>>

(* await tracker.transition(...); an exception continues at onRaise. *)
Log(o, state, to, onRaise) ==
  /\ \/ Transition(o, state) /\ Goto(o, to)
     \/ TransitionRaises(o, state) /\ Goto(o, onRaise)
  /\ KeepOwnership

(* A fault: the key is tracked for renewal as soon as the lock is held. *)
StartTracksAtOnce(o, i) ==
  /\ pc[o] = "idle"
  /\ proc[i] = "serving"
  /\ i \in recovered
  /\ AcquireLock(o)
  /\ pc' = [pc EXCEPT ![o] = "dup"]
  /\ runner' = [runner EXCEPT ![o] = i]
  /\ active' = active \cup {o}
  /\ UNCHANGED <<log, attempts, booked>>
  /\ UNCHANGED <<brokerVars, letterVars, procVars, riskVars>>

(***************************************************************************)
(* A signal was received and execute() came as far as the lock.  Signals   *)
(* dropped before it (market hours, cooldown, no price, zero quantity)     *)
(* leave no trace in the state modelled here.                              *)
(***************************************************************************)
Start(o, i) ==
  /\ pc[o] = "idle"
  /\ proc[i] = "serving"
  /\ i \in recovered
  /\ AcquireLock(o)
  /\ pc' = [pc EXCEPT ![o] = "dup"]
  /\ runner' = [runner EXCEPT ![o] = i]
  /\ UNCHANGED <<log, attempts, active, booked>>
  /\ UNCHANGED <<brokerVars, letterVars, procVars, riskVars>>

(* A fault for testing the properties: the duplicate branch goes on. *)
DupCheckFallsThrough(o) ==
  /\ pc[o] = "dup"
  /\ Log(o, "cancelled", "halt", "ended")
  /\ UNCHANGED <<active, booked, brokerVars, letterVars, procVars, riskVars>>

(* A same-side position of the strategy may exist; the query may raise. *)
DupCheck(o) ==
  /\ pc[o] = "dup"
  /\ \/ Log(o, "cancelled", "cleanup", "ended")
     \/ Goto(o, "halt") /\ UNCHANGED trackerVars
     \/ "db" \in Faults /\ Goto(o, "ended") /\ UNCHANGED trackerVars
  /\ UNCHANGED <<active, booked, brokerVars, letterVars, procVars, riskVars>>

(* The first kill switch check returns without releasing lock and lease. *)
HaltGate(o) ==
  /\ pc[o] = "halt"
  /\ \/ halted /\ Log(o, "kill_switch_blocked", "ended", "ended")
     \/ ~halted /\ Goto(o, "receive") /\ UNCHANGED trackerVars
     \/ "db" \in Faults /\ Goto(o, "ended") /\ UNCHANGED trackerVars
  /\ UNCHANGED <<active, booked, brokerVars, letterVars, procVars, riskVars>>

Receive(o) ==
  /\ pc[o] = "receive"
  /\ Log(o, "signal_received", "gate", "ended")
  /\ active' = active \cup {o}
  /\ UNCHANGED <<booked, brokerVars, letterVars, procVars, riskVars>>

(* A fault: the second kill switch check is gone. *)
KillGateOpen(o) ==
  /\ pc[o] = "gate"
  /\ Goto(o, "risk")
  /\ UNCHANGED <<active, booked, brokerVars, letterVars, procVars, riskVars>>
  /\ UNCHANGED trackerVars

(* KillSwitch.is_active reads the database. *)
KillGate(o) ==
  /\ pc[o] = "gate"
  /\ \/ halted /\ Log(o, "kill_switch_blocked", "cleanup", "error")
     \/ ~halted /\ Goto(o, "risk") /\ UNCHANGED trackerVars
     \/ "db" \in Faults /\ Goto(o, "error") /\ UNCHANGED trackerVars
  /\ UNCHANGED <<active, booked, brokerVars, letterVars, procVars, riskVars>>

(* A fault: the rejected branch misses its return. *)
RiskGateFallsThrough(o) ==
  /\ pc[o] = "risk"
  /\ Log(o, "risk_rejected", "submit", "error")
  /\ UNCHANGED <<active, booked, brokerVars, letterVars, procVars, riskVars>>

(* The notional cap, then approve_trade (which answers FALSE on an error). *)
RiskGate(o) ==
  /\ pc[o] = "risk"
  /\ \/ Log(o, "risk_rejected", "cleanup", "error")
     \/ Log(o, "risk_approved", "submit", "error")
  /\ UNCHANGED <<active, booked, brokerVars, letterVars, procVars, riskVars>>

(* A fault: one attempt too many. *)
SubmitOffByOne(o) ==
  /\ pc[o] = "submit"
  /\ SubmitRaises(o)
  /\ attempts[o] < MaxSubmitAttempts
  /\ attempts' = [attempts EXCEPT ![o] = @ + 1]
  /\ UNCHANGED <<pc, runner, active, booked>>
  /\ UNCHANGED <<trackerVars, letterVars, procVars, riskVars>>

(* One turn of the loop of _submit_with_retry. *)
Submit(o) ==
  /\ pc[o] = "submit"
  /\ \/ /\ SubmitReturns(o)
        /\ pc' = [pc EXCEPT ![o] = "ack"]
        /\ attempts' = [attempts EXCEPT ![o] = 0]
     \/ /\ SubmitRaises(o)
        /\ attempts[o] + 1 < MaxSubmitAttempts
        /\ attempts' = [attempts EXCEPT ![o] = @ + 1]
        /\ pc' = pc
     \/ /\ SubmitRaises(o)
        /\ attempts[o] + 1 = MaxSubmitAttempts
        /\ pc' = [pc EXCEPT ![o] = "exhausted"]
        /\ attempts' = [attempts EXCEPT ![o] = 0]
  /\ UNCHANGED <<runner, active, booked>>
  /\ UNCHANGED <<trackerVars, letterVars, procVars, riskVars>>

(* A fault: an order whose retries are exhausted gets its row, no letter. *)
ExhaustedOnlyLogs(o) ==
  /\ pc[o] = "exhausted"
  /\ Log(o, "dead_letter", "cleanup", "error")
  /\ UNCHANGED <<active, booked, brokerVars, letterVars, procVars, riskVars>>

(* DEAD_LETTER, BROKER_ACK and FILLED rows, then on with the coroutine. *)
Exhausted(o) ==
  /\ pc[o] = "exhausted"
  /\ Log(o, "dead_letter", "dl_exhausted", "error")
  /\ UNCHANGED <<active, booked, brokerVars, letterVars, procVars, riskVars>>

Ack(o) ==
  /\ pc[o] = "ack"
  /\ Log(o, "broker_ack", "poll", "error")
  /\ UNCHANGED <<active, booked, brokerVars, letterVars, procVars, riskVars>>

(* A fault: the poll loop has no time limit. *)
PollFillNoTimeout(o) ==
  /\ pc[o] = "poll"
  /\ \/ StatusSeen(o) = "filled" /\ Goto(o, "fill")
     \/ StatusSeen(o) = "partial" /\ Goto(o, "partial")
     \/ StatusSeen(o) = "cancelled" /\ Goto(o, "timeout")
  /\ UNCHANGED <<active, booked, trackerVars, brokerVars, letterVars>>
  /\ UNCHANGED <<procVars, riskVars>>

(* A fault: a partial fill is taken for a fill. *)
PollFillPartialAsFilled(o) ==
  /\ pc[o] = "poll"
  /\ StatusSeen(o) \in {"filled", "partial"}
  /\ Goto(o, "fill")
  /\ UNCHANGED <<active, booked, trackerVars, brokerVars, letterVars>>
  /\ UNCHANGED <<procVars, riskVars>>

(***************************************************************************)
(* _poll_fill: the answer that ends its loop, or none within 30 s.  What   *)
(* is neither filled nor partially filled takes the timeout branch.        *)
(***************************************************************************)
PollFill(o) ==
  /\ pc[o] = "poll"
  /\ \/ StatusSeen(o) = "filled" /\ Goto(o, "fill")
     \/ StatusSeen(o) = "partial" /\ Goto(o, "partial")
     \/ /\ StatusSeen(o) \notin {"filled", "partial"} \/ "net" \in Faults
        /\ Goto(o, "timeout")
  /\ UNCHANGED <<active, booked, trackerVars, brokerVars, letterVars>>
  /\ UNCHANGED <<procVars, riskVars>>

Fill(o) ==
  /\ pc[o] = "fill"
  /\ Log(o, "filled", "book", "error")
  /\ UNCHANGED <<active, booked, brokerVars, letterVars, procVars, riskVars>>

(* A fault: open_position is tried again when its Redis write failed. *)
BookAgain(o) ==
  /\ pc[o] = "book"
  /\ booked' = [booked EXCEPT ![o] = @ + 1]
  /\ Goto(o, "trade") \/ ("redis" \in Faults /\ Goto(o, "book"))
  /\ UNCHANGED <<active, trackerVars, brokerVars, letterVars>>
  /\ UNCHANGED <<procVars, riskVars>>

(***************************************************************************)
(* The lineage query and open_position.  open_position refuses a notional  *)
(* over its cap; its Redis write comes after its transaction committed.    *)
(***************************************************************************)
Book(o) ==
  /\ pc[o] = "book"
  /\ \/ /\ booked' = [booked EXCEPT ![o] = @ + 1]
        /\ \/ Goto(o, "trade")
           \/ "redis" \in Faults /\ Goto(o, "error")
     \/ Goto(o, "error") /\ UNCHANGED booked
  /\ UNCHANGED <<active, trackerVars, brokerVars, letterVars>>
  /\ UNCHANGED <<procVars, riskVars>>

(* save_paper_trade and the lineage event. *)
Trade(o) ==
  /\ pc[o] = "trade"
  /\ Goto(o, "cleanup") \/ ("db" \in Faults /\ Goto(o, "error"))
  /\ UNCHANGED <<active, booked, trackerVars, brokerVars, letterVars>>
  /\ UNCHANGED <<procVars, riskVars>>

(* A fault: the row of the other branch. *)
PartialLogsFilled(o) ==
  /\ pc[o] = "partial"
  /\ Log(o, "filled", "dl_partial", "error")
  /\ UNCHANGED <<active, booked, brokerVars, letterVars, procVars, riskVars>>

Partial(o) ==
  /\ pc[o] = "partial"
  /\ Log(o, "partially_filled", "dl_partial", "error")
  /\ UNCHANGED <<active, booked, brokerVars, letterVars, procVars, riskVars>>

Timeout(o) ==
  /\ pc[o] = "timeout"
  /\ Log(o, "fill_timeout", "cancel", "error")
  /\ UNCHANGED <<active, booked, brokerVars, letterVars, procVars, riskVars>>

(* The answer of cancel_order is not looked at. *)
Cancel(o) ==
  /\ pc[o] = "cancel"
  /\ \/ CancelReturns(o) /\ Goto(o, "log_cancel")
     \/ CancelRaises(o) /\ Goto(o, "error")
  /\ UNCHANGED <<active, booked, trackerVars, letterVars, procVars, riskVars>>

LogCancel(o) ==
  /\ pc[o] = "log_cancel"
  /\ Log(o, "cancelled", "cleanup", "error")
  /\ UNCHANGED <<active, booked, brokerVars, letterVars, procVars, riskVars>>

(* except Exception: an exception in here skips dead_letter.record. *)
Error(o) ==
  /\ pc[o] = "error"
  /\ Log(o, "dead_letter", "dl_error", "cleanup")
  /\ UNCHANGED <<active, booked, brokerVars, letterVars, procVars, riskVars>>

(* dead_letter.record, from the three places of execute() that call it. *)
RecordLetter(o, from, reason, onRaise) ==
  /\ pc[o] = from
  /\ \/ Record(o, reason) /\ Goto(o, "cleanup")
     \/ RecordRaises(o, reason) /\ Goto(o, onRaise)
  /\ UNCHANGED <<active, booked, trackerVars, brokerVars, procVars, riskVars>>

(* The text of the exception decides how _classify will see the letter. *)
RecordDeadLetter(o) ==
  \/ RecordLetter(o, "dl_exhausted", "exhausted", "error")
  \/ RecordLetter(o, "dl_partial", "partial", "error")
  \/ RecordLetter(o, "dl_error", "retriable", "cleanup")
  \/ RecordLetter(o, "dl_error", "other", "cleanup")

(* A fault: the key stays in the active set. *)
CleanupKeepsActive(o) ==
  /\ pc[o] = "cleanup"
  /\ ReleaseLock(o)
  /\ Goto(o, "ended")
  /\ UNCHANGED <<owned, log, booked, active>>
  /\ UNCHANGED <<brokerVars, letterVars, procVars, riskVars>>

(* finally: (the duplicate branch only releases; it is not in active.) *)
Cleanup(o) ==
  /\ pc[o] = "cleanup"
  /\ active' = active \ {o}
  /\ ReleaseLock(o)
  /\ Goto(o, "ended")
  /\ UNCHANGED <<owned, log, booked>>
  /\ UNCHANGED <<brokerVars, letterVars, procVars, riskVars>>

Execute(o) ==
  \/ DupCheck(o) \/ HaltGate(o) \/ Receive(o) \/ KillGate(o) \/ RiskGate(o)
  \/ Submit(o) \/ Exhausted(o) \/ Ack(o) \/ PollFill(o) \/ Fill(o)
  \/ Book(o) \/ Trade(o) \/ Partial(o) \/ Timeout(o) \/ Cancel(o)
  \/ LogCancel(o) \/ Error(o) \/ RecordDeadLetter(o) \/ Cleanup(o)

-----------------------------------------------------------------------------
(* Leases: the renewal task of the runner, and time.                       *)

(* _lease_maintenance: one key of the active set. *)
Renew(o) ==
  /\ o \in active
  /\ \/ RenewLease(o) /\ UNCHANGED active
     \/ lease[o] = "none" /\ active' = active \ {o} /\ UNCHANGED lease
  /\ UNCHANGED <<owned, log, pc, runner, attempts, booked>>
  /\ UNCHANGED <<brokerVars, letterVars, procVars, riskVars>>

(***************************************************************************)
(* The TTL runs down.  It is 60 s at the lock and 30 s after each renewal, *)
(* renewals are 15 s apart, and execute() is in no other part for long: a  *)
(* lease of a living coroutine ages only if its process stalls, or if      *)
(* Redis fails the renewals.                                               *)
(***************************************************************************)
LeaseAges(o) ==
  /\ Alive(o) => Faults \cap {"stall", "redis"} # {}
  /\ \/ lease[o] = "live" /\ lease' = [lease EXCEPT ![o] = "ending"]
     \/ lease[o] = "ending" /\ lease' = [lease EXCEPT ![o] = "none"]
  /\ UNCHANGED <<owned, log>>
  /\ UNCHANGED <<brokerVars, letterVars, taskVars, procVars, riskVars>>

Market(o) ==
  /\ VenueMoves(o) \/ Arrives(o)
  /\ UNCHANGED <<trackerVars, letterVars, taskVars, procVars, riskVars>>

-----------------------------------------------------------------------------
(* The kill switch row (kill_switch.py writes it; the gateway reads it).   *)

Halt ==
  /\ ~halted
  /\ halted' = TRUE
  /\ past' = {o \in Order : pc[o] \in PastGate}
               \cup {i \in Instance : proc[i] \in Reconciling}
  /\ UNCHANGED <<trackerVars, brokerVars, letterVars, taskVars, procVars>>

Resume ==
  /\ halted
  /\ halted' = FALSE
  /\ past' = {}
  /\ UNCHANGED <<trackerVars, brokerVars, letterVars, taskVars, procVars>>

-----------------------------------------------------------------------------
(* run(): reconciliation, lost orders, the signal loop.                    *)

Advance(i, stage) == proc' = [proc EXCEPT ![i] = stage]

Forget(i) ==
  /\ scan' = [scan EXCEPT ![i] = {}]
  /\ todo' = [todo EXCEPT ![i] = {}]
  /\ sent' = [sent EXCEPT ![i] = {}]

(***************************************************************************)
(* run_startup_reconciliation answers FALSE; run() goes on to the lost     *)
(* orders and the signal loop, which then serves nothing.                  *)
(***************************************************************************)
RecoveryFails(i) ==
  /\ Advance(i, "lost")
  /\ recovered' = recovered \ {i}
  /\ Forget(i)
  /\ UNCHANGED restarts

(***************************************************************************)
(* The recovery lock in Redis is set here; nothing reads it.               *)
(***************************************************************************)
BeginRecovery(i) ==
  /\ proc[i] = "down"
  /\ \/ ~halted /\ Advance(i, "orders")
               /\ UNCHANGED <<recovered, scan, todo, sent, restarts>>
     \/ /\ halted \/ "db" \in Faults
        /\ RecoveryFails(i)
  /\ UNCHANGED <<trackerVars, brokerVars, letterVars, taskVars, riskVars>>

(***************************************************************************)
(* Open broker orders are cancelled; positions.reconcile only logs.  Any   *)
(* of the calls may raise, before or after the orders were cancelled.      *)
(***************************************************************************)
RecoverOrders(i) ==
  /\ proc[i] = "orders"
  /\ \/ /\ CancelAllOrders
        /\ Advance(i, "listing")
        /\ UNCHANGED <<recovered, scan, todo, sent, restarts>>
     \/ /\ Faults \cap {"net", "db"} # {}
        /\ RecoveryFails(i)
        /\ CancelAllOrders \/ UNCHANGED brokerVars
  /\ UNCHANGED <<trackerVars, letterVars, taskVars, riskVars>>

(* _recover_expired_leases: SCAN answers the lease keys (in one page). *)
ListLeases(i) ==
  /\ proc[i] = "listing"
  /\ Advance(i, "leases")
  /\ \/ scan' = [scan EXCEPT ![i] = {o \in Order : lease[o] # "none"}]
     \/ "redis" \in Faults /\ UNCHANGED scan
  /\ UNCHANGED <<recovered, todo, sent, restarts>>
  /\ UNCHANGED <<trackerVars, brokerVars, letterVars, taskVars, riskVars>>

(* A fault: every lease counts as expired. *)
RecoverAnyLease(i, o) ==
  /\ proc[i] = "leases"
  /\ o \in scan[i]
  /\ lease[o] # "none"
  /\ Transition(o, "dead_letter")
  /\ scan' = [scan EXCEPT ![i] = @ \ {o}]
  /\ KeepOwnership
  /\ UNCHANGED <<proc, recovered, todo, sent, restarts>>
  /\ UNCHANGED <<brokerVars, letterVars, taskVars, riskVars>>

(***************************************************************************)
(* _recover_expired_leases looks at one of the keys, any instance's: it is *)
(* taken for expired if 10 s or less are left, or if it was released since *)
(* the SCAN (TTL -2).  A Redis error ends the scan and is swallowed.       *)
(***************************************************************************)
RecoverLease(i, o) ==
  /\ proc[i] = "leases"
  /\ o \in scan[i]
  /\ \/ /\ IF lease[o] # "live"
             THEN Transition(o, "dead_letter") ELSE UNCHANGED log
        /\ scan' = [scan EXCEPT ![i] = @ \ {o}]
     \/ /\ "redis" \in Faults
        /\ UNCHANGED log \/ (lease[o] # "live" /\ TransitionRaises(o, "dead_letter"))
        /\ scan' = [scan EXCEPT ![i] = {}]
  /\ KeepOwnership
  /\ UNCHANGED <<proc, recovered, todo, sent, restarts>>
  /\ UNCHANGED <<brokerVars, letterVars, taskVars, riskVars>>

(* reconcile_unresolved takes its list of letters. *)
ListLetters(i) ==
  /\ proc[i] = "leases"
  /\ scan[i] = {}
  /\ \/ /\ Advance(i, "letters")
        /\ todo' = [todo EXCEPT ![i] = GetUnresolved]
        /\ UNCHANGED <<recovered, scan, sent, restarts>>
     \/ "db" \in Faults /\ RecoveryFails(i)
  /\ UNCHANGED <<trackerVars, brokerVars, letterVars, taskVars, riskVars>>

LetterDone(i, letter) == todo' = [todo EXCEPT ![i] = @ \ {letter}]

(***************************************************************************)
(* replay: unless another instance resolved the letter since it was        *)
(* listed, its order goes to the broker; it may also be resolved between   *)
(* that look and the request.  A failure leaves the letter open and counts *)
(* the retry, and that statement may raise too.                            *)
(***************************************************************************)
ReplayLetter(i, letter) ==
  /\ proc[i] = "letters"
  /\ sent[i] = {}
  /\ letter \in todo[i]
  /\ IsReplayed(letter)
  /\ \/ /\ letter \in resolved
        /\ LetterDone(i, letter)
        /\ UNCHANGED <<proc, recovered, scan, sent, restarts, brokerVars>>
     \/ /\ SubmitReturns(letter[1])
        /\ sent' = [sent EXCEPT ![i] = {letter}]
        /\ UNCHANGED <<proc, recovered, scan, todo, restarts>>
     \/ /\ SubmitRaises(letter[1])
        /\ \/ LetterDone(i, letter)
              /\ UNCHANGED <<proc, recovered, scan, sent, restarts>>
           \/ "db" \in Faults /\ RecoveryFails(i)
     \/ /\ "db" \in Faults
        /\ RecoveryFails(i)
        /\ UNCHANGED brokerVars
  /\ UNCHANGED <<trackerVars, letterVars, taskVars, riskVars>>

(* A fault: a letter is resolved whether or not its replay got through. *)
ResolveAnyLetter(i, letter) ==
  /\ proc[i] = "letters"
  /\ letter \in todo[i]
  /\ Resolve(letter)
  /\ LetterDone(i, letter)
  /\ sent' = [sent EXCEPT ![i] = {}]
  /\ UNCHANGED <<proc, recovered, scan, restarts>>
  /\ UNCHANGED <<trackerVars, brokerVars, taskVars, riskVars>>

(* resolve, for a replayed letter and for one that is only classified. *)
ResolveLetter(i, letter) ==
  /\ proc[i] = "letters"
  /\ letter \in todo[i]
  /\ IF IsReplayed(letter) THEN letter \in sent[i] ELSE sent[i] = {}
  /\ \/ /\ Resolve(letter)
        /\ LetterDone(i, letter)
        /\ sent' = [sent EXCEPT ![i] = {}]
        /\ UNCHANGED <<proc, recovered, scan, restarts>>
     \/ /\ "db" \in Faults
        /\ IsReplayed(letter)
        /\ LetterDone(i, letter)
        /\ sent' = [sent EXCEPT ![i] = {}]
        /\ UNCHANGED <<proc, recovered, scan, restarts, letterVars>>
     \/ "db" \in Faults /\ RecoveryFails(i) /\ UNCHANGED letterVars
  /\ UNCHANGED <<trackerVars, brokerVars, taskVars, riskVars>>

(* A fault: execution stays locked while a letter is open. *)
EndRecoveryWhenResolved(i) ==
  /\ proc[i] = "letters"
  /\ todo[i] = {}
  /\ Advance(i, "lost")
  /\ recovered' = IF GetUnresolved = {} THEN recovered \cup {i}
                                        ELSE recovered \ {i}
  /\ UNCHANGED <<scan, todo, sent, restarts>>
  /\ UNCHANGED <<trackerVars, brokerVars, letterVars, taskVars, riskVars>>

EndRecovery(i) ==
  /\ proc[i] = "letters"
  /\ todo[i] = {}
  /\ Advance(i, "lost")
  /\ recovered' = recovered \cup {i}
  /\ UNCHANGED <<scan, todo, sent, restarts>>
  /\ UNCHANGED <<trackerVars, brokerVars, letterVars, taskVars, riskVars>>

(* get_lost_orders; its 30 s limit, or a Redis error, skips this part. *)
ListLostOrders(i) ==
  /\ proc[i] = "lost"
  /\ Advance(i, "marking")
  /\ \/ scan' = [scan EXCEPT ![i] = LostOrders({o \in Order : runner[o] = i})]
     \/ "redis" \in Faults /\ UNCHANGED scan
  /\ UNCHANGED <<recovered, todo, sent, restarts>>
  /\ UNCHANGED <<trackerVars, brokerVars, letterVars, taskVars, riskVars>>

MarkLostOrder(i, o) ==
  /\ proc[i] = "marking"
  /\ o \in scan[i]
  /\ \/ /\ Transition(o, "dead_letter")
        /\ scan' = [scan EXCEPT ![i] = @ \ {o}]
     \/ /\ TransitionRaises(o, "dead_letter")
        /\ scan' = [scan EXCEPT ![i] = {}]
  /\ KeepOwnership
  /\ UNCHANGED <<proc, recovered, todo, sent, restarts>>
  /\ UNCHANGED <<brokerVars, letterVars, taskVars, riskVars>>

Serve(i) ==
  /\ proc[i] = "marking"
  /\ scan[i] = {}
  /\ Advance(i, "serving")
  /\ UNCHANGED <<recovered, scan, todo, sent, restarts>>
  /\ UNCHANGED <<trackerVars, brokerVars, letterVars, taskVars, riskVars>>

-----------------------------------------------------------------------------
(* The ends of run().                                                      *)

Tasks(i) == {o \in Order : runner[o] = i /\ Alive(o)}

StopRun(i) ==
  /\ proc[i] # "down"
  /\ restarts < MaxRestarts
  /\ restarts' = restarts + 1
  /\ Advance(i, "down")
  /\ Forget(i)

(***************************************************************************)
(* A broker request that is out when its process dies, or its coroutine is *)
(* cancelled, may still arrive (Alpaca's even runs on in its thread).      *)
(***************************************************************************)
Requested(i) ==
  {o \in Tasks(i) : pc[o] = "submit"}
    \cup {letter[1] : letter \in {r \in todo[i] :
                                   IsReplayed(r) /\ sent[i] = {}}}

KillTasks(i) ==
  /\ \E late \in SUBSET Requested(i) :
       inflight' = IF Remote THEN inflight \cup late ELSE inflight
  /\ UNCHANGED <<venue, accepted>>
  /\ pc' = [o \in Order |-> IF o \in Tasks(i) THEN "killed" ELSE pc[o]]
  /\ attempts' = [o \in Order |-> IF o \in Tasks(i) THEN 0 ELSE attempts[o]]
  /\ active' = active \ Tasks(i)
  /\ UNCHANGED <<runner, booked>>

(***************************************************************************)
(* The process dies: every coroutine where it stands, leases left behind.  *)
(* An instance_id is host:pid; if the next process gets another one, the   *)
(* ownership records of this one name nobody any more.                     *)
(***************************************************************************)
Crash(i) ==
  /\ StopRun(i)
  /\ recovered' = recovered \ {i}
  /\ KillTasks(i)
  /\ owned' \in {owned, owned \ {o \in Order : runner[o] = i}}
  /\ UNCHANGED <<lease, log, letterVars, riskVars>>

(***************************************************************************)
(* stop(), or an exception in the signal loop: _shutdown_background_tasks  *)
(* cancels every execute(), whose finally releases its lease, unless it    *)
(* was already there.                                                      *)
(***************************************************************************)
ReleasedBy(i) == {o \in Tasks(i) : pc[o] \in Guarded}

Shutdown(i) ==
  /\ proc[i] = "serving"
  /\ StopRun(i)
  /\ KillTasks(i)
  /\ \E keep \in SUBSET ReleasedBy(i) :
       /\ \A o \in keep : pc[o] = "cleanup" \/ "redis" \in Faults
       /\ lease' = [o \in Order |-> IF o \in ReleasedBy(i) \ keep
                                      THEN "none" ELSE lease[o]]
  /\ UNCHANGED <<owned, log, recovered, letterVars, riskVars>>

(***************************************************************************)
(* A Redis error leaves run() outside its try, or in pubsub.unsubscribe()  *)
(* of its finally: the coroutines live on while _run_with_retry calls      *)
(* run() again, which starts with recovery.                                *)
(***************************************************************************)
RunRaises(i) ==
  /\ "redis" \in Faults
  /\ StopRun(i)
  /\ UNCHANGED <<recovered, trackerVars, brokerVars, letterVars>>
  /\ UNCHANGED <<taskVars, riskVars>>

(* run() from the start of the reconciliation to the signal loop. *)
Recover(i) ==
  \/ RecoverOrders(i) \/ ListLeases(i) \/ ListLetters(i) \/ EndRecovery(i)
  \/ ListLostOrders(i) \/ Serve(i)
  \/ \E o \in Order : RecoverLease(i, o) \/ MarkLostOrder(i, o)
  \/ \E letter \in Letter : ReplayLetter(i, letter) \/ ResolveLetter(i, letter)

Next ==
  \/ \E o \in Order : Execute(o) \/ Renew(o) \/ LeaseAges(o) \/ Market(o)
  \/ \E o \in Order, i \in Instance : Start(o, i)
  \/ \E i \in Instance : BeginRecovery(i) \/ Recover(i)
  \/ \E i \in Instance : Crash(i) \/ Shutdown(i) \/ RunRaises(i)
  \/ Halt \/ Resume

Spec == Init /\ [][Next]_vars

(***************************************************************************)
(* The event loop runs every coroutine that can go on, every broker call   *)
(* has a timeout, and a TTL runs down.  Nothing makes a signal arrive, the *)
(* venue trade, or a stopped gateway start again.                          *)
(***************************************************************************)
Fairness ==
  /\ \A o \in Order : WF_vars(Execute(o)) /\ WF_vars(LeaseAges(o))
  /\ \A i \in Instance : WF_vars(Recover(i))

FairSpec == Spec /\ Fairness

-----------------------------------------------------------------------------
(* Safety                                                                  *)

(***************************************************************************)
(* Money: a position exists only for an order the venue filled as a whole, *)
(* and no order is booked twice, whatever fails, dies or is replayed.      *)
(* (execute() books after _poll_fill answered filled, lines 693-731.)      *)
(***************************************************************************)
NoPhantomPosition ==
  \A o \in Order : booked[o] <= 1 /\ (booked[o] > 0 => venue[o] = "filled")

(***************************************************************************)
(* Audit: a row that says the broker took the order, or executed it as a   *)
(* whole or in part, is true of the venue and stays true, after retries,   *)
(* restarts and replays.  (Nothing is claimed of CANCELLED rows, line 810: *)
(* execute() writes them when the cancel was asked for, and the order may  *)
(* fill all the same.  A key with two orders, on Binance, shows the last.) *)
(***************************************************************************)
LogTruthful ==
  \A o \in Order :
    /\ InLog(o, "broker_ack") => venue[o] # "none"
    /\ InLog(o, "filled") => venue[o] = "filled"
    /\ InLog(o, "partially_filled") => Executed(o) \/ accepted[o] > 1

(***************************************************************************)
(* A fill is lost in one way only: when execute() has returned, an order   *)
(* the venue filled is in the books, or in the dead letter table, or was   *)
(* given up at the time limit and is CANCELLED in the log (lines 806-813:  *)
(* the cancel was accepted, its outcome is not looked at, and a later fill *)
(* is noted nowhere).  Every other crossing of a fill with the retries,    *)
(* the time limit, a cancel that raises or a refused booking ends in the   *)
(* books or in a letter.  (For Alpaca, with broker calls that fail.)       *)
(***************************************************************************)
FillAccounted ==
  \A o \in Order :
    pc[o] = "ended" /\ venue[o] = "filled" =>
      booked[o] = 1 \/ HasLetter(o) \/ InLog(o, "cancelled")

(***************************************************************************)
(* The docstring of ExecutionGateway (76-78): every order that reaches the *)
(* broker has passed the kill switch and the risk check.                   *)
(***************************************************************************)
OnlyApprovedOrders ==
  \A o \in Order : accepted[o] > 0 => InLog(o, "risk_approved")

(***************************************************************************)
(* dead_letter.py 119: replay is safe, so a broker never executes an order *)
(* a second time.                                                          *)
(***************************************************************************)
NoDoubleExecution == \A o \in Order : accepted[o] <= 1

(***************************************************************************)
(* reconcile_unresolved closes a letter of the transient and broker        *)
(* classes only when the broker holds an order for its key, in whatever    *)
(* order two recovering gateways list, replay and resolve it.              *)
(***************************************************************************)
ReplayedThenResolved ==
  \A letter \in resolved : IsReplayed(letter) => venue[letter[1]] # "none"

(***************************************************************************)
(* The lease maintenance set never holds a key whose coroutine is gone (it *)
(* would be renewed for ever, and hide the order from failover).           *)
(***************************************************************************)
OnlyLivingLeases == \A o \in active : Alive(o)

-----------------------------------------------------------------------------
(* Action properties                                                       *)

(***************************************************************************)
(* A halt bounds what is still sent to the broker: only by the coroutines  *)
(* that had passed their check when it was written, and by a replay of a   *)
(* recovery that had passed its own.  (What was sent before may arrive.)   *)
(***************************************************************************)
Sent(o) ==
  \/ accepted'[o] # accepted[o] /\ ~(o \in inflight /\ o \notin inflight')
  \/ o \in inflight' \ inflight

HaltHolds ==
  [][halted => \A o \in Order :
       Sent(o) =>
         \/ o \in past /\ pc[o] = "submit"
         \/ \E i \in past \cap Instance :
              proc[i] = "letters" /\ <<o, "retriable">> \in todo[i]]_vars

(***************************************************************************)
(* Failover never writes into the log of an order whose coroutine lives:   *)
(* each row comes from the coroutine's own step.  (Leases are renewed in   *)
(* time and run() restarts only without its coroutines.)                   *)
(***************************************************************************)
LivingOrdersLeftAlone ==
  [][\A o \in Order : Alive(o) /\ log'[o] # log[o] => pc'[o] # pc[o]]_vars

(***************************************************************************)
(* After a terminal row only DEAD_LETTER rows follow: an error after the   *)
(* fill, or the marking of "lost" orders at a restart.                     *)
(***************************************************************************)
OnlyDeadLetterAfterEnd ==
  [][\A o \in Order :
       ReachedTerminal(o) /\ log'[o] # log[o] =>
         log'[o] = Append(log[o], "dead_letter")]_vars

(***************************************************************************)
(* recovery_manager.py 65: while a gateway reconciles, its recovery lock   *)
(* keeps every gateway from sending new orders to the broker.              *)
(***************************************************************************)
RecoveryBlocksExecution ==
  [][(\E i \in Instance : proc[i] \in Reconciling) =>
       \A o \in Order : pc[o] = "submit" => accepted'[o] = accepted[o]]_vars

(***************************************************************************)
(* broker_adapter.py 56: get_order_status gets the current status, so (when*)
(* the broker answers) execute() gives up only on an order not yet filled. *)
(***************************************************************************)
StatusIsCurrent ==
  [][\A o \in Order :
       pc[o] = "poll" /\ pc'[o] = "timeout" => venue[o] # "filled"]_vars

-----------------------------------------------------------------------------
(* Refinement: what the execution layer promises about money.              *)

ExposureOf(state) ==
  CASE state = "none" -> "none"
    [] state = "open" -> "working"
    [] state = "partial" -> "part"
    [] state = "filled" -> "whole"
    [] state = "cancelled" -> "dropped"
    [] state = "cut" -> "cut"

Promise == INSTANCE FillBooking
  WITH exposure <- [o \in Order |-> ExposureOf(venue[o])],
       books <- booked,
       Reusable <- Adapter = "binance"

(***************************************************************************)
(* The gateway implements FillBooking: no step of a coroutine, a recovery  *)
(* or a crash moves an order or its booking in a way FillBooking forbids.  *)
(***************************************************************************)
ImplementsFillBooking == Promise!Spec

-----------------------------------------------------------------------------
(* Liveness, under FairSpec                                                *)

(* Every execute() returns, unless its process dies. *)
OrderEnds == \A o \in Order : pc[o] # "idle" ~> pc[o] \in {"ended", "killed"}

(***************************************************************************)
(* No lease stays for ever: also those execute() returns without releasing *)
(* (lines 541-552) and those of dead processes are gone in the end.        *)
(***************************************************************************)
LeaseFreed == \A o \in Order : lease[o] # "none" ~> lease[o] = "none"

(***************************************************************************)
(* While database and broker answer, a reconciliation that found the       *)
(* switch off does not leave its gateway locked: it ends with the gateway  *)
(* in its signal loop and its execution enabled, or with the end of run(), *)
(* whatever Redis fails and however the leases and letters look.  (When    *)
(* one of them raises, line 121, or the switch is on at the start, the     *)
(* gateway serves with its execution locked until it is started again.)    *)
(***************************************************************************)
RecoveryEnds ==
  Faults \cap {"db", "net"} = {} =>
    \A i \in Instance :
      proc[i] \in Reconciling ~>
        proc[i] = "down" \/ (proc[i] = "serving" /\ i \in recovered)

=============================================================================
