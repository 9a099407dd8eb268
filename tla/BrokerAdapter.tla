---------------------------- MODULE BrokerAdapter ---------------------------
(***************************************************************************)
(* atlas/agents/l5_execution/broker_adapter.py: what the three adapters do *)
(* with an order, and what the venue behind them does on its own.          *)
(*                                                                         *)
(*   alpaca     an order rests at the venue; a cancel that was answered    *)
(*              is an accepted request, and the order may fill before the  *)
(*              venue acts on it; cancelling a finished order raises       *)
(*   binance    get_order_status only looks into openOrders, and           *)
(*              cancel_order does nothing                                  *)
(*   simulator  fills within submit_order, answers always, and gives every *)
(*              call a new order id: client_order_id is stored, not looked *)
(*              up                                                         *)
(*                                                                         *)
(* No adapter looks at the client_order_id itself ("the broker handles     *)
(* idempotency on its end", execution_gateway.py 957).  What the venues do *)
(* with one is assumed here, in IdTaken, and nowhere else.                 *)
(***************************************************************************)
EXTENDS ExecutionTypes, Naturals

CONSTANT Adapter

ASSUME AdapterAssumption == Adapter \in {"alpaca", "binance", "simulator"}

VARIABLES
  venue,     \* the state of the last broker order made for an order key
  accepted,  \* how many broker orders were made for an order key
  inflight   \* orders with a request under way that nobody waits for

brokerVars == <<venue, accepted, inflight>>

(* "cut": cancelled after a part of it was executed. *)
VenueState == {"none", "open", "partial", "filled", "cancelled", "cut"}

BrokerTypeOK ==
  /\ venue \in [Order -> VenueState]
  /\ accepted \in [Order -> Nat]
  /\ inflight \in SUBSET Order

BrokerInit ==
  /\ venue = [o \in Order |-> "none"]
  /\ accepted = [o \in Order |-> 0]
  /\ inflight = {}

Remote == Adapter # "simulator"

Working(o) == venue[o] \in {"open", "partial"}

Executed(o) == venue[o] \in {"partial", "filled", "cut"}

(***************************************************************************)
(* The venue refuses the client_order_id: Alpaca wants it to be unique,    *)
(* Binance only among the open orders.                                     *)
(***************************************************************************)
IdTaken(o) ==
  CASE Adapter = "alpaca" -> venue[o] # "none"
    [] Adapter = "binance" -> Working(o)
    [] OTHER -> FALSE

(* A new broker order for the key. *)
NewBrokerOrder(o) ==
  /\ ~IdTaken(o)
  /\ venue' = [venue EXCEPT ![o] = IF Remote THEN "open" ELSE "filled"]
  /\ accepted' = [accepted EXCEPT ![o] = @ + 1]
  /\ UNCHANGED inflight

(* submit_order returns an order: a new one, or the one of that id. *)
SubmitReturns(o) ==
  \/ NewBrokerOrder(o)
  \/ IdTaken(o) /\ UNCHANGED brokerVars

(* submit_order raises: refused, unreachable, or given up while under way. *)
SubmitRaises(o) ==
  /\ Remote
  /\ \/ UNCHANGED brokerVars
     \/ /\ "net" \in Faults
        /\ inflight' = inflight \cup {o}
        /\ UNCHANGED <<venue, accepted>>

(***************************************************************************)
(* The status of get_order_status, as _poll_fill tells the answers apart.  *)
(* (Where a second Binance order has come behind the one asked about, this *)
(* is the status of the second.)                                           *)
(***************************************************************************)
StatusSeen(o) ==
  CASE Working(o) -> venue[o]
    [] Adapter = "binance" -> "unknown"
    [] venue[o] \in {"cancelled", "cut"} -> "cancelled"
    [] OTHER -> venue[o]

Cancelled(o) == IF venue[o] = "open" THEN "cancelled" ELSE "cut"

(***************************************************************************)
(* cancel_order returns.  Alpaca took the request for a working order:     *)
(* the order is cancelled now, or later, or fills first (VenueMoves).      *)
(* Binance: no-op.  The simulator fills at once, so nobody ever asks it.   *)
(***************************************************************************)
CancelReturns(o) ==
  \/ /\ Adapter = "alpaca" /\ Working(o)
     /\ venue' \in {venue, [venue EXCEPT ![o] = Cancelled(o)]}
     /\ UNCHANGED <<accepted, inflight>>
  \/ Adapter = "binance" /\ UNCHANGED brokerVars

(* cancel_order raises: the order is finished, or the call failed. *)
CancelRaises(o) ==
  /\ Adapter = "alpaca"
  /\ \/ ~Working(o) /\ UNCHANGED brokerVars
     \/ /\ "net" \in Faults
        /\ venue' \in {venue, [venue EXCEPT ![o] = Cancelled(o)]}
        /\ Working(o)
        /\ UNCHANGED <<accepted, inflight>>

(***************************************************************************)
(* get_open_orders and, when it answered a non-empty list,                 *)
(* cancel_all_orders, which again asks the venue for the cancellation of   *)
(* each order; Binance's calls fail in silence when the status is not 200. *)
(***************************************************************************)
CancelAllOrders ==
  /\ \E gone \in SUBSET {o \in Order : Working(o)} :
       venue' = [o \in Order |-> IF o \in gone THEN Cancelled(o) ELSE venue[o]]
  /\ UNCHANGED <<accepted, inflight>>

(* The market: the venue fills, part-fills or drops a working order. *)
VenueMoves(o) ==
  /\ Working(o)
  /\ venue' \in { [venue EXCEPT ![o] = s] :
                    s \in {"partial", "filled", Cancelled(o)} \ {venue[o]} }
  /\ UNCHANGED <<accepted, inflight>>

(***************************************************************************)
(* A request that was under way is lost or reaches the venue, which makes  *)
(* an order of it unless it refuses the client_order_id.                   *)
(***************************************************************************)
Arrives(o) ==
  /\ o \in inflight
  /\ inflight' = inflight \ {o}
  /\ \/ UNCHANGED <<venue, accepted>>
     \/ /\ ~IdTaken(o)
        /\ venue' = [venue EXCEPT ![o] = "open"]
        /\ accepted' = [accepted EXCEPT ![o] = @ + 1]

=============================================================================
