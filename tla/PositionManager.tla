--------------------------- MODULE PositionManager ---------------------------
(***************************************************************************)
(* The positions table, the code that books fills into it, and the         *)
(* mark-to-market loop that closes positions out of it                     *)
(* (l5_execution/position_manager.py, with the exit policy it applies and  *)
(* the duplicate check the gateway makes before it trades).                *)
(*                                                                         *)
(* The database runs under READ COMMITTED: a SELECT sees what is committed *)
(* and locks nothing; an UPDATE or DELETE waits for a row another          *)
(* transaction has written and then finds it changed or gone.  The table   *)
(* has no unique key beside id.                                            *)
(*                                                                         *)
(* Quantities and fill prices are whole numbers, an average price is a     *)
(* fraction of two; market prices appear as the move since the entry.  A   *)
(* row is named by the fill that inserted it (its uuid is fresh).          *)
(***************************************************************************)
EXTENDS Integers, FiniteSets, FiniteSetsExt

CONSTANTS
  Order,       \* runs of execute(), each with one fill to book
  Key,         \* pairs of a strategy and a symbol
  Trades,      \* what the runs may be about: functions from Order to Trade
  Monitor,     \* mark-to-market loops: one per call of start_monitoring
  Cap,         \* MAX_NOTIONAL_PER_POS
  StopLoss, TakeProfit,  \* resolved exit policy, as moves; 0: leg disabled
  Move,        \* moves of the market since the entry
  NoRow,
  MaxFaults    \* bound: failures, stops and restarts in a behaviour

ASSUME PositionAssumption ==
  /\ Cap \in Nat \ {0}
  /\ StopLoss \in Nat /\ TakeProfit \in Nat
  /\ Move \subseteq Int
  /\ MaxFaults \in Nat

Side == {"buy", "sell"}
Positive == Nat \ {0}
Trade == [key : Key, side : Side, qty : Positive, price : Positive]
Average == [num : Positive, den : Positive]
Row == [id : Order, key : Key, side : Side, qty : Positive, avg : Average]

ASSUME NoRowAssumption == NoRow \notin Row
ASSUME TradesAssumption == \A t \in Trades : t \in [Order -> Trade]

VARIABLES
  rows,      \* positions: the committed rows
  overdue,   \* ids of the rows older than their strategy's hold_time_max
  exited,    \* paper_trades: quantity per key recorded as sold by exits
  cache,     \* Redis positions:<strategy>: quantity per key, 0 for no field
  pc,        \* where the run of execute() stands
  order,     \* key, side, quantity and price of the run
  seen,      \* the row open_position's SELECT returned
  mon,       \* the loops and their open transactions
  landed,    \* history: runs whose open_position committed
  raced,     \* history: keys two transactions worked on at once, or whose
             \* pass the database ended for a deadlock
  faults

bookVars == <<rows, exited, cache>>
fillVars == <<pc, order, seen, landed>>
vars == <<rows, overdue, exited, cache, pc, order, seen, mon, landed, raced,
          faults>>

Stage == {"idle", "checked", "read", "booked", "done", "failed"}

Asleep == [pc |-> "asleep", keys |-> {}, todo |-> {}, locked |-> {},
           gone |-> {}, sold |-> [k \in Key |-> 0]]
Off == [Asleep EXCEPT !.pc = "off"]

RowsOf(k) == {r \in rows : r.key = k}
RowIds(R) == {r.id : r \in R}

Init ==
  /\ rows = {} /\ overdue = {}
  /\ exited = [k \in Key |-> 0]
  /\ cache = [k \in Key |-> 0]
  /\ pc = [o \in Order |-> "idle"]
  /\ order \in Trades
  /\ seen = [o \in Order |-> NoRow]
  /\ mon = [m \in Monitor |-> Asleep]
  /\ landed = {}
  /\ raced = {}
  /\ faults = 0

(***************************************************************************)
(* Transactions that have read the key's rows and are not over.            *)
(***************************************************************************)
FillsOn(k) == {o \in Order : pc[o] \in {"read", "booked"} /\ order[o].key = k}
LoopsOn(k) == {m \in Monitor : mon[m].pc = "at_work" /\ k \in mon[m].keys}
Busy(k) == FillsOn(k) # {} \/ LoopsOn(k) # {}

(* Rows some loop's open transaction has updated or deleted. *)
LockedBy(m) == mon[m].locked \cup mon[m].gone
Locked(id) == \E m \in Monitor : id \in LockedBy(m)
LockedByOther(m, id) == \E n \in Monitor \ {m} : id \in LockedBy(n)

(* A notional, quantity by average price, against MAX_NOTIONAL_PER_POS. *)
ExceedsCap(qty, avg) == qty * avg.num > Cap * avg.den

PriceOf(o) == [num |-> order[o].price, den |-> 1]

(* The guard on the notional of the fill alone. *)
FillTooLarge(o) == ExceedsCap(order[o].qty, PriceOf(o))

-----------------------------------------------------------------------------
(***************************************************************************)
(* execute(): the duplicate check, long before the order is filled.        *)
(***************************************************************************)
DuplicateCheck(o) ==
  /\ pc[o] = "idle"
  /\ LET found == RowsOf(order[o].key)  \* LIMIT 1: any one of them
     IN \/ /\ \/ found = {}
              \/ \E r \in found : r.side # order[o].side
           /\ pc' = [pc EXCEPT ![o] = "checked"]
        \/ /\ \E r \in found : r.side = order[o].side
           /\ pc' = [pc EXCEPT ![o] = "done"]
  /\ UNCHANGED <<order, seen, landed, bookVars, overdue, mon, raced, faults>>

(* A fault: the SELECT asks for the side too. *)
OpenReadSameSide(o) ==
  LET k == order[o].key
      found == {r \in RowsOf(k) : r.side = order[o].side}
  IN /\ pc[o] = "checked"
     /\ ~FillTooLarge(o)
     /\ pc' = [pc EXCEPT ![o] = "read"]
     /\ \E r \in IF found = {} THEN {NoRow} ELSE found :
          seen' = [seen EXCEPT ![o] = r]
     /\ raced' = IF Busy(k) THEN raced \cup {k} ELSE raced
     /\ UNCHANGED <<order, landed, bookVars, overdue, mon, faults>>

(***************************************************************************)
(* open_position, first half: the guard on the fill's own notional and the *)
(* SELECT; fetchone takes any row of the key.                              *)
(***************************************************************************)
OpenRead(o) ==
  LET k == order[o].key
  IN /\ pc[o] = "checked"
     /\ IF FillTooLarge(o)
          THEN /\ pc' = [pc EXCEPT ![o] = "failed"]
               /\ UNCHANGED <<seen, raced>>
          ELSE /\ pc' = [pc EXCEPT ![o] = "read"]
               /\ \E r \in IF RowsOf(k) = {} THEN {NoRow} ELSE RowsOf(k) :
                    seen' = [seen EXCEPT ![o] = r]
               /\ raced' = IF Busy(k) THEN raced \cup {k} ELSE raced
     /\ UNCHANGED <<order, landed, bookVars, overdue, mon, faults>>

Increases(o) == seen[o] # NoRow /\ seen[o].side = order[o].side
Closes(o) ==
  seen[o] # NoRow /\ seen[o].side # order[o].side /\ order[o].qty >= seen[o].qty
Reduces(o) ==
  seen[o] # NoRow /\ seen[o].side # order[o].side /\ order[o].qty < seen[o].qty

(***************************************************************************)
(* UPDATE positions SET qty ..., and SET qty ..., avg_price ... WHERE id:  *)
(* the row as it is now, and nothing if it is gone.                        *)
(***************************************************************************)
Updated(id, qty) == {IF r.id = id THEN [r EXCEPT !.qty = qty] ELSE r : r \in rows}
Repriced(id, qty, avg) ==
  {IF r.id = id THEN [r EXCEPT !.qty = qty, !.avg = avg] ELSE r : r \in rows}

(* The coroutine is over, and its local copy of the row with it. *)
Ends(o, stage) ==
  /\ pc' = [pc EXCEPT ![o] = stage]
  /\ seen' = [seen EXCEPT ![o] = NoRow]

NewRow(o) ==
  [id |-> o, key |-> order[o].key, side |-> order[o].side,
   qty |-> order[o].qty, avg |-> PriceOf(o)]

(* An increase: the sum, at the average over the row read and the fill. *)
NewQty(o) == seen[o].qty + order[o].qty
NewAvg(o) ==
  [num |-> seen[o].avg.num * seen[o].qty
             + order[o].price * order[o].qty * seen[o].avg.den,
   den |-> seen[o].avg.den * NewQty(o)]

(***************************************************************************)
(* open_position, second half: one statement, computed from the row read,  *)
(* and the commit.  Between the two nothing else happens in the            *)
(* transaction, so they are one step, which waits for the row's lock.      *)
(***************************************************************************)
(* A fault: a fill of the other side leaves the row with what is over. *)
BookedRowsTurned(o) ==
  IF seen[o] = NoRow THEN rows \cup {NewRow(o)}
  ELSE Updated(seen[o].id, seen[o].qty +
                 (IF Increases(o) THEN order[o].qty ELSE -order[o].qty))

(* A fault: a reduction is added. *)
BookedRowsAdded(o) ==
  CASE seen[o] = NoRow -> rows \cup {NewRow(o)}
    [] Increases(o) \/ Reduces(o) ->
         Updated(seen[o].id, seen[o].qty + order[o].qty)
    [] Closes(o) -> {r \in rows : r.id # seen[o].id}

BookedRows(o) ==
  CASE seen[o] = NoRow -> rows \cup {NewRow(o)}
    [] Increases(o)    -> Repriced(seen[o].id, NewQty(o), NewAvg(o))
    [] Closes(o)       -> {r \in rows : r.id # seen[o].id}
    [] Reduces(o)      -> Updated(seen[o].id, seen[o].qty - order[o].qty)

(* A fault: only the fill's own notional is looked at. *)
OverCapOfFill(o) == Increases(o) /\ FillTooLarge(o)

(* The accumulated notional. *)
OverCap(o) == Increases(o) /\ ExceedsCap(NewQty(o), NewAvg(o))

OpenBook(o) ==
  /\ pc[o] = "read"
  /\ IF OverCap(o)
       THEN /\ Ends(o, "failed")
            /\ UNCHANGED <<rows, landed>>
       ELSE /\ seen[o] # NoRow => ~Locked(seen[o].id)
            /\ rows' = BookedRows(o)
            /\ pc' = [pc EXCEPT ![o] = "booked"]
            /\ landed' = landed \cup {o}
            /\ UNCHANGED seen
  /\ UNCHANGED <<order, exited, cache, overdue, mon, raced, faults>>

(* A fault: always HSET. *)
OpenCacheAlwaysSets(o) ==
  /\ pc[o] = "booked"
  /\ cache' = [cache EXCEPT ![order[o].key] = order[o].qty]
  /\ Ends(o, "done")
  /\ UNCHANGED <<order, landed, rows, exited, overdue, mon, raced, faults>>

(* Redis after the commit: HDEL after a full close, else the fill's own    *)
(* quantity.                                                               *)
OpenCache(o) ==
  /\ pc[o] = "booked"
  /\ cache' = [cache EXCEPT ![order[o].key] =
                 IF Closes(o) THEN 0 ELSE order[o].qty]
  /\ Ends(o, "done")
  /\ UNCHANGED <<order, landed, rows, exited, overdue, mon, raced, faults>>

(* A statement or Redis raises, or the coroutine is cancelled: what is not *)
(* committed is rolled back.                                               *)
OpenFails(o) ==
  /\ pc[o] \in {"read", "booked"}
  /\ faults < MaxFaults
  /\ faults' = faults + 1
  /\ Ends(o, "failed")
  /\ UNCHANGED <<order, landed, bookVars, overdue, mon, raced>>

-----------------------------------------------------------------------------
(***************************************************************************)
(* exit_policy.py: the stop-loss and take-profit legs on the move of the   *)
(* price since the entry, and the time-stop.                               *)
(***************************************************************************)
CheckPriceExit(side, move) ==
  LET gain == IF side = "buy" THEN move ELSE -move
  IN \/ StopLoss > 0 /\ gain <= -StopLoss
     \/ TakeProfit > 0 /\ gain >= TakeProfit

CheckTimeExit(id) == id \in overdue

(* A position reaches its hold_time_max. *)
Age(id) ==
  /\ id \in RowIds(rows) \ overdue
  /\ overdue' = overdue \cup {id}
  /\ UNCHANGED <<bookVars, fillVars, mon, raced, faults>>

(* update_mark_to_market: the SELECT over all positions. *)
MarkRead(m) ==
  /\ \/ mon[m].pc = "asleep"
     \/ mon[m].pc = "backoff" /\ \A n \in Monitor : mon[n].pc # "at_work"
  /\ rows # {}
  /\ LET keys == {r.key : r \in rows}
     IN /\ mon' = [mon EXCEPT ![m] =
                     [Asleep EXCEPT !.pc = "at_work", !.todo = rows, !.keys = keys]]
        /\ raced' = raced \cup {k \in keys : Busy(k)}
  /\ UNCHANGED <<bookVars, overdue, fillVars, faults>>

(* The mark is written, and the row locked, only with a live price. *)
MarkFree(m, r, live) == live => ~LockedByOther(m, r.id)
MarkLocks(r, live) == IF live THEN RowIds(rows) \cap {r.id} ELSE {}

(* A fault: no exit without a price for the symbol. *)
TriggeredByLivePrice(r, live, move) ==
  live /\ (CheckPriceExit(r.side, move) \/ CheckTimeExit(r.id))

(* The price legs need a live price, the time-stop does not. *)
Triggered(r, live, move) ==
  \/ live /\ CheckPriceExit(r.side, move)
  \/ CheckTimeExit(r.id)

MarkKeep(m, r) ==
  /\ mon[m].pc = "at_work"
  /\ r \in mon[m].todo
  /\ \E live \in BOOLEAN, move \in Move :
       /\ ~Triggered(r, live, move)
       /\ MarkFree(m, r, live)
       /\ mon' = [mon EXCEPT ![m].todo = @ \ {r},
                             ![m].locked = @ \cup MarkLocks(r, live)]
  /\ UNCHANGED <<bookVars, overdue, fillVars, raced, faults>>

(***************************************************************************)
(* _execute_exit: a paper trade of the quantity read at the start, DELETE  *)
(* of every row of the strategy and symbol, and the Redis field at once,   *)
(* before the transaction commits.                                         *)
(***************************************************************************)
MarkExit(m, r) ==
  LET doomed == RowIds(RowsOf(r.key)) \ mon[m].gone
  IN /\ mon[m].pc = "at_work"
     /\ r \in mon[m].todo
     /\ \E live \in BOOLEAN, move \in Move :
          /\ Triggered(r, live, move)
          /\ MarkFree(m, r, live)
     /\ \A id \in doomed : ~LockedByOther(m, id)
     /\ mon' = [mon EXCEPT ![m].todo = @ \ {r},
                           ![m].gone = @ \cup doomed,
                           ![m].sold[r.key] = @ + r.qty]
     /\ cache' = [cache EXCEPT ![r.key] = 0]
     /\ UNCHANGED <<rows, exited, overdue, fillVars, raced, faults>>

(* A fault: the trade is recorded and the position kept. *)
MarkCommitKeepsRows(m) ==
  /\ mon[m].pc = "at_work"
  /\ mon[m].todo = {}
  /\ exited' = [k \in Key |-> exited[k] + mon[m].sold[k]]
  /\ mon' = [mon EXCEPT ![m] = Asleep]
  /\ UNCHANGED <<rows, cache, overdue, fillVars, raced, faults>>

MarkCommit(m) ==
  /\ mon[m].pc = "at_work"
  /\ mon[m].todo = {}
  /\ rows' = {r \in rows : r.id \notin mon[m].gone}
  /\ exited' = [k \in Key |-> exited[k] + mon[m].sold[k]]
  /\ mon' = [mon EXCEPT ![m] = Asleep]
  /\ UNCHANGED <<cache, overdue, fillVars, raced, faults>>

(* An error on one position rolls the whole pass back; it is logged. *)
MarkFails(m) ==
  /\ mon[m].pc = "at_work"
  /\ faults < MaxFaults
  /\ faults' = faults + 1
  /\ mon' = [mon EXCEPT ![m] = Asleep]
  /\ UNCHANGED <<bookVars, overdue, fillVars, raced>>

(* Each of two loops waits for a row of the other: the database ends one,  *)
(* whose next pass is ten seconds later, when the other is through.        *)
MarkDeadlock(m) ==
  /\ \E n \in Monitor \ {m} :
       /\ RowIds(mon[m].todo) \cap LockedBy(n) # {}
       /\ RowIds(mon[n].todo) \cap LockedBy(m) # {}
  /\ mon' = [mon EXCEPT ![m] = [Asleep EXCEPT !.pc = "backoff"]]
  /\ raced' = raced \cup mon[m].keys
  /\ UNCHANGED <<bookVars, overdue, fillVars, faults>>

(* stop_monitoring, or the process ends (its transaction rolls back); some *)
(* other loop goes on.  start_monitoring, and a second call of it, add a   *)
(* loop.                                                                   *)
StopMonitoring(m) ==
  /\ mon[m].pc # "off"
  /\ \E n \in Monitor \ {m} : mon[n].pc # "off"
  /\ faults < MaxFaults
  /\ faults' = faults + 1
  /\ mon' = [mon EXCEPT ![m] = Off]
  /\ UNCHANGED <<bookVars, overdue, fillVars, raced>>

StartMonitoring(m) ==
  /\ mon[m].pc = "off"
  /\ mon' = [mon EXCEPT ![m] = Asleep]
  /\ UNCHANGED <<bookVars, overdue, fillVars, raced, faults>>

-----------------------------------------------------------------------------
FillStep(o) ==
  DuplicateCheck(o) \/ OpenRead(o) \/ OpenBook(o) \/ OpenCache(o)

MarkStep(m) ==
  \/ MarkRead(m) \/ MarkCommit(m) \/ MarkDeadlock(m)
  \/ \E r \in mon[m].todo : MarkKeep(m, r) \/ MarkExit(m, r)

Next ==
  \/ \E o \in Order : FillStep(o) \/ OpenFails(o) \/ Age(o)
  \/ \E m \in Monitor :
       MarkStep(m) \/ MarkFails(m) \/ StopMonitoring(m) \/ StartMonitoring(m)

(***************************************************************************)
(* The loop runs for as long as its task does, and the coroutine of a      *)
(* filled order is run to its end.                                         *)
(***************************************************************************)
Spec ==
  /\ Init /\ [][Next]_vars
  /\ \A o \in Order : WF_vars(FillStep(o))
  /\ \A m \in Monitor : WF_vars(MarkStep(m))

-----------------------------------------------------------------------------
LoopState ==
  [pc : {"off", "asleep", "backoff", "at_work"}, keys : SUBSET Key, todo : SUBSET Row,
   locked : SUBSET Order, gone : SUBSET Order, sold : [Key -> Nat]]

PositionTypeOK ==
  /\ rows \subseteq Row
  /\ overdue \subseteq Order
  /\ exited \in [Key -> Nat]
  /\ cache \in [Key -> Nat]
  /\ pc \in [Order -> Stage]
  /\ order \in [Order -> Trade]
  /\ seen \in [Order -> Row \cup {NoRow}]
  /\ mon \in [Monitor -> LoopState]
  /\ landed \subseteq Order
  /\ raced \subseteq Key
  /\ faults \in 0 .. MaxFaults

(***************************************************************************)
(* The notional of a row never passes the cap "by accumulation" (line 310) *)
(* as long as no two transactions worked on its key at once: not by fills  *)
(* at rising prices, nor by a reduction that keeps the average, nor after  *)
(* an exit or a failed booking.  (Overlapping fills can pass it: the       *)
(* UPDATE of a partial close, line 339, writes a quantity computed from an *)
(* old row beside the average another fill has written since.)             *)
(***************************************************************************)
RowWithinCap == \A r \in rows : r.key \notin raced => ~ExceedsCap(r.qty, r.avg)

(***************************************************************************)
(* However bookings and exits interleave, the table never shows more on a  *)
(* side of a key than the fills booked on that side amount to: a race may  *)
(* lose a fill, it never invents one.                                      *)
(***************************************************************************)
Booked(k, s) == MapThenSumSet(LAMBDA r : r.qty, {r \in RowsOf(k) : r.side = s})
Filled(k, s) ==
  MapThenSumSet(LAMBDA o : order[o].qty,
                {o \in landed : order[o].key = k /\ order[o].side = s})

BookedWithinFills == \A k \in Key, s \in Side : Booked(k, s) <= Filled(k, s)

(***************************************************************************)
(* As long as no two transactions worked on a key at once, the key has at  *)
(* most one row; that row is what the fills and exits add up to, and every *)
(* exit is recorded once, with the quantity it took.                       *)
(***************************************************************************)
Signed(r) == IF r.side = "buy" THEN r.qty ELSE -r.qty
Held(k) ==
  IF RowsOf(k) = {} THEN 0 ELSE Signed(CHOOSE r \in RowsOf(k) : TRUE)

AloneOneRow ==
  \A k \in Key \ raced : \A r, q \in RowsOf(k) : r = q

Ledger == INSTANCE SignedLedger WITH
  net <- [k \in Key |-> IF k \in raced THEN 0 ELSE Held(k)],
  exited <- [k \in Key |-> IF k \in raced THEN 0 ELSE exited[k]],
  void <- raced

ImplementsSignedLedger == Ledger!Spec

(***************************************************************************)
(* Where nothing raced and nothing failed, Redis has a field for exactly   *)
(* the keys the table has a row for, once nobody works on them.            *)
(***************************************************************************)
CacheFollowsBooks ==
  faults = 0 =>
    \A k \in Key \ raced :
      ~Busy(k) => (cache[k] # 0 <=> RowsOf(k) # {})

(***************************************************************************)
(* A position past its hold_time_max leaves the table, with or without a   *)
(* price for its symbol ("the TIME-STOP can still fire for symbols with    *)
(* stale/absent market data").                                             *)
(***************************************************************************)
OverdueExits ==
  \A o \in Order :
    (o \in overdue /\ o \in RowIds(rows)) ~> o \notin RowIds(rows)

=============================================================================
