------------------------ MODULE PositionManager_proofs ------------------------
(***************************************************************************)
(* The positions table never shows more than was filled, and a key that no *)
(* two transactions worked on at once keeps to its cap and behaves like a  *)
(* signed ledger, for any number of fills, keys and loops, and whatever    *)
(* the fills are about.                                                    *)
(***************************************************************************)
EXTENDS PositionManager, FiniteSetTheorems, TLAPS

LoopPc == {"off", "asleep", "backoff", "at_work"}

(* Products of positive numbers. *)
LEMMA Products ==
  /\ \A a, b \in Positive : a * b \in Positive
  /\ \A a, b \in Nat, p \in Positive : a <= b => a * p <= b * p
  /\ \A a, p \in Positive : a <= a * p
  BY DEF Positive

LEMMA RowFields ==
  ASSUME NEW r \in Row
  PROVE  /\ r.id \in Order /\ r.key \in Key /\ r.side \in Side
         /\ r.qty \in Nat /\ r.qty > 0 /\ r # NoRow
         /\ r.avg \in Average
  BY NoRowAssumption DEF Row, Positive

LEMMA OrderFields ==
  ASSUME order \in [Order -> Trade], NEW o \in Order
  PROVE  /\ order[o].key \in Key /\ order[o].side \in Side
         /\ order[o].qty \in Nat /\ order[o].qty > 0
         /\ order[o].price \in Positive
  BY DEF Trade, Positive

(* A fill whose notional is in order is not of more than the cap. *)
LEMMA FillInOrder ==
  ASSUME order \in [Order -> Trade], NEW o \in Order, ~FillTooLarge(o)
  PROVE  order[o].qty <= Cap
<1> DEFINE q == order[o].qty
           p == order[o].price
<1>1. q \in Positive /\ p \in Positive /\ Cap \in Nat
  BY OrderFields, PositionAssumption DEF Positive
<1>2. ~(q * p > Cap * 1)
  BY DEF FillTooLarge, ExceedsCap, PriceOf
<1>3. q <= q * p /\ q * p \in Positive
  BY <1>1, Products
<1> HIDE DEF q, p
<1>4. q <= Cap
  BY <1>1, <1>2, <1>3 DEF Positive
<1> QED BY <1>4 DEF q

(* The row a fill inserts. *)
LEMMA NewRowType ==
  ASSUME order \in [Order -> Trade], NEW o \in Order
  PROVE  /\ NewRow(o) \in Row
         /\ NewRow(o).id = o /\ NewRow(o).key = order[o].key
         /\ NewRow(o).side = order[o].side /\ NewRow(o).qty = order[o].qty
         /\ NewRow(o).avg = PriceOf(o)
  BY DEF NewRow, Row, Trade, PriceOf, Average, Positive

(* A set of rows that differs from the table in the quantity of one id. *)
Requantified(R, id, qty) ==
  /\ \A q \in R : \E r \in rows :
       /\ q.id = r.id /\ q.key = r.key /\ q.side = r.side
       /\ q.qty = IF r.id = id THEN qty ELSE r.qty
       /\ r.id # id => q = r
  /\ \A r \in rows : \E q \in R :
       /\ q.id = r.id /\ q.key = r.key /\ q.side = r.side
       /\ q.qty = IF r.id = id THEN qty ELSE r.qty
       /\ r.id # id => q = r

(* An UPDATE changes the quantity of the rows with the id, and keeps all. *)
LEMMA UpdatedRows ==
  ASSUME rows \subseteq Row, NEW id, NEW qty \in Positive
  PROVE  Updated(id, qty) \subseteq Row /\ Requantified(Updated(id, qty), id, qty)
<1>1. ASSUME NEW r \in rows
      PROVE  LET q == [r EXCEPT !.qty = qty]
             IN  q \in Row /\ q.id = r.id /\ q.key = r.key /\ q.side = r.side
                 /\ q.qty = qty
  BY DEF Row
<1> QED BY <1>1 DEF Updated, Requantified

(* So does one that writes the average too. *)
LEMMA RepricedRows ==
  ASSUME rows \subseteq Row, NEW id, NEW qty \in Positive, NEW avg \in Average
  PROVE  /\ Repriced(id, qty, avg) \subseteq Row
         /\ Requantified(Repriced(id, qty, avg), id, qty)
<1>1. ASSUME NEW r \in rows
      PROVE  LET q == [r EXCEPT !.qty = qty, !.avg = avg]
             IN  q \in Row /\ q.id = r.id /\ q.key = r.key /\ q.side = r.side
                 /\ q.qty = qty
  BY DEF Row
<1> QED BY <1>1 DEF Repriced, Requantified

-----------------------------------------------------------------------------
(***************************************************************************)
(* What holds of the rows, the fills and the loops, raced or not.          *)
(***************************************************************************)
RowsInv ==
  /\ \A r \in rows : order[r.id].key = r.key /\ pc[r.id] \notin {"idle", "checked", "read"}
  /\ \A r, q \in rows : r.id = q.id => r = q

FillsInv ==
  \A o \in Order :
    /\ seen[o] # NoRow =>
         /\ pc[o] \in {"read", "booked"}
         /\ seen[o].key = order[o].key
         /\ order[seen[o].id].key = seen[o].key
    /\ pc[o] \in {"read", "booked"} => ~FillTooLarge(o)

(* A loop that is not at work has no transaction. *)
Idle(l) ==
  /\ l.keys = {} /\ l.todo = {} /\ l.locked = {} /\ l.gone = {}
  /\ \A k \in Key : l.sold[k] = 0

LoopInv(l) ==
  /\ l.pc # "at_work" => Idle(l)
  /\ \A r \in l.todo : r.key \in l.keys /\ order[r.id].key = r.key
  /\ \A id \in l.gone : order[id].key \in l.keys
  /\ \A k \in Key : l.sold[k] # 0 => k \in l.keys

BaseInv ==
  /\ PositionTypeOK
  /\ RowsInv
  /\ FillsInv
  /\ \A m \in Monitor : LoopInv(mon[m])

LEMMA IdleLoops ==
  /\ \A pl \in LoopPc : [Asleep EXCEPT !.pc = pl] \in LoopState
                        /\ Idle([Asleep EXCEPT !.pc = pl])
                        /\ [Asleep EXCEPT !.pc = pl].pc = pl
  /\ Asleep \in LoopState /\ Idle(Asleep) /\ Asleep.pc = "asleep"
  /\ Off \in LoopState /\ Idle(Off) /\ Off.pc = "off"
  BY DEF Asleep, Off, LoopState, LoopPc, Idle

LEMMA IdleIsInv == ASSUME NEW l, Idle(l) PROVE LoopInv(l)
  BY DEF Idle, LoopInv

LEMMA BaseInit == Init => BaseInv
<1> SUFFICES ASSUME Init PROVE BaseInv
  OBVIOUS
<1>1. order \in [Order -> Trade]
  BY TradesAssumption DEF Init
<1>2. mon \in [Monitor -> LoopState] /\ \A m \in Monitor : LoopInv(mon[m])
  BY IdleLoops, IdleIsInv DEF Init
<1>3. PositionTypeOK
  BY <1>1, <1>2, PositionAssumption DEF Init, PositionTypeOK, Stage
<1>4. RowsInv /\ FillsInv
  BY DEF Init, RowsInv, FillsInv
<1> QED BY <1>2, <1>3, <1>4 DEF BaseInv

(* What a loop may change without disturbing the rows and the fills. *)
LEMMA LoopsStep ==
  ASSUME BaseInv, NEW m \in Monitor, NEW l \in LoopState, LoopInv(l),
         mon' = [mon EXCEPT ![m] = l],
         UNCHANGED fillVars, rows' \subseteq rows,
         overdue' \subseteq Order, exited' \in [Key -> Nat], cache' \in [Key -> Nat],
         raced' \subseteq Key, faults' \in 0 .. MaxFaults
  PROVE  BaseInv'
<1>1. PositionTypeOK'
  BY DEF BaseInv, PositionTypeOK, fillVars
<1>2. RowsInv' /\ FillsInv'
  BY DEF BaseInv, RowsInv, FillsInv, FillTooLarge, PriceOf, fillVars
<1>3. \A n \in Monitor : LoopInv(mon'[n])
  BY DEF BaseInv, PositionTypeOK
<1>4. \A n \in Monitor : LoopInv(mon[n])'
  BY <1>3 DEF LoopInv, Idle, fillVars
<1> QED BY <1>1, <1>2, <1>4 DEF BaseInv

LEMMA FaultType ==
  ASSUME PositionTypeOK, faults < MaxFaults, faults' = faults + 1
  PROVE  faults' \in 0 .. MaxFaults
  BY PositionAssumption DEF PositionTypeOK

LEMMA MarkReadBase ==
  ASSUME BaseInv, NEW m \in Monitor, MarkRead(m)
  PROVE  BaseInv'
<1> DEFINE keys == {r.key : r \in rows}
           l == [Asleep EXCEPT !.pc = "at_work", !.todo = rows, !.keys = keys]
<1>1. keys \subseteq Key /\ rows \subseteq Row
  BY RowFields DEF BaseInv, PositionTypeOK
<1>2. /\ l.pc = "at_work" /\ l.todo = rows /\ l.keys = keys /\ l.gone = {}
      /\ \A k \in Key : l.sold[k] = 0
      /\ l \in LoopState
  BY <1>1 DEF Asleep, LoopState
<1>3. LoopInv(l)
  BY <1>2 DEF LoopInv, BaseInv, RowsInv
<1>4. /\ mon' = [mon EXCEPT ![m] = l]
      /\ UNCHANGED <<bookVars, overdue, fillVars, faults>>
      /\ raced' \subseteq raced \cup keys
  BY DEF MarkRead
<1> QED
  BY <1>1, <1>2, <1>3, <1>4, LoopsStep
  DEF BaseInv, PositionTypeOK, bookVars

LEMMA MarkKeepBase ==
  ASSUME BaseInv, NEW m \in Monitor, NEW r, MarkKeep(m, r)
  PROVE  BaseInv'
<1>1. mon[m] \in LoopState /\ LoopInv(mon[m])
  BY DEF BaseInv, PositionTypeOK
<1>2. PICK live \in BOOLEAN :
        mon' = [mon EXCEPT ![m].todo = @ \ {r},
                           ![m].locked = @ \cup MarkLocks(r, live)]
  BY DEF MarkKeep
<1> DEFINE l == [mon[m] EXCEPT !.todo = @ \ {r},
                               !.locked = @ \cup MarkLocks(r, live)]
<1>3. MarkLocks(r, live) \subseteq Order
  BY RowFields DEF MarkLocks, RowIds, BaseInv, PositionTypeOK
<1>4. /\ l.pc = mon[m].pc /\ l.keys = mon[m].keys /\ l.gone = mon[m].gone
      /\ l.sold = mon[m].sold /\ l.todo = mon[m].todo \ {r}
      /\ l \in LoopState
  BY <1>1, <1>3 DEF LoopState
<1>5. l.pc = "at_work"
  BY <1>4 DEF MarkKeep
<1>6. LoopInv(l)
  BY <1>1, <1>4, <1>5 DEF LoopInv
<1>7. mon' = [mon EXCEPT ![m] = l]
  BY <1>2 DEF BaseInv, PositionTypeOK
<1> QED
  BY <1>4, <1>6, <1>7, LoopsStep
  DEF MarkKeep, BaseInv, PositionTypeOK, bookVars

(* The loop after an exit. *)
LEMMA ExitEffect ==
  ASSUME BaseInv, NEW m \in Monitor, NEW r, MarkExit(m, r)
  PROVE  LET doomed == RowIds(RowsOf(r.key)) \ mon[m].gone
             l == mon'[m]
         IN /\ r \in Row /\ r \in mon[m].todo /\ r.key \in mon[m].keys
            /\ doomed \subseteq Order
            /\ mon' = [mon EXCEPT ![m] = l]
            /\ l \in LoopState
            /\ l.pc = "at_work" /\ l.keys = mon[m].keys
            /\ l.todo = mon[m].todo \ {r}
            /\ l.gone = mon[m].gone \cup doomed
            /\ l.sold = [mon[m].sold EXCEPT ![r.key] = @ + r.qty]
<1> DEFINE doomed == RowIds(RowsOf(r.key)) \ mon[m].gone
           l == [mon[m] EXCEPT !.todo = @ \ {r}, !.gone = @ \cup doomed,
                               !.sold = [mon[m].sold EXCEPT ![r.key] = @ + r.qty]]
<1>1. mon[m] \in LoopState /\ LoopInv(mon[m])
  BY DEF BaseInv, PositionTypeOK
<1>2. r \in mon[m].todo /\ r \in Row /\ r.key \in mon[m].keys
  BY <1>1 DEF MarkExit, LoopState, LoopInv
<1>3. r.key \in Key /\ r.qty \in Nat
  BY <1>2, RowFields
<1>4. doomed \subseteq Order
  BY RowFields DEF RowIds, RowsOf, BaseInv, PositionTypeOK
<1>5. mon' = [mon EXCEPT ![m] = l]
  <2>1. mon' = [mon EXCEPT ![m].todo = @ \ {r}, ![m].gone = @ \cup doomed,
                           ![m].sold[r.key] = @ + r.qty]
    BY DEF MarkExit
  <2>2. mon \in [Monitor -> LoopState]
    BY DEF BaseInv, PositionTypeOK
  <2> QED BY <2>1, <2>2 DEF LoopState
<1>6. mon[m].sold \in [Key -> Nat]
  BY <1>1 DEF LoopState
<1>7. [mon[m].sold EXCEPT ![r.key] = @ + r.qty] \in [Key -> Nat]
  BY <1>3, <1>6
<1>8. l \in LoopState /\ l.pc = mon[m].pc
  BY <1>1, <1>4, <1>7 DEF LoopState
<1>9. mon'[m] = l
  BY <1>5 DEF BaseInv, PositionTypeOK
<1>10. /\ l.keys = mon[m].keys /\ l.todo = mon[m].todo \ {r}
       /\ l.gone = mon[m].gone \cup doomed
       /\ l.sold = [mon[m].sold EXCEPT ![r.key] = @ + r.qty]
  BY <1>1 DEF LoopState
<1> QED
  BY <1>2, <1>4, <1>5, <1>8, <1>9, <1>10 DEF MarkExit

LEMMA MarkExitBase ==
  ASSUME BaseInv, NEW m \in Monitor, NEW r, MarkExit(m, r)
  PROVE  BaseInv'
<1> DEFINE doomed == RowIds(RowsOf(r.key)) \ mon[m].gone
           l == mon'[m]
<1>1. /\ r \in Row /\ r \in mon[m].todo /\ r.key \in mon[m].keys
      /\ mon' = [mon EXCEPT ![m] = l]
      /\ l \in LoopState
      /\ l.pc = "at_work" /\ l.keys = mon[m].keys
      /\ l.todo = mon[m].todo \ {r}
      /\ l.gone = mon[m].gone \cup doomed
      /\ l.sold = [mon[m].sold EXCEPT ![r.key] = @ + r.qty]
  BY ExitEffect
<1>2. LoopInv(mon[m]) /\ mon[m] \in LoopState
  BY DEF BaseInv, PositionTypeOK
<1>3. \A id \in doomed : order[id].key = r.key
  BY DEF BaseInv, RowsInv, RowIds, RowsOf
<1>4. \A k \in Key : k # r.key => l.sold[k] = mon[m].sold[k]
  BY <1>1, <1>2 DEF LoopState
<1>5. LoopInv(l)
  BY <1>1, <1>2, <1>3, <1>4 DEF LoopInv
<1>6. cache' \in [Key -> Nat] /\ UNCHANGED <<rows, exited, overdue, fillVars, raced, faults>>
  BY DEF MarkExit, BaseInv, PositionTypeOK
<1>7. l \in LoopState /\ mon' = [mon EXCEPT ![m] = l]
  BY <1>1
<1> HIDE DEF l
<1> QED BY <1>5, <1>6, <1>7, LoopsStep DEF BaseInv, PositionTypeOK

LEMMA LoopsBase ==
  ASSUME BaseInv, NEW m \in Monitor,
         \/ MarkCommit(m) \/ MarkDeadlock(m) \/ MarkFails(m)
         \/ StopMonitoring(m) \/ StartMonitoring(m)
  PROVE  BaseInv'
<1>1. PICK l \in LoopState : Idle(l) /\ mon' = [mon EXCEPT ![m] = l]
  BY IdleLoops
  DEF MarkCommit, MarkDeadlock, MarkFails, StopMonitoring, StartMonitoring,
      LoopPc
<1>2. rows' \subseteq rows /\ cache' = cache /\ UNCHANGED <<overdue, fillVars>>
  BY DEF MarkCommit, MarkDeadlock, MarkFails, StopMonitoring, StartMonitoring,
         bookVars
<1>3. faults' \in 0 .. MaxFaults
  <2>1. UNCHANGED faults \/ (faults < MaxFaults /\ faults' = faults + 1)
    BY DEF MarkCommit, MarkDeadlock, MarkFails, StopMonitoring, StartMonitoring
  <2> QED BY <2>1, FaultType DEF BaseInv, PositionTypeOK
<1>4. raced' \subseteq Key
  <2>1. mon[m].keys \subseteq Key /\ raced \subseteq Key
    BY DEF BaseInv, PositionTypeOK, LoopState
  <2> QED
    BY <2>1
    DEF MarkCommit, MarkDeadlock, MarkFails, StopMonitoring, StartMonitoring
<1>5. exited' \in [Key -> Nat]
  <2>1. CASE MarkCommit(m)
    <3>1. exited \in [Key -> Nat] /\ mon[m].sold \in [Key -> Nat]
      BY DEF BaseInv, PositionTypeOK, LoopState
    <3> QED BY <2>1, <3>1 DEF MarkCommit
  <2>2. CASE exited' = exited
    BY <2>2 DEF BaseInv, PositionTypeOK
  <2> QED
    BY <2>1, <2>2
    DEF MarkDeadlock, MarkFails, StopMonitoring, StartMonitoring, bookVars
<1> QED
  BY <1>1, <1>2, <1>3, <1>4, <1>5, IdleIsInv, LoopsStep
  DEF BaseInv, PositionTypeOK

(***************************************************************************)
(* The fills.                                                              *)
(***************************************************************************)
LEMMA SeenFacts ==
  ASSUME BaseInv, NEW o \in Order, seen[o] # NoRow
  PROVE  /\ seen[o] \in Row
         /\ seen[o].qty \in Nat /\ 0 < seen[o].qty
         /\ seen[o].avg \in Average
         /\ seen[o].key = order[o].key
         /\ seen[o].side \in Side
<1>1. seen[o] \in Row
  BY DEF BaseInv, PositionTypeOK
<1> QED BY <1>1, RowFields DEF BaseInv, FillsInv

(* What an UPDATE writes. *)
LEMMA UpdateQty ==
  ASSUME BaseInv, NEW o \in Order
  PROVE  /\ Increases(o) => NewQty(o) \in Positive /\ NewAvg(o) \in Average
         /\ Reduces(o) => seen[o].qty - order[o].qty \in Positive
<1>1. order[o].qty \in Positive /\ order[o].price \in Positive
  BY OrderFields DEF BaseInv, PositionTypeOK, Positive
<1>2. CASE seen[o] = NoRow
  BY <1>2 DEF Increases, Reduces
<1>3. CASE seen[o] # NoRow
  <2>1. seen[o].qty \in Positive /\ seen[o].avg \in Average
    BY <1>3, SeenFacts DEF Positive
  <2>2. NewQty(o) \in Positive
    BY <1>1, <2>1 DEF NewQty, Positive
  <2>3. seen[o].avg.num \in Positive /\ seen[o].avg.den \in Positive
    BY <2>1 DEF Average
  <2>4. /\ seen[o].avg.num * seen[o].qty \in Positive
        /\ order[o].price * order[o].qty \in Positive
        /\ seen[o].avg.den * NewQty(o) \in Positive
    BY <1>1, <2>1, <2>2, <2>3, Products
  <2>5. order[o].price * order[o].qty * seen[o].avg.den \in Positive
    BY <2>3, <2>4, Products
  <2>6. seen[o].avg.num * seen[o].qty
          + order[o].price * order[o].qty * seen[o].avg.den \in Positive
    BY <2>4, <2>5 DEF Positive
  <2>7. NewAvg(o) \in Average
    BY <2>4, <2>6 DEF NewAvg, Average
  <2>8. Reduces(o) => seen[o].qty - order[o].qty \in Positive
    BY <1>1, <2>1 DEF Reduces, Positive
  <2> QED BY <2>2, <2>7, <2>8
<1> QED BY <1>2, <1>3

(* The four ways open_position books a fill. *)
LEMMA FourWays ==
  ASSUME BaseInv, NEW o \in Order
  PROVE  \/ seen[o] = NoRow /\ BookedRows(o) = rows \cup {NewRow(o)}
         \/ /\ Increases(o)
            /\ BookedRows(o) = Repriced(seen[o].id, NewQty(o), NewAvg(o))
         \/ Closes(o) /\ BookedRows(o) = {r \in rows : r.id # seen[o].id}
         \/ /\ Reduces(o)
            /\ BookedRows(o) = Updated(seen[o].id, seen[o].qty - order[o].qty)
<1>1. CASE seen[o] = NoRow
  BY <1>1 DEF BookedRows
<1>2. CASE seen[o] # NoRow
  <2>1. seen[o].qty \in Nat /\ order[o].qty \in Nat
    BY <1>2, SeenFacts, OrderFields DEF BaseInv, PositionTypeOK
  <2>2. Increases(o) \/ Closes(o) \/ Reduces(o)
    BY <1>2, <2>1 DEF Increases, Closes, Reduces
  <2>3. /\ Increases(o) => ~Closes(o) /\ ~Reduces(o)
        /\ Closes(o) => ~Reduces(o)
    BY <2>1 DEF Increases, Closes, Reduces
  <2> QED BY <1>2, <2>2, <2>3 DEF BookedRows
<1> QED BY <1>1, <1>2

(* A booking that only writes the row it read anew. *)
Left(o) == IF Increases(o) THEN NewQty(o) ELSE seen[o].qty - order[o].qty

LEMMA RequantifiedOnce ==
  ASSUME BaseInv, NEW o \in Order, Increases(o) \/ Reduces(o)
  PROVE  /\ seen[o] # NoRow /\ Left(o) \in Positive
         /\ BookedRows(o) \subseteq Row
         /\ Requantified(BookedRows(o), seen[o].id, Left(o))
<1>0. rows \subseteq Row
  BY DEF BaseInv, PositionTypeOK
<1>1. CASE Increases(o)
  <2>1. seen[o] # NoRow /\ ~Reduces(o) /\ ~Closes(o)
    BY <1>1 DEF Increases, Reduces, Closes
  <2>2. BookedRows(o) = Repriced(seen[o].id, NewQty(o), NewAvg(o))
    BY <2>1, FourWays
  <2> QED BY <1>0, <1>1, <2>1, <2>2, UpdateQty, RepricedRows DEF Left
<1>2. CASE Reduces(o)
  <2>1. seen[o] # NoRow /\ seen[o].qty \in Nat /\ order[o].qty \in Nat
    BY <1>2, SeenFacts, OrderFields DEF Reduces, BaseInv, PositionTypeOK
  <2>2. ~Increases(o) /\ ~Closes(o)
    BY <1>2, <2>1 DEF Increases, Reduces, Closes
  <2>3. BookedRows(o) = Updated(seen[o].id, seen[o].qty - order[o].qty)
    BY <2>1, <2>2, FourWays
  <2> QED BY <1>0, <1>2, <2>1, <2>2, <2>3, UpdateQty, UpdatedRows DEF Left
<1> QED BY <1>1, <1>2

LEMMA BookedRowsOK ==
  ASSUME BaseInv, NEW o \in Order, pc[o] = "read"
  PROVE  /\ BookedRows(o) \subseteq Row
         /\ \A q \in BookedRows(o) : /\ order[q.id].key = q.key
                                     /\ q.id = o \/ \E r \in rows : r.id = q.id
         /\ \A q, p \in BookedRows(o) : q.id = p.id => q = p
<1>0. /\ rows \subseteq Row /\ RowsInv
      /\ \A r \in rows : r.id # o
  BY DEF BaseInv, PositionTypeOK, RowsInv
<1>1. CASE BookedRows(o) = rows \cup {NewRow(o)}
  <2>1. /\ NewRow(o) \in Row /\ NewRow(o).id = o
        /\ NewRow(o).key = order[o].key
    BY NewRowType DEF BaseInv, PositionTypeOK
  <2> QED BY <1>0, <1>1, <2>1 DEF RowsInv
<1>2. CASE Increases(o) \/ Reduces(o)
  <2>1. /\ BookedRows(o) \subseteq Row
        /\ \A q \in BookedRows(o) : \E r \in rows : q.id = r.id /\ q.key = r.key
    BY <1>2, RequantifiedOnce DEF Requantified
  <2>2. seen[o] # NoRow /\ seen[o].qty \in Nat /\ order[o].qty \in Nat
    BY <1>2, SeenFacts, OrderFields DEF Increases, Reduces, BaseInv, PositionTypeOK
  <2>3. ~Closes(o)
    BY <1>2, <2>2 DEF Increases, Closes, Reduces
  <2>4. \A q, p \in BookedRows(o) : q.id = p.id => q = p
    <3>1. \/ BookedRows(o) = Repriced(seen[o].id, NewQty(o), NewAvg(o))
          \/ BookedRows(o) = Updated(seen[o].id, seen[o].qty - order[o].qty)
      BY <2>2, <2>3, FourWays
    <3>2. ASSUME NEW id, NEW n PROVE \A q, p \in Updated(id, n) : q.id = p.id => q = p
      BY <1>0 DEF Updated, RowsInv, Row
    <3>3. ASSUME NEW id, NEW n, NEW avg
          PROVE  \A q, p \in Repriced(id, n, avg) : q.id = p.id => q = p
      <4> DEFINE new(r) == IF r.id = id THEN [r EXCEPT !.qty = n, !.avg = avg] ELSE r
      <4>1. \A r \in rows : new(r).id = r.id
        BY <1>0 DEF Row
      <4>2. Repriced(id, n, avg) = {new(r) : r \in rows}
        BY DEF Repriced
      <4> HIDE DEF new
      <4> QED BY <1>0, <4>1, <4>2 DEF RowsInv
    <3> QED BY <3>1, <3>2, <3>3
  <2> QED BY <1>0, <2>1, <2>4 DEF RowsInv
<1>3. CASE BookedRows(o) = {r \in rows : r.id # seen[o].id}
  BY <1>0, <1>3 DEF RowsInv
<1> QED BY <1>1, <1>2, <1>3, FourWays

(* What a fill may change without disturbing the others. *)
LEMMA FillsStep ==
  ASSUME BaseInv, NEW o \in Order, NEW stage \in Stage, NEW x \in Row \cup {NoRow},
         pc' = [pc EXCEPT ![o] = stage], seen' = [seen EXCEPT ![o] = x],
         stage \in {"idle", "checked", "read"} =>
           pc[o] \in {"idle", "checked", "read"},
         x # NoRow => /\ stage \in {"read", "booked"}
                      /\ x.key = order[o].key
                      /\ order[x.id].key = x.key,
         stage \in {"read", "booked"} => ~FillTooLarge(o),
         UNCHANGED <<order, rows, exited, overdue, mon>>,
         landed' \subseteq Order, cache' \in [Key -> Nat],
         raced' \subseteq Key, faults' \in 0 .. MaxFaults
  PROVE  BaseInv'
<1>1. PositionTypeOK'
  BY DEF BaseInv, PositionTypeOK
<1>2. RowsInv'
  BY DEF BaseInv, PositionTypeOK, RowsInv
<1>3. FillsInv'
  <2>1. \A p \in Order : FillTooLarge(p)' <=> FillTooLarge(p)
    BY DEF FillTooLarge, PriceOf
  <2> QED BY <2>1 DEF BaseInv, PositionTypeOK, FillsInv
<1>4. \A m \in Monitor : LoopInv(mon[m])'
  BY DEF BaseInv, LoopInv, Idle
<1> QED BY <1>1, <1>2, <1>3, <1>4 DEF BaseInv

LEMMA SameSeen ==
  ASSUME PositionTypeOK, NEW o \in Order
  PROVE  /\ seen = [seen EXCEPT ![o] = seen[o]]
         /\ seen[o] \in Row \cup {NoRow}
  BY DEF PositionTypeOK

LEMMA DuplicateCheckBase ==
  ASSUME BaseInv, NEW o \in Order, DuplicateCheck(o)
  PROVE  BaseInv'
<1>1. PICK stage \in {"checked", "done"} : pc' = [pc EXCEPT ![o] = stage]
  BY DEF DuplicateCheck
<1>2. seen[o] = NoRow
  BY DEF DuplicateCheck, BaseInv, FillsInv
<1>3. PositionTypeOK
  BY DEF BaseInv
<1>4. /\ seen' = [seen EXCEPT ![o] = NoRow]
      /\ UNCHANGED <<order, rows, exited, overdue, mon, landed, cache, raced, faults>>
      /\ pc[o] = "idle" /\ stage \in Stage
  BY <1>1, <1>2, <1>3, SameSeen DEF DuplicateCheck, bookVars, Stage
<1> QED BY <1>1, <1>3, <1>4, FillsStep DEF PositionTypeOK

LEMMA OpenReadBase ==
  ASSUME BaseInv, NEW o \in Order, OpenRead(o)
  PROVE  BaseInv'
<1>0. /\ PositionTypeOK /\ seen[o] = NoRow /\ pc[o] = "checked"
      /\ UNCHANGED <<order, rows, exited, overdue, mon, landed, cache, faults>>
  BY DEF OpenRead, BaseInv, FillsInv, bookVars
<1>1. CASE FillTooLarge(o)
  <2>1. /\ pc' = [pc EXCEPT ![o] = "failed"] /\ seen' = [seen EXCEPT ![o] = NoRow]
        /\ raced' = raced
    BY <1>0, <1>1, SameSeen DEF OpenRead
  <2> QED BY <1>0, <2>1, FillsStep DEF PositionTypeOK, Stage
<1>2. CASE ~FillTooLarge(o)
  <2>2. PICK x \in IF RowsOf(order[o].key) = {} THEN {NoRow} ELSE RowsOf(order[o].key) :
          seen' = [seen EXCEPT ![o] = x]
    BY <1>2 DEF OpenRead
  <2>3. x = NoRow \/ (x \in rows /\ x.key = order[o].key)
    BY <2>2 DEF RowsOf
  <2>4. /\ x \in Row \cup {NoRow}
        /\ x # NoRow => x.key = order[o].key /\ order[x.id].key = x.key
    BY <2>3 DEF BaseInv, PositionTypeOK, RowsInv
  <2>5. raced' \subseteq Key
    BY <1>0, <1>2, OrderFields DEF OpenRead, PositionTypeOK
  <2>6. pc' = [pc EXCEPT ![o] = "read"]
    BY <1>2 DEF OpenRead
  <2> QED
    BY <1>0, <1>2, <2>2, <2>4, <2>5, <2>6, FillsStep DEF PositionTypeOK, Stage
<1> QED BY <1>1, <1>2

LEMMA OpenEndsBase ==
  ASSUME BaseInv, NEW o \in Order,
         (OpenBook(o) /\ OverCap(o)) \/ OpenCache(o) \/ OpenFails(o)
  PROVE  BaseInv'
<1>1. PICK stage \in {"failed", "done"} : Ends(o, stage)
  BY DEF OpenBook, OpenCache, OpenFails
<1>2. /\ pc' = [pc EXCEPT ![o] = stage] /\ seen' = [seen EXCEPT ![o] = NoRow]
      /\ stage \in Stage
  BY <1>1 DEF Ends, Stage
<1>3. UNCHANGED <<order, rows, exited, overdue, mon, landed, raced>>
  BY DEF OpenBook, OpenCache, OpenFails, bookVars
<1>4. faults' \in 0 .. MaxFaults
  <2>1. UNCHANGED faults \/ (faults < MaxFaults /\ faults' = faults + 1)
    BY DEF OpenBook, OpenCache, OpenFails
  <2> QED BY <2>1, FaultType DEF BaseInv, PositionTypeOK
<1>5. cache' \in [Key -> Nat]
  <2>1. CASE cache' = cache
    BY <2>1 DEF BaseInv, PositionTypeOK
  <2>2. CASE OpenCache(o)
    BY <2>2, OrderFields DEF OpenCache, BaseInv, PositionTypeOK
  <2> QED BY <2>1, <2>2 DEF OpenBook, OpenFails, bookVars
<1> QED
  BY <1>1, <1>2, <1>3, <1>4, <1>5, FillsStep DEF BaseInv, PositionTypeOK

LEMMA OpenBookBase ==
  ASSUME BaseInv, NEW o \in Order, OpenBook(o), ~OverCap(o)
  PROVE  BaseInv'
<1>1. /\ pc[o] = "read" /\ rows' = BookedRows(o)
      /\ pc' = [pc EXCEPT ![o] = "booked"] /\ landed' = landed \cup {o}
      /\ UNCHANGED <<seen, order, exited, cache, overdue, mon, raced, faults>>
  BY DEF OpenBook
<1>2. /\ rows' \subseteq Row
      /\ \A q \in rows' : /\ order[q.id].key = q.key
                          /\ q.id = o \/ \E r \in rows : r.id = q.id
      /\ \A q, p \in rows' : q.id = p.id => q = p
  BY <1>1, BookedRowsOK
<1>3. PositionTypeOK'
  BY <1>1, <1>2 DEF BaseInv, PositionTypeOK, Stage
<1>4. RowsInv'
  <2>1. \A q \in rows' : pc'[q.id] \notin {"idle", "checked", "read"}
    <3> TAKE q \in rows'
    <3>1. q.id \in Order
      BY <1>2, RowFields
    <3>2. CASE q.id = o
      BY <1>1, <3>2 DEF BaseInv, PositionTypeOK
    <3>3. CASE q.id # o
      BY <1>1, <1>2, <3>1, <3>3 DEF BaseInv, PositionTypeOK, RowsInv
    <3> QED BY <3>2, <3>3
  <2> QED BY <1>1, <1>2, <2>1 DEF RowsInv
<1>5. FillsInv'
  <2>1. \A p \in Order : FillTooLarge(p)' <=> FillTooLarge(p)
    BY <1>1 DEF FillTooLarge, PriceOf
  <2> QED BY <1>1, <2>1 DEF BaseInv, PositionTypeOK, FillsInv
<1>6. \A m \in Monitor : LoopInv(mon[m])'
  BY <1>1 DEF BaseInv, LoopInv, Idle
<1> QED BY <1>3, <1>4, <1>5, <1>6 DEF BaseInv

LEMMA QuietBase ==
  ASSUME BaseInv, UNCHANGED vars \/ \E id \in Order : Age(id)
  PROVE  BaseInv'
<1>1. /\ UNCHANGED <<rows, exited, cache, pc, order, seen, landed, mon, raced, faults>>
      /\ overdue' \subseteq Order
  BY DEF vars, Age, bookVars, fillVars, BaseInv, PositionTypeOK
<1> QED
  BY <1>1
  DEF BaseInv, PositionTypeOK, RowsInv, FillsInv, FillTooLarge, PriceOf, LoopInv,
      Idle

LEMMA BaseNext ==
  ASSUME BaseInv, [Next]_vars
  PROVE  BaseInv'
  BY DuplicateCheckBase, OpenReadBase, OpenBookBase, OpenEndsBase, QuietBase,
     MarkReadBase, MarkKeepBase, MarkExitBase, LoopsBase
  DEF Next, FillStep, MarkStep

LEMMA BaseInvariant == Spec => []BaseInv
<1>1. BaseInv /\ [Next]_vars => BaseInv'
  BY BaseNext
<1> QED BY BaseInit, <1>1, PTL DEF Spec

(***************************************************************************)
(* The tables, the runs and the loops keep their types.                    *)
(***************************************************************************)
THEOREM PositionTypeCorrect == Spec => []PositionTypeOK
<1>1. BaseInv => PositionTypeOK
  BY DEF BaseInv
<1> QED BY <1>1, BaseInvariant, PTL

-----------------------------------------------------------------------------
(***************************************************************************)
(* A key that nothing raced on: at most one row, one fill or one loop that *)
(* works on it, and what that one has read is still so.                    *)
(***************************************************************************)
FillInv(o, k) ==
  /\ pc[o] = "read" =>
       /\ seen[o] = NoRow <=> RowsOf(k) = {}
       /\ seen[o] # NoRow => seen[o] \in RowsOf(k)
  /\ pc[o] = "booked" => (Closes(o) <=> RowsOf(k) = {})

PassInv(m, k) ==
  /\ RowsOf(k) # {}
  /\ \A r \in RowsOf(k) : mon[m].sold[k] = IF r.id \in mon[m].gone THEN r.qty ELSE 0
  /\ \A r \in mon[m].todo : r.key = k => r \in RowsOf(k) /\ r.id \notin mon[m].gone

CacheInv(k) ==
  (faults = 0 /\ \A o \in FillsOn(k) : pc[o] = "read") =>
    (cache[k] # 0 <=>
       \E r \in RowsOf(k) : \A m \in LoopsOn(k) : r.id \notin mon[m].gone)

KeyInv(k) ==
  k \notin raced =>
    /\ \A r, q \in RowsOf(k) : r = q
    /\ \A o, p \in FillsOn(k) : o = p
    /\ \A m, n \in LoopsOn(k) : m = n
    /\ FillsOn(k) = {} \/ LoopsOn(k) = {}
    /\ \A o \in FillsOn(k) : FillInv(o, k)
    /\ \A m \in LoopsOn(k) : PassInv(m, k)
    /\ CacheInv(k)

BooksInv == BaseInv /\ \A k \in Key : KeyInv(k)

(* A loop is for the key as it was. *)
SameLoop(m, k) ==
  /\ m \in LoopsOn(k)' <=> m \in LoopsOn(k)
  /\ m \in LoopsOn(k) =>
       /\ {r \in mon'[m].todo : r.key = k} \subseteq mon[m].todo
       /\ \A r \in RowsOf(k) : r.id \in mon'[m].gone <=> r.id \in mon[m].gone
       /\ \A r \in mon'[m].todo : r.key = k =>
            (r.id \in mon'[m].gone <=> r.id \in mon[m].gone)
       /\ mon'[m].sold[k] = mon[m].sold[k]

(* Nothing has happened to the key. *)
LEMMA Untouched ==
  ASSUME NEW k \in Key, KeyInv(k), raced \subseteq raced', order' = order,
         RowsOf(k)' = RowsOf(k), cache'[k] = cache[k], faults' = 0 => faults = 0,
         \A o \in Order : order[o].key = k =>
           \/ pc'[o] = pc[o] /\ seen'[o] = seen[o]
           \/ {pc[o], pc'[o]} \cap {"read", "booked"} = {},
         \A m \in Monitor : SameLoop(m, k)
  PROVE  KeyInv(k)'
<1> SUFFICES ASSUME k \notin raced PROVE KeyInv(k)'
  BY DEF KeyInv
<1>1. FillsOn(k)' = FillsOn(k)
  BY DEF FillsOn
<1>2. LoopsOn(k)' = LoopsOn(k)
  BY DEF LoopsOn, SameLoop
<1>3. \A o \in FillsOn(k) : pc'[o] = pc[o] /\ seen'[o] = seen[o]
  BY DEF FillsOn
<1>4. \A o \in FillsOn(k) : FillInv(o, k)'
  <2> TAKE o \in FillsOn(k)
  <2>1. FillInv(o, k) /\ pc'[o] = pc[o] /\ seen'[o] = seen[o]
    BY <1>3 DEF KeyInv
  <2>2. Closes(o)' <=> Closes(o)
    BY <2>1 DEF Closes
  <2> QED BY <2>1, <2>2 DEF FillInv
<1>5. \A m \in LoopsOn(k) : PassInv(m, k)'
  <2> TAKE m \in LoopsOn(k)
  <2>1. PassInv(m, k) /\ m \in Monitor
    BY DEF KeyInv, LoopsOn
  <2> QED BY <2>1 DEF PassInv, SameLoop
<1>6. CacheInv(k)'
  <2>1. (\A o \in FillsOn(k) : pc[o] = "read")' <=> \A o \in FillsOn(k) : pc[o] = "read"
    BY <1>1, <1>3
  <2>2. ASSUME NEW r \in RowsOf(k)
        PROVE  (\A m \in LoopsOn(k) : r.id \notin mon[m].gone)'
                 <=> \A m \in LoopsOn(k) : r.id \notin mon[m].gone
    BY <1>2 DEF SameLoop, LoopsOn
  <2> QED BY <2>1, <2>2 DEF CacheInv, KeyInv
<1> QED BY <1>1, <1>2, <1>4, <1>5, <1>6 DEF KeyInv

-----------------------------------------------------------------------------
(***************************************************************************)
(* The fills, and the keys they are about.                                 *)
(***************************************************************************)
LEMMA LoopsSame ==
  ASSUME NEW k \in Key, mon' = mon
  PROVE  LoopsOn(k)' = LoopsOn(k) /\ \A m \in Monitor : SameLoop(m, k)
  BY DEF LoopsOn, SameLoop

LEMMA OtherKeys ==
  ASSUME BooksInv, NEW o \in Order, NEW k \in Key, k # order[o].key,
         order' = order, mon' = mon, raced \subseteq raced',
         faults' = 0 => faults = 0,
         \A p \in Order \ {o} : pc'[p] = pc[p] /\ seen'[p] = seen[p],
         RowsOf(k)' = RowsOf(k), cache'[k] = cache[k]
  PROVE  KeyInv(k)'
  BY LoopsSame, Untouched DEF BooksInv

LEMMA RowsSame == ASSUME rows' = rows, NEW k PROVE RowsOf(k)' = RowsOf(k)
  BY DEF RowsOf

LEMMA DuplicateCheckKeys ==
  ASSUME BooksInv, NEW o \in Order, DuplicateCheck(o)
  PROVE  \A k \in Key : KeyInv(k)'
<1> TAKE k \in Key
<1>1. /\ order' = order /\ mon' = mon /\ raced' = raced /\ faults' = faults
      /\ rows' = rows /\ cache' = cache /\ seen' = seen
      /\ {pc[o], pc'[o]} \cap {"read", "booked"} = {}
      /\ \A p \in Order \ {o} : pc'[p] = pc[p]
  BY DEF DuplicateCheck, bookVars, BooksInv, BaseInv, PositionTypeOK
<1> QED BY <1>1, LoopsSame, RowsSame, Untouched DEF BooksInv

(* The fill of the key is over, or never began. *)
LEMMA FillsGone ==
  ASSUME BooksInv, NEW o \in Order, NEW k \in Key, k = order[o].key,
         order' = order, mon' = mon, rows' = rows, raced \subseteq raced',
         pc'[o] \in {"done", "failed"},
         \A p \in Order \ {o} : pc'[p] = pc[p] /\ seen'[p] = seen[p],
         CacheInv(k)', FillsOn(k) = {o}
  PROVE  KeyInv(k)'
<1> SUFFICES ASSUME k \notin raced' PROVE KeyInv(k)'
  BY DEF KeyInv
<1>1. FillsOn(k)' = {} /\ FillsOn(k) = {o}
  BY DEF FillsOn
<1>2. LoopsOn(k) = {} /\ LoopsOn(k)' = {}
  BY <1>1, LoopsSame DEF BooksInv, KeyInv
<1>3. \A r, q \in RowsOf(k)' : r = q
  BY RowsSame DEF BooksInv, KeyInv
<1> QED BY <1>1, <1>2, <1>3 DEF KeyInv

LEMMA OpenReadKeys ==
  ASSUME BooksInv, NEW o \in Order, OpenRead(o)
  PROVE  \A k \in Key : KeyInv(k)'
<1> PICK own \in Key : own = order[o].key
  BY OrderFields DEF BooksInv, BaseInv, PositionTypeOK
<1>0. /\ order' = order /\ mon' = mon /\ raced \subseteq raced' /\ faults' = faults
      /\ rows' = rows /\ cache' = cache /\ pc[o] = "checked"
      /\ \A p \in Order \ {o} : pc'[p] = pc[p] /\ seen'[p] = seen[p]
      /\ PositionTypeOK
  BY DEF OpenRead, bookVars, BooksInv, BaseInv, PositionTypeOK
<1>1. ASSUME NEW k \in Key, k # own PROVE KeyInv(k)'
  BY <1>0, <1>1, OtherKeys, RowsSame
<1>2. CASE FillTooLarge(o)
  <2>1. pc'[o] = "failed"
    BY <1>0, <1>2 DEF OpenRead, PositionTypeOK
  <2>2. KeyInv(own)'
    BY <1>0, <2>1, LoopsSame, RowsSame, Untouched DEF BooksInv
  <2> QED BY <1>1, <2>2
<1>3. CASE ~FillTooLarge(o) /\ own \notin raced'
  <2>1. /\ own \notin raced /\ FillsOn(own) = {} /\ LoopsOn(own) = {}
        /\ pc'[o] = "read"
    BY <1>0, <1>3 DEF OpenRead, Busy, PositionTypeOK
  <2>2. /\ seen'[o] = NoRow <=> RowsOf(own) = {}
        /\ seen'[o] # NoRow => seen'[o] \in RowsOf(own)
    <3>1. PICK x \in IF RowsOf(own) = {} THEN {NoRow} ELSE RowsOf(own) :
            seen' = [seen EXCEPT ![o] = x]
      BY <1>3 DEF OpenRead
    <3>2. NoRow \notin RowsOf(own)
      BY <1>0, NoRowAssumption DEF RowsOf, PositionTypeOK
    <3>3. seen'[o] = x
      BY <1>0, <3>1 DEF PositionTypeOK
    <3> QED BY <3>1, <3>2, <3>3
  <2>3. FillsOn(own)' = {o}
    BY <1>0, <2>1 DEF FillsOn
  <2>4. LoopsOn(own)' = {} /\ RowsOf(own)' = RowsOf(own)
    BY <1>0, <2>1, LoopsSame, RowsSame
  <2>5. FillInv(o, own)'
    BY <2>1, <2>2, <2>4 DEF FillInv
  <2>6. KeyInv(own)
    BY <1>0 DEF BooksInv
  <2>7. CacheInv(own)'
    BY <1>0, <2>1, <2>4, <2>6 DEF KeyInv, CacheInv
  <2>8. KeyInv(own)'
    BY <2>1, <2>3, <2>4, <2>5, <2>6, <2>7 DEF KeyInv
  <2> QED BY <1>1, <2>8
<1>4. CASE own \in raced'
  BY <1>1, <1>4 DEF KeyInv
<1> QED BY <1>2, <1>3, <1>4

LEMMA OpenEndsKeys ==
  ASSUME BooksInv, NEW o \in Order,
         (OpenBook(o) /\ OverCap(o)) \/ OpenCache(o) \/ OpenFails(o)
  PROVE  \A k \in Key : KeyInv(k)'
<1> PICK own \in Key : own = order[o].key
  BY OrderFields DEF BooksInv, BaseInv, PositionTypeOK
<1>0. /\ order' = order /\ mon' = mon /\ raced' = raced /\ rows' = rows
      /\ pc[o] \in {"read", "booked"} /\ pc'[o] \in {"done", "failed"}
      /\ \A p \in Order \ {o} : pc'[p] = pc[p] /\ seen'[p] = seen[p]
      /\ PositionTypeOK
      /\ faults' = 0 => faults = 0
  BY DEF OpenBook, OpenCache, OpenFails, Ends, bookVars, BooksInv, BaseInv,
         PositionTypeOK
<1>1. ASSUME NEW k \in Key, k # own PROVE KeyInv(k)'
  <2>1. cache'[k] = cache[k]
    BY <1>0, <1>1 DEF OpenBook, OpenCache, OpenFails, bookVars, PositionTypeOK
  <2> QED BY <1>0, <1>1, <2>1, OtherKeys, RowsSame
<1>2. CASE own \notin raced
  <2>1. KeyInv(own) /\ o \in FillsOn(own)
    BY <1>0 DEF BooksInv, FillsOn
  <2>2. FillsOn(own) = {o} /\ LoopsOn(own) = {} /\ FillInv(o, own)
    BY <1>2, <2>1 DEF KeyInv
  <2>3. LoopsOn(own)' = {} /\ RowsOf(own)' = RowsOf(own)
    BY <1>0, <2>2, LoopsSame, RowsSame
  <2>4. CacheInv(own)'
    <3>1. CASE OpenBook(o)
      <4>1. cache' = cache /\ faults' = faults /\ \A p \in FillsOn(own) : pc[p] = "read"
        BY <2>2, <3>1 DEF OpenBook
      <4> QED BY <1>2, <2>1, <2>2, <2>3, <4>1 DEF KeyInv, CacheInv
    <3>2. CASE OpenCache(o)
      <4>1. /\ cache'[own] = IF Closes(o) THEN 0 ELSE order[o].qty
            /\ Closes(o) <=> RowsOf(own) = {}
        BY <1>0, <2>2, <3>2 DEF OpenCache, PositionTypeOK, FillInv
      <4>2. order[o].qty # 0
        BY <1>0, OrderFields DEF PositionTypeOK
      <4> QED BY <2>3, <4>1, <4>2 DEF CacheInv
    <3>3. CASE OpenFails(o)
      <4>1. faults' # 0
        BY <1>0, <3>3 DEF OpenFails, PositionTypeOK
      <4> QED BY <4>1 DEF CacheInv
    <3> QED BY <3>1, <3>2, <3>3
  <2>5. KeyInv(own)'
    BY <1>0, <2>2, <2>4, FillsGone
  <2> QED BY <1>1, <2>5
<1>3. CASE own \in raced
  BY <1>0, <1>1, <1>3 DEF KeyInv
<1> QED BY <1>2, <1>3

(* A booked fill changes no row of another key. *)
LEMMA OtherRows ==
  ASSUME BaseInv, NEW o \in Order, NEW k \in Key, k # order[o].key
  PROVE  {r \in BookedRows(o) : r.key = k} = RowsOf(k)
<1>0. rows \subseteq Row /\ order \in [Order -> Trade]
  BY DEF BaseInv, PositionTypeOK
<1>1. CASE seen[o] = NoRow /\ BookedRows(o) = rows \cup {NewRow(o)}
  BY <1>0, <1>1, NewRowType DEF RowsOf
<1>2. CASE seen[o] # NoRow
  <2>1. \A r \in rows : r.key = k => r.id # seen[o].id
    BY <1>2 DEF BaseInv, RowsInv, FillsInv
  <2>2. \A n : {r \in Updated(seen[o].id, n) : r.key = k} = RowsOf(k)
    BY <1>0, <2>1 DEF Updated, RowsOf, Row
  <2>3. \A n, avg : {r \in Repriced(seen[o].id, n, avg) : r.key = k} = RowsOf(k)
    BY <1>0, <2>1 DEF Repriced, RowsOf, Row
  <2>4. CASE BookedRows(o) = {r \in rows : r.id # seen[o].id}
    BY <2>1, <2>4 DEF RowsOf
  <2> QED BY <1>2, <2>2, <2>3, <2>4, FourWays
<1> QED BY <1>1, <1>2, FourWays DEF Increases, Closes, Reduces

(* What it makes of the one row of its own key. *)
Grown(o) == [seen[o] EXCEPT !.qty = NewQty(o), !.avg = NewAvg(o)]
Shrunk(o) == [seen[o] EXCEPT !.qty = seen[o].qty - order[o].qty]

LEMMA OwnRows ==
  ASSUME BooksInv, NEW o \in Order, NEW k \in Key, k = order[o].key,
         k \notin raced, pc[o] = "read"
  PROVE  LET new == {r \in BookedRows(o) : r.key = k}
         IN \/ seen[o] = NoRow /\ RowsOf(k) = {} /\ new = {NewRow(o)}
            \/ /\ seen[o] # NoRow /\ RowsOf(k) = {seen[o]}
               /\ \/ Increases(o) /\ new = {Grown(o)}
                  \/ Closes(o) /\ new = {}
                  \/ Reduces(o) /\ new = {Shrunk(o)}
<1> DEFINE new == {r \in BookedRows(o) : r.key = k}
<1>0. rows \subseteq Row /\ order \in [Order -> Trade] /\ BaseInv
  BY DEF BooksInv, BaseInv, PositionTypeOK
<1>1. /\ seen[o] = NoRow <=> RowsOf(k) = {}
      /\ seen[o] # NoRow => RowsOf(k) = {seen[o]}
  <2>1. KeyInv(k) /\ o \in FillsOn(k)
    BY DEF BooksInv, FillsOn
  <2> QED BY <2>1 DEF KeyInv, FillInv
<1>2. CASE seen[o] = NoRow
  <2>1. BookedRows(o) = rows \cup {NewRow(o)}
    BY <1>0, <1>2, FourWays DEF Increases, Closes, Reduces
  <2>2. new = {NewRow(o)}
    BY <1>0, <1>1, <1>2, <2>1, NewRowType DEF RowsOf
  <2> QED BY <1>1, <1>2, <2>2
<1>3. CASE seen[o] # NoRow
  <2>1. seen[o] \in rows /\ seen[o].key = k /\ \A r \in rows : r.key = k => r = seen[o]
    BY <1>1, <1>3 DEF RowsOf
  <2>2. \A r \in rows : r.id = seen[o].id => r = seen[o]
    BY <1>0, <2>1 DEF BaseInv, RowsInv
  <2>3. ASSUME NEW n PROVE {r \in Updated(seen[o].id, n) : r.key = k}
                             = {[seen[o] EXCEPT !.qty = n]}
    <3>1. [seen[o] EXCEPT !.qty = n].key = k
      BY <1>0, <2>1 DEF Row
    <3>2. \A r \in rows : r.id = seen[o].id <=> r = seen[o]
      BY <2>2
    <3> QED BY <2>1, <3>1, <3>2 DEF Updated
  <2>5. ASSUME NEW n, NEW avg
        PROVE  {r \in Repriced(seen[o].id, n, avg) : r.key = k}
                 = {[seen[o] EXCEPT !.qty = n, !.avg = avg]}
    <3>1. [seen[o] EXCEPT !.qty = n, !.avg = avg].key = k
      BY <1>0, <2>1 DEF Row
    <3>2. \A r \in rows : r.id = seen[o].id <=> r = seen[o]
      BY <2>2
    <3> QED BY <2>1, <3>1, <3>2 DEF Repriced
  <2>4. {r \in {q \in rows : q.id # seen[o].id} : r.key = k} = {}
    BY <2>1
  <2>6. /\ Increases(o) /\ BookedRows(o) = Repriced(seen[o].id, NewQty(o), NewAvg(o))
           => new = {Grown(o)}
        /\ Reduces(o) /\ BookedRows(o) = Updated(seen[o].id, seen[o].qty - order[o].qty)
           => new = {Shrunk(o)}
        /\ BookedRows(o) = {r \in rows : r.id # seen[o].id} => new = {}
    BY <2>3, <2>4, <2>5 DEF Grown, Shrunk
  <2> HIDE DEF new
  <2>7. \/ Increases(o) /\ new = {Grown(o)}
        \/ Closes(o) /\ new = {}
        \/ Reduces(o) /\ new = {Shrunk(o)}
    BY <1>0, <1>3, <2>6, FourWays
  <2> QED BY <1>1, <1>3, <2>7 DEF new
<1> QED BY <1>2, <1>3

LEMMA OpenBookKeys ==
  ASSUME BooksInv, NEW o \in Order, OpenBook(o), ~OverCap(o)
  PROVE  \A k \in Key : KeyInv(k)'
<1> PICK own \in Key : own = order[o].key
  BY OrderFields DEF BooksInv, BaseInv, PositionTypeOK
<1>0. /\ pc[o] = "read" /\ pc'[o] = "booked" /\ rows' = BookedRows(o)
      /\ \A p \in Order \ {o} : pc'[p] = pc[p] /\ seen'[p] = seen[p]
      /\ UNCHANGED <<seen, order, cache, mon, raced, faults>>
      /\ BaseInv
  BY DEF OpenBook, BooksInv, BaseInv, PositionTypeOK
<1>1. ASSUME NEW k \in Key, k # own PROVE KeyInv(k)'
  <2>1. RowsOf(k)' = RowsOf(k)
    BY <1>0, <1>1, OtherRows DEF RowsOf
  <2> QED BY <1>0, <1>1, <2>1, OtherKeys
<1>2. CASE own \notin raced
  <2>1. KeyInv(own) /\ o \in FillsOn(own)
    BY <1>0 DEF BooksInv, FillsOn
  <2>2. FillsOn(own) = {o} /\ LoopsOn(own) = {}
    BY <1>2, <2>1 DEF KeyInv
  <2>3. FillsOn(own)' = {o} /\ LoopsOn(own)' = {}
    BY <1>0, <2>2, LoopsSame DEF FillsOn
  <2>4. /\ \A r, q \in RowsOf(own)' : r = q
        /\ Closes(o) <=> RowsOf(own)' = {}
    <3>1. RowsOf(own)' = {r \in BookedRows(o) : r.key = own}
      BY <1>0 DEF RowsOf
    <3>2. seen[o] # NoRow => seen[o].qty \in Nat /\ order[o].qty \in Nat
      BY <1>0, SeenFacts, OrderFields DEF BaseInv, PositionTypeOK
    <3>3. /\ seen[o] = NoRow => ~Closes(o)
          /\ Increases(o) \/ Reduces(o) => ~Closes(o)
      BY <3>2 DEF Closes, Increases, Reduces
    <3>4. \/ seen[o] = NoRow /\ RowsOf(own)' = {NewRow(o)}
          \/ (Increases(o) \/ Reduces(o)) /\ \E x : RowsOf(own)' = {x}
          \/ Closes(o) /\ RowsOf(own)' = {}
      <4> DEFINE new == {r \in BookedRows(o) : r.key = own}
      <4>1. \/ seen[o] = NoRow /\ new = {NewRow(o)}
            \/ Increases(o) /\ new = {Grown(o)}
            \/ Closes(o) /\ new = {}
            \/ Reduces(o) /\ new = {Shrunk(o)}
        BY <1>0, <1>2, OwnRows
      <4>2. RowsOf(own)' = new
        BY <3>1
      <4> HIDE DEF new
      <4> QED BY <4>1, <4>2
    <3> QED BY <3>3, <3>4
  <2>5. Closes(o)' <=> Closes(o)
    BY <1>0 DEF Closes
  <2>6. FillInv(o, own)'
    BY <1>0, <2>4, <2>5 DEF FillInv
  <2>7. CacheInv(own)'
    BY <1>0, <2>3 DEF CacheInv
  <2>8. KeyInv(own)'
    BY <2>3, <2>4, <2>6, <2>7 DEF KeyInv
  <2> QED BY <1>1, <2>8
<1>3. CASE own \in raced
  BY <1>0, <1>1, <1>3 DEF KeyInv
<1> QED BY <1>2, <1>3

-----------------------------------------------------------------------------
(***************************************************************************)
(* The loops, and the keys they work on.                                   *)
(***************************************************************************)
LEMMA OtherLoops ==
  ASSUME PositionTypeOK, NEW m \in Monitor, NEW l, NEW k \in Key,
         mon' = [mon EXCEPT ![m] = l]
  PROVE  /\ mon'[m] = l
         /\ \A n \in Monitor \ {m} : mon'[n] = mon[n] /\ SameLoop(n, k)
<1>1. mon'[m] = l /\ \A n \in Monitor \ {m} : mon'[n] = mon[n]
  BY DEF PositionTypeOK
<1> QED BY <1>1 DEF SameLoop, LoopsOn

(* A loop is in no transaction before the step and in none after it, as    *)
(* far as the key goes.                                                    *)
LEMMA LoopElsewhere ==
  ASSUME BooksInv, NEW m \in Monitor, NEW k \in Key, NEW l,
         mon' = [mon EXCEPT ![m] = l],
         m \notin LoopsOn(k), m \notin LoopsOn(k)',
         UNCHANGED fillVars, raced \subseteq raced', faults' = 0 => faults = 0,
         RowsOf(k)' = RowsOf(k), cache'[k] = cache[k]
  PROVE  KeyInv(k)'
<1>1. \A n \in Monitor \ {m} : SameLoop(n, k)
  BY OtherLoops DEF BooksInv, BaseInv
<1>2. SameLoop(m, k)
  BY DEF SameLoop
<1> QED BY <1>1, <1>2, Untouched DEF BooksInv, fillVars

LEMMA NotOn ==
  ASSUME BaseInv, NEW m \in Monitor, NEW k \in Key, k \notin mon[m].keys
  PROVE  m \notin LoopsOn(k) /\ mon[m].sold[k] = 0
         /\ \A id \in mon[m].gone : order[id].key # k
  BY DEF LoopsOn, BaseInv, LoopInv

LEMMA MarkReadKeys ==
  ASSUME BooksInv, NEW m \in Monitor, MarkRead(m)
  PROVE  \A k \in Key : KeyInv(k)'
<1> DEFINE keys == {r.key : r \in rows}
           l == [Asleep EXCEPT !.pc = "at_work", !.todo = rows, !.keys = keys]
<1>1. /\ mon' = [mon EXCEPT ![m] = l]
      /\ UNCHANGED <<bookVars, overdue, fillVars, faults>>
      /\ raced' = raced \cup {k \in keys : Busy(k)}
  BY DEF MarkRead
<1>2. /\ l.pc = "at_work" /\ l.todo = rows /\ l.keys = keys /\ l.gone = {}
      /\ \A k \in Key : l.sold[k] = 0
  BY DEF Asleep
<1> HIDE DEF l
<1> TAKE k \in Key
<1>3. mon'[m] = l /\ rows' = rows /\ cache' = cache /\ m \notin LoopsOn(k)
  BY <1>1, OtherLoops DEF MarkRead, LoopsOn, BooksInv, BaseInv, bookVars
<1>4. CASE k \notin keys
  <2>1. m \notin LoopsOn(k)'
    BY <1>2, <1>3, <1>4 DEF LoopsOn
  <2> QED BY <1>1, <1>3, <2>1, RowsSame, LoopElsewhere
<1>5. CASE k \in keys /\ k \notin raced'
  <2>1. k \notin raced /\ FillsOn(k) = {} /\ LoopsOn(k) = {} /\ KeyInv(k)
    BY <1>1, <1>5 DEF Busy, BooksInv
  <2>2. FillsOn(k)' = {} /\ RowsOf(k)' = RowsOf(k)
    BY <1>1, <1>3, <2>1, RowsSame DEF FillsOn, fillVars
  <2>3. LoopsOn(k)' = {m}
    BY <1>1, <1>2, <1>3, <1>5, <2>1, OtherLoops DEF LoopsOn, BooksInv, BaseInv
  <2>4. RowsOf(k) # {}
    BY <1>5 DEF RowsOf
  <2>5. PassInv(m, k)'
    BY <1>2, <1>3, <2>2, <2>4 DEF PassInv, RowsOf
  <2>6. CacheInv(k)'
    BY <1>1, <1>2, <1>3, <2>1, <2>2, <2>3 DEF KeyInv, CacheInv
  <2> QED BY <2>1, <2>2, <2>3, <2>5, <2>6 DEF KeyInv
<1>6. CASE k \in raced'
  BY <1>6 DEF KeyInv
<1> QED BY <1>4, <1>5, <1>6

LEMMA MarkKeepKeys ==
  ASSUME BooksInv, NEW m \in Monitor, NEW r, MarkKeep(m, r)
  PROVE  \A k \in Key : KeyInv(k)'
<1>1. mon[m] \in LoopState
  BY DEF BooksInv, BaseInv, PositionTypeOK
<1>2. PICK live \in BOOLEAN :
        mon' = [mon EXCEPT ![m].todo = @ \ {r},
                           ![m].locked = @ \cup MarkLocks(r, live)]
  BY DEF MarkKeep
<1> DEFINE l == [mon[m] EXCEPT !.todo = @ \ {r},
                               !.locked = @ \cup MarkLocks(r, live)]
<1>3. mon' = [mon EXCEPT ![m] = l]
  BY <1>2 DEF BooksInv, BaseInv, PositionTypeOK
<1>4. /\ l.pc = mon[m].pc /\ l.keys = mon[m].keys /\ l.gone = mon[m].gone
      /\ l.sold = mon[m].sold /\ l.todo = mon[m].todo \ {r}
  BY <1>1 DEF LoopState
<1> HIDE DEF l
<1> TAKE k \in Key
<1>5. mon'[m] = l /\ \A n \in Monitor \ {m} : SameLoop(n, k)
  BY <1>3, OtherLoops DEF BooksInv, BaseInv
<1>6. SameLoop(m, k)
  BY <1>4, <1>5 DEF SameLoop, LoopsOn
<1>7. /\ RowsOf(k)' = RowsOf(k) /\ cache' = cache
      /\ UNCHANGED <<fillVars, raced, faults>>
  BY RowsSame DEF MarkKeep, bookVars
<1> QED BY <1>5, <1>6, <1>7, Untouched DEF BooksInv, fillVars

LEMMA MarkExitKeys ==
  ASSUME BooksInv, NEW m \in Monitor, NEW r, MarkExit(m, r)
  PROVE  \A k \in Key : KeyInv(k)'
<1> DEFINE doomed == RowIds(RowsOf(r.key)) \ mon[m].gone
           l == mon'[m]
<1>0. BaseInv /\ mon[m] \in LoopState /\ LoopInv(mon[m])
  BY DEF BooksInv, BaseInv, PositionTypeOK
<1>1. /\ r \in Row /\ r \in mon[m].todo /\ r.key \in mon[m].keys
      /\ mon' = [mon EXCEPT ![m] = l]
      /\ l.pc = "at_work" /\ l.keys = mon[m].keys
      /\ l.todo = mon[m].todo \ {r}
      /\ l.gone = mon[m].gone \cup doomed
      /\ l.sold = [mon[m].sold EXCEPT ![r.key] = @ + r.qty]
  BY <1>0, ExitEffect
<1>2. \A id \in doomed : order[id].key = r.key
  BY <1>0 DEF BaseInv, RowsInv, RowIds, RowsOf
<1>3. /\ r.key \in Key /\ r.qty \in Nat /\ mon[m].sold \in [Key -> Nat]
      /\ mon[m].pc = "at_work"
  BY <1>0, <1>1, RowFields DEF LoopState, MarkExit
<1>4. /\ rows' = rows /\ cache' = [cache EXCEPT ![r.key] = 0]
      /\ UNCHANGED <<fillVars, raced, faults>> /\ cache \in [Key -> Nat]
  BY <1>0 DEF MarkExit, BaseInv, PositionTypeOK
<1> TAKE k \in Key
<1>5. \A n \in Monitor \ {m} : mon'[n] = mon[n] /\ SameLoop(n, k)
  BY <1>0, <1>1, OtherLoops DEF BaseInv
<1>6. CASE k # r.key
  <2>1. \A q \in RowsOf(k) : q.id \notin doomed
    BY <1>0, <1>2, <1>6 DEF BaseInv, RowsInv, RowsOf
  <2>2. \A q \in mon[m].todo : q.key = k => q.id \notin doomed
    BY <1>0, <1>2, <1>6 DEF LoopInv
  <2>3. SameLoop(m, k)
    <3>1. m \in LoopsOn(k)' <=> m \in LoopsOn(k)
      BY <1>1, <1>3 DEF LoopsOn
    <3>2. l.sold[k] = mon[m].sold[k]
      BY <1>1, <1>3, <1>6
    <3> QED BY <1>1, <2>1, <2>2, <3>1, <3>2 DEF SameLoop
  <2>4. cache'[k] = cache[k] /\ RowsOf(k)' = RowsOf(k)
    BY <1>4, <1>6, RowsSame
  <2> QED BY <1>4, <1>5, <2>3, <2>4, Untouched DEF BooksInv, fillVars
<1>7. CASE k = r.key /\ k \notin raced
  <2>1. KeyInv(k) /\ m \in LoopsOn(k)
    BY <1>1, <1>3, <1>7 DEF BooksInv, LoopsOn
  <2>2. /\ LoopsOn(k) = {m} /\ FillsOn(k) = {} /\ PassInv(m, k)
        /\ r.id \notin mon[m].gone /\ RowsOf(k) = {r}
    BY <1>1, <1>7, <2>1 DEF KeyInv, PassInv
  <2>3. doomed = {r.id} /\ mon[m].sold[k] = 0
    BY <1>7, <2>2 DEF RowIds, PassInv
  <2>4. LoopsOn(k)' = {m} /\ FillsOn(k)' = {} /\ RowsOf(k)' = {r}
    <3>1. LoopsOn(k)' = LoopsOn(k)
      BY <1>1, <1>3, <1>5 DEF LoopsOn, SameLoop
    <3> QED BY <1>4, <2>2, <3>1, RowsSame DEF FillsOn, fillVars
  <2>5. l.sold[k] = r.qty /\ r.id \in l.gone
    BY <1>1, <1>3, <1>7, <2>3
  <2>6. \A q \in l.todo : q.key # k
    BY <1>1, <2>2 DEF PassInv
  <2>7. PassInv(m, k)'
    BY <2>4, <2>5, <2>6 DEF PassInv
  <2>8. CacheInv(k)'
    BY <1>4, <1>7, <2>4, <2>5 DEF CacheInv
  <2> QED BY <2>4, <2>7, <2>8 DEF KeyInv
<1>8. CASE k \in raced
  BY <1>4, <1>8 DEF KeyInv
<1> QED BY <1>6, <1>7, <1>8

(* What a pass leaves of a key's rows. *)
LEMMA CommittedRows ==
  ASSUME BooksInv, NEW m \in Monitor, MarkCommit(m), NEW k \in Key
  PROVE  /\ k \notin mon[m].keys => RowsOf(k)' = RowsOf(k)
         /\ RowsOf(k)' = {r \in RowsOf(k) : r.id \notin mon[m].gone}
<1>1. RowsOf(k)' = {r \in RowsOf(k) : r.id \notin mon[m].gone}
  BY DEF MarkCommit, RowsOf
<1>2. \A r \in RowsOf(k) : order[r.id].key = k
  BY DEF BooksInv, BaseInv, RowsInv, RowsOf
<1> QED BY <1>1, <1>2, NotOn DEF BooksInv

LEMMA MarkCommitKeys ==
  ASSUME BooksInv, NEW m \in Monitor, MarkCommit(m)
  PROVE  \A k \in Key : KeyInv(k)'
<1> TAKE k \in Key
<1>1. /\ mon' = [mon EXCEPT ![m] = Asleep] /\ cache' = cache
      /\ UNCHANGED <<fillVars, raced, faults>>
      /\ mon[m].pc = "at_work" /\ BaseInv
  BY DEF MarkCommit, BooksInv
<1>2. mon'[m] = Asleep /\ \A n \in Monitor \ {m} : mon'[n] = mon[n]
  BY <1>1, OtherLoops DEF BaseInv
<1>3. m \notin LoopsOn(k)'
  BY <1>2, IdleLoops DEF LoopsOn
<1>4. CASE k \notin mon[m].keys
  BY <1>1, <1>3, <1>4, NotOn, CommittedRows, LoopElsewhere
<1>5. CASE k \in mon[m].keys /\ k \notin raced
  <2>1. KeyInv(k) /\ m \in LoopsOn(k)
    BY <1>1, <1>5 DEF BooksInv, LoopsOn
  <2>2. LoopsOn(k) = {m} /\ FillsOn(k) = {}
    BY <1>5, <2>1 DEF KeyInv
  <2>3. LoopsOn(k)' = {} /\ FillsOn(k)' = {}
    BY <1>1, <1>2, <1>3, <2>2 DEF LoopsOn, FillsOn, fillVars
  <2>4. RowsOf(k)' = {r \in RowsOf(k) : r.id \notin mon[m].gone}
    BY CommittedRows
  <2>5. CacheInv(k)'
    BY <1>1, <1>5, <2>1, <2>2, <2>3, <2>4 DEF KeyInv, CacheInv
  <2> QED BY <1>5, <2>1, <2>3, <2>4, <2>5 DEF KeyInv
<1>6. CASE k \in raced
  BY <1>1, <1>6 DEF KeyInv
<1> QED BY <1>4, <1>5, <1>6

LEMMA LoopEndsKeys ==
  ASSUME BooksInv, NEW m \in Monitor,
         \/ MarkDeadlock(m) \/ MarkFails(m)
         \/ StopMonitoring(m) \/ StartMonitoring(m)
  PROVE  \A k \in Key : KeyInv(k)'
<1> TAKE k \in Key
<1>0. BaseInv
  BY DEF BooksInv
<1>1. PICK l \in LoopState :
        Idle(l) /\ l.pc # "at_work" /\ mon' = [mon EXCEPT ![m] = l]
  BY IdleLoops
  DEF MarkDeadlock, MarkFails, StopMonitoring, StartMonitoring, LoopPc
<1>2. /\ UNCHANGED <<rows, cache, fillVars>> /\ raced \subseteq raced'
      /\ faults' = 0 => faults = 0
  BY <1>0
  DEF MarkDeadlock, MarkFails, StopMonitoring, StartMonitoring, bookVars,
      BaseInv, PositionTypeOK
<1>3. mon'[m] = l /\ \A n \in Monitor \ {m} : mon'[n] = mon[n]
  BY <1>0, <1>1, OtherLoops DEF BaseInv
<1>4. m \notin LoopsOn(k)'
  BY <1>1, <1>3 DEF LoopsOn
<1>5. CASE m \notin LoopsOn(k)
  BY <1>1, <1>2, <1>4, <1>5, RowsSame, LoopElsewhere
<1>6. CASE m \in LoopsOn(k) /\ k \notin raced'
  <2>1. k \notin raced /\ KeyInv(k)
    BY <1>2, <1>6 DEF BooksInv
  <2>2. LoopsOn(k) = {m} /\ FillsOn(k) = {}
    BY <1>6, <2>1 DEF KeyInv
  <2>3. LoopsOn(k)' = {} /\ FillsOn(k)' = {} /\ RowsOf(k)' = RowsOf(k)
    BY <1>2, <1>3, <1>4, <2>2, RowsSame DEF LoopsOn, FillsOn, fillVars
  <2>4. faults' # 0
    BY <1>0, <1>6
    DEF MarkDeadlock, MarkFails, StopMonitoring, StartMonitoring, LoopsOn,
        BaseInv, PositionTypeOK
  <2>5. CacheInv(k)'
    BY <2>4 DEF CacheInv
  <2> QED BY <2>1, <2>3, <2>5 DEF KeyInv
<1>7. CASE k \in raced'
  BY <1>7 DEF KeyInv
<1> QED BY <1>5, <1>6, <1>7

LEMMA QuietKeys ==
  ASSUME BooksInv, UNCHANGED vars \/ \E id \in Order : Age(id)
  PROVE  \A k \in Key : KeyInv(k)'
<1> TAKE k \in Key
<1>1. UNCHANGED <<rows, cache, fillVars, mon, raced, faults>>
  BY DEF vars, Age, bookVars, fillVars
<1> QED BY <1>1, LoopsSame, RowsSame, Untouched DEF BooksInv, fillVars

LEMMA BooksInvariant == Spec => []BooksInv
<1>1. Init => BooksInv
  <2> SUFFICES ASSUME Init PROVE \A k \in Key : KeyInv(k)
    BY BaseInit DEF BooksInv
  <2> TAKE k \in Key
  <2>1. RowsOf(k) = {} /\ FillsOn(k) = {} /\ LoopsOn(k) = {} /\ cache[k] = 0
    BY IdleLoops DEF Init, RowsOf, FillsOn, LoopsOn
  <2> QED BY <2>1 DEF KeyInv, CacheInv
<1>2. BooksInv /\ [Next]_vars => BooksInv'
  <2> SUFFICES ASSUME BooksInv, [Next]_vars PROVE BooksInv'
    OBVIOUS
  <2>1. \A k \in Key : KeyInv(k)'
    BY DuplicateCheckKeys, OpenReadKeys, OpenBookKeys, OpenEndsKeys, QuietKeys,
       MarkReadKeys, MarkKeepKeys, MarkExitKeys, MarkCommitKeys, LoopEndsKeys
    DEF Next, FillStep, MarkStep
  <2> QED BY <2>1, BaseNext DEF BooksInv
<1> QED BY <1>1, <1>2, PTL DEF Spec

(***************************************************************************)
(* The cap, on a key that nothing raced on: a booking inserts a fill whose *)
(* notional was checked, or grows a row whose new notional was checked, or *)
(* shrinks it at the same average.                                         *)
(***************************************************************************)
LEMMA CapBooked ==
  ASSUME BooksInv, NEW o \in Order, pc[o] = "read", ~OverCap(o),
         order[o].key \notin raced, RowWithinCap
  PROVE  \A r \in BookedRows(o) : r.key = order[o].key => ~ExceedsCap(r.qty, r.avg)
<1> PICK own \in Key : own = order[o].key
  BY OrderFields DEF BooksInv, BaseInv, PositionTypeOK
<1> DEFINE new == {r \in BookedRows(o) : r.key = own}
<1>0. BaseInv /\ order \in [Order -> Trade] /\ ~FillTooLarge(o)
  BY DEF BooksInv, BaseInv, PositionTypeOK, FillsInv
<1>1. \/ seen[o] = NoRow /\ new = {NewRow(o)}
      \/ seen[o] \in RowsOf(own) /\ Increases(o) /\ new = {Grown(o)}
      \/ new = {}
      \/ seen[o] \in RowsOf(own) /\ Reduces(o) /\ new = {Shrunk(o)}
  BY OwnRows
<1> HIDE DEF new
<1>2. ASSUME seen[o] = NoRow
      PROVE  ~ExceedsCap(NewRow(o).qty, NewRow(o).avg)
  BY <1>0, NewRowType DEF FillTooLarge
<1>3. ASSUME Increases(o), seen[o] \in RowsOf(own)
      PROVE  ~ExceedsCap(Grown(o).qty, Grown(o).avg)
  <2>1. seen[o] \in Row
    BY <1>0, <1>3, SeenFacts DEF Increases
  <2>2. Grown(o).qty = NewQty(o) /\ Grown(o).avg = NewAvg(o)
    BY <2>1 DEF Grown, Row
  <2> QED BY <1>3, <2>2 DEF OverCap
<1>4. ASSUME Reduces(o), seen[o] \in RowsOf(own)
      PROVE  ~ExceedsCap(Shrunk(o).qty, Shrunk(o).avg)
  <2> DEFINE q == seen[o].qty
             f == order[o].qty
             n == seen[o].avg.num
             d == seen[o].avg.den
  <2>1. /\ seen[o] \in Row /\ q \in Positive /\ f \in Positive /\ f < q
        /\ n \in Positive /\ d \in Positive /\ Cap \in Positive
    BY <1>0, <1>4, SeenFacts, OrderFields, PositionAssumption
    DEF Reduces, Positive, Average
  <2>2. Shrunk(o).qty = q - f /\ Shrunk(o).avg = seen[o].avg
    BY <2>1 DEF Shrunk, Row
  <2>3. ~(q * n > Cap * d)
    BY <1>4 DEF RowWithinCap, RowsOf, ExceedsCap
  <2>4. (q - f) * n <= q * n
    <3>1. q - f \in Nat /\ q \in Nat /\ q - f <= q
      BY <2>1 DEF Positive
    <3> HIDE DEF q, f, n
    <3> QED BY <2>1, <3>1, Products
  <2>5. q * n \in Nat /\ (q - f) * n \in Nat /\ Cap * d \in Nat
    <3>1. q - f \in Positive
      BY <2>1 DEF Positive
    <3> HIDE DEF q, f, n, d
    <3> QED BY <2>1, <3>1, Products DEF Positive
  <2>6. ~((q - f) * n > Cap * d)
    <3> DEFINE x == q * n
               y == (q - f) * n
               z == Cap * d
    <3>1. x \in Nat /\ y \in Nat /\ z \in Nat /\ ~(x > z) /\ y <= x
      BY <2>3, <2>4, <2>5
    <3> HIDE DEF x, y, z
    <3>2. ~(y > z)
      BY <3>1
    <3> QED BY <3>2 DEF y, z
  <2> QED BY <2>2, <2>6 DEF ExceedsCap
<1>5. \A r \in new : ~ExceedsCap(r.qty, r.avg)
  BY <1>1, <1>2, <1>3, <1>4
<1> QED BY <1>5 DEF new

(***************************************************************************)
(* No row passes the cap by accumulation, whatever the prices, on a key no *)
(* two transactions worked on at once.                                     *)
(***************************************************************************)
THEOREM CapIsKept == Spec => []RowWithinCap
<1>1. Init => RowWithinCap
  BY DEF Init, RowWithinCap
<1>2. BooksInv /\ RowWithinCap /\ [Next]_vars => RowWithinCap'
  <2> SUFFICES ASSUME BooksInv, RowWithinCap, [Next]_vars PROVE RowWithinCap'
    OBVIOUS
  <2>1. ASSUME NEW o \in Order, OpenBook(o), ~OverCap(o) PROVE RowWithinCap'
    <3>1. /\ pc[o] = "read" /\ rows' = BookedRows(o) /\ raced' = raced /\ BaseInv
      BY <2>1 DEF OpenBook, BooksInv
    <3>2. \A r \in rows' : r.key \in Key
      BY <3>1, BookedRowsOK, RowFields
    <3>3. ASSUME NEW r \in rows', r.key \notin raced
          PROVE  ~ExceedsCap(r.qty, r.avg)
      <4>1. CASE r.key = order[o].key
        BY <2>1, <3>1, <3>3, <4>1, CapBooked
      <4>2. CASE r.key # order[o].key
        <5>1. r \in RowsOf(r.key)
          BY <3>1, <3>2, <4>2, OtherRows
        <5> QED BY <3>3, <5>1 DEF RowsOf, RowWithinCap
      <4> QED BY <4>1, <4>2
    <3> QED BY <3>1, <3>3 DEF RowWithinCap
  <2>2. CASE ~ \E o \in Order : OpenBook(o) /\ ~OverCap(o)
    <3>1. rows' \subseteq rows /\ raced \subseteq raced'
      BY <2>2
      DEF Next, FillStep, MarkStep, DuplicateCheck, OpenRead, OpenBook, OpenCache,
          OpenFails, Age, MarkRead, MarkKeep, MarkExit, MarkCommit, MarkDeadlock,
          MarkFails, StopMonitoring, StartMonitoring, bookVars, vars
    <3> QED BY <3>1 DEF RowWithinCap
  <2> QED BY <2>1, <2>2
<1> QED BY <1>1, <1>2, BooksInvariant, PTL DEF Spec

(***************************************************************************)
(* A key that nothing raced on has one row at most.                        *)
(***************************************************************************)
THEOREM OneRowAlone == Spec => []AloneOneRow
<1>1. BooksInv => AloneOneRow
  BY DEF BooksInv, KeyInv, AloneOneRow
<1> QED BY <1>1, BooksInvariant, PTL

(***************************************************************************)
(* Where nothing raced and nothing failed, Redis has a field for exactly   *)
(* the keys the table has a row for.                                       *)
(***************************************************************************)
THEOREM CacheFollows == Spec => []CacheFollowsBooks
<1>1. BooksInv => CacheFollowsBooks
  <2> SUFFICES ASSUME BooksInv, faults = 0, NEW k \in Key \ raced, ~Busy(k)
               PROVE  cache[k] # 0 <=> RowsOf(k) # {}
    BY DEF CacheFollowsBooks
  <2>1. FillsOn(k) = {} /\ LoopsOn(k) = {} /\ CacheInv(k)
    BY DEF Busy, BooksInv, KeyInv
  <2> QED BY <2>1 DEF CacheInv
<1> QED BY <1>1, BooksInvariant, PTL

-----------------------------------------------------------------------------
(***************************************************************************)
(* The table as a signed ledger: what a step does to the quantity held and *)
(* to the quantity recorded as sold, key by key.                           *)
(***************************************************************************)
LEMMA HeldOfOne ==
  ASSUME NEW k, NEW x
  PROVE  /\ RowsOf(k) = {x} => Held(k) = Signed(x)
         /\ RowsOf(k)' = {x} => Held(k)' = Signed(x)
         /\ RowsOf(k) = {} => Held(k) = 0
         /\ RowsOf(k)' = {} => Held(k)' = 0
  BY DEF Held

LEMMA HeldSame ==
  ASSUME NEW k, RowsOf(k)' = RowsOf(k)
  PROVE  Held(k)' = Held(k)
<1> DEFINE any(R) == CHOOSE r \in R : TRUE
           held(R) == IF R = {} THEN 0 ELSE Signed(any(R))
<1>1. Held(k) = held(RowsOf(k))
  BY DEF Held
<1>2. Held(k)' = held(RowsOf(k)')
  BY DEF Held
<1> HIDE DEF held
<1> QED BY <1>1, <1>2

(* Keys in raced' lapse, and nothing happens to the others. *)
LEMMA LedgerLapses ==
  ASSUME raced \subseteq raced', raced' \subseteq Key,
         \A k \in Key \ raced' : RowsOf(k)' = RowsOf(k) /\ exited'[k] = exited[k]
  PROVE  Ledger!Next
<1>1. \A k \in Key \ raced' : Held(k)' = Held(k)
  BY HeldSame
<1>2. PICK K \in SUBSET Key : K = raced'
  OBVIOUS
<1>3. Ledger!Lapse(K)
  BY <1>1, <1>2 DEF Ledger!Lapse
<1> QED BY <1>3 DEF Ledger!Next

LEMMA LedgerWaits ==
  ASSUME BooksInv, rows' = rows, exited' = exited,
         raced \subseteq raced', raced' \subseteq Key
  PROVE  Ledger!Next
  BY RowsSame, LedgerLapses

(* The signed quantity of a fill. *)
Delta(o) == IF order[o].side = "buy" THEN order[o].qty ELSE -order[o].qty

LEMMA FillArithmetic ==
  ASSUME BaseInv, NEW o \in Order, pc[o] = "read"
  PROVE  LET old == Signed(seen[o])
         IN /\ Delta(o) \in -Cap .. Cap
            /\ seen[o] = NoRow => Signed(NewRow(o)) = Ledger!Applied(0, Delta(o))
            /\ Increases(o) => Signed(Grown(o)) = Ledger!Applied(old, Delta(o))
            /\ Closes(o) => 0 = Ledger!Applied(old, Delta(o))
            /\ Reduces(o) => Signed(Shrunk(o)) = Ledger!Applied(old, Delta(o))
<1>1. /\ order[o].qty \in Nat /\ order[o].qty > 0 /\ order[o].qty <= Cap
      /\ order[o].side \in {"buy", "sell"} /\ Cap \in Nat
  BY OrderFields, FillInOrder, PositionAssumption
  DEF BaseInv, PositionTypeOK, FillsInv, Side
<1>2. Delta(o) \in -Cap .. Cap
  BY <1>1 DEF Delta
<1>3. CASE seen[o] = NoRow
  <2>1. NewRow(o).side = order[o].side /\ NewRow(o).qty = order[o].qty
    BY DEF NewRow
  <2>2. Signed(NewRow(o)) = Ledger!Applied(0, Delta(o))
    BY <1>1, <2>1 DEF Signed, Delta, Ledger!Applied
  <2> QED BY <1>2, <1>3, <2>2 DEF Increases, Closes, Reduces
<1>4. CASE seen[o] # NoRow
  <2> DEFINE q == seen[o].qty
             f == order[o].qty
  <2>1. /\ q \in Nat /\ 0 < q /\ seen[o].side \in {"buy", "sell"}
        /\ seen[o] \in Row
    BY <1>4, SeenFacts DEF Side
  <2>2. /\ Grown(o).side = seen[o].side /\ Grown(o).qty = q + f
        /\ Shrunk(o).side = seen[o].side /\ Shrunk(o).qty = q - f
    BY <2>1 DEF Row, Grown, Shrunk, NewQty
  <2>3. /\ Reduces(o) => f < q
        /\ Closes(o) => q <= f
    BY <1>1, <2>1 DEF Reduces, Closes
  <2>4. ASSUME Increases(o)
        PROVE  Signed(Grown(o)) = Ledger!Applied(Signed(seen[o]), Delta(o))
    <3>1. seen[o].side = order[o].side
      BY <2>4 DEF Increases
    <3> QED
      BY <1>1, <2>1, <2>2, <2>3, <2>4, <3>1 DEF Signed, Delta, Ledger!Applied
  <2>5. ASSUME Closes(o)
        PROVE  0 = Ledger!Applied(Signed(seen[o]), Delta(o))
    <3>1. seen[o].side # order[o].side
      BY <2>5 DEF Closes
    <3> QED
      BY <1>1, <2>1, <2>3, <2>5, <3>1 DEF Signed, Delta, Ledger!Applied
  <2>6. ASSUME Reduces(o)
        PROVE  Signed(Shrunk(o)) = Ledger!Applied(Signed(seen[o]), Delta(o))
    <3>1. seen[o].side # order[o].side
      BY <2>6 DEF Reduces
    <3> QED
      BY <1>1, <2>1, <2>2, <2>3, <2>6, <3>1 DEF Signed, Delta, Ledger!Applied
  <2> QED BY <1>2, <1>4, <2>4, <2>5, <2>6
<1> QED BY <1>3, <1>4

LEMMA OpenBookLedger ==
  ASSUME BooksInv, NEW o \in Order, OpenBook(o), ~OverCap(o)
  PROVE  Ledger!Next
<1> PICK own \in Key : own = order[o].key
  BY OrderFields DEF BooksInv, BaseInv, PositionTypeOK
<1>0. /\ pc[o] = "read" /\ rows' = BookedRows(o) /\ exited' = exited
      /\ raced' = raced /\ raced \subseteq Key /\ BaseInv
  BY DEF OpenBook, BooksInv, BaseInv, PositionTypeOK
<1>1. \A k \in Key \ {own} : RowsOf(k)' = RowsOf(k)
  BY <1>0, OtherRows DEF RowsOf
<1>2. CASE own \in raced
  BY <1>0, <1>1, <1>2, LedgerLapses
<1>3. CASE own \notin raced
  <2>1. \A k \in Key \ {own} : Held(k)' = Held(k)
    BY <1>1, HeldSame
  <2>2. Held(own)' = Ledger!Applied(Held(own), Delta(o))
    <3> DEFINE new == {r \in BookedRows(o) : r.key = own}
    <3>1. RowsOf(own)' = new
      BY <1>0 DEF RowsOf
    <3>2. /\ KeyInv(own) /\ o \in FillsOn(own)
      BY <1>0 DEF BooksInv, FillsOn
    <3>3. /\ seen[o] = NoRow => RowsOf(own) = {}
          /\ seen[o] # NoRow => RowsOf(own) = {seen[o]}
      BY <1>0, <1>3, <3>2 DEF KeyInv, FillInv
    <3>4. /\ seen[o] = NoRow => Held(own) = 0
          /\ seen[o] # NoRow => Held(own) = Signed(seen[o])
      BY <3>3, HeldOfOne
    <3>5. Increases(o) \/ Closes(o) \/ Reduces(o) => seen[o] # NoRow
      BY DEF Increases, Closes, Reduces
    <3>6. \/ seen[o] = NoRow /\ new = {NewRow(o)}
          \/ Increases(o) /\ new = {Grown(o)}
          \/ Closes(o) /\ new = {}
          \/ Reduces(o) /\ new = {Shrunk(o)}
      BY <1>0, <1>3, OwnRows
    <3> HIDE DEF new
    <3>7. CASE seen[o] = NoRow /\ new = {NewRow(o)}
      BY <1>0, <3>1, <3>4, <3>7, HeldOfOne, FillArithmetic
    <3>8. CASE Increases(o) /\ new = {Grown(o)}
      BY <1>0, <3>1, <3>4, <3>5, <3>8, HeldOfOne, FillArithmetic
    <3>9. CASE Closes(o) /\ new = {}
      <4>1. Held(own)' = 0
        BY <3>1, <3>9, HeldOfOne
      <4> QED BY <1>0, <3>4, <3>5, <3>9, <4>1, FillArithmetic
    <3>10. CASE Reduces(o) /\ new = {Shrunk(o)}
      BY <1>0, <3>1, <3>4, <3>5, <3>10, HeldOfOne, FillArithmetic
    <3> QED BY <3>6, <3>7, <3>8, <3>9, <3>10
  <2>3. PICK d \in -Cap .. Cap : d = Delta(o)
    BY <1>0, FillArithmetic
  <2>4. Ledger!Fill(own, d)
    BY <1>0, <1>3, <2>1, <2>2, <2>3 DEF Ledger!Fill
  <2> QED BY <2>4 DEF Ledger!Next
<1> QED BY <1>2, <1>3

LEMMA MarkCommitLedger ==
  ASSUME BooksInv, NEW m \in Monitor, MarkCommit(m)
  PROVE  Ledger!Next
<1> DEFINE K == {k \in Key \ raced : \E x \in RowsOf(k) : x.id \in mon[m].gone}
<1>0. /\ BaseInv /\ raced' = raced /\ mon[m].pc = "at_work"
      /\ exited' = [k \in Key |-> exited[k] + mon[m].sold[k]]
      /\ exited \in [Key -> Nat] /\ rows \subseteq Row
  BY DEF MarkCommit, BooksInv, BaseInv, PositionTypeOK
<1>1. ASSUME NEW k \in K
      PROVE  Held(k)' = 0 /\ exited'[k] = exited[k] + Ledger!Abs(Held(k))
  <2>1. PICK x \in RowsOf(k) : x.id \in mon[m].gone
    OBVIOUS
  <2>2. order[x.id].key = k
    BY <1>0 DEF BaseInv, RowsInv, RowsOf
  <2>3. k \in Key /\ m \in LoopsOn(k)
    BY <1>0, <2>1, <2>2, NotOn DEF LoopsOn
  <2>4. /\ RowsOf(k) = {x} /\ PassInv(m, k)
    BY <1>0, <2>1, <2>3 DEF BooksInv, KeyInv
  <2>5. mon[m].sold[k] = x.qty
    BY <2>1, <2>4 DEF PassInv
  <2>6. RowsOf(k)' = {}
    BY <2>1, <2>3, <2>4, CommittedRows
  <2>7. x \in Row
    BY <1>0, <2>1 DEF RowsOf
  <2>8. Ledger!Abs(Signed(x)) = x.qty
    BY <2>7, RowFields DEF Ledger!Abs, Signed
  <2> QED BY <1>0, <2>3, <2>4, <2>5, <2>6, <2>8, HeldOfOne
<1>2. ASSUME NEW k \in (Key \ raced) \ K
      PROVE  Held(k)' = Held(k) /\ exited'[k] = exited[k]
  <2>1. RowsOf(k)' = RowsOf(k)
    BY CommittedRows
  <2>2. mon[m].sold[k] = 0
    <3>1. CASE k \notin mon[m].keys
      BY <1>0, <3>1, NotOn
    <3>2. CASE k \in mon[m].keys
      <4>1. PassInv(m, k)
        BY <1>0, <3>2 DEF BooksInv, KeyInv, LoopsOn
      <4> QED BY <4>1 DEF PassInv
    <3> QED BY <3>1, <3>2
  <2> QED BY <1>0, <2>1, <2>2, HeldSame
<1>3. PICK exits \in SUBSET Key : exits = K
  OBVIOUS
<1> HIDE DEF K
<1>4. exits \cap raced = {}
  BY <1>3 DEF K
<1>5. Ledger!Exit(exits)
  BY <1>0, <1>1, <1>2, <1>3, <1>4 DEF Ledger!Exit
<1> QED BY <1>5 DEF Ledger!Next

LEMMA OthersLedger ==
  ASSUME BooksInv, Next,
         ~ \E o \in Order : OpenBook(o) /\ ~OverCap(o),
         ~ \E m \in Monitor : MarkCommit(m)
  PROVE  Ledger!Next
<1>1. raced' \subseteq Key
  BY BaseNext DEF BooksInv, BaseInv, PositionTypeOK
<1>2. rows' = rows /\ exited' = exited /\ raced \subseteq raced'
  BY DEF Next, FillStep, MarkStep, DuplicateCheck, OpenRead, OpenBook, OpenCache,
         OpenFails, Age, MarkRead, MarkKeep, MarkExit, MarkDeadlock, MarkFails,
         StopMonitoring, StartMonitoring, bookVars
<1> QED BY <1>1, <1>2, LedgerWaits

(***************************************************************************)
(* The positions table implements SignedLedger: key by key, until two      *)
(* transactions work on the key at once, a fill adds or takes its signed   *)
(* quantity and an exit records exactly what it empties.                   *)
(***************************************************************************)
THEOREM TableIsALedger == Spec => ImplementsSignedLedger
<1>1. Init => Ledger!Init
  <2> SUFFICES ASSUME Init PROVE Ledger!Init
    OBVIOUS
  <2>1. \A k \in Key : Held(k) = 0
    BY DEF Init, Held, RowsOf
  <2> QED BY <2>1 DEF Init, Ledger!Init
<1>2. BooksInv /\ [Next]_vars => [Ledger!Next]_(Ledger!vars)
  <2> SUFFICES ASSUME BooksInv, [Next]_vars PROVE [Ledger!Next]_(Ledger!vars)
    OBVIOUS
  <2>1. CASE Next
    BY <2>1, OpenBookLedger, MarkCommitLedger, OthersLedger
  <2>2. CASE UNCHANGED vars
    <3>1. rows' = rows /\ exited' = exited /\ raced' = raced
      BY <2>2 DEF vars
    <3>2. raced \subseteq Key
      BY DEF BooksInv, BaseInv, PositionTypeOK
    <3> QED BY <3>1, <3>2, LedgerWaits
  <2> QED BY <2>1, <2>2
<1> QED
  BY <1>1, <1>2, BooksInvariant, PTL
  DEF Spec, ImplementsSignedLedger, Ledger!Spec

-----------------------------------------------------------------------------
(***************************************************************************)
(* Sums over finite sets. The quantity of a set, f[x] for each of its      *)
(* elements x, is the number of its units, pairs of an element and a       *)
(* number up to f[x]: what adds up is then a matter of cardinalities.      *)
(***************************************************************************)
Units(f, S) == {u \in S \X Nat : u[2] \in 1 .. f[u[1]]}
Total(f, S) == Cardinality(Units(f, S))

(* Induction on the subsets of a finite set. *)
LEMMA SubsetBySubset ==
  ASSUME NEW T, IsFiniteSet(T), NEW Good,
         \A t \in SUBSET T : (\A u \in SUBSET t : u # t => u \in Good) => t \in Good
  PROVE  SUBSET T \subseteq Good
<1> DEFINE Bad == {t \in SUBSET T : t \notin Good}
<1> SUFFICES ASSUME Bad # {} PROVE FALSE
  OBVIOUS
<1>1. IsWellFoundedOn(StrictSubsetOrdering(T), FiniteSubsetsOf(T))
  BY FS_StrictSubsetOrderingWellFounded
<1>2. Bad \subseteq FiniteSubsetsOf(T)
  BY FS_Subset DEF FiniteSubsetsOf
<1>3. PICK t \in Bad : \A u \in Bad : <<u, t>> \notin StrictSubsetOrdering(T)
  <2> HIDE DEF Bad
  <2> QED BY <1>1, <1>2, WFMin
<1>4. ASSUME NEW u \in SUBSET t, u # t PROVE u \in Good
  <2>1. u \in SUBSET T /\ t \in SUBSET T
    OBVIOUS
  <2>2. <<u, t>> \in StrictSubsetOrdering(T)
    BY <1>4, <2>1 DEF StrictSubsetOrdering
  <2> QED BY <1>3, <2>1, <2>2
<1> QED BY <1>3, <1>4

(* The units of one element are as many as it counts. *)
LEMMA UnitsOfOne ==
  ASSUME NEW T, NEW f, \A y \in T : f[y] \in Nat, NEW x \in T
  PROVE  IsFiniteSet(Units(f, {x})) /\ Total(f, {x}) = f[x]
<1>1. Units(f, {x}) = {x} \X (1 .. f[x])
  BY DEF Units
<1>0. f[x] \in Nat
  OBVIOUS
<1>2. IsFiniteSet(1 .. f[x]) /\ Cardinality(1 .. f[x]) = f[x]
  BY <1>0, FS_Interval
<1>3. IsFiniteSet({x}) /\ Cardinality({x}) = 1
  BY FS_Singleton
<1>4. /\ IsFiniteSet({x} \X (1 .. f[x]))
      /\ Cardinality({x} \X (1 .. f[x])) = 1 * f[x]
  BY <1>2, <1>3, FS_Product
<1>5. 1 * f[x] = f[x]
  BY <1>0
<1> QED BY <1>1, <1>4, <1>5 DEF Total

(* A finite set has finitely many units. *)
LEMMA UnitsFinite ==
  ASSUME NEW T, IsFiniteSet(T), NEW f, \A x \in T : f[x] \in Nat, NEW S \in SUBSET T
  PROVE  IsFiniteSet(Units(f, S)) /\ Total(f, S) \in Nat
<1> DEFINE Good == {t \in SUBSET T : IsFiniteSet(Units(f, t))}
<1>1. ASSUME NEW t \in SUBSET T, \A u \in SUBSET t : u # t => u \in Good
      PROVE  t \in Good
  <2>1. CASE t = {}
    <3>1. Units(f, t) = {}
      BY <2>1 DEF Units
    <3> QED BY <3>1, FS_EmptySet
  <2>2. CASE t # {}
    <3>1. PICK x \in t : TRUE
      BY <2>2
    <3>2. IsFiniteSet(Units(f, t \ {x})) /\ IsFiniteSet(Units(f, {x}))
      BY <1>1, UnitsOfOne
    <3>3. Units(f, t) = Units(f, t \ {x}) \cup Units(f, {x})
      BY DEF Units
    <3>4. IsFiniteSet(Units(f, t \ {x}) \cup Units(f, {x}))
      BY <3>2, FS_Union
    <3> QED BY <3>3, <3>4
  <2> QED BY <2>1, <2>2
<1>2. SUBSET T \subseteq Good
  <2> HIDE DEF Good
  <2> QED BY <1>1, SubsetBySubset
<1> QED BY <1>2, FS_CardinalityType DEF Total

(* Quantities of disjoint sets add up. *)
LEMMA TotalOfUnion ==
  ASSUME NEW T, IsFiniteSet(T), NEW f, \A x \in T : f[x] \in Nat,
         NEW S \in SUBSET T, NEW R \in SUBSET T, S \cap R = {}
  PROVE  Total(f, S \cup R) = Total(f, S) + Total(f, R)
<1>1. /\ Units(f, S \cup R) = Units(f, S) \cup Units(f, R)
      /\ Units(f, S) \cap Units(f, R) = {}
  BY DEF Units
<1>2. /\ IsFiniteSet(Units(f, S)) /\ Total(f, S) \in Nat
      /\ IsFiniteSet(Units(f, R)) /\ Total(f, R) \in Nat
  BY UnitsFinite
<1>3. Cardinality(Units(f, S) \cup Units(f, R)) = Total(f, S) + Total(f, R) - Cardinality({})
  BY <1>1, <1>2, FS_Union DEF Total
<1>4. Cardinality({}) = 0
  BY FS_EmptySet
<1>5. Total(f, S \cup R) = Cardinality(Units(f, S) \cup Units(f, R))
  BY <1>1 DEF Total
<1> QED BY <1>2, <1>3, <1>4, <1>5

(* A larger set counts no less. *)
LEMMA TotalGrows ==
  ASSUME NEW T, IsFiniteSet(T), NEW f, \A x \in T : f[x] \in Nat,
         NEW S \in SUBSET T, NEW R \in SUBSET S
  PROVE  Total(f, R) <= Total(f, S)
<1>1. Units(f, R) \subseteq Units(f, S)
  BY DEF Units
<1> QED BY <1>1, UnitsFinite, FS_Subset DEF Total

(* One element more. *)
LEMMA TotalWithout ==
  ASSUME NEW T, IsFiniteSet(T), NEW f, \A x \in T : f[x] \in Nat,
         NEW S \in SUBSET T, NEW x \in S
  PROVE  Total(f, S) = f[x] + Total(f, S \ {x})
<1>1. (S \ {x}) \cup {x} = S /\ (S \ {x}) \cap {x} = {}
  OBVIOUS
<1>2. Total(f, {x}) = f[x] /\ Total(f, S \ {x}) \in Nat /\ f[x] \in Nat
  BY UnitsOfOne, UnitsFinite
<1>3. Total(f, (S \ {x}) \cup {x}) = Total(f, S \ {x}) + Total(f, {x})
  BY <1>1, TotalOfUnion
<1>4. Total(f, S) = Total(f, (S \ {x}) \cup {x})
  BY <1>1
<1> QED BY <1>2, <1>3, <1>4

(* The empty set counts nothing. *)
LEMMA TotalOfNone == \A f : Total(f, {}) = 0
<1>1. \A f : Units(f, {}) = {}
  BY DEF Units
<1> QED BY <1>1, FS_EmptySet DEF Total

(***************************************************************************)
(* The sums of the model are defined by a recursive function, which takes  *)
(* one element after another out of the set. There is such a function,     *)
(* and it gives the number of units.                                       *)
(***************************************************************************)
AnyOf(t) == CHOOSE x \in t : TRUE
Sums(g, f, T) ==
  g = [t \in SUBSET T |-> IF t = {} THEN 0 ELSE f[AnyOf(t)] + g[t \ {AnyOf(t)}]]

(* By induction on the subsets: one element out, one equation used. *)
LEMMA SumsExist ==
  ASSUME NEW T, IsFiniteSet(T), NEW f, \A x \in T : f[x] \in Nat
  PROVE  /\ \E g : Sums(g, f, T)
         /\ \A g : Sums(g, f, T) => g[T] = Total(f, T)
<1> DEFINE h == [t \in SUBSET T |-> Total(f, t)]
<1>0. ASSUME NEW t \in SUBSET T, t # {}
      PROVE  /\ AnyOf(t) \in t
             /\ Total(f, t) = f[AnyOf(t)] + Total(f, t \ {AnyOf(t)})
  <2>1. AnyOf(t) \in t
    BY <1>0 DEF AnyOf
  <2> QED BY <2>1, TotalWithout
<1>1. Sums(h, f, T)
  <2>1. ASSUME NEW t \in SUBSET T
        PROVE  h[t] = IF t = {} THEN 0 ELSE f[AnyOf(t)] + h[t \ {AnyOf(t)}]
    <3>1. CASE t = {}
      BY <3>1, TotalOfNone
    <3>2. CASE t # {}
      <4>1. t \ {AnyOf(t)} \in SUBSET T
        OBVIOUS
      <4> QED BY <1>0, <3>2, <4>1
    <3> QED BY <3>1, <3>2
  <2>2. h = [t \in SUBSET T |-> h[t]]
    OBVIOUS
  <2> HIDE DEF h
  <2> QED BY <2>1, <2>2 DEF Sums
<1>2. ASSUME NEW g, Sums(g, f, T) PROVE g[T] = Total(f, T)
  <2> DEFINE Good == {t \in SUBSET T : g[t] = Total(f, t)}
  <2>1. \A t \in SUBSET T : g[t] = IF t = {} THEN 0 ELSE f[AnyOf(t)] + g[t \ {AnyOf(t)}]
    BY <1>2 DEF Sums
  <2>2. ASSUME NEW t \in SUBSET T, \A u \in SUBSET t : u # t => u \in Good
        PROVE  t \in Good
    <3>1. CASE t = {}
      BY <2>1, <3>1, TotalOfNone
    <3>2. CASE t # {}
      <4>1. t \ {AnyOf(t)} \in Good
        BY <1>0, <2>2, <3>2
      <4> QED BY <1>0, <2>1, <3>2, <4>1
    <3> QED BY <3>1, <3>2
  <2>3. SUBSET T \subseteq Good
    <3> HIDE DEF Good
    <3> QED BY <2>2, SubsetBySubset
  <2> QED BY <2>3
<1> QED BY <1>1, <1>2

(* What the table shows, and what was filled, of one key and side. *)
RowsBooked(k, s) == {r \in RowsOf(k) : r.side = s}
FillsBooked(k, s) == {o \in landed : order[o].key = k /\ order[o].side = s}

(* The two sums of the property, written out. *)
LEMMA BookedChosen ==
  ASSUME NEW k, NEW s, NEW T, T = RowsBooked(k, s)
  PROVE  Booked(k, s) =
           (CHOOSE g : g = [t \in SUBSET T |->
              IF t = {} THEN 0 ELSE AnyOf(t).qty + g[t \ {AnyOf(t)}]])[T]
  BY DEF Booked, RowsBooked, MapThenSumSet, MapThenFoldSet, AnyOf

LEMMA FilledChosen ==
  ASSUME NEW k, NEW s, NEW T, T = FillsBooked(k, s)
  PROVE  Filled(k, s) =
           (CHOOSE g : g = [t \in SUBSET T |->
              IF t = {} THEN 0 ELSE order[AnyOf(t)].qty + g[t \ {AnyOf(t)}]])[T]
  BY DEF Filled, FillsBooked, MapThenSumSet, MapThenFoldSet, AnyOf

(* So they are numbers of units. *)
LEMMA BookedIsTotal ==
  ASSUME NEW k, NEW s, IsFiniteSet(rows), rows \subseteq Row
  PROVE  Booked(k, s) = Total([r \in Row |-> r.qty], RowsBooked(k, s))
<1> DEFINE T == RowsBooked(k, s)
           f == [r \in Row |-> r.qty]
<1>1. IsFiniteSet(T) /\ T \subseteq Row
  BY FS_Subset DEF RowsBooked, RowsOf
<1>2. \A x \in T : f[x] = x.qty /\ f[x] \in Nat
  BY <1>1 DEF Row, Positive
<1>3. \A t \in SUBSET T : t # {} => AnyOf(t) \in T
  BY DEF AnyOf
<1> HIDE DEF T, f
<1>4. \A g : Sums(g, f, T) <=>
        g = [t \in SUBSET T |-> IF t = {} THEN 0 ELSE AnyOf(t).qty + g[t \ {AnyOf(t)}]]
  <2> TAKE g
  <2>1. [t \in SUBSET T |-> IF t = {} THEN 0 ELSE f[AnyOf(t)] + g[t \ {AnyOf(t)}]]
        = [t \in SUBSET T |-> IF t = {} THEN 0 ELSE AnyOf(t).qty + g[t \ {AnyOf(t)}]]
    BY <1>2, <1>3
  <2> QED BY <2>1 DEF Sums
<1>5. PICK h : Sums(h, f, T)
  BY <1>1, <1>2, SumsExist
<1> DEFINE g == CHOOSE g : g = [t \in SUBSET T |->
                  IF t = {} THEN 0 ELSE AnyOf(t).qty + g[t \ {AnyOf(t)}]]
<1>6. Sums(g, f, T)
  BY <1>4, <1>5
<1>7. g[T] = Total(f, T)
  <2> HIDE DEF g
  <2> QED BY <1>1, <1>2, <1>6, SumsExist
<1> QED BY <1>7, BookedChosen DEF T, f

LEMMA FilledIsTotal ==
  ASSUME NEW k, NEW s, IsFiniteSet(landed), landed \subseteq Order,
         order \in [Order -> Trade]
  PROVE  Filled(k, s) = Total([o \in Order |-> order[o].qty], FillsBooked(k, s))
<1> DEFINE T == FillsBooked(k, s)
           f == [o \in Order |-> order[o].qty]
<1>1. IsFiniteSet(T) /\ T \subseteq Order
  BY FS_Subset DEF FillsBooked
<1>2. \A x \in T : f[x] = order[x].qty /\ f[x] \in Nat
  BY <1>1, OrderFields
<1>3. \A t \in SUBSET T : t # {} => AnyOf(t) \in T
  BY DEF AnyOf
<1> HIDE DEF T, f
<1>4. \A g : Sums(g, f, T) <=>
        g = [t \in SUBSET T |-> IF t = {} THEN 0 ELSE order[AnyOf(t)].qty + g[t \ {AnyOf(t)}]]
  <2> TAKE g
  <2>1. [t \in SUBSET T |-> IF t = {} THEN 0 ELSE f[AnyOf(t)] + g[t \ {AnyOf(t)}]]
        = [t \in SUBSET T |-> IF t = {} THEN 0 ELSE order[AnyOf(t)].qty + g[t \ {AnyOf(t)}]]
    BY <1>2, <1>3
  <2> QED BY <2>1 DEF Sums
<1>5. PICK h : Sums(h, f, T)
  BY <1>1, <1>2, SumsExist
<1> DEFINE g == CHOOSE g : g = [t \in SUBSET T |->
                  IF t = {} THEN 0 ELSE order[AnyOf(t)].qty + g[t \ {AnyOf(t)}]]
<1>6. Sums(g, f, T)
  BY <1>4, <1>5
<1>7. g[T] = Total(f, T)
  <2> HIDE DEF g
  <2> QED BY <1>1, <1>2, <1>6, SumsExist
<1> QED BY <1>7, FilledChosen DEF T, f

-----------------------------------------------------------------------------
(***************************************************************************)
(* The invariant behind BookedWithinFills. Every fill that was booked can  *)
(* be attributed to a row of its own key and side such that no row, and    *)
(* no copy of a row that an open transaction has read, shows more than     *)
(* the fills attributed to it amount to: an increase is attributed to the  *)
(* row it was added to, any other fill to itself. A copy may be stale;     *)
(* that a lost update cannot show too much is exactly that the copy, too,  *)
(* is backed.                                                              *)
(***************************************************************************)
Worth(S) == Total([o \in Order |-> order[o].qty], S)

(* A row for each fill: one of the fill's key and side. *)
Attributions ==
  {a \in [Order -> Order] :
     \A o \in Order : order[a[o]].key = order[o].key /\ order[a[o]].side = order[o].side}

From(a, id) == {o \in landed : a[o] = id}

Backed(a) ==
  /\ \A r \in rows : r.qty <= Worth(From(a, r.id))
  /\ \A o \in Order : seen[o] # NoRow => seen[o].qty <= Worth(From(a, seen[o].id))

SourceInv ==
  /\ IsFiniteSet(landed)
  /\ \A o \in landed : pc[o] \in {"booked", "done", "failed"}
  /\ \A r \in rows : r.id \in landed /\ order[r.id].side = r.side
  /\ \A o \in Order : seen[o] # NoRow => order[seen[o].id].side = seen[o].side
  /\ \E a \in Attributions : Backed(a)

(* What the fills of a set amount to is a number. *)
LEMMA WorthFacts ==
  ASSUME BaseInv, IsFiniteSet(landed)
  PROVE  /\ landed \subseteq Order
         /\ \A o \in landed : [p \in Order |-> order[p].qty][o] \in Nat
         /\ \A S \in SUBSET landed : Worth(S) \in Nat
<1>1. landed \subseteq Order /\ order \in [Order -> Trade]
  BY DEF BaseInv, PositionTypeOK
<1>2. \A o \in landed : [p \in Order |-> order[p].qty][o] \in Nat
  BY <1>1, OrderFields
<1> QED BY <1>1, <1>2, UnitsFinite DEF Worth

(* What two disjoint sets of fills amount to. *)
LEMMA WorthOfUnion ==
  ASSUME BaseInv, IsFiniteSet(landed),
         NEW S \in SUBSET landed, NEW R \in SUBSET landed, S \cap R = {}
  PROVE  Worth(S \cup R) = Worth(S) + Worth(R)
<1> DEFINE h == [o \in Order |-> order[o].qty]
<1>1. \A o \in landed : h[o] \in Nat
  BY WorthFacts
<1> HIDE DEF h
<1>2. Total(h, S \cup R) = Total(h, S) + Total(h, R)
  BY <1>1, TotalOfUnion
<1> QED BY <1>2 DEF Worth, h

(* The rows are finitely many, because each is named by a fill that landed. *)
LEMMA RowsFinite ==
  ASSUME BaseInv, SourceInv
  PROVE  IsFiniteSet(rows)
<1> DEFINE name == [r \in rows |-> r.id]
<1>1. name \in Injection(rows, landed)
  BY DEF SourceInv, BaseInv, RowsInv, Injection, IsInjective
<1> QED BY <1>1, FS_Injection DEF SourceInv

(* Row by row, the table of a key and side shows no more than its fills. *)
LEMMA BackedIsWithin ==
  ASSUME BaseInv, SourceInv, NEW k \in Key, NEW s \in Side
  PROVE  Booked(k, s) <= Filled(k, s)
<1> DEFINE R == RowsBooked(k, s)
           F == FillsBooked(k, s)
           f == [r \in Row |-> r.qty]
           h == [o \in Order |-> order[o].qty]
<1>0. /\ IsFiniteSet(rows) /\ rows \subseteq Row /\ IsFiniteSet(landed)
      /\ landed \subseteq Order /\ order \in [Order -> Trade]
      /\ \A o \in landed : h[o] \in Nat
  BY RowsFinite, WorthFacts DEF BaseInv, PositionTypeOK, SourceInv
<1>1. PICK a \in Attributions : Backed(a)
  BY DEF SourceInv
<1> DEFINE A(t) == {o \in landed : a[o] \in RowIds(t)}
           Good == {t \in SUBSET R : Total(f, t) <= Worth(A(t))}
<1>2. R \subseteq rows /\ R \subseteq Row /\ IsFiniteSet(R)
  BY <1>0, FS_Subset DEF RowsBooked, RowsOf
<1>3. \A r \in R : f[r] = r.qty /\ f[r] \in Nat
  BY <1>2, RowFields
<1>12. \A S : Worth(S) = Total(h, S)
  BY DEF Worth
<1> HIDE DEF f, h, R, F, A
<1>4. ASSUME NEW t \in SUBSET R, \A u \in SUBSET t : u # t => u \in Good
      PROVE  t \in Good
  <2>1. Worth(A(t)) \in Nat
    BY <1>0, WorthFacts DEF A
  <2>2. CASE t = {}
    <3>1. Total(f, t) = 0
      BY <2>2, TotalOfNone
    <3> QED BY <2>1, <3>1
  <2>3. CASE t # {}
    <3>1. PICK x \in t : TRUE
      BY <2>3
    <3>2. Total(f, t) = x.qty + Total(f, t \ {x})
      <4>1. Total(f, t) = f[x] + Total(f, t \ {x})
        BY <1>2, <1>3, TotalWithout
      <4> QED BY <1>3, <4>1
    <3>3. Total(f, t \ {x}) <= Worth(A(t \ {x})) /\ Total(f, t \ {x}) \in Nat
      <4>1. t \ {x} \in SUBSET t /\ t \ {x} # t /\ t \ {x} \in SUBSET R
        BY <3>1
      <4>2. Total(f, t \ {x}) \in Nat
        BY <1>2, <1>3, <4>1, UnitsFinite
      <4> QED BY <1>4, <4>1, <4>2
    <3>4. x.qty <= Worth(From(a, x.id)) /\ x.qty \in Nat
      BY <1>1, <1>2, RowFields DEF Backed
    <3>5. /\ A(t) = A(t \ {x}) \cup From(a, x.id)
          /\ A(t \ {x}) \cap From(a, x.id) = {}
      BY <1>2 DEF A, From, RowIds, BaseInv, RowsInv
    <3>6. Worth(A(t)) = Worth(A(t \ {x})) + Worth(From(a, x.id))
      <4> DEFINE V == A(t \ {x})
                 W == From(a, x.id)
      <4>1. V \in SUBSET landed /\ W \in SUBSET landed /\ V \cap W = {}
        BY <3>5 DEF A, From
      <4>2. A(t) = V \cup W
        BY <3>5
      <4> HIDE DEF V, W
      <4>3. Worth(V \cup W) = Worth(V) + Worth(W)
        BY <1>0, <4>1, WorthOfUnion
      <4>4. Worth(A(t)) = Worth(V) + Worth(W)
        BY <4>2, <4>3
      <4> QED BY <4>4 DEF V, W
    <3>7. Worth(A(t \ {x})) \in Nat /\ Worth(From(a, x.id)) \in Nat
      BY <1>0, WorthFacts DEF A, From
    <3>8. Total(f, t) <= Worth(A(t))
      BY <3>2, <3>3, <3>4, <3>6, <3>7
    <3> QED BY <3>8
  <2> QED BY <2>2, <2>3
<1>5. SUBSET R \subseteq Good
  <2> HIDE DEF Good
  <2> QED BY <1>2, <1>4, SubsetBySubset
<1>6. Total(f, R) <= Worth(A(R))
  <2>1. R \in Good
    BY <1>5
  <2> QED BY <2>1
<1>7. A(R) \subseteq F /\ F \subseteq landed
  BY <1>0, <1>1 DEF A, F, R, RowIds, RowsBooked, RowsOf, FillsBooked, Attributions, SourceInv,
              BaseInv, RowsInv
<1>8. Worth(A(R)) <= Worth(F)
  BY <1>0, <1>7, <1>12, TotalGrows
<1>9. Booked(k, s) = Total(f, R) /\ Filled(k, s) = Worth(F)
  BY <1>0, BookedIsTotal, FilledIsTotal DEF Worth, R, F, f
<1>10. Total(f, R) \in Nat /\ Worth(A(R)) \in Nat /\ Worth(F) \in Nat
  BY <1>0, <1>2, <1>3, <1>7, UnitsFinite, WorthFacts DEF A
<1> QED BY <1>6, <1>8, <1>9, <1>10

(* In the beginning nothing is booked. *)
LEMMA SourceInit == Init => SourceInv
<1> SUFFICES ASSUME Init PROVE SourceInv
  OBVIOUS
<1> DEFINE a == [o \in Order |-> o]
<1>1. a \in Attributions /\ Backed(a)
  BY DEF Init, Attributions, Backed
<1>2. IsFiniteSet({})
  BY FS_EmptySet
<1> HIDE DEF a
<1> QED BY <1>1, <1>2 DEF Init, SourceInv

(* Fills are worth more the more there are, one by one. *)
LEMMA WorthOf ==
  ASSUME order \in [Order -> Trade], NEW S \in SUBSET Order, IsFiniteSet(S)
  PROVE  /\ Worth(S) \in Nat
         /\ \A R \in SUBSET S : Worth(R) \in Nat /\ Worth(R) <= Worth(S)
         /\ \A x \in S : Worth(S) = order[x].qty + Worth(S \ {x})
<1> DEFINE h == [o \in Order |-> order[o].qty]
<1>1. \A o \in S : h[o] \in Nat /\ h[o] = order[o].qty
  BY OrderFields
<1>2. \A U : Worth(U) = Total(h, U)
  BY DEF Worth
<1> HIDE DEF h
<1>3. Total(h, S) \in Nat
  BY <1>1, UnitsFinite
<1>4. ASSUME NEW R \in SUBSET S PROVE Total(h, R) \in Nat /\ Total(h, R) <= Total(h, S)
  BY <1>1, UnitsFinite, TotalGrows
<1>5. ASSUME NEW x \in S PROVE Total(h, S) = h[x] + Total(h, S \ {x})
  BY <1>1, TotalWithout
<1> QED BY <1>1, <1>2, <1>3, <1>4, <1>5

(* Nothing is booked, rows go or stay, and what is read is a row. *)
LEMMA SourceSame ==
  ASSUME BaseInv, SourceInv, UNCHANGED <<order, landed>>, rows' \subseteq rows,
         \A o \in landed : pc'[o] \in {"booked", "done", "failed"},
         \A o \in Order : seen'[o] \in rows \cup {seen[o], NoRow}
  PROVE  SourceInv'
<1>1. PICK a \in Attributions : Backed(a)
  BY DEF SourceInv
<1>2. Attributions' = Attributions /\ \A id : From(a, id)' = From(a, id)
  BY DEF Attributions, From
<1>3. \A S : Worth(S)' = Worth(S)
  BY DEF Worth, Total, Units
<1>4. Backed(a)'
  BY <1>1, <1>2, <1>3 DEF Backed
<1> QED BY <1>1, <1>2, <1>4 DEF SourceInv

(* A fill is booked: the one step that moves an attribution. *)
LEMMA SourceBook ==
  ASSUME BaseInv, SourceInv, NEW o \in Order, OpenBook(o), ~OverCap(o)
  PROVE  SourceInv'
<1>0. /\ pc[o] = "read" /\ rows' = BookedRows(o)
      /\ pc' = [pc EXCEPT ![o] = "booked"] /\ landed' = landed \cup {o}
      /\ UNCHANGED <<seen, order>>
      /\ pc \in [Order -> Stage] /\ order \in [Order -> Trade]
      /\ landed \subseteq Order /\ rows \subseteq Row
      /\ IsFiniteSet(landed) /\ o \notin landed
  BY DEF OpenBook, BaseInv, PositionTypeOK, SourceInv
<1>1. IsFiniteSet(landed')
  BY <1>0, FS_AddElement
<1>2. PICK a \in Attributions : Backed(a)
  BY DEF SourceInv
<1>3. PICK id \in Order :
        /\ id = IF Increases(o) THEN seen[o].id ELSE o
        /\ order[id].key = order[o].key /\ order[id].side = order[o].side
  <2>1. CASE Increases(o)
    <3>1. seen[o] # NoRow /\ seen[o] \in Row /\ seen[o].key = order[o].key
          /\ seen[o].side = order[o].side
      BY <2>1, SeenFacts DEF Increases
    <3>2. order[seen[o].id].key = seen[o].key /\ order[seen[o].id].side = seen[o].side
      BY <3>1 DEF BaseInv, FillsInv, SourceInv
    <3> QED BY <2>1, <3>1, <3>2, RowFields
  <2>2. CASE ~Increases(o)
    BY <2>2
  <2> QED BY <2>1, <2>2
<1> DEFINE b == [a EXCEPT ![o] = id]
           New(x) == {q \in landed' : b[q] = x}
<1>4. b \in Attributions
  BY <1>3 DEF Attributions
<1>5. /\ \A x : From(a, x) \subseteq New(x) /\ New(x) \subseteq landed'
      /\ New(id) \ {o} = From(a, id) /\ o \in New(id)
  BY <1>0 DEF From, Attributions
<1> HIDE DEF b, New
<1>6. ASSUME NEW x
      PROVE  /\ Worth(From(a, x)) \in Nat /\ Worth(New(x)) \in Nat
             /\ Worth(From(a, x)) <= Worth(New(x))
             /\ x = id => Worth(New(x)) = order[o].qty + Worth(From(a, x))
  <2>1. New(x) \in SUBSET Order /\ IsFiniteSet(New(x)) /\ From(a, x) \in SUBSET New(x)
    BY <1>0, <1>1, <1>5, FS_Subset
  <2>2. Worth(From(a, x)) \in Nat /\ Worth(New(x)) \in Nat /\ Worth(From(a, x)) <= Worth(New(x))
    BY <1>0, <2>1, WorthOf
  <2>3. x = id => Worth(New(x)) = order[o].qty + Worth(New(x) \ {o})
    BY <1>0, <1>5, <2>1, WorthOf
  <2> QED BY <1>5, <2>2, <2>3
<1>7. order[o].qty \in Nat
  BY <1>0, OrderFields
(* What was backed still is. *)
<1>8. ASSUME NEW x, NEW n \in Nat, n <= Worth(From(a, x))
      PROVE  n <= Worth(New(x))
  BY <1>6, <1>8
<1>9. ASSUME NEW q \in rows'
      PROVE  q.qty <= Worth(New(q.id)) /\ q.id \in landed' /\ order[q.id].side = q.side
  <2>1. ASSUME NEW r \in rows, q.id = r.id, q.side = r.side,
               q.qty \in Nat, q.qty <= r.qty
        PROVE  q.qty <= Worth(New(q.id)) /\ q.id \in landed' /\ order[q.id].side = q.side
    <3>1. r.qty \in Nat /\ r.qty <= Worth(From(a, r.id)) /\ Worth(From(a, r.id)) \in Nat
      BY <1>0, <1>2, <1>6, RowFields DEF Backed
    <3>2. q.qty <= Worth(From(a, q.id))
      BY <2>1, <3>1
    <3> QED BY <1>0, <1>8, <2>1, <3>2 DEF SourceInv
  <2>2. \A r \in rows : r.qty \in Nat /\ r.qty <= r.qty
    BY <1>0, RowFields
  <2>3. CASE seen[o] = NoRow /\ BookedRows(o) = rows \cup {NewRow(o)}
    <3>1. CASE q \in rows
      BY <2>1, <2>2, <3>1
    <3>2. CASE q = NewRow(o)
      <4>1. q.id = o /\ q.side = order[o].side /\ q.qty = order[o].qty /\ id = o
        BY <1>0, <1>3, <2>3, <3>2, NewRowType DEF Increases
      <4> QED BY <1>0, <1>6, <1>7, <4>1
    <3> QED BY <1>0, <2>3, <3>1, <3>2
  <2>5. ASSUME NEW r \in rows, q.id = r.id, q.side = r.side, r.id = seen[o].id,
               q.qty \in Nat, q.qty <= Worth(New(seen[o].id))
        PROVE  q.qty <= Worth(New(q.id)) /\ q.id \in landed' /\ order[q.id].side = q.side
    BY <1>0, <2>5 DEF SourceInv
  <2>6. CASE Increases(o) \/ Reduces(o)
    <3>1. /\ seen[o] # NoRow /\ Left(o) \in Nat
          /\ Requantified(rows', seen[o].id, Left(o))
      BY <1>0, <2>6, RequantifiedOnce DEF Positive
    <3>2. seen[o].qty \in Nat /\ seen[o].qty <= Worth(From(a, seen[o].id))
      BY <1>2, <3>1, SeenFacts DEF Backed
    <3>3. /\ Increases(o) => Left(o) = seen[o].qty + order[o].qty /\ id = seen[o].id
          /\ ~Increases(o) => Left(o) <= seen[o].qty
      BY <1>3, <1>7, <3>2 DEF Left, NewQty
    <3>4. Left(o) <= Worth(New(seen[o].id))
      BY <1>6, <1>7, <3>1, <3>2, <3>3
    <3>5. PICK r \in rows :
            /\ q.id = r.id /\ q.side = r.side
            /\ q.qty = IF r.id = seen[o].id THEN Left(o) ELSE r.qty
      BY <3>1 DEF Requantified
    <3> QED BY <2>1, <2>2, <2>5, <3>1, <3>4, <3>5
  <2>7. CASE Closes(o) /\ BookedRows(o) = {r \in rows : r.id # seen[o].id}
    BY <1>0, <2>1, <2>2, <2>7
  <2> QED BY <2>3, <2>6, <2>7, FourWays
<1>10. ASSUME NEW p \in Order, seen[p] # NoRow
       PROVE  seen[p].qty <= Worth(New(seen[p].id))
  <2>1. seen[p].qty \in Nat /\ seen[p].qty <= Worth(From(a, seen[p].id))
    BY <1>2, <1>10, SeenFacts DEF Backed
  <2> QED BY <1>8, <2>1
<1>11. Backed(b)'
  <2>1. \A S : Worth(S)' = Worth(S)
    BY <1>0 DEF Worth, Total, Units
  <2>2. \A x : From(b, x)' = New(x)
    BY DEF From, New
  <2> QED BY <1>0, <1>9, <1>10, <2>1, <2>2 DEF Backed
<1>12. b \in Attributions'
  BY <1>0, <1>4 DEF Attributions
<1>13. \A p \in landed' : pc'[p] \in {"booked", "done", "failed"}
  BY <1>0 DEF SourceInv
<1> QED BY <1>0, <1>1, <1>9, <1>11, <1>12, <1>13 DEF SourceInv

(* Every step keeps the invariant. *)
LEMMA SourceNext ==
  ASSUME BaseInv, SourceInv, [Next]_vars
  PROVE  SourceInv'
<1>1. ASSUME NEW o \in Order,
             \/ DuplicateCheck(o) \/ OpenRead(o) \/ (OpenBook(o) /\ OverCap(o))
             \/ OpenCache(o) \/ OpenFails(o)
      PROVE  SourceInv'
  <2>1. PICK stage \in Stage :
          /\ pc' = [pc EXCEPT ![o] = stage]
          /\ pc[o] \in {"booked", "done", "failed"} => stage \in {"booked", "done", "failed"}
    BY <1>1 DEF DuplicateCheck, OpenRead, OpenBook, OpenCache, OpenFails, Ends, Stage
  <2>2. \A p \in landed : pc'[p] \in {"booked", "done", "failed"}
    BY <2>1 DEF SourceInv, BaseInv, PositionTypeOK
  <2>3. PICK x \in rows \cup {NoRow} :
          seen' = seen \/ seen' = [seen EXCEPT ![o] = x]
    <3>1. CASE OpenRead(o)
      BY <3>1 DEF OpenRead, RowsOf
    <3>2. CASE ~OpenRead(o)
      BY <1>1, <3>2 DEF DuplicateCheck, OpenBook, OpenCache, OpenFails, Ends
    <3> QED BY <3>1, <3>2
  <2>4. \A p \in Order : seen'[p] \in rows \cup {seen[p], NoRow}
    BY <2>3 DEF BaseInv, PositionTypeOK
  <2>5. UNCHANGED <<order, landed, rows>>
    BY <1>1 DEF DuplicateCheck, OpenRead, OpenBook, OpenCache, OpenFails, bookVars
  <2> QED BY <2>2, <2>4, <2>5, SourceSame
<1>2. ASSUME UNCHANGED fillVars, rows' \subseteq rows
      PROVE  SourceInv'
  <2>1. \A o \in landed : pc'[o] \in {"booked", "done", "failed"}
    BY <1>2 DEF SourceInv, fillVars
  <2> QED BY <1>2, <2>1, SourceSame DEF fillVars
<1>3. CASE \E m \in Monitor :
             MarkStep(m) \/ MarkFails(m) \/ StopMonitoring(m) \/ StartMonitoring(m)
  BY <1>2, <1>3
  DEF MarkStep, MarkRead, MarkCommit, MarkDeadlock, MarkKeep, MarkExit, MarkFails,
      StopMonitoring, StartMonitoring, bookVars
<1>4. CASE UNCHANGED vars \/ \E o \in Order : Age(o)
  BY <1>2, <1>4 DEF vars, Age, bookVars, fillVars
<1>5. ASSUME NEW o \in Order, FillStep(o) \/ OpenFails(o)
      PROVE  SourceInv'
  BY <1>1, <1>5, SourceBook DEF FillStep
<1> QED BY <1>3, <1>4, <1>5 DEF Next

(* So it holds in every state. *)
LEMMA SourceInvariant == Spec => [](BaseInv /\ SourceInv)
<1>1. BaseInv /\ SourceInv /\ [Next]_vars => BaseInv' /\ SourceInv'
  BY BaseNext, SourceNext
<1> QED BY BaseInit, SourceInit, <1>1, PTL DEF Spec

-----------------------------------------------------------------------------
(***************************************************************************)
(* However bookings and exits interleave, and however stale the row that   *)
(* open_position computes from, the table never shows more on a side of a  *)
(* key than was filled on it.                                              *)
(***************************************************************************)
THEOREM TableWithinFills == Spec => []BookedWithinFills
<1>1. BaseInv /\ SourceInv => BookedWithinFills
  BY BackedIsWithin DEF BookedWithinFills
<1> QED BY <1>1, SourceInvariant, PTL

=============================================================================
