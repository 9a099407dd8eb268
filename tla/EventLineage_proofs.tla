------------------------- MODULE EventLineage_proofs -------------------------
(***************************************************************************)
(* The event store and the audit ledger are append-only logs, stream by    *)
(* stream, until two writers work on a stream at once, and the checks of   *)
(* their hash chains are sound, raced on or not: for any number of calls,  *)
(* clients, streams, attempts and failures.                                *)
(***************************************************************************)
EXTENDS EventLineage, FiniteSetTheorems, TLAPS

(* The numbers of a stream have a greatest one, or there are none. *)
HasTop(rows, s) ==
  \E n \in Numbers(rows, s) \cup {0} : \A m \in Numbers(rows, s) : m <= n

LEMMA TopIs ==
  ASSUME NEW rows, NEW s, HasTop(rows, s)
  PROVE  /\ Top(rows, s) \in Numbers(rows, s) \cup {0}
         /\ \A m \in Numbers(rows, s) : m <= Top(rows, s)
  BY DEF Top, HasTop

LEMMA NumbersOf ==
  ASSUME NEW rows \in SUBSET Row, NEW s
  PROVE  /\ Numbers(rows, s) \subseteq Nat \ {0}
         /\ \A r \in On(rows, s) :
              /\ r.id \in Call /\ r.seq \in Numbers(rows, s)
              /\ r.prev \in Call \cup {Nothing}
  BY DEF Numbers, On, Row

(* What a reader of the last row gets. *)
LEMMA LastOf ==
  ASSUME NEW rows \in SUBSET Row, NEW s, HasTop(rows, s),
         NEW p \in LastIds(rows, s)
  PROVE  /\ Top(rows, s) \in Nat
         /\ p \in Call \cup {Nothing}
         /\ \/ On(rows, s) = {} /\ p = Nothing /\ Top(rows, s) = 0
            \/ \E r \in On(rows, s) : r.id = p /\ r.seq = Top(rows, s)
<1>1. Top(rows, s) \in Nat
  BY TopIs, NumbersOf
<1>2. CASE On(rows, s) = {}
  <2>1. p = Nothing /\ Top(rows, s) = 0
    BY <1>2, TopIs DEF LastIds, Numbers
  <2> QED BY <1>1, <1>2, <2>1
<1>3. CASE On(rows, s) # {}
  <2>1. PICK r \in On(rows, s) : r.id = p /\ r.seq = Top(rows, s)
    BY <1>3 DEF LastIds
  <2> QED BY <1>1, <2>1, NumbersOf
<1> QED BY <1>2, <1>3

(* A row more: its own stream and the others. *)
LEMMA RowAdded ==
  ASSUME NEW rows \in SUBSET Row, NEW row \in Row, NEW s
  PROVE  /\ row.stream # s => On(rows \cup {row}, s) = On(rows, s)
         /\ row.stream = s => On(rows \cup {row}, s) = On(rows, s) \cup {row}
  BY DEF On

LEMMA SameStream ==
  ASSUME NEW rows, NEW other, NEW s, On(other, s) = On(rows, s)
  PROVE  /\ Top(other, s) = Top(rows, s)
         /\ LastIds(other, s) = LastIds(rows, s)
         /\ HasTop(rows, s) => HasTop(other, s)
         /\ Entries(other, s) = Entries(rows, s)
<1>1. Numbers(other, s) = Numbers(rows, s)
  BY DEF Numbers
<1>2. Top(other, s) = Top(rows, s)
  BY <1>1 DEF Top
<1> QED BY <1>1, <1>2 DEF LastIds, HasTop, Entries

LEMMA TopKept ==
  ASSUME NEW rows \in SUBSET Row, NEW row \in Row, NEW s, HasTop(rows, s)
  PROVE  HasTop(rows \cup {row}, s)
<1>1. CASE row.stream # s
  BY <1>1, RowAdded, SameStream
<1>2. CASE row.stream = s
  <2>0. On(rows \cup {row}, s) = On(rows, s) \cup {row}
    BY <1>2, RowAdded
  <2>1. Numbers(rows \cup {row}, s) = Numbers(rows, s) \cup {row.seq}
    BY <2>0 DEF Numbers
  <2>2. PICK n \in Numbers(rows, s) \cup {0} : \A m \in Numbers(rows, s) : m <= n
    BY DEF HasTop
  <2>3. n \in Nat /\ row.seq \in Nat /\ Numbers(rows, s) \subseteq Nat
    BY NumbersOf DEF Row
  <2>4. CASE row.seq <= n
    BY <2>1, <2>2, <2>4 DEF HasTop
  <2>5. CASE n <= row.seq
    <3>1. \A m \in Numbers(rows, s) \cup {row.seq} : m <= row.seq
      BY <2>2, <2>3, <2>5
    <3> QED BY <2>1, <3>1 DEF HasTop
  <2> QED BY <2>3, <2>4, <2>5
<1> QED BY <1>1, <1>2

-----------------------------------------------------------------------------
(***************************************************************************)
(* The inductive invariant.  In a stream nothing raced on, one call at     *)
(* most is between its read and the end of its insert, and until its row   *)
(* is there what it has read is still so.                                  *)
(***************************************************************************)
Holding(c) == pc[c] \in {"last_event", "insert_event"}
Recording(c) == pc[c] \in {"last_hash", "insert_audit"}

Ready(rows, c) ==
  /\ draft[c].seq = Top(rows, StreamOf[c]) + 1
  /\ draft[c].prev \in LastIds(rows, StreamOf[c])

Drafted(c) ==
  pc[c] = "insert_event" \/ Recording(c) => draft[c].seq # 0

EventOK(c) ==
  pc[c] = "insert_event" /\ StreamOf[c] \notin racedEvents =>
    /\ \A d \in Call : pc[d] = "insert_event" /\ StreamOf[d] = StreamOf[c] => d = c
    /\ ~Doomed(events, c) => Ready(events, c)

AuditOK(c) ==
  Recording(c) /\ StreamOf[c] \notin racedAudit =>
    /\ \A d \in Call : Recording(d) /\ StreamOf[d] = StreamOf[c] => d = c
    /\ pc[c] = "last_hash" => draft[c].seq = Top(audit, StreamOf[c]) + 1
    /\ pc[c] = "insert_audit" /\ ~Doomed(audit, c) => Ready(audit, c)

LineageInv ==
  /\ LineageTypeOK
  /\ \A s \in Stream : HasTop(events, s) /\ HasTop(audit, s)
  /\ \A c \in Call : /\ Holding(c) => lock[ClientOf[c]] = c
                     /\ Drafted(c) /\ EventOK(c) /\ AuditOK(c)

LEMMA CallFields ==
  ASSUME LineageTypeOK, NEW c \in Call
  PROVE  /\ ClientOf[c] \in Client /\ StreamOf[c] \in Stream
         /\ draft[c] \in Draft /\ draft[c].seq \in Nat
         /\ draft[c].prev \in Call \cup {Nothing}
         /\ c # Nothing /\ NoDraft \in Draft
  BY LineageAssumption DEF LineageTypeOK, Draft, NoDraft

(* The row a call writes. *)
LEMMA WrittenRow ==
  ASSUME LineageTypeOK, NEW c \in Call, draft[c].seq # 0
  PROVE  /\ EventRow(c, draft[c]) \in Row /\ AuditRow(c, draft[c]) \in Row
         /\ EventRow(c, draft[c]) = AuditRow(c, draft[c])
         /\ EventRow(c, draft[c]).id = c
         /\ EventRow(c, draft[c]).stream = StreamOf[c]
         /\ EventRow(c, draft[c]).seq = draft[c].seq
         /\ EventRow(c, draft[c]).prev = draft[c].prev
  BY CallFields DEF EventRow, AuditRow, Row

LEMMA InitInv == Init => LineageInv
<1> SUFFICES ASSUME Init PROVE LineageInv
  OBVIOUS
<1>1. LineageTypeOK
  <2>1. NoDraft \in Draft /\ Asleep \in SweepState
    BY DEF NoDraft, Draft, Asleep, SweepState
  <2> QED
    BY <2>1, LineageAssumption
    DEF Init, EventInit, AuditInit, LineageTypeOK, Stage
<1>2. \A s \in Stream : HasTop(events, s) /\ HasTop(audit, s)
  BY DEF Init, EventInit, AuditInit, HasTop, Numbers, On
<1>3. \A c \in Call : ~Holding(c) /\ Drafted(c) /\ EventOK(c) /\ AuditOK(c)
  BY DEF Init, Holding, Recording, Drafted, EventOK, AuditOK
<1> QED BY <1>1, <1>2, <1>3 DEF LineageInv

-----------------------------------------------------------------------------
(***************************************************************************)
(* What a step of one call may change; the lemmas below take it apart.     *)
(***************************************************************************)
OthersStay(c) ==
  /\ pc' = [pc EXCEPT ![c] = pc'[c]] /\ pc'[c] \in Stage
  /\ draft' = [draft EXCEPT ![c] = draft'[c]] /\ draft'[c] \in Draft
  /\ tries' = [tries EXCEPT ![c] = tries'[c]] /\ tries'[c] \in 0 .. MaxAttempts - 1
  /\ Drafted(c)'
  /\ faults' \in 0 .. MaxFaults
  /\ sweep' = sweep

LockStep(c) ==
  /\ lock' \in [Client -> Call \cup {Nothing}]
  /\ Holding(c)' => lock'[ClientOf[c]] = c
  /\ \A k \in Client : lock[k] \notin {c, Nothing} => lock'[k] = lock[k]

EventWritten(c) ==
  /\ pc[c] = "insert_event" /\ ~Doomed(events, c)
  /\ events' = events \cup {EventRow(c, draft[c])}

AuditWritten(c) ==
  /\ pc[c] = "insert_audit" /\ ~Doomed(audit, c)
  /\ audit' = audit \cup {AuditRow(c, draft[c])}

(* The events and what calls have read of them. *)
EventStep(c) ==
  /\ events' = events \/ EventWritten(c)
  /\ \/ racedEvents' = racedEvents
     \/ racedEvents' = racedEvents \cup {StreamOf[c]} /\ events' = events
  /\ pc'[c] = "insert_event" =>
       \/ pc[c] = "insert_event" /\ draft'[c] = draft[c]
       \/ /\ pc[c] = "last_event" /\ events' = events
          /\ StreamOf[c] \notin racedEvents' => AppendsBeside(c) = {}
          /\ Ready(events, c)'

(* The audit entries and what calls have read of them. *)
AuditStep(c) ==
  /\ audit' = audit \/ AuditWritten(c)
  /\ \/ racedAudit' = racedAudit
     \/ racedAudit' = racedAudit \cup {StreamOf[c]} /\ audit' = audit
  /\ Recording(c)' =>
       \/ pc'[c] = pc[c] /\ draft'[c] = draft[c]
       \/ /\ pc[c] = "sequence" /\ pc'[c] = "last_hash" /\ audit' = audit
          /\ StreamOf[c] \notin racedAudit' => RecordsBeside(c) = {}
          /\ draft'[c].seq = Top(audit, StreamOf[c]) + 1
       \/ /\ pc[c] = "last_hash" /\ pc'[c] = "insert_audit" /\ audit' = audit
          /\ draft'[c].seq = draft[c].seq
          /\ draft'[c].prev \in LastIds(audit, StreamOf[c])

Effect(c) == OthersStay(c) /\ LockStep(c) /\ EventStep(c) /\ AuditStep(c)

LEMMA TheOthers ==
  ASSUME LineageTypeOK, NEW c \in Call, OthersStay(c), NEW d \in Call, d # c
  PROVE  /\ pc'[d] = pc[d] /\ draft'[d] = draft[d]
         /\ Holding(d)' <=> Holding(d)
         /\ Recording(d)' <=> Recording(d)
  BY DEF LineageTypeOK, OthersStay, Holding, Recording

LEMMA EffectType ==
  ASSUME LineageInv, NEW c \in Call, Effect(c)
  PROVE  /\ LineageTypeOK'
         /\ \A s \in Stream : HasTop(events, s)' /\ HasTop(audit, s)'
         /\ \A d \in Call : Drafted(d)' /\ (Holding(d)' => lock'[ClientOf[d]] = d)
<1>0. LineageTypeOK /\ OthersStay(c) /\ LockStep(c) /\ StreamOf[c] \in Stream
  BY CallFields DEF LineageInv, Effect
<1>1. ASSUME EventWritten(c) \/ AuditWritten(c)
      PROVE  /\ EventRow(c, draft[c]) \in Row /\ AuditRow(c, draft[c]) \in Row
  BY <1>0, <1>1, WrittenRow
  DEF EventWritten, AuditWritten, LineageInv, Drafted, Recording
<1>2. events' \subseteq Row /\ audit' \subseteq Row
  BY <1>0, <1>1
  DEF Effect, EventStep, AuditStep, EventWritten, AuditWritten, LineageTypeOK
<1>3. racedEvents' \subseteq Stream /\ racedAudit' \subseteq Stream
  BY <1>0 DEF Effect, EventStep, AuditStep, LineageTypeOK
<1>4. LineageTypeOK'
  BY <1>0, <1>2, <1>3 DEF LineageTypeOK, OthersStay, LockStep
<1>5. ASSUME NEW s \in Stream PROVE HasTop(events, s)' /\ HasTop(audit, s)'
  <2>1. HasTop(events, s) /\ HasTop(audit, s) /\ events \in SUBSET Row /\ audit \in SUBSET Row
    BY <1>0 DEF LineageInv, LineageTypeOK
  <2>2. HasTop(events', s)
    BY <1>1, <2>1, TopKept DEF Effect, EventStep, EventWritten
  <2>3. HasTop(audit', s)
    BY <1>1, <2>1, TopKept DEF Effect, AuditStep, AuditWritten
  <2>4. HasTop(events, s)' = HasTop(events', s) /\ HasTop(audit, s)' = HasTop(audit', s)
    BY DEF HasTop, Numbers, On
  <2> QED BY <2>2, <2>3, <2>4
<1>6. ASSUME NEW d \in Call
      PROVE  Drafted(d)' /\ (Holding(d)' => lock'[ClientOf[d]] = d)
  <2>1. CASE d = c
    BY <1>0, <2>1 DEF OthersStay, LockStep
  <2>2. CASE d # c
    <3>1. /\ pc'[d] = pc[d] /\ draft'[d] = draft[d]
          /\ Holding(d)' <=> Holding(d)
      BY <1>0, <2>2, TheOthers
    <3>2. Drafted(d)'
      BY <3>1 DEF LineageInv, Drafted, Recording
    <3>3. Holding(d)' => lock'[ClientOf[d]] = d
      <4> SUFFICES ASSUME Holding(d) PROVE lock'[ClientOf[d]] = d
        BY <3>1
      <4>1. lock[ClientOf[d]] = d /\ ClientOf[d] \in Client /\ d # Nothing
        BY <1>0, CallFields DEF LineageInv
      <4> QED BY <1>0, <2>2, <4>1 DEF LockStep
    <3> QED BY <3>2, <3>3
  <2> QED BY <2>1, <2>2
<1> QED BY <1>4, <1>5, <1>6

(* What is ready stays so while nobody writes to the stream. *)
LEMMA ReadyKept ==
  ASSUME NEW d \in Call, NEW rows, NEW other, draft'[d] = draft[d],
         On(other, StreamOf[d]) = On(rows, StreamOf[d])
  PROVE  Ready(rows, d) =>
           /\ draft'[d].seq = Top(other, StreamOf[d]) + 1
           /\ draft'[d].prev \in LastIds(other, StreamOf[d])
  BY SameStream DEF Ready

LEMMA EffectEvents ==
  ASSUME LineageInv, NEW c \in Call, Effect(c)
  PROVE  \A d \in Call : EventOK(d)'
<1>0. LineageTypeOK /\ OthersStay(c) /\ EventStep(c) /\ racedEvents \subseteq racedEvents'
  BY DEF LineageInv, Effect, EventStep
<1> TAKE d \in Call
<1> SUFFICES ASSUME pc'[d] = "insert_event", StreamOf[d] \notin racedEvents'
             PROVE  /\ \A e \in Call :
                         pc'[e] = "insert_event" /\ StreamOf[e] = StreamOf[d] => e = d
                    /\ ~Doomed(events, d)' => Ready(events, d)'
  BY DEF EventOK
(* Two calls on one client do not both hold its lock. *)
<1>1. ASSUME NEW e \in Call, pc[e] = "insert_event", pc[c] = "last_event",
             StreamOf[e] = StreamOf[c], AppendsBeside(c) = {}
      PROVE  FALSE
  <2>1. ClientOf[e] = ClientOf[c]
    BY <1>1 DEF AppendsBeside
  <2> QED BY <1>1, <2>1 DEF LineageInv, Holding
<1>2. CASE d = c
  <2>1. CASE pc[c] = "insert_event" /\ draft'[c] = draft[c]
    <3>1. EventOK(c) /\ StreamOf[c] \notin racedEvents
      BY <1>0, <1>2 DEF LineageInv
    <3>2. \A e \in Call : pc'[e] = "insert_event" /\ StreamOf[e] = StreamOf[c] => e = c
      BY <1>0, <2>1, <3>1, TheOthers DEF EventOK
    <3>3. ~Doomed(events, c)' => Ready(events, c)'
      <4> SUFFICES ASSUME ~Doomed(events, c)' PROVE Ready(events, c)'
        OBVIOUS
      <4>1. events' = events
        BY <1>0 DEF EventStep, EventWritten, Doomed, EventRow
      <4>2. Ready(events, c)
        BY <2>1, <3>1, <4>1 DEF EventOK, Doomed
      <4> QED BY <2>1, <4>1, <4>2 DEF Ready, Top, LastIds, Numbers, On
    <3> QED BY <1>2, <3>2, <3>3
  <2>2. CASE /\ pc[c] = "last_event" /\ events' = events
             /\ AppendsBeside(c) = {} /\ Ready(events, c)'
    BY <1>0, <1>1, <1>2, <2>2, TheOthers
  <2> QED BY <1>0, <1>2, <2>1, <2>2 DEF EventStep
<1>3. CASE d # c
  <2>1. pc[d] = "insert_event" /\ draft'[d] = draft[d] /\ EventOK(d)
        /\ StreamOf[d] \notin racedEvents
    BY <1>0, <1>3, TheOthers DEF LineageInv
  <2>2. \A e \in Call : pc'[e] = "insert_event" /\ StreamOf[e] = StreamOf[d] => e = d
    <3> SUFFICES ASSUME pc'[c] = "insert_event", StreamOf[c] = StreamOf[d]
                 PROVE  FALSE
      BY <1>0, <1>3, <2>1, TheOthers DEF EventOK
    <3>1. CASE pc[c] = "insert_event"
      BY <1>3, <2>1, <3>1 DEF EventOK
    <3>2. CASE pc[c] = "last_event" /\ AppendsBeside(c) = {}
      BY <1>1, <2>1, <3>2
    <3> QED BY <1>0, <3>1, <3>2 DEF EventStep
  <2>3. ~Doomed(events, d)' => Ready(events, d)'
    <3> SUFFICES ASSUME ~Doomed(events, d)' PROVE Ready(events, d)'
      OBVIOUS
    <3>1. On(events', StreamOf[d]) = On(events, StreamOf[d])
      <4>1. CASE events' = events
        BY <4>1
      <4>2. CASE EventWritten(c)
        <5>1. StreamOf[c] # StreamOf[d]
          BY <1>3, <2>1, <4>2 DEF EventOK, EventWritten
        <5> QED BY <4>2, <5>1 DEF EventWritten, On, EventRow
      <4> QED BY <1>0, <4>1, <4>2 DEF EventStep
    <3>2. ~Doomed(events, d)
      BY <1>0 DEF Doomed, EventStep, EventWritten
    <3>3. Ready(events, d)
      BY <2>1, <3>2 DEF EventOK
    <3>4. /\ draft'[d].seq = Top(events', StreamOf[d]) + 1
          /\ draft'[d].prev \in LastIds(events', StreamOf[d])
      BY <2>1, <3>1, <3>3, ReadyKept
    <3> QED BY <3>4 DEF Ready, Top, LastIds, Numbers, On
  <2> QED BY <2>2, <2>3
<1> QED BY <1>2, <1>3

LEMMA EffectAudit ==
  ASSUME LineageInv, NEW c \in Call, Effect(c)
  PROVE  \A d \in Call : AuditOK(d)'
<1>0. LineageTypeOK /\ OthersStay(c) /\ AuditStep(c) /\ racedAudit \subseteq racedAudit'
  BY DEF LineageInv, Effect, AuditStep
<1>1. Recording(c)' => \/ Recording(c)
                       \/ StreamOf[c] \notin racedAudit' => RecordsBeside(c) = {}
  BY <1>0 DEF AuditStep, Recording
<1> TAKE d \in Call
<1> SUFFICES ASSUME Recording(d)', StreamOf[d] \notin racedAudit'
             PROVE  /\ \A e \in Call : Recording(e)' /\ StreamOf[e] = StreamOf[d] => e = d
                    /\ pc'[d] = "last_hash" =>
                         draft'[d].seq = Top(audit', StreamOf[d]) + 1
                    /\ pc'[d] = "insert_audit" /\ ~Doomed(audit, d)' =>
                         Ready(audit, d)'
  BY DEF AuditOK, Top, Numbers, On
<1>2. CASE d = c
  <2>1. \A e \in Call : Recording(e)' /\ StreamOf[e] = StreamOf[c] => e = c
    <3> TAKE e \in Call
    <3> SUFFICES ASSUME e # c, Recording(e), StreamOf[e] = StreamOf[c] PROVE FALSE
      BY <1>0, TheOthers
    <3>1. ~Recording(c)
      BY <1>0, <1>2 DEF LineageInv, AuditOK
    <3>2. RecordsBeside(c) = {}
      BY <1>1, <1>2, <3>1
    <3> QED BY <3>2 DEF RecordsBeside, Recording
  <2>2. CASE pc'[c] = pc[c] /\ draft'[c] = draft[c]
    <3>1. AuditOK(c) /\ Recording(c) /\ StreamOf[c] \notin racedAudit
      BY <1>0, <1>2, <2>2 DEF LineageInv, Recording
    <3>2. CASE audit' = audit
      BY <1>2, <2>1, <2>2, <3>1, <3>2
      DEF AuditOK, Doomed, Ready, Top, LastIds, Numbers, On
    <3>3. CASE AuditWritten(c)
      <4>1. Doomed(audit, c)'
        <5>1. AuditRow(c, draft[c]) \in audit' /\ AuditRow(c, draft[c]).id = c
          BY <3>3 DEF AuditWritten, AuditRow
        <5> QED BY <5>1 DEF Doomed
      <4> QED BY <1>2, <2>1, <2>2, <3>3, <4>1 DEF AuditWritten
    <3> QED BY <1>0, <3>2, <3>3 DEF AuditStep
  <2>3. CASE /\ pc'[c] = "last_hash" /\ audit' = audit
             /\ draft'[c].seq = Top(audit, StreamOf[c]) + 1
    BY <1>2, <2>1, <2>3
  <2>4. CASE /\ pc[c] = "last_hash" /\ pc'[c] = "insert_audit" /\ audit' = audit
             /\ draft'[c].seq = draft[c].seq
             /\ draft'[c].prev \in LastIds(audit, StreamOf[c])
    <3>1. draft[c].seq = Top(audit, StreamOf[c]) + 1
      BY <1>0, <1>2, <2>4 DEF LineageInv, AuditOK, Recording
    <3>2. Ready(audit, c)'
      BY <2>4, <3>1 DEF Ready, Top, LastIds, Numbers, On
    <3> QED BY <1>2, <2>1, <2>4, <3>2
  <2> QED BY <1>0, <1>2, <2>2, <2>3, <2>4 DEF AuditStep
<1>3. CASE d # c
  <2>1. /\ Recording(d) /\ pc'[d] = pc[d] /\ draft'[d] = draft[d] /\ AuditOK(d)
        /\ StreamOf[d] \notin racedAudit
    BY <1>0, <1>3, TheOthers DEF LineageInv
  <2>2. \A e \in Call : Recording(e)' /\ StreamOf[e] = StreamOf[d] => e = d
    <3> SUFFICES ASSUME Recording(c)', StreamOf[c] = StreamOf[d]
                 PROVE  FALSE
      BY <1>0, <1>3, <2>1, TheOthers DEF AuditOK
    <3>1. ~Recording(c)
      BY <1>3, <2>1 DEF AuditOK
    <3>2. RecordsBeside(c) = {}
      BY <1>1, <3>1
    <3> QED BY <1>3, <2>1, <3>2 DEF RecordsBeside, Recording
  <2>3. On(audit', StreamOf[d]) = On(audit, StreamOf[d])
    <3>1. CASE audit' = audit
      BY <3>1
    <3>2. CASE AuditWritten(c)
      <4>1. StreamOf[c] # StreamOf[d]
        BY <1>3, <2>1, <3>2 DEF AuditOK, AuditWritten, Recording
      <4> QED BY <3>2, <4>1 DEF AuditWritten, On, AuditRow
    <3> QED BY <1>0, <3>1, <3>2 DEF AuditStep
  <2>4. pc'[d] = "last_hash" => draft'[d].seq = Top(audit', StreamOf[d]) + 1
    BY <2>1, <2>3, SameStream DEF AuditOK
  <2>5. ASSUME pc'[d] = "insert_audit", ~Doomed(audit, d)' PROVE Ready(audit, d)'
    <3>1. ~Doomed(audit, d)
      BY <1>0, <2>5 DEF Doomed, AuditStep, AuditWritten
    <3>2. Ready(audit, d)
      BY <2>1, <2>5, <3>1 DEF AuditOK
    <3>3. /\ draft'[d].seq = Top(audit', StreamOf[d]) + 1
          /\ draft'[d].prev \in LastIds(audit', StreamOf[d])
      BY <2>1, <2>3, <3>2, ReadyKept
    <3> QED BY <3>3 DEF Ready, Top, LastIds, Numbers, On
  <2> QED BY <2>2, <2>4, <2>5
<1> QED BY <1>2, <1>3

LEMMA EffectInv ==
  ASSUME LineageInv, NEW c \in Call, Effect(c)
  PROVE  LineageInv'
  BY EffectType, EffectEvents, EffectAudit DEF LineageInv

-----------------------------------------------------------------------------
(***************************************************************************)
(* Every action of a call has such an effect.                              *)
(***************************************************************************)
LEMMA FaultType ==
  ASSUME LineageTypeOK, UNCHANGED faults \/ Fault
  PROVE  faults' \in 0 .. MaxFaults
  BY LineageAssumption DEF LineageTypeOK, Fault

LEMMA ReleaseStep ==
  ASSUME LineageTypeOK, NEW c \in Call, lock' = Released(c), ~Holding(c)'
  PROVE  LockStep(c)
  BY DEF LockStep, Released, LineageTypeOK

LEMMA LockUnchanged ==
  ASSUME LineageInv, NEW c \in Call, lock' = lock, Holding(c)' => Holding(c)
  PROVE  LockStep(c)
  BY DEF LockStep, LineageInv, LineageTypeOK

(* A call that reads nothing and writes nothing. *)
LEMMA NothingWritten ==
  ASSUME NEW c \in Call, events' = events, racedEvents' = racedEvents,
         pc'[c] # "insert_event"
  PROVE  EventStep(c)
  BY DEF EventStep

LEMMA NothingRecorded ==
  ASSUME NEW c \in Call, audit' = audit, racedAudit' = racedAudit,
         ~Recording(c)'
  PROVE  AuditStep(c)
  BY DEF AuditStep

LEMMA CreateEffect ==
  ASSUME LineageInv, NEW c \in Call,
         CreateEvent(c) \/ CreateEventRaises(c) \/ TakeLock(c)
  PROVE  Effect(c)
<1>0. LineageTypeOK /\ ClientOf[c] \in Client
  BY CallFields DEF LineageInv
<1>1. PICK stage \in {"append", "failed", "last_event"} :
        pc' = [pc EXCEPT ![c] = stage]
  BY DEF CreateEvent, CreateEventRaises, TakeLock, Goes
<1>2. /\ pc'[c] = stage /\ stage \in Stage
      /\ UNCHANGED <<draft, tries, events, audit, sweep, racedEvents, racedAudit>>
      /\ faults' = faults \/ Fault
  BY <1>0, <1>1
  DEF CreateEvent, CreateEventRaises, TakeLock, eventVars, Stage, LineageTypeOK
<1>3. OthersStay(c)
  BY <1>0, <1>1, <1>2, FaultType DEF OthersStay, LineageTypeOK, Drafted, Recording
<1>4. LockStep(c)
  <2>1. CASE TakeLock(c)
    BY <1>0, <2>1 DEF TakeLock, Acquire, LockStep, LineageTypeOK
  <2>2. CASE CreateEvent(c) \/ CreateEventRaises(c)
    <3>1. lock' = lock /\ ~Holding(c)'
      BY <1>0, <2>2
      DEF CreateEvent, CreateEventRaises, Goes, Holding, LineageTypeOK, eventVars
    <3> QED BY <3>1, LockUnchanged
  <2> QED BY <2>1, <2>2
<1> QED
  BY <1>1, <1>2, <1>3, <1>4, NothingWritten, NothingRecorded
  DEF Effect, Recording

LEMMA ReadLastEventEffect ==
  ASSUME LineageInv, NEW c \in Call, ReadLastEvent(c)
  PROVE  Effect(c)
<1>0. LineageTypeOK /\ StreamOf[c] \in Stream /\ HasTop(events, StreamOf[c])
  BY CallFields DEF LineageInv
<1>1. PICK d \in LastEvents(c) : draft' = [draft EXCEPT ![c] = d]
  BY DEF ReadLastEvent
<1>2. PICK p \in LastIds(events, StreamOf[c]) :
        d = [seq |-> Top(events, StreamOf[c]) + 1, prev |-> p]
  BY DEF LastEvents
<1>3. events \in SUBSET Row
  BY <1>0 DEF LineageTypeOK
<1>4. Top(events, StreamOf[c]) \in Nat /\ p \in Call \cup {Nothing}
  BY <1>0, <1>3, LastOf
<1>5. /\ d \in Draft /\ d.seq # 0
      /\ d.seq = Top(events, StreamOf[c]) + 1 /\ d.prev = p
  BY <1>2, <1>4 DEF Draft
<1>6. /\ pc[c] = "last_event" /\ pc' = [pc EXCEPT ![c] = "insert_event"]
      /\ pc'[c] = "insert_event" /\ draft'[c] = d
      /\ UNCHANGED <<tries, events, lock, audit, sweep, racedAudit, faults>>
  BY <1>0, <1>1 DEF ReadLastEvent, Goes, eventVars, LineageTypeOK
<1>7. OthersStay(c)
  BY <1>0, <1>1, <1>5, <1>6 DEF OthersStay, LineageTypeOK, Drafted, Stage
<1>8. LockStep(c)
  BY <1>6, LockUnchanged DEF Holding
<1>9. Ready(events, c)'
  BY <1>5, <1>6 DEF Ready, Top, LastIds, Numbers, On
<1>10. EventStep(c)
  BY <1>6, <1>9 DEF EventStep, ReadLastEvent
<1> QED
  BY <1>6, <1>7, <1>8, <1>10, NothingRecorded DEF Effect, Recording

(* An attempt writes the row, or leaves the table as it is. *)
LEMMA EventAttempt ==
  ASSUME NEW c \in Call, pc[c] = "insert_event",
         AttemptRaises(events, EventRow(c, draft[c]), events')
         \/ AttemptReturns(events, EventRow(c, draft[c]), events')
  PROVE  events' = events \/ EventWritten(c)
  BY DEF AttemptRaises, AttemptReturns, EventWritten, Doomed, EventRow

LEMMA AuditAttempt ==
  ASSUME NEW c \in Call, pc[c] = "insert_audit",
         AttemptRaises(audit, AuditRow(c, draft[c]), audit')
         \/ AttemptReturns(audit, AuditRow(c, draft[c]), audit')
  PROVE  audit' = audit \/ AuditWritten(c)
  BY DEF AttemptRaises, AttemptReturns, AuditWritten, Doomed, AuditRow

(* A part of create_event ends, well or not, and what it has read is gone. *)
LEMMA PartEnds ==
  ASSUME LineageInv, NEW c \in Call, NEW stage \in {"sequence", "done", "failed"},
         Goes(c, stage), Forgets(c), sweep' = sweep, faults' \in 0 .. MaxFaults,
         \/ lock' = Released(c)
         \/ lock' = lock,
         events' = events \/ EventWritten(c), racedEvents' = racedEvents,
         audit' = audit \/ AuditWritten(c), racedAudit' = racedAudit
  PROVE  Effect(c)
<1>0. LineageTypeOK /\ NoDraft \in Draft
  BY CallFields DEF LineageInv
<1>1. /\ pc' = [pc EXCEPT ![c] = stage] /\ pc'[c] = stage /\ stage \in Stage
      /\ draft' = [draft EXCEPT ![c] = NoDraft] /\ draft'[c] = NoDraft
      /\ tries' = [tries EXCEPT ![c] = 0] /\ tries'[c] = 0
      /\ 0 \in 0 .. MaxAttempts - 1
  BY <1>0, LineageAssumption DEF Goes, Forgets, LineageTypeOK, Stage
<1>2. ~Holding(c)' /\ ~Recording(c)' /\ pc'[c] # "insert_event"
  BY <1>1 DEF Holding, Recording
<1>3. OthersStay(c)
  BY <1>0, <1>1, <1>2 DEF OthersStay, Drafted
<1>4. LockStep(c)
  BY <1>0, <1>2, ReleaseStep, LockUnchanged
<1>5. EventStep(c) /\ AuditStep(c)
  BY <1>2 DEF EventStep, AuditStep
<1> QED BY <1>3, <1>4, <1>5 DEF Effect

LEMMA EventEndsEffect ==
  ASSUME LineageInv, NEW c \in Call,
         InsertEvent(c) \/ AppendRaises(c)
  PROVE  Effect(c)
<1>1. /\ Goes(c, "sequence") /\ Forgets(c) /\ lock' = Released(c)
      /\ UNCHANGED <<audit, sweep, racedEvents, racedAudit>>
  BY DEF InsertEvent, AppendRaises
<1>2. events' = events \/ EventWritten(c)
  BY EventAttempt DEF InsertEvent, AppendRaises
<1>3. faults' \in 0 .. MaxFaults
  BY FaultType DEF InsertEvent, AppendRaises, FaultUnless, LineageInv
<1> QED BY <1>1, <1>2, <1>3, PartEnds

LEMMA AuditEndsEffect ==
  ASSUME LineageInv, NEW c \in Call,
         InsertAudit(c) \/ RecordRaises(c)
  PROVE  Effect(c)
<1>1. /\ Goes(c, "done") /\ Forgets(c)
      /\ UNCHANGED <<events, lock, sweep, racedEvents, racedAudit>>
  BY DEF InsertAudit, RecordRaises, eventVars
<1>2. audit' = audit \/ AuditWritten(c)
  BY AuditAttempt DEF InsertAudit, RecordRaises
<1>3. faults' \in 0 .. MaxFaults
  BY FaultType DEF InsertAudit, RecordRaises, FaultUnless, LineageInv
<1> QED BY <1>1, <1>2, <1>3, PartEnds

LEMMA CancelEffect ==
  ASSUME LineageInv, NEW c \in Call, Cancel(c)
  PROVE  Effect(c)
<1>1. /\ Goes(c, "failed") /\ Forgets(c) /\ lock' = Released(c)
      /\ UNCHANGED <<sweep, racedEvents, racedAudit>>
  BY DEF Cancel
<1>2. events' = events \/ EventWritten(c)
  BY EventAttempt DEF Cancel
<1>3. audit' = audit \/ AuditWritten(c)
  BY AuditAttempt DEF Cancel
<1>4. faults' \in 0 .. MaxFaults
  BY FaultType DEF Cancel, LineageInv
<1> QED BY <1>1, <1>2, <1>3, <1>4, PartEnds

LEMMA AgainEffect ==
  ASSUME LineageInv, NEW c \in Call,
         InsertEventAgain(c) \/ InsertAuditAgain(c)
  PROVE  Effect(c)
<1>0. LineageTypeOK
  BY DEF LineageInv
<1>1. /\ tries' = [tries EXCEPT ![c] = @ + 1] /\ tries[c] + 1 < MaxAttempts
      /\ UNCHANGED <<lock, pc, draft, sweep, racedEvents, racedAudit>>
  BY DEF InsertEventAgain, InsertAuditAgain, eventVars
<1>2. /\ tries' = [tries EXCEPT ![c] = tries'[c]]
      /\ tries'[c] \in 0 .. MaxAttempts - 1
  BY <1>0, <1>1, LineageAssumption DEF LineageTypeOK
<1>3. /\ pc' = [pc EXCEPT ![c] = pc'[c]] /\ pc'[c] \in Stage
      /\ draft' = [draft EXCEPT ![c] = draft'[c]] /\ draft'[c] \in Draft
  BY <1>0, <1>1 DEF LineageTypeOK
<1>4. faults' \in 0 .. MaxFaults
  BY <1>0, FaultType DEF InsertEventAgain, InsertAuditAgain, FaultUnless
<1>5. Drafted(c)'
  BY <1>1 DEF LineageInv, Drafted, Recording
<1>6. OthersStay(c)
  BY <1>1, <1>2, <1>3, <1>4, <1>5 DEF OthersStay
<1>7. LockStep(c)
  BY <1>1, LockUnchanged DEF Holding
<1>8. /\ events' = events \/ EventWritten(c)
      /\ audit' = audit \/ AuditWritten(c)
  BY EventAttempt, AuditAttempt DEF InsertEventAgain, InsertAuditAgain, eventVars
<1>9. EventStep(c) /\ AuditStep(c)
  BY <1>1, <1>8 DEF EventStep, AuditStep, Recording
<1> QED BY <1>6, <1>7, <1>9 DEF Effect

LEMMA ReadSequenceEffect ==
  ASSUME LineageInv, NEW c \in Call, ReadSequence(c)
  PROVE  Effect(c)
<1> DEFINE n == NextSequence(c)
<1>0. /\ LineageTypeOK /\ StreamOf[c] \in Stream /\ HasTop(audit, StreamOf[c])
      /\ audit \in SUBSET Row
  BY CallFields DEF LineageInv, LineageTypeOK
<1>1. Top(audit, StreamOf[c]) \in Nat
  BY <1>0, TopIs, NumbersOf
<1>2. n \in Nat \ {0} /\ n = Top(audit, StreamOf[c]) + 1
  BY <1>1 DEF NextSequence
<1> HIDE DEF n
<1>3. /\ pc[c] = "sequence" /\ pc' = [pc EXCEPT ![c] = "last_hash"]
      /\ draft' = [draft EXCEPT ![c].seq = n]
      /\ UNCHANGED <<tries, events, lock, audit, sweep, racedEvents, faults>>
  BY DEF ReadSequence, Goes, eventVars, n
<1>4. /\ pc'[c] = "last_hash" /\ draft'[c] \in Draft /\ draft'[c].seq = n
      /\ draft' = [draft EXCEPT ![c] = draft'[c]]
  BY <1>0, <1>2, <1>3 DEF LineageTypeOK, Draft
<1>5. OthersStay(c)
  BY <1>0, <1>2, <1>3, <1>4 DEF OthersStay, LineageTypeOK, Drafted, Stage
<1>6. LockStep(c)
  BY <1>3, <1>4, LockUnchanged DEF Holding
<1>7. AuditStep(c)
  BY <1>2, <1>3, <1>4 DEF AuditStep, ReadSequence
<1> QED
  BY <1>3, <1>4, <1>5, <1>6, <1>7, NothingWritten DEF Effect

LEMMA ReadLastHashEffect ==
  ASSUME LineageInv, NEW c \in Call, ReadLastHash(c)
  PROVE  Effect(c)
<1>0. /\ LineageTypeOK /\ StreamOf[c] \in Stream /\ HasTop(audit, StreamOf[c])
      /\ audit \in SUBSET Row
  BY CallFields DEF LineageInv, LineageTypeOK
<1>1. PICK h \in LastIds(audit, StreamOf[c]) : draft' = [draft EXCEPT ![c].prev = h]
  BY DEF ReadLastHash, LastHashes
<1>2. h \in Call \cup {Nothing}
  BY <1>0, LastOf
<1>3. /\ pc[c] = "last_hash" /\ pc' = [pc EXCEPT ![c] = "insert_audit"]
      /\ UNCHANGED <<tries, events, lock, audit, sweep, racedEvents, racedAudit, faults>>
  BY DEF ReadLastHash, Goes, eventVars
<1>4. /\ pc'[c] = "insert_audit" /\ draft'[c] \in Draft
      /\ draft'[c].seq = draft[c].seq /\ draft'[c].prev = h
      /\ draft' = [draft EXCEPT ![c] = draft'[c]]
  BY <1>0, <1>1, <1>2, <1>3 DEF LineageTypeOK, Draft
<1>5. draft[c].seq # 0
  BY <1>3 DEF LineageInv, Drafted, Recording
<1>6. OthersStay(c)
  BY <1>0, <1>3, <1>4, <1>5 DEF OthersStay, LineageTypeOK, Drafted, Stage
<1>7. LockStep(c)
  BY <1>3, <1>4, LockUnchanged DEF Holding
<1>8. AuditStep(c)
  BY <1>3, <1>4 DEF AuditStep
<1> QED
  BY <1>3, <1>4, <1>6, <1>7, <1>8, NothingWritten DEF Effect

LEMMA CallsHaveEffect ==
  ASSUME LineageInv, NEW c \in Call,
         CallStep(c) \/ CreateEventRaises(c) \/ Cancel(c)
  PROVE  Effect(c)
  BY CreateEffect, ReadLastEventEffect, EventEndsEffect, AuditEndsEffect,
     CancelEffect, AgainEffect, ReadSequenceEffect, ReadLastHashEffect
  DEF CallStep

-----------------------------------------------------------------------------
(***************************************************************************)
(* The sweep reads, and changes nothing that a call reads.                 *)
(***************************************************************************)
Sweeps == SweepStep \/ SweepRaises \/ SweeperRestarts

LEMMA SweepsReadOnly ==
  ASSUME Sweeps
  PROVE  UNCHANGED <<events, lock, audit, callVars, racedEvents, racedAudit>>
  BY DEF Sweeps, SweepStep, SweepStart, SweepVerify, SweepSave, SweepRaises,
         SweeperRestarts, eventVars

LEMMA Verdicts ==
  ASSUME NEW l, VerifyIntegrity(l) # "raises"
  PROVE  VerifyIntegrity(l) \in Verdict
<1> DEFINE letter == \E i \in Unlinked(l) : l[i].prev = Nothing
           none == Unlinked(l) \cup Altered(l) = {}
<1>1. VerifyIntegrity(l) =
        CASE letter -> "raises" [] none -> "valid" [] OTHER -> "broken"
  BY DEF VerifyIntegrity
<1>2. letter => ~none
  OBVIOUS
<1> HIDE DEF letter, none
<1> QED BY <1>1, <1>2 DEF Verdict

LEMMA SweepsType ==
  ASSUME LineageTypeOK, Sweeps
  PROVE  sweep' \in SweepState /\ faults' \in 0 .. MaxFaults
<1>0. sweep \in SweepState /\ Asleep \in SweepState
  BY DEF LineageTypeOK, Asleep, SweepState
<1>1. UNCHANGED faults \/ Fault
  BY DEF Sweeps, SweepStep, SweepStart, SweepVerify, SweepSave, SweepRaises,
         SweeperRestarts
<1>2. CASE SweepStart
  <2>1. sweep' = [Asleep EXCEPT !.pc = "sweeping",
                                !.todo = {s \in Stream : On(events, s) # {}}]
    BY <1>2 DEF SweepStart
  <2>2. sweep' \in SweepState
    BY <2>1 DEF Asleep, SweepState
  <2> QED BY <1>1, <2>2, FaultType
<1>3. CASE \E s \in Stream : SweepVerify(s)
  <2>0. PICK s \in Stream : SweepVerify(s)
    BY <1>3
  <2>1. PICK l \in ListOf(s) :
          sweep' = IF VerifyIntegrity(l) = "raises" THEN Asleep
                   ELSE [sweep EXCEPT !.todo = @ \ {s},
                                      !.results[s] = VerifyIntegrity(l)]
    BY <2>0 DEF SweepVerify
  <2>2. sweep' \in SweepState
    BY <1>0, <2>1, Verdicts DEF SweepState
  <2> QED BY <1>1, <2>2, FaultType
<1>4. CASE SweepSave \/ SweepRaises \/ SweeperRestarts
  BY <1>0, <1>1, <1>4, FaultType DEF SweepSave, SweepRaises, SweeperRestarts
<1> QED BY <1>2, <1>3, <1>4 DEF Sweeps, SweepStep

LEMMA QuietInv ==
  ASSUME LineageInv, sweep' \in SweepState, faults' \in 0 .. MaxFaults,
         UNCHANGED <<events, lock, audit, callVars, racedEvents, racedAudit>>
  PROVE  LineageInv'
<1>1. LineageTypeOK'
  BY DEF LineageInv, LineageTypeOK, callVars
<1>2. \A s \in Stream : HasTop(events, s)' /\ HasTop(audit, s)'
  BY DEF LineageInv, HasTop, Numbers, On
<1>3. ASSUME NEW c \in Call
      PROVE  Drafted(c)' /\ EventOK(c)' /\ AuditOK(c)'
             /\ (Holding(c)' => lock'[ClientOf[c]] = c)
  <2>1. UNCHANGED <<pc, draft, events, audit, lock, racedEvents, racedAudit>>
    BY DEF callVars
  <2>2. Drafted(c) /\ EventOK(c) /\ AuditOK(c) /\ (Holding(c) => lock[ClientOf[c]] = c)
    BY DEF LineageInv
  <2>3. Drafted(c)' /\ (Holding(c)' => lock'[ClientOf[c]] = c)
    BY <2>1, <2>2 DEF Drafted, Recording, Holding
  <2>4. EventOK(c)'
    BY <2>1, <2>2 DEF EventOK, Doomed, Ready, Top, LastIds, Numbers, On
  <2>5. AuditOK(c)'
    BY <2>1, <2>2 DEF AuditOK, Recording, Doomed, Ready, Top, LastIds, Numbers, On
  <2> QED BY <2>3, <2>4, <2>5
<1> QED BY <1>1, <1>2, <1>3 DEF LineageInv

LEMMA NextInv ==
  ASSUME LineageInv, [Next]_vars
  PROVE  LineageInv'
<1>1. CASE \E c \in Call : CallStep(c) \/ CreateEventRaises(c) \/ Cancel(c)
  BY <1>1, CallsHaveEffect, EffectInv
<1>2. CASE Sweeps
  BY <1>2, SweepsReadOnly, SweepsType, QuietInv DEF LineageInv
<1>3. CASE UNCHANGED vars
  BY <1>3, QuietInv DEF vars, eventVars, LineageInv, LineageTypeOK
<1> QED BY <1>1, <1>2, <1>3 DEF Next, Sweeps

LEMMA LineageInvariant == Spec => []LineageInv
  BY InitInv, NextInv, PTL DEF Spec

(***************************************************************************)
(* The tables, the lock, the calls and the sweep keep their types.         *)
(***************************************************************************)
THEOREM LineageTypeCorrect == Spec => []LineageTypeOK
<1>1. LineageInv => LineageTypeOK
  BY DEF LineageInv
<1> QED BY <1>1, LineageInvariant, PTL

-----------------------------------------------------------------------------
(***************************************************************************)
(* The two logs.                                                           *)
(***************************************************************************)
EntryOf(r) == [id |-> r.id, seq |-> r.seq, prev |-> r.prev]

(* A row made from what is ready is the next entry of its stream. *)
LEMMA NextEntry ==
  ASSUME NEW rows \in SUBSET Row, NEW row \in Row, NEW s, row.stream = s,
         HasTop(rows, s), \A r \in rows : r.id # row.id,
         row.seq = Top(rows, s) + 1, row.prev \in LastIds(rows, s)
  PROVE  LET l == Entries(rows, s)
             x == EntryOf(row)
         IN /\ x \in EventLog!Entry
            /\ EventLog!IsFirst(l, x) \/ EventLog!Follows(l, x)
            /\ \A y \in l : y.id # x.id
            /\ Entries(rows \cup {row}, s) = l \cup {x}
            /\ x \in Entries(rows \cup {row}, s)
<1> DEFINE l == Entries(rows, s)
           x == EntryOf(row)
<1>1. /\ x.id = row.id /\ x.seq = row.seq /\ x.prev = row.prev
      /\ x \in EventLog!Entry
  BY DEF EntryOf, EventLog!Entry, Row
<1>2. l = {EntryOf(r) : r \in On(rows, s)}
  BY DEF Entries, EntryOf
<1>3. \A r : EntryOf(r).id = r.id /\ EntryOf(r).seq = r.seq
  BY DEF EntryOf
<1>4. \A y \in l : y.id # x.id
  BY <1>1, <1>2, <1>3 DEF On
<1>5. Entries(rows \cup {row}, s) = l \cup {x}
  <2>1. On(rows \cup {row}, s) = On(rows, s) \cup {row}
    BY RowAdded
  <2> QED BY <1>2, <2>1 DEF Entries, EntryOf
<1>6. CASE On(rows, s) = {} /\ row.prev = Nothing /\ Top(rows, s) = 0
  <2>1. EventLog!IsFirst(l, x)
    BY <1>1, <1>2, <1>6 DEF EventLog!IsFirst
  <2> QED BY <1>1, <1>4, <1>5, <2>1
<1>7. CASE \E r \in On(rows, s) : r.id = row.prev /\ r.seq = Top(rows, s)
  <2>1. PICK r \in On(rows, s) : r.id = row.prev /\ r.seq = Top(rows, s)
    BY <1>7
  <2>2. \A q \in On(rows, s) : q.seq <= Top(rows, s)
    BY TopIs, NumbersOf
  <2>3. EntryOf(r) \in l /\ \A z \in l : z.seq <= EntryOf(r).seq
    BY <1>2, <1>3, <2>1, <2>2
  <2>4. EventLog!Follows(l, x)
    BY <1>1, <1>3, <2>1, <2>3 DEF EventLog!Follows
  <2> QED BY <1>1, <1>4, <1>5, <2>4
<1>8. \/ On(rows, s) = {} /\ row.prev = Nothing /\ Top(rows, s) = 0
      \/ \E r \in On(rows, s) : r.id = row.prev /\ r.seq = Top(rows, s)
  <2>1. PICK p \in LastIds(rows, s) : p = row.prev
    OBVIOUS
  <2>2. \/ On(rows, s) = {} /\ p = Nothing /\ Top(rows, s) = 0
        \/ \E r \in On(rows, s) : r.id = p /\ r.seq = Top(rows, s)
    BY LastOf
  <2> QED BY <2>1, <2>2
<1> QED BY <1>6, <1>7, <1>8

LEMMA SameWords ==
  /\ EventLog!Entry = AuditLog!Entry
  /\ \A l, x : /\ EventLog!IsFirst(l, x) <=> AuditLog!IsFirst(l, x)
               /\ EventLog!Follows(l, x) <=> AuditLog!Follows(l, x)
  BY DEF EventLog!Entry, AuditLog!Entry, EventLog!IsFirst, AuditLog!IsFirst,
         EventLog!Follows, AuditLog!Follows

LEMMA EffectEventLog ==
  ASSUME LineageInv, NEW c \in Call, Effect(c)
  PROVE  [EventLog!Next]_(EventLog!vars)
<1> PICK s \in Stream : s = StreamOf[c]
  BY CallFields DEF LineageInv
<1>0. LineageTypeOK /\ events \in SUBSET Row /\ EventStep(c) /\ HasTop(events, s)
  BY DEF LineageInv, LineageTypeOK, Effect
<1>1. CASE events' = events /\ racedEvents' = racedEvents
  <2>1. \A q \in Stream : Entries(events, q)' = Entries(events, q)
    BY <1>1 DEF Entries, On
  <2> QED BY <1>1, <2>1 DEF EventLog!vars
<1>2. CASE events' = events /\ racedEvents' = racedEvents \cup {s}
  <2>1. \A q \in Stream : Entries(events, q)' = Entries(events, q)
    BY <1>2 DEF Entries, On
  <2>2. EventLog!Lapse(s)
    BY <1>2, <2>1 DEF EventLog!Lapse
  <2> QED BY <2>2 DEF EventLog!Next
<1>3. CASE EventWritten(c) /\ racedEvents' = racedEvents
  <2> DEFINE row == EventRow(c, draft[c])
  <2>1. /\ row \in Row /\ row.id = c /\ row.stream = s
        /\ row.seq = draft[c].seq /\ row.prev = draft[c].prev
        /\ \A r \in events : r.id # c
        /\ events' = events \cup {row}
    BY <1>0, <1>3, WrittenRow DEF EventWritten, LineageInv, Drafted, Doomed
  <2> HIDE DEF row
  <2>2. \A q \in Stream : Entries(events, q)' = Entries(events', q)
    BY DEF Entries, On
  <2>3. \A q \in Stream \ {s} : Entries(events', q) = Entries(events, q)
    BY <1>0, <2>1, RowAdded, SameStream
  <2>4. CASE s \in racedEvents
    BY <1>3, <2>2, <2>3, <2>4 DEF EventLog!vars
  <2>5. CASE s \notin racedEvents
    <3>1. row.seq = Top(events, s) + 1 /\ row.prev \in LastIds(events, s)
      BY <1>3, <2>1, <2>5 DEF LineageInv, EventOK, EventWritten, Ready
    <3>2. PICK x : x = EntryOf(row)
      OBVIOUS
    <3>3. /\ x \in EventLog!Entry
          /\ EventLog!IsFirst(Entries(events, s), x)
             \/ EventLog!Follows(Entries(events, s), x)
          /\ \A y \in Entries(events, s) : y.id # x.id
          /\ Entries(events', s) = Entries(events, s) \cup {x}
      BY <1>0, <2>1, <3>1, <3>2, NextEntry
    <3>4. EventLog!Add(s, x)
      BY <1>3, <2>2, <2>3, <2>5, <3>3 DEF EventLog!Add
    <3>5. x \in [q \in Stream |-> IF q \in racedEvents THEN {}
                                  ELSE Entries(events, q)]'[s]
      BY <1>3, <2>2, <2>5, <3>3
    <3> QED BY <3>4, <3>5 DEF EventLog!Next
  <2> QED BY <2>4, <2>5
<1> QED BY <1>0, <1>1, <1>2, <1>3 DEF EventStep

LEMMA EffectAuditLog ==
  ASSUME LineageInv, NEW c \in Call, Effect(c)
  PROVE  [AuditLog!Next]_(AuditLog!vars)
<1> PICK s \in Stream : s = StreamOf[c]
  BY CallFields DEF LineageInv
<1>0. LineageTypeOK /\ audit \in SUBSET Row /\ AuditStep(c) /\ HasTop(audit, s)
  BY DEF LineageInv, LineageTypeOK, Effect
<1>1. CASE audit' = audit /\ racedAudit' = racedAudit
  <2>1. \A q \in Stream : Entries(audit, q)' = Entries(audit, q)
    BY <1>1 DEF Entries, On
  <2> QED BY <1>1, <2>1 DEF AuditLog!vars
<1>2. CASE audit' = audit /\ racedAudit' = racedAudit \cup {s}
  <2>1. \A q \in Stream : Entries(audit, q)' = Entries(audit, q)
    BY <1>2 DEF Entries, On
  <2>2. AuditLog!Lapse(s)
    BY <1>2, <2>1 DEF AuditLog!Lapse
  <2> QED BY <2>2 DEF AuditLog!Next
<1>3. CASE AuditWritten(c) /\ racedAudit' = racedAudit
  <2> DEFINE row == AuditRow(c, draft[c])
  <2>1. /\ row \in Row /\ row.id = c /\ row.stream = s
        /\ row.seq = draft[c].seq /\ row.prev = draft[c].prev
        /\ \A r \in audit : r.id # c
        /\ audit' = audit \cup {row}
    BY <1>0, <1>3, WrittenRow
    DEF AuditWritten, LineageInv, Drafted, Doomed, Recording
  <2> HIDE DEF row
  <2>2. \A q \in Stream : Entries(audit, q)' = Entries(audit', q)
    BY DEF Entries, On
  <2>3. \A q \in Stream \ {s} : Entries(audit', q) = Entries(audit, q)
    BY <1>0, <2>1, RowAdded, SameStream
  <2>4. CASE s \in racedAudit
    BY <1>3, <2>2, <2>3, <2>4 DEF AuditLog!vars
  <2>5. CASE s \notin racedAudit
    <3>1. row.seq = Top(audit, s) + 1 /\ row.prev \in LastIds(audit, s)
      BY <1>3, <2>1, <2>5 DEF LineageInv, AuditOK, AuditWritten, Ready, Recording
    <3>2. PICK x : x = EntryOf(row)
      OBVIOUS
    <3>3. /\ x \in AuditLog!Entry
          /\ AuditLog!IsFirst(Entries(audit, s), x)
             \/ AuditLog!Follows(Entries(audit, s), x)
          /\ \A y \in Entries(audit, s) : y.id # x.id
          /\ Entries(audit', s) = Entries(audit, s) \cup {x}
      BY <1>0, <2>1, <3>1, <3>2, NextEntry, SameWords
    <3>4. AuditLog!Add(s, x)
      BY <1>3, <2>2, <2>3, <2>5, <3>3 DEF AuditLog!Add
    <3>5. x \in [q \in Stream |-> IF q \in racedAudit THEN {}
                                  ELSE Entries(audit, q)]'[s]
      BY <1>3, <2>2, <2>5, <3>3
    <3> QED BY <3>4, <3>5 DEF AuditLog!Next
  <2> QED BY <2>4, <2>5
<1> QED BY <1>0, <1>1, <1>2, <1>3 DEF AuditStep

(***************************************************************************)
(* The events of an aggregate and the audit entries of a trace are         *)
(* append-only lists, each until two writers have worked on it at once.    *)
(***************************************************************************)
THEOREM TablesAreLogs == Spec => ImplementsLogs
<1>1. Init => EventLog!Init /\ AuditLog!Init
  <2> SUFFICES ASSUME Init PROVE EventLog!Init /\ AuditLog!Init
    OBVIOUS
  <2>1. \A s \in Stream : Entries(events, s) = {} /\ Entries(audit, s) = {}
    BY DEF Init, EventInit, AuditInit, Entries, On
  <2> QED BY <2>1 DEF Init, EventLog!Init, AuditLog!Init
<1>2. LineageInv /\ [Next]_vars =>
        [EventLog!Next]_(EventLog!vars) /\ [AuditLog!Next]_(AuditLog!vars)
  <2> SUFFICES ASSUME LineageInv, [Next]_vars
               PROVE  [EventLog!Next]_(EventLog!vars) /\ [AuditLog!Next]_(AuditLog!vars)
    OBVIOUS
  <2>1. CASE \E c \in Call : CallStep(c) \/ CreateEventRaises(c) \/ Cancel(c)
    BY <2>1, CallsHaveEffect, EffectEventLog, EffectAuditLog
  <2>2. CASE UNCHANGED <<events, audit, racedEvents, racedAudit>>
    <3>1. \A s \in Stream : /\ Entries(events, s)' = Entries(events, s)
                            /\ Entries(audit, s)' = Entries(audit, s)
      BY <2>2 DEF Entries, On
    <3> QED BY <2>2, <3>1 DEF EventLog!vars, AuditLog!vars
  <2>3. CASE Sweeps
    BY <2>2, <2>3, SweepsReadOnly
  <2>4. CASE UNCHANGED vars
    BY <2>2, <2>4 DEF vars, eventVars
  <2> QED BY <2>1, <2>3, <2>4 DEF Next, Sweeps
<1> QED
  BY <1>1, <1>2, LineageInvariant, PTL
  DEF Spec, ImplementsLogs, EventLog!Spec, AuditLog!Spec

-----------------------------------------------------------------------------
(***************************************************************************)
(* Induction along a list. A set of numbers that is not empty has a least  *)
(* element, so a set that holds 1, and with each number the next, holds    *)
(* all numbers up to the length of the list.                               *)
(***************************************************************************)
LEMMA LeastNumber ==
  ASSUME NEW T, T \subseteq Nat, T # {}
  PROVE  \E k \in T : \A j \in T : k <= j
<1> DEFINE Less == {ss \in Nat \X Nat : ss[1] < ss[2]}
<1>1. IsWellFoundedOn(Less, Nat)
  BY NatLessThanWellFounded, Zenon DEF OpToRel
<1>2. PICK k \in T : \A j \in T : <<j, k>> \notin Less
  <2> HIDE DEF Less
  <2> QED BY <1>1, WFMin
<1>3. ASSUME NEW j \in T PROVE ~(j < k)
  <2>1. <<j, k>> \in Nat \X Nat
    OBVIOUS
  <2> QED BY <1>2, <2>1
<1> QED BY <1>3

(* What holds of 1 and goes on to the next number holds up to n. *)
LEMMA StepByStep ==
  ASSUME NEW n \in Nat, NEW S, n >= 1 => 1 \in S,
         \A i \in 2 .. n : i - 1 \in S => i \in S
  PROVE  1 .. n \subseteq S
<1> DEFINE T == {i \in 1 .. n : i \notin S}
<1> SUFFICES ASSUME T # {} PROVE FALSE
  OBVIOUS
<1>0. T \subseteq Nat
  OBVIOUS
<1>1. PICK k \in T : \A j \in T : k <= j
  <2> HIDE DEF T
  <2> QED BY <1>0, LeastNumber
<1>2. k \in 2 .. n
  BY <1>1
<1>3. k - 1 \in 1 .. n /\ k - 1 < k
  BY <1>2
<1>4. k - 1 \in S
  BY <1>1, <1>3
<1> QED BY <1>1, <1>2, <1>4

(* A list that holds every row of R once, ordered by number. *)
Lists(l, R) ==
  /\ Len(l) \in Nat /\ l \in [1 .. Len(l) -> R]
  /\ \A r \in R : \E i \in 1 .. Len(l) : l[i] = r
  /\ \A i, j \in 1 .. Len(l) : /\ l[i] = l[j] => i = j
                               /\ i <= j => l[i].seq <= l[j].seq

(* A function on 1 .. n is a list of that length. *)
LEMMA LengthIs ==
  ASSUME NEW R, NEW n \in Nat, NEW l \in [1 .. n -> R]
  PROVE  Len(l) = n
<1>1. l \in Seq(R)
  OBVIOUS
<1>2. Len(l) \in Nat /\ 1 .. Len(l) = 1 .. n
  BY <1>1
<1> QED BY <1>2

(* Neighbours in order: every two in order. *)
LEMMA SortedThroughout ==
  ASSUME NEW n \in Nat, NEW f \in [1 .. n -> Nat],
         \A i \in 1 .. n - 1 : f[i] <= f[i + 1]
  PROVE  \A i, j \in 1 .. n : i <= j => f[i] <= f[j]
<1> TAKE i \in 1 .. n
<1> DEFINE S == {j \in Nat : j \in 1 .. n /\ i <= j => f[i] <= f[j]}
<1>1. n >= 1 => 1 \in S
  <2>1. 1 \in 1 .. n /\ i <= 1 => i = 1
    OBVIOUS
  <2> QED BY <2>1
<1>2. ASSUME NEW j \in 2 .. n, j - 1 \in S PROVE j \in S
  <2>1. f[j - 1] <= f[j] /\ f[j - 1] \in Nat /\ f[j] \in Nat /\ f[i] \in Nat
    <3>1. j - 1 \in 1 .. n - 1 /\ (j - 1) + 1 = j
      OBVIOUS
    <3> QED BY <3>1
  <2>2. i <= j => i = j \/ i <= j - 1
    OBVIOUS
  <2> QED BY <1>2, <2>1, <2>2
<1>3. 1 .. n \subseteq S
  <2> HIDE DEF S
  <2> QED BY <1>1, <1>2, StepByStep
<1> QED BY <1>3

(***************************************************************************)
(* What the database returns for a stream is such a list: it has as many   *)
(* places as the stream has rows and no row twice, so it leaves none out.  *)
(***************************************************************************)
LEMMA ReadingLists ==
  ASSUME NEW rows \in SUBSET Row, NEW s, IsFiniteSet(On(rows, s)),
         NEW l \in Readings(rows, s)
  PROVE  Lists(l, On(rows, s))
<1> DEFINE R == On(rows, s)
           n == Cardinality(R)
<1>0. n \in Nat /\ R \subseteq Row
  BY FS_CardinalityType DEF On
<1>1. /\ l \in [1 .. n -> R]
      /\ \A i, j \in 1 .. n : i # j => l[i] # l[j]
      /\ \A i \in 1 .. Len(l) - 1 : l[i].seq <= l[i + 1].seq
  BY DEF Readings, SetToSeqs
<1> HIDE DEF n, R
<1>2. Len(l) = n
  BY <1>0, <1>1, LengthIs
<1>3. l \in Surjection(1 .. n, R)
  <2>1. l \in Injection(1 .. n, R)
    BY <1>1 DEF Injection, IsInjective
  <2>2. IsFiniteSet(1 .. n) /\ Cardinality(1 .. n) = n /\ IsFiniteSet(R)
    BY <1>0, FS_Interval DEF R
  <2> QED BY <2>1, <2>2, FS_Injection DEF n
<1>4. \A i, j \in 1 .. n : i <= j => l[i].seq <= l[j].seq
  <2> DEFINE f == [i \in 1 .. n |-> l[i].seq]
  <2>1. f \in [1 .. n -> Nat]
    BY <1>0, <1>1 DEF Row
  <2>2. \A i \in 1 .. n - 1 : f[i] <= f[i + 1]
    BY <1>0, <1>1, <1>2
  <2>3. \A i, j \in 1 .. n : i <= j => f[i] <= f[j]
    <3> HIDE DEF f
    <3> QED BY <1>0, <2>1, <2>2, SortedThroughout
  <2> QED BY <2>3
<1> QED BY <1>0, <1>1, <1>2, <1>3, <1>4 DEF Lists, Surjection, R

(* What holds of the rows of any stream, raced on or not. *)
Sound(R) ==
  /\ IsFiniteSet(R)
  /\ \A r, q \in R : r.id = q.id => r = q
  /\ \A r \in R : r.prev # Nothing => \E q \in R : q.id = r.prev
  /\ R # {} => \E r \in R : r.prev = Nothing

(* What holds of the rows of a stream that nothing raced on. *)
Linked(R) ==
  /\ \A r, q \in R : r.seq = q.seq => r = q
  /\ \A r \in R : \/ r.seq = 1 /\ r.prev = Nothing
                  \/ \E q \in R : q.seq + 1 = r.seq /\ q.id = r.prev

(***************************************************************************)
(* A listing whose links are all right is a chain. It is enough to look    *)
(* at the links after the first row: some row has no predecessor, and      *)
(* that can only be the first one.                                         *)
(***************************************************************************)
LEMMA ChainCheck ==
  ASSUME NEW R \in SUBSET Row, Sound(R), NEW l, Lists(l, R), VerifyChain(l)
  PROVE  IsChain(R)
<1> DEFINE n == Len(l)
<1>1. /\ n \in Nat /\ l \in [1 .. n -> R]
      /\ \A r \in R : \E i \in 1 .. n : l[i] = r
      /\ \A i, j \in 1 .. n : l[i] = l[j] => i = j
  BY DEF Lists
<1>2. \A i \in 2 .. n : l[i].prev = l[i - 1].id
  BY DEF VerifyChain
<1> HIDE DEF n
<1>3. \A r \in R : r.id # Nothing
  BY LineageAssumption DEF Row
<1>4. \A i \in 2 .. n : i - 1 \in 1 .. n /\ l[i - 1] \in R /\ l[i].prev # Nothing
  <2> TAKE i \in 2 .. n
  <2>1. i - 1 \in 1 .. n
    BY <1>1
  <2>2. l[i - 1] \in R /\ l[i].prev = l[i - 1].id
    BY <1>1, <1>2, <2>1
  <2> QED BY <1>3, <2>1, <2>2
<1>5. R # {} => l[1].prev = Nothing
  BY <1>1, <1>4 DEF Sound
<1>6. ASSUME NEW i \in 1 .. n, NEW j \in 1 .. n, l[i].prev = l[j].prev
      PROVE  i = j
  <2>0. R # {}
    BY <1>1
  <2>1. CASE i \in 2 .. n /\ j \in 2 .. n
    <3>1. l[i - 1].id = l[j - 1].id /\ l[i - 1] \in R /\ l[j - 1] \in R
      BY <1>2, <1>4, <1>6, <2>1
    <3>2. l[i - 1] = l[j - 1]
      BY <3>1 DEF Sound
    <3>3. i - 1 = j - 1
      BY <1>1, <1>4, <2>1, <3>2
    <3> QED BY <3>3
  <2>2. (i = 1 \/ i \in 2 .. n) /\ (j = 1 \/ j \in 2 .. n)
    BY <1>1
  <2> QED BY <1>4, <1>5, <1>6, <2>0, <2>1, <2>2
<1> QED BY <1>1, <1>6 DEF IsChain, Sound

(***************************************************************************)
(* Without races the links are right and the numbers are those of the      *)
(* places, because the row before an entry is in the list before it, with  *)
(* one number less.                                                        *)
(***************************************************************************)
LEMMA LinkedPasses ==
  ASSUME NEW R \in SUBSET Row, Linked(R), NEW l, Lists(l, R)
  PROVE  VerifyChain(l) /\ \A i \in 1 .. Len(l) : l[i].seq = i
<1> DEFINE n == Len(l)
           S == {i \in Nat : i \in 1 .. n /\ l[i].seq = i}
<1>1. /\ n \in Nat /\ l \in [1 .. n -> R]
      /\ \A r \in R : \E i \in 1 .. n : l[i] = r
      /\ \A i, j \in 1 .. n : i <= j => l[i].seq <= l[j].seq
  BY DEF Lists
<1> HIDE DEF n
<1>2. \A i \in 1 .. n : l[i] \in R /\ l[i].seq \in Nat \ {0}
  BY <1>1 DEF Row
(* The row before an entry stands before it in the list. *)
<1>3. ASSUME NEW i \in 1 .. n, l[i].seq # 1
      PROVE  \E j \in 1 .. n : j < i /\ l[j].seq + 1 = l[i].seq /\ l[j].id = l[i].prev
  <2>1. PICK q \in R : q.seq + 1 = l[i].seq /\ q.id = l[i].prev
    BY <1>2, <1>3 DEF Linked
  <2>2. PICK j \in 1 .. n : l[j] = q
    BY <1>1
  <2>3. ~(i <= j)
    BY <1>1, <1>2, <2>1, <2>2
  <2> QED BY <1>1, <2>1, <2>2, <2>3
<1>4. n >= 1 => 1 \in S
  <2> SUFFICES ASSUME n >= 1 PROVE l[1].seq = 1
    BY <1>1
  <2>1. 1 \in 1 .. n
    BY <1>1
  <2> QED BY <1>3, <2>1
<1>5. ASSUME NEW i \in 2 .. n, i - 1 \in S
      PROVE  i \in S /\ l[i].prev = l[i - 1].id
  <2>0. i \in 1 .. n /\ i - 1 \in 1 .. n /\ l[i - 1].seq = i - 1
    BY <1>1, <1>5
  <2>1. l[i - 1].seq <= l[i].seq
    BY <1>1, <2>0
  <2>2. l[i].seq # i - 1
    <3> SUFFICES ASSUME l[i].seq = i - 1 PROVE FALSE
      OBVIOUS
    <3>1. l[i] = l[i - 1]
      BY <1>2, <2>0 DEF Linked
    <3>2. i = i - 1
      BY <2>0, <3>1 DEF Lists, n
    <3> QED BY <3>2
  <2>3. l[i].seq \in Nat /\ l[i].seq # 1
    BY <1>2, <2>0, <2>1, <2>2
  <2>4. PICK j \in 1 .. n : j < i /\ l[j].seq + 1 = l[i].seq /\ l[j].id = l[i].prev
    BY <1>3, <2>0, <2>3
  <2>5. l[j].seq <= l[i - 1].seq
    BY <1>1, <2>0, <2>4
  <2>6. l[i].seq = i /\ l[j].seq = i - 1
    BY <1>2, <2>0, <2>1, <2>2, <2>3, <2>4, <2>5
  <2>7. l[j] = l[i - 1]
    BY <1>2, <2>0, <2>6 DEF Linked
  <2> QED BY <2>0, <2>4, <2>6, <2>7
<1>6. 1 .. n \subseteq S
  <2> HIDE DEF S
  <2> QED BY <1>1, <1>4, <1>5, StepByStep
<1>7. \A i \in 2 .. n : i - 1 \in 1 .. n
  BY <1>1
<1> QED BY <1>5, <1>6, <1>7 DEF VerifyChain, n

(* A row more keeps a stream sound; the next row keeps it linked. *)
LEMMA SoundKept ==
  ASSUME NEW R, Sound(R), NEW row, \A r \in R : r.id # row.id,
         row.prev # Nothing => \E q \in R : q.id = row.prev
  PROVE  Sound(R \cup {row})
<1>1. IsFiniteSet(R \cup {row})
  BY FS_AddElement DEF Sound
<1>2. \E r \in R \cup {row} : r.prev = Nothing
  BY DEF Sound
<1> QED BY <1>1, <1>2 DEF Sound

LEMMA LinkedKept ==
  ASSUME NEW rows \in SUBSET Row, NEW s, HasTop(rows, s),
         Linked(On(rows, s)), NEW row,
         row.seq = Top(rows, s) + 1, row.prev \in LastIds(rows, s)
  PROVE  Linked(On(rows, s) \cup {row})
<1> DEFINE R == On(rows, s)
<1>0. PICK p \in LastIds(rows, s) : p = row.prev
  OBVIOUS
<1>1. /\ Top(rows, s) \in Nat
      /\ \/ R = {} /\ p = Nothing /\ Top(rows, s) = 0
         \/ \E r \in R : r.id = p /\ r.seq = Top(rows, s)
  BY LastOf
<1>2. \A r \in R : r.seq \in Nat /\ r.seq <= Top(rows, s)
  BY TopIs, NumbersOf
<1>3. Linked(R)
  OBVIOUS
<1> HIDE DEF R
<1>4. \A r \in R : r.seq # row.seq
  BY <1>1, <1>2
<1>5. \/ row.seq = 1 /\ row.prev = Nothing
      \/ \E q \in R : q.seq + 1 = row.seq /\ q.id = row.prev
  BY <1>0, <1>1
<1>6. Linked(R \cup {row})
  BY <1>3, <1>4, <1>5 DEF Linked
<1> QED BY <1>6 DEF R

-----------------------------------------------------------------------------
(***************************************************************************)
(* The invariant of the chains: every stream is sound and, if nothing      *)
(* raced on it, linked. An insert keeps it because the predecessor that    *)
(* the call has read is a row of the stream (rows are never deleted), and  *)
(* because in a stream without races what was read is still the last row   *)
(* (EventOK and AuditOK).                                                  *)
(***************************************************************************)
DraftReal(c) ==
  /\ pc[c] = "insert_event" /\ draft[c].prev # Nothing =>
       \E q \in On(events, StreamOf[c]) : q.id = draft[c].prev
  /\ pc[c] = "insert_audit" /\ draft[c].prev # Nothing =>
       \E q \in On(audit, StreamOf[c]) : q.id = draft[c].prev

StreamOK(s) ==
  /\ Sound(On(events, s)) /\ Sound(On(audit, s))
  /\ s \notin racedEvents => Linked(On(events, s))
  /\ s \notin racedAudit => Linked(On(audit, s))

ChainInv ==
  /\ \A s \in Stream : StreamOK(s)
  /\ \A c \in Call : DraftReal(c)

(***************************************************************************)
(* The invariant of the sweep. A cached list was a listing of events that  *)
(* are all still there, and a verdict is what verify_integrity says of     *)
(* the list that is still cached.                                          *)
(***************************************************************************)
CacheOK(s) ==
  cache[s] # Nothing =>
    /\ \E R \in SUBSET On(events, s) : Sound(R) /\ Lists(cache[s], R)
    /\ s \notin racedEvents =>
         /\ VerifyChain(cache[s])
         /\ \A i \in 1 .. Len(cache[s]) : cache[s][i].seq = i
    /\ sweep.results[s] # Nothing => sweep.results[s] = VerifyIntegrity(cache[s])

SweepInv ==
  /\ cache = [s \in Stream |-> cache[s]]
  /\ \A s \in Stream : CacheOK(s)

(* Empty tables and an empty cache. *)
LEMMA InitChain == Init => ChainInv /\ SweepInv
<1> SUFFICES ASSUME Init PROVE ChainInv /\ SweepInv
  OBVIOUS
<1>1. Sound({}) /\ Linked({})
  BY FS_EmptySet DEF Sound, Linked
<1>2. \A s \in Stream : On(events, s) = {} /\ On(audit, s) = {}
  BY DEF Init, EventInit, AuditInit, On
<1>3. \A s \in Stream : StreamOK(s)
  BY <1>1, <1>2 DEF StreamOK
<1>4. \A c \in Call : DraftReal(c)
  BY DEF Init, DraftReal
<1>5. SweepInv
  <2>1. \A s \in Stream : cache[s] = Nothing
    BY DEF Init, EventInit
  <2> QED BY <2>1 DEF Init, EventInit, SweepInv, CacheOK
<1> QED BY <1>3, <1>4, <1>5 DEF ChainInv

(* A step of a call keeps every stream sound, and linked unless raced on. *)
LEMMA EffectStreams ==
  ASSUME LineageInv, ChainInv, NEW c \in Call, Effect(c), NEW s \in Stream
  PROVE  StreamOK(s)'
<1>0. /\ LineageTypeOK /\ EventStep(c) /\ AuditStep(c) /\ StreamOK(s)
      /\ events \in SUBSET Row /\ audit \in SUBSET Row
      /\ HasTop(events, s) /\ HasTop(audit, s)
      /\ racedEvents \subseteq racedEvents' /\ racedAudit \subseteq racedAudit'
  BY DEF LineageInv, LineageTypeOK, ChainInv, Effect, EventStep, AuditStep
<1>1. /\ Sound(On(events', s))
      /\ s \notin racedEvents' => Linked(On(events', s))
  <2>1. CASE On(events', s) = On(events, s)
    BY <1>0, <2>1 DEF StreamOK
  <2>2. CASE EventWritten(c)
    <3> DEFINE row == EventRow(c, draft[c])
    <3>1. /\ row \in Row /\ row.id = c /\ row.stream = StreamOf[c]
          /\ row.seq = draft[c].seq /\ row.prev = draft[c].prev
          /\ \A r \in events : r.id # c
          /\ events' = events \cup {row}
      BY <1>0, <2>2, WrittenRow DEF EventWritten, LineageInv, Drafted, Doomed
    <3>2. row.prev # Nothing => \E q \in On(events, StreamOf[c]) : q.id = row.prev
      BY <2>2, <3>1 DEF ChainInv, DraftReal, EventWritten
    <3>3. StreamOf[c] \notin racedEvents =>
            /\ row.seq = Top(events, StreamOf[c]) + 1
            /\ row.prev \in LastIds(events, StreamOf[c])
      BY <2>2, <3>1 DEF LineageInv, EventOK, EventWritten, Ready
    <3> HIDE DEF row
    <3>4. CASE StreamOf[c] # s
      <4>1. On(events', s) = On(events, s)
        BY <1>0, <3>1, <3>4, RowAdded
      <4> QED BY <1>0, <4>1 DEF StreamOK
    <3>5. CASE StreamOf[c] = s
      <4>0. row \in Row /\ row.stream = s /\ events' = events \cup {row}
        BY <3>1, <3>5
      <4>1. On(events', s) = On(events, s) \cup {row}
        BY <1>0, <4>0, RowAdded
      <4>2. \A r \in On(events, s) : r.id # row.id
        BY <3>1 DEF On
      <4>3. Sound(On(events', s))
        BY <1>0, <3>2, <3>5, <4>1, <4>2, SoundKept DEF StreamOK
      <4>4. s \notin racedEvents => Linked(On(events', s))
        BY <1>0, <3>3, <3>5, <4>1, LinkedKept DEF StreamOK
      <4> QED BY <1>0, <4>3, <4>4
    <3> QED BY <3>4, <3>5
  <2> QED BY <1>0, <2>1, <2>2 DEF EventStep
<1>2. /\ Sound(On(audit', s))
      /\ s \notin racedAudit' => Linked(On(audit', s))
  <2>1. CASE On(audit', s) = On(audit, s)
    BY <1>0, <2>1 DEF StreamOK
  <2>2. CASE AuditWritten(c)
    <3> DEFINE row == AuditRow(c, draft[c])
    <3>1. /\ row \in Row /\ row.id = c /\ row.stream = StreamOf[c]
          /\ row.seq = draft[c].seq /\ row.prev = draft[c].prev
          /\ \A r \in audit : r.id # c
          /\ audit' = audit \cup {row}
      BY <1>0, <2>2, WrittenRow
      DEF AuditWritten, LineageInv, Drafted, Doomed, Recording
    <3>2. row.prev # Nothing => \E q \in On(audit, StreamOf[c]) : q.id = row.prev
      BY <2>2, <3>1 DEF ChainInv, DraftReal, AuditWritten
    <3>3. StreamOf[c] \notin racedAudit =>
            /\ row.seq = Top(audit, StreamOf[c]) + 1
            /\ row.prev \in LastIds(audit, StreamOf[c])
      BY <2>2, <3>1 DEF LineageInv, AuditOK, AuditWritten, Ready, Recording
    <3> HIDE DEF row
    <3>4. CASE StreamOf[c] # s
      <4>1. On(audit', s) = On(audit, s)
        BY <1>0, <3>1, <3>4, RowAdded
      <4> QED BY <1>0, <4>1 DEF StreamOK
    <3>5. CASE StreamOf[c] = s
      <4>0. row \in Row /\ row.stream = s /\ audit' = audit \cup {row}
        BY <3>1, <3>5
      <4>1. On(audit', s) = On(audit, s) \cup {row}
        BY <1>0, <4>0, RowAdded
      <4>2. \A r \in On(audit, s) : r.id # row.id
        BY <3>1 DEF On
      <4>3. Sound(On(audit', s))
        BY <1>0, <3>2, <3>5, <4>1, <4>2, SoundKept DEF StreamOK
      <4>4. s \notin racedAudit => Linked(On(audit', s))
        BY <1>0, <3>3, <3>5, <4>1, LinkedKept DEF StreamOK
      <4> QED BY <1>0, <4>3, <4>4
    <3> QED BY <3>4, <3>5
  <2> QED BY <1>0, <2>1, <2>2 DEF AuditStep
<1> QED BY <1>1, <1>2 DEF StreamOK, On

(* The predecessor a call has read stays in the stream. *)
LEMMA EffectDrafts ==
  ASSUME LineageInv, ChainInv, NEW c \in Call, Effect(c), NEW d \in Call
  PROVE  DraftReal(d)'
<1>0. /\ LineageTypeOK /\ OthersStay(c) /\ EventStep(c) /\ AuditStep(c)
      /\ DraftReal(d) /\ StreamOf[d] \in Stream
      /\ events \in SUBSET Row /\ audit \in SUBSET Row
  BY CallFields DEF LineageInv, LineageTypeOK, ChainInv, Effect
<1>1. /\ On(events, StreamOf[d]) \subseteq On(events, StreamOf[d])'
      /\ On(audit, StreamOf[d]) \subseteq On(audit, StreamOf[d])'
  BY <1>0 DEF EventStep, AuditStep, EventWritten, AuditWritten, On
(* What is read is a row that is there. *)
<1>2. ASSUME NEW rows \in SUBSET Row, HasTop(rows, StreamOf[d]),
             NEW p \in LastIds(rows, StreamOf[d]), p # Nothing
      PROVE  \E q \in On(rows, StreamOf[d]) : q.id = p
  BY <1>2, LastOf
<1>3. CASE d # c
  BY <1>0, <1>1, <1>3, TheOthers DEF DraftReal
<1>4. CASE d = c
  <2>1. ASSUME pc'[c] = "insert_event", draft'[c].prev # Nothing
        PROVE  \E q \in On(events, StreamOf[c])' : q.id = draft'[c].prev
    <3>1. CASE pc[c] = "insert_event" /\ draft'[c] = draft[c]
      BY <1>0, <1>1, <1>4, <2>1, <3>1 DEF DraftReal
    <3>2. CASE events' = events /\ Ready(events, c)'
      <4>1. draft'[c].prev \in LastIds(events, StreamOf[c])
        BY <3>2 DEF Ready, LastIds, Top, Numbers, On
      <4>2. \E q \in On(events, StreamOf[c]) : q.id = draft'[c].prev
        BY <1>0, <1>2, <1>4, <2>1, <4>1 DEF LineageInv
      <4> QED BY <1>1, <1>4, <4>2
    <3> QED BY <1>0, <2>1, <3>1, <3>2 DEF EventStep
  <2>2. ASSUME pc'[c] = "insert_audit", draft'[c].prev # Nothing
        PROVE  \E q \in On(audit, StreamOf[c])' : q.id = draft'[c].prev
    <3>1. CASE pc'[c] = pc[c] /\ draft'[c] = draft[c]
      BY <1>0, <1>1, <1>4, <2>2, <3>1 DEF DraftReal
    <3>2. CASE draft'[c].prev \in LastIds(audit, StreamOf[c])
      <4>1. \E q \in On(audit, StreamOf[c]) : q.id = draft'[c].prev
        BY <1>0, <1>2, <1>4, <2>2, <3>2 DEF LineageInv
      <4> QED BY <1>1, <1>4, <4>1
    <3> QED BY <1>0, <2>2, <3>1, <3>2 DEF AuditStep, Recording
  <2> QED BY <1>4, <2>1, <2>2 DEF DraftReal
<1> QED BY <1>3, <1>4

(* A cached list does not mind what calls write. *)
LEMMA EffectCache ==
  ASSUME LineageInv, SweepInv, NEW c \in Call, Effect(c), cache' = cache
  PROVE  SweepInv'
<1> SUFFICES ASSUME NEW s \in Stream, cache[s] # Nothing PROVE CacheOK(s)'
  BY DEF SweepInv, CacheOK
<1>0. /\ CacheOK(s) /\ EventStep(c) /\ sweep' = sweep
      /\ racedEvents \subseteq racedEvents'
  BY DEF SweepInv, Effect, OthersStay, EventStep
<1>1. On(events, s) \subseteq On(events, s)'
  BY <1>0 DEF EventStep, EventWritten, On
<1>2. PICK R \in SUBSET On(events, s) : Sound(R) /\ Lists(cache[s], R)
  BY <1>0 DEF CacheOK
<1>3. \E Q \in SUBSET On(events, s)' : Sound(Q) /\ Lists(cache'[s], Q)
  BY <1>1, <1>2
<1>4. s \notin racedEvents' =>
        /\ VerifyChain(cache'[s])
        /\ \A i \in 1 .. Len(cache'[s]) : cache'[s][i].seq = i
  BY <1>0 DEF CacheOK
<1> QED BY <1>0, <1>3, <1>4 DEF CacheOK

(* What the sweep reads of an aggregate, and its verdict. *)
LEMMA VerifyCache ==
  ASSUME LineageInv, ChainInv, SweepInv, NEW s \in Stream, SweepVerify(s)
  PROVE  SweepInv'
<1>0. /\ LineageTypeOK /\ events \in SUBSET Row /\ StreamOK(s) /\ CacheOK(s)
      /\ UNCHANGED <<events, racedEvents>>
  BY DEF LineageInv, LineageTypeOK, ChainInv, SweepInv, SweepVerify
<1>1. PICK l \in ListOf(s) :
        /\ cache' = [cache EXCEPT ![s] = l]
        /\ sweep' = IF VerifyIntegrity(l) = "raises" THEN Asleep
                    ELSE [sweep EXCEPT !.todo = @ \ {s},
                                       !.results[s] = VerifyIntegrity(l)]
  BY DEF SweepVerify
(* A list from the table, and one that was cached. *)
<1>2. /\ \E R \in SUBSET On(events, s) : Sound(R) /\ Lists(l, R)
      /\ s \notin racedEvents =>
           VerifyChain(l) /\ \A i \in 1 .. Len(l) : l[i].seq = i
  <2>1. CASE cache[s] # Nothing
    BY <1>0, <2>1 DEF ListOf, CacheOK
  <2>2. CASE cache[s] = Nothing
    <3>1. l \in Readings(events, s)
      BY <2>2 DEF ListOf
    <3>2. Sound(On(events, s)) /\ On(events, s) \in SUBSET Row
      BY <1>0 DEF StreamOK, On
    <3>3. Lists(l, On(events, s))
      BY <1>0, <3>1, <3>2, ReadingLists DEF Sound
    <3> QED BY <1>0, <3>2, <3>3, LinkedPasses DEF StreamOK
  <2> QED BY <2>1, <2>2
(* A verdict is of the list just read, or was of the one still cached. *)
<1>3. /\ sweep'.results[s] # Nothing => sweep'.results[s] = VerifyIntegrity(l)
      /\ \A q \in Stream \ {s} : sweep'.results[q] \in {Nothing, sweep.results[q]}
  <2>1. sweep \in SweepState
    BY <1>0 DEF LineageTypeOK
  <2>2. CASE sweep' = Asleep
    BY <2>2 DEF Asleep
  <2>3. CASE sweep' = [sweep EXCEPT !.todo = @ \ {s},
                                   !.results[s] = VerifyIntegrity(l)]
    BY <2>1, <2>3 DEF SweepState
  <2> QED BY <1>1, <2>2, <2>3
<1>4. ASSUME NEW q \in Stream, cache'[q] # Nothing PROVE CacheOK(q)'
  <2>0. cache = [x \in Stream |-> cache[x]]
    BY DEF SweepInv
  <2>1. cache'[s] = l /\ \A x \in Stream : x # s => cache'[x] = cache[x]
    BY <1>1, <2>0
  <2>2. CASE q # s
    <3>1. CacheOK(q) /\ cache'[q] = cache[q]
      BY <2>1, <2>2 DEF SweepInv
    <3> QED BY <1>0, <1>3, <1>4, <2>2, <3>1 DEF CacheOK, On
  <2>3. CASE q = s
    BY <1>0, <1>2, <1>3, <1>4, <2>1, <2>3 DEF CacheOK, On
  <2> QED BY <2>2, <2>3
<1>5. cache' = [x \in Stream |-> cache'[x]]
  BY <1>1 DEF SweepInv
<1> QED BY <1>4, <1>5 DEF SweepInv, CacheOK

(* The other steps of the sweep forget verdicts or keep them. *)
LEMMA SweepsCache ==
  ASSUME LineageInv, ChainInv, SweepInv, Sweeps
  PROVE  SweepInv'
<1>0. UNCHANGED <<events, racedEvents>>
  BY SweepsReadOnly
<1>1. CASE \E s \in Stream : SweepVerify(s)
  BY <1>1, VerifyCache
<1>2. CASE sweep'.results \in {[s \in Stream |-> Nothing], sweep.results} /\ cache' = cache
  <2> SUFFICES ASSUME NEW s \in Stream, cache[s] # Nothing PROVE CacheOK(s)'
    BY <1>2 DEF SweepInv, CacheOK
  <2>1. sweep'.results[s] \in {Nothing, sweep.results[s]} /\ CacheOK(s)
    BY <1>2 DEF SweepInv
  <2> QED BY <1>0, <1>2, <2>1 DEF CacheOK, On
<1>3. CASE SweepStart \/ SweepSave \/ SweepRaises
  <2>1. cache' = cache
    BY <1>3 DEF SweepStart, SweepSave, SweepRaises, eventVars
  <2>2. Asleep.results = [s \in Stream |-> Nothing]
    BY DEF Asleep
  <2>3. sweep'.results = Asleep.results
    <3>1. CASE SweepStart
      BY <3>1 DEF SweepStart, Asleep
    <3>2. CASE SweepSave \/ SweepRaises
      BY <3>2 DEF SweepSave, SweepRaises
    <3> QED BY <1>3, <3>1, <3>2
  <2> QED BY <1>2, <2>1, <2>2, <2>3
<1>4. CASE SweeperRestarts
  BY <1>4 DEF SweeperRestarts, SweepInv, CacheOK
<1> QED BY <1>1, <1>3, <1>4 DEF Sweeps, SweepStep

(* Every step keeps both invariants. *)
LEMMA NextChain ==
  ASSUME LineageInv, ChainInv, SweepInv, [Next]_vars
  PROVE  ChainInv' /\ SweepInv'
<1>1. ASSUME UNCHANGED <<events, audit, pc, draft, racedEvents, racedAudit>>
      PROVE  ChainInv'
  <2>1. \A s \in Stream : StreamOK(s)'
    BY <1>1 DEF ChainInv, StreamOK, On
  <2>2. \A c \in Call : DraftReal(c)'
    BY <1>1 DEF ChainInv, DraftReal, On
  <2> QED BY <2>1, <2>2 DEF ChainInv
<1>2. CASE \E c \in Call : CallStep(c) \/ CreateEventRaises(c) \/ Cancel(c)
  <2>1. PICK c \in Call : CallStep(c) \/ CreateEventRaises(c) \/ Cancel(c)
    BY <1>2
  <2>2. Effect(c)
    BY <2>1, CallsHaveEffect
  <2>3. ChainInv'
    BY <2>2, EffectStreams, EffectDrafts DEF ChainInv
  <2>4. cache' = cache
    BY <2>1 DEF CallStep, CreateEvent, CreateEventRaises, TakeLock,
       ReadLastEvent, InsertEvent, InsertEventAgain, AppendRaises, ReadSequence,
       ReadLastHash, InsertAudit, InsertAuditAgain, RecordRaises, Cancel, eventVars
  <2> QED BY <2>2, <2>3, <2>4, EffectCache
<1>3. CASE Sweeps
  <2>1. ChainInv'
    BY <1>1, <1>3, SweepsReadOnly DEF callVars
  <2> QED BY <1>3, <2>1, SweepsCache
<1>4. CASE UNCHANGED vars
  <2>1. ChainInv'
    BY <1>1, <1>4 DEF vars, callVars, eventVars
  <2>2. SweepInv'
    BY <1>4 DEF vars, eventVars, SweepInv, CacheOK, On
  <2> QED BY <2>1, <2>2
<1> QED BY <1>2, <1>3, <1>4 DEF Next, Sweeps

(* So they hold in every state. *)
LEMMA ChainInvariant == Spec => [](LineageInv /\ ChainInv /\ SweepInv)
  BY InitInv, NextInv, InitChain, NextChain, PTL DEF Spec

-----------------------------------------------------------------------------
(***************************************************************************)
(* verify_chain passes only what is one unbroken chain, though it never    *)
(* looks at the first hash_prev, and in whatever order rows with one       *)
(* number are read; and it raises no alarm about a trace without races.    *)
(***************************************************************************)
THEOREM ChainChecksAreSound == Spec => []VerifyChainIsSound
<1>1. LineageInv /\ ChainInv => VerifyChainIsSound
  <2> SUFFICES ASSUME LineageInv, ChainInv, NEW s \in Stream,
                      NEW l \in Readings(audit, s)
               PROVE  /\ VerifyChain(l) => IsChain(On(audit, s))
                      /\ s \notin racedAudit => VerifyChain(l)
    BY DEF VerifyChainIsSound
  <2>1. /\ audit \in SUBSET Row /\ StreamOK(s)
        /\ On(audit, s) \in SUBSET Row
    BY DEF LineageInv, LineageTypeOK, ChainInv, On
  <2>2. Lists(l, On(audit, s))
    BY <2>1, ReadingLists DEF StreamOK, Sound
  <2> QED BY <2>1, <2>2, ChainCheck, LinkedPasses DEF StreamOK
<1> QED BY <1>1, ChainInvariant, PTL

(* verify_integrity passes what verify_chain does, if no row was altered. *)
LEMMA ValidMeansLinked ==
  ASSUME NEW l
  PROVE  /\ VerifyChain(l) /\ Altered(l) = {} => VerifyIntegrity(l) = "valid"
         /\ VerifyIntegrity(l) = "valid" => VerifyChain(l) /\ Altered(l) = {}
<1> DEFINE letter == \E i \in Unlinked(l) : l[i].prev = Nothing
           none == Unlinked(l) \cup Altered(l) = {}
<1>1. VerifyIntegrity(l) =
        CASE letter -> "raises" [] none -> "valid" [] OTHER -> "broken"
  BY DEF VerifyIntegrity
<1>2. letter => ~none
  OBVIOUS
<1>3. none <=> VerifyChain(l) /\ Altered(l) = {}
  BY DEF VerifyChain, Unlinked
<1> HIDE DEF letter, none
<1> QED BY <1>1, <1>2, <1>3

(***************************************************************************)
(* The sweep calls valid only what is a chain of rows as they were hashed, *)
(* its alarms come from races or from events whose parent was made up on   *)
(* insertion, and of an aggregate without races the list it checks is the  *)
(* beginning of its events, however old the cached list is.                *)
(***************************************************************************)
THEOREM SweepsAreSound == Spec => []SweepIsSound
<1>1. LineageInv /\ ChainInv /\ SweepInv => SweepIsSound
  <2> SUFFICES ASSUME LineageInv, SweepInv, NEW s \in Stream, cache[s] # Nothing
               PROVE  /\ sweep.results[s] = "valid" =>
                           IsChain(ToSet(cache[s])) /\ Altered(cache[s]) = {}
                      /\ sweep.results[s] = "broken" =>
                           s \in racedEvents \/ Altered(cache[s]) # {}
                      /\ s \notin racedEvents =>
                           \A i \in DOMAIN cache[s] :
                             cache[s][i] \in events /\ cache[s][i].seq = i
    BY DEF SweepIsSound
  <2>0. CacheOK(s) /\ events \in SUBSET Row
    BY DEF SweepInv, LineageInv, LineageTypeOK
  <2>1. PICK R \in SUBSET On(events, s) : Sound(R) /\ Lists(cache[s], R)
    BY <2>0 DEF CacheOK
  <2>2. R \in SUBSET Row /\ R \subseteq events
    BY <2>0 DEF On
  <2>3. /\ DOMAIN cache[s] = 1 .. Len(cache[s])
        /\ \A i \in DOMAIN cache[s] : cache[s][i] \in R
        /\ ToSet(cache[s]) = R
    BY <2>1 DEF Lists, ToSet
  <2>4. ASSUME sweep.results[s] \in Verdict
        PROVE  sweep.results[s] = VerifyIntegrity(cache[s])
    BY <2>0, <2>4, NothingAssumption DEF CacheOK
  <2>5. sweep.results[s] = "valid" =>
          IsChain(ToSet(cache[s])) /\ Altered(cache[s]) = {}
    BY <2>1, <2>2, <2>3, <2>4, ValidMeansLinked, ChainCheck DEF Verdict
  <2>6. sweep.results[s] = "broken" => s \in racedEvents \/ Altered(cache[s]) # {}
    BY <2>0, <2>4, ValidMeansLinked DEF Verdict, CacheOK
  <2>7. s \notin racedEvents =>
          \A i \in DOMAIN cache[s] : cache[s][i] \in events /\ cache[s][i].seq = i
    BY <2>0, <2>2, <2>3 DEF CacheOK
  <2> QED BY <2>5, <2>6, <2>7
<1> QED BY <1>1, ChainInvariant, PTL

-----------------------------------------------------------------------------
(***************************************************************************)
(* The lock of a client is held only by a call of that client that stands  *)
(* between the read of the last event and the end of its insert, however   *)
(* appends fail or are cancelled: no lock is left behind, and a call that  *)
(* waits for one waits for a call which needs none.                        *)
(***************************************************************************)
LocksComeBack ==
  \A k \in Client : lock[k] # Nothing =>
    ClientOf[lock[k]] = k /\ Holding(lock[k])

LEMMA CallLocks ==
  ASSUME LineageTypeOK, LocksComeBack, NEW c \in Call,
         CallStep(c) \/ CreateEventRaises(c) \/ Cancel(c)
  PROVE  LocksComeBack'
<1>0. /\ pc \in [Call -> Stage] /\ lock \in [Client -> Call \cup {Nothing}]
      /\ c # Nothing /\ ClientOf[c] \in Client
  BY CallFields DEF LineageTypeOK
<1>1. \A d \in Call \ {c} : Holding(d)' <=> Holding(d)
  BY <1>0
  DEF CallStep, CreateEvent, TakeLock, ReadLastEvent, InsertEvent,
      InsertEventAgain, AppendRaises, ReadSequence, ReadLastHash, InsertAudit,
      InsertAuditAgain, RecordRaises, CreateEventRaises, Cancel, Goes, Holding
<1>2. \/ TakeLock(c)
      \/ lock' = Released(c)
      \/ lock' = lock /\ (Holding(c) => Holding(c)')
  BY <1>0
  DEF CallStep, CreateEvent, TakeLock, ReadLastEvent, InsertEvent,
      InsertEventAgain, AppendRaises, ReadSequence, ReadLastHash, InsertAudit,
      InsertAuditAgain, RecordRaises, CreateEventRaises, Cancel, Goes, Holding,
      eventVars
<1>3. CASE TakeLock(c)
  <2>1. /\ lock' = [lock EXCEPT ![ClientOf[c]] = c] /\ Holding(c)'
    BY <1>0, <1>3 DEF TakeLock, Acquire, Goes, Holding
  <2> QED BY <1>0, <1>1, <2>1 DEF LocksComeBack
<1>4. CASE lock' = Released(c)
  <2>1. \A k \in Client : lock'[k] = IF lock[k] = c THEN Nothing ELSE lock[k]
    BY <1>4 DEF Released
  <2> QED BY <1>0, <1>1, <2>1 DEF LocksComeBack
<1>5. CASE lock' = lock /\ (Holding(c) => Holding(c)')
  BY <1>0, <1>1, <1>5 DEF LocksComeBack
<1> QED BY <1>2, <1>3, <1>4, <1>5

(***************************************************************************)
(* The safety half of CallEnds.                                            *)
(***************************************************************************)
THEOREM NoLockIsLeftBehind == Spec => []LocksComeBack
<1>1. Init => LocksComeBack
  BY DEF Init, EventInit, LocksComeBack
<1>2. LineageInv /\ LocksComeBack /\ [Next]_vars => LocksComeBack'
  <2> SUFFICES ASSUME LineageInv, LocksComeBack, [Next]_vars PROVE LocksComeBack'
    OBVIOUS
  <2>1. CASE UNCHANGED <<lock, pc>>
    BY <2>1 DEF LocksComeBack, Holding
  <2>2. ASSUME NEW c \in Call, CallStep(c) \/ CreateEventRaises(c) \/ Cancel(c)
        PROVE  LocksComeBack'
    BY <2>2, CallLocks DEF LineageInv
  <2> QED
    BY <2>1, <2>2
    DEF Next, SweepStep, SweepStart, SweepVerify, SweepSave, SweepRaises,
        SweeperRestarts, vars, eventVars, callVars
<1> QED BY <1>1, <1>2, LineageInvariant, PTL DEF Spec

=============================================================================
