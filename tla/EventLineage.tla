---------------------------- MODULE EventLineage ----------------------------
(***************************************************************************)
(* Calls of create_event (atlas/core/event_lineage.py), each of which      *)
(* writes a lifecycle row, then an event, then an audit entry, and the     *)
(* hourly sweep of the ReplayEngine that verifies the events               *)
(* (atlas/agents/l7_meta/replay_engine.py).                                *)
(*                                                                         *)
(* An action ends at the next await that touches shared state.             *)
(***************************************************************************)
EXTENDS EventStore, AuditLedger

VARIABLES
  pc,           \* where the call stands
  draft,        \* number and predecessor the call has read for its row
  tries,        \* attempts of _execute_insert made before this one
  sweep,        \* the ReplayEngine's sweep
  racedEvents,  \* history: streams two appends worked on at once
  racedAudit,   \* history: streams two records worked on at once
  faults

callVars == <<pc, draft, tries>>
vars == <<eventVars, audit, callVars, sweep, racedEvents, racedAudit, faults>>

Stage == {"idle", "append", "last_event", "insert_event", "sequence",
          "last_hash", "insert_audit", "done", "failed"}
Over == {"done", "failed"}

NoDraft == [seq |-> 0, prev |-> Nothing]
Asleep == [pc |-> "asleep", todo |-> {}, results |-> [s \in Stream |-> Nothing]]

Init ==
  /\ EventInit /\ AuditInit
  /\ pc = [c \in Call |-> "idle"]
  /\ draft = [c \in Call |-> NoDraft]
  /\ tries = [c \in Call |-> 0]
  /\ sweep = Asleep
  /\ racedEvents = {} /\ racedAudit = {}
  /\ faults = 0

Goes(c, stage) == pc' = [pc EXCEPT ![c] = stage]
Forgets(c) ==
  /\ draft' = [draft EXCEPT ![c] = NoDraft]
  /\ tries' = [tries EXCEPT ![c] = 0]
Fault == faults < MaxFaults /\ faults' = faults + 1

-----------------------------------------------------------------------------
(***************************************************************************)
(* The lifecycle row: if its INSERT raises, so does create_event.          *)
(***************************************************************************)
CreateEvent(c) ==
  /\ pc[c] = "idle"
  /\ Goes(c, "append")
  /\ UNCHANGED <<eventVars, audit, draft, tries, sweep, racedEvents,
                 racedAudit, faults>>

CreateEventRaises(c) ==
  /\ pc[c] = "idle"
  /\ Fault
  /\ Goes(c, "failed")
  /\ UNCHANGED <<eventVars, audit, draft, tries, sweep, racedEvents,
                 racedAudit>>

-----------------------------------------------------------------------------
(***************************************************************************)
(* append_event, under the lock of the client's store; what it raises is   *)
(* caught, and the audit entry comes next all the same.                    *)
(***************************************************************************)
(* A fault: no lock. *)
TakeLockFreely(c) ==
  /\ pc[c] = "append"
  /\ lock' = [lock EXCEPT ![ClientOf[c]] = c]
  /\ Goes(c, "last_event")
  /\ UNCHANGED <<events, cache, audit, draft, tries, sweep,
                 racedEvents, racedAudit, faults>>

TakeLock(c) ==
  /\ pc[c] = "append"
  /\ Acquire(c)
  /\ Goes(c, "last_event")
  /\ UNCHANGED <<events, cache, audit, draft, tries, sweep,
                 racedEvents, racedAudit, faults>>

(* Appends of other objects between their read and the end of their insert. *)
AppendsBeside(c) ==
  {d \in Call : /\ pc[d] = "insert_event" /\ StreamOf[d] = StreamOf[c]
                /\ ClientOf[d] # ClientOf[c]}

ReadLastEvent(c) ==
  /\ pc[c] = "last_event"
  /\ \E d \in LastEvents(c) : draft' = [draft EXCEPT ![c] = d]
  /\ Goes(c, "insert_event")
  /\ racedEvents' = IF AppendsBeside(c) = {} THEN racedEvents
                    ELSE racedEvents \cup {StreamOf[c]}
  /\ UNCHANGED <<eventVars, audit, tries, sweep, racedAudit, faults>>

InsertEvent(c) ==
  /\ pc[c] = "insert_event"
  /\ AttemptReturns(events, EventRow(c, draft[c]), events')
  /\ lock' = Released(c)
  /\ Goes(c, "sequence")
  /\ Forgets(c)
  /\ UNCHANGED <<cache, audit, sweep, racedEvents, racedAudit, faults>>

(* An attempt after one that has committed raises without any fault. *)
Doomed(rows, c) == \E r \in rows : r.id = c
FaultUnless(doomed) == IF doomed THEN UNCHANGED faults ELSE Fault

InsertEventAgain(c) ==
  /\ pc[c] = "insert_event"
  /\ tries[c] + 1 < MaxAttempts
  /\ FaultUnless(Doomed(events, c))
  /\ AttemptRaises(events, EventRow(c, draft[c]), events')
  /\ tries' = [tries EXCEPT ![c] = @ + 1]
  /\ UNCHANGED <<lock, cache, audit, pc, draft, sweep,
                 racedEvents, racedAudit>>

(* A fault: the lock is given back on success only. *)
AppendRaisesHoldingLock(c) ==
  /\ pc[c] \in {"last_event", "insert_event"}
  /\ Fault
  /\ Goes(c, "sequence")
  /\ Forgets(c)
  /\ UNCHANGED <<eventVars, audit, sweep, racedEvents, racedAudit>>

(* The read raises, or the last attempt does. *)
AppendRaises(c) ==
  /\ \/ pc[c] = "last_event" /\ Fault /\ UNCHANGED events
     \/ /\ pc[c] = "insert_event"
        /\ tries[c] + 1 = MaxAttempts
        /\ FaultUnless(Doomed(events, c))
        /\ AttemptRaises(events, EventRow(c, draft[c]), events')
  /\ lock' = Released(c)
  /\ Goes(c, "sequence")
  /\ Forgets(c)
  /\ UNCHANGED <<cache, audit, sweep, racedEvents, racedAudit>>

-----------------------------------------------------------------------------
(***************************************************************************)
(* record: the number, then the hash, then the row.  Nothing locks.        *)
(***************************************************************************)
RecordsBeside(c) ==
  {d \in Call \ {c} : pc[d] \in {"last_hash", "insert_audit"}
                      /\ StreamOf[d] = StreamOf[c]}

(* A fault: the number of the last entry. *)
ReadSequenceOfLast(c) ==
  /\ pc[c] = "sequence"
  /\ draft' = [draft EXCEPT ![c].seq = NextSequence(c) - 1]
  /\ Goes(c, "last_hash")
  /\ racedAudit' = IF RecordsBeside(c) = {} THEN racedAudit
                   ELSE racedAudit \cup {StreamOf[c]}
  /\ UNCHANGED <<eventVars, audit, tries, sweep, racedEvents, faults>>

ReadSequence(c) ==
  /\ pc[c] = "sequence"
  /\ draft' = [draft EXCEPT ![c].seq = NextSequence(c)]
  /\ Goes(c, "last_hash")
  /\ racedAudit' = IF RecordsBeside(c) = {} THEN racedAudit
                   ELSE racedAudit \cup {StreamOf[c]}
  /\ UNCHANGED <<eventVars, audit, tries, sweep, racedEvents, faults>>

ReadLastHash(c) ==
  /\ pc[c] = "last_hash"
  /\ \E h \in LastHashes(c) : draft' = [draft EXCEPT ![c].prev = h]
  /\ Goes(c, "insert_audit")
  /\ UNCHANGED <<eventVars, audit, tries, sweep, racedEvents,
                 racedAudit, faults>>

InsertAudit(c) ==
  /\ pc[c] = "insert_audit"
  /\ AttemptReturns(audit, AuditRow(c, draft[c]), audit')
  /\ Goes(c, "done")
  /\ Forgets(c)
  /\ UNCHANGED <<eventVars, sweep, racedEvents, racedAudit, faults>>

InsertAuditAgain(c) ==
  /\ pc[c] = "insert_audit"
  /\ tries[c] + 1 < MaxAttempts
  /\ FaultUnless(Doomed(audit, c))
  /\ AttemptRaises(audit, AuditRow(c, draft[c]), audit')
  /\ tries' = [tries EXCEPT ![c] = @ + 1]
  /\ UNCHANGED <<eventVars, pc, draft, sweep, racedEvents, racedAudit>>

(* A read raises, or the last attempt does; create_event returns. *)
RecordRaises(c) ==
  /\ \/ pc[c] \in {"sequence", "last_hash"} /\ Fault /\ UNCHANGED audit
     \/ /\ pc[c] = "insert_audit"
        /\ tries[c] + 1 = MaxAttempts
        /\ FaultUnless(Doomed(audit, c))
        /\ AttemptRaises(audit, AuditRow(c, draft[c]), audit')
  /\ Goes(c, "done")
  /\ Forgets(c)
  /\ UNCHANGED <<eventVars, sweep, racedEvents, racedAudit>>

(***************************************************************************)
(* The coroutine is cancelled: a statement under way may still commit.     *)
(***************************************************************************)
Cancel(c) ==
  /\ pc[c] \notin Over \cup {"idle"}
  /\ Fault
  /\ IF pc[c] = "insert_event"
       THEN AttemptRaises(events, EventRow(c, draft[c]), events')
       ELSE UNCHANGED events
  /\ IF pc[c] = "insert_audit"
       THEN AttemptRaises(audit, AuditRow(c, draft[c]), audit')
       ELSE UNCHANGED audit
  /\ lock' = Released(c)
  /\ Goes(c, "failed")
  /\ Forgets(c)
  /\ UNCHANGED <<cache, sweep, racedEvents, racedAudit>>

-----------------------------------------------------------------------------
(***************************************************************************)
(* _sweep_replay_checks.                                                   *)
(***************************************************************************)
SweepStart ==
  /\ sweep.pc = "asleep"
  /\ events # {}
  /\ sweep' = [Asleep EXCEPT !.pc = "sweeping",
                             !.todo = {s \in Stream : On(events, s) # {}}]
  /\ UNCHANGED <<eventVars, audit, callVars, racedEvents, racedAudit, faults>>

(* A verification that raises ends the sweep without a report. *)
SweepVerify(s) ==
  /\ sweep.pc = "sweeping"
  /\ s \in sweep.todo
  /\ \E l \in ListOf(s) :
       /\ cache' = [cache EXCEPT ![s] = l]
       /\ sweep' = IF VerifyIntegrity(l) = "raises" THEN Asleep
                   ELSE [sweep EXCEPT !.todo = @ \ {s},
                                      !.results[s] = VerifyIntegrity(l)]
  /\ UNCHANGED <<events, lock, audit, callVars, racedEvents, racedAudit,
                 faults>>

SweepSave ==
  /\ sweep.pc = "sweeping"
  /\ sweep.todo = {}
  /\ sweep' = Asleep
  /\ UNCHANGED <<eventVars, audit, callVars, racedEvents, racedAudit, faults>>

(* A statement of the sweep raises: logged, and again in an hour. *)
SweepRaises ==
  /\ sweep.pc = "sweeping"
  /\ Fault
  /\ sweep' = Asleep
  /\ UNCHANGED <<eventVars, audit, callVars, racedEvents, racedAudit>>

(* The agent's process starts anew. *)
SweeperRestarts ==
  /\ cache' = [s \in Stream |-> Nothing]
  /\ sweep' = Asleep
  /\ UNCHANGED <<events, lock, audit, callVars, racedEvents, racedAudit,
                 faults>>

-----------------------------------------------------------------------------
CallStep(c) ==
  \/ CreateEvent(c) \/ TakeLock(c) \/ ReadLastEvent(c)
  \/ InsertEvent(c) \/ InsertEventAgain(c) \/ AppendRaises(c)
  \/ ReadSequence(c) \/ ReadLastHash(c)
  \/ InsertAudit(c) \/ InsertAuditAgain(c) \/ RecordRaises(c)

SweepStep == SweepStart \/ (\E s \in Stream : SweepVerify(s)) \/ SweepSave

Next ==
  \/ \E c \in Call : CallStep(c) \/ CreateEventRaises(c) \/ Cancel(c)
  \/ SweepStep \/ SweepRaises \/ SweeperRestarts

(***************************************************************************)
(* The event loop runs every coroutine that can go on.  A lock is waited   *)
(* for by finitely many calls, so weak fairness is enough.                 *)
(***************************************************************************)
Spec == Init /\ [][Next]_vars /\ \A c \in Call : WF_vars(CallStep(c))

-----------------------------------------------------------------------------
Draft == [seq : Nat, prev : Call \cup {Nothing}]
Verdict == {"valid", "broken"}
(* None is not a verdict. *)
ASSUME NothingAssumption == Nothing \notin Verdict
SweepState ==
  [pc : {"asleep", "sweeping"}, todo : SUBSET Stream,
   results : [Stream -> Verdict \cup {Nothing}]]

LineageTypeOK ==
  /\ events \subseteq Row
  /\ audit \subseteq Row
  /\ lock \in [Client -> Call \cup {Nothing}]
  /\ pc \in [Call -> Stage]
  /\ draft \in [Call -> Draft]
  /\ tries \in [Call -> 0 .. MaxAttempts - 1]
  /\ sweep \in SweepState
  /\ racedEvents \subseteq Stream
  /\ racedAudit \subseteq Stream
  /\ faults \in 0 .. MaxFaults

(***************************************************************************)
(* As long as no two objects appended to an aggregate at once, its events  *)
(* are one list that only grows at its end, whatever failed or was tried   *)
(* again; so are the audit entries of a trace no two calls recorded to at  *)
(* once ("append-only immutable event store", "append-only,                *)
(* tamper-resistant audit ledger with hash chaining").                     *)
(***************************************************************************)
Entries(rows, s) ==
  {[id |-> r.id, seq |-> r.seq, prev |-> r.prev] : r \in On(rows, s)}

EventLog == INSTANCE AppendOnlyLog WITH
  Id <- Call,
  log <- [s \in Stream |-> IF s \in racedEvents THEN {} ELSE Entries(events, s)],
  void <- racedEvents

AuditLog == INSTANCE AppendOnlyLog WITH
  Id <- Call,
  log <- [s \in Stream |-> IF s \in racedAudit THEN {} ELSE Entries(audit, s)],
  void <- racedAudit

ImplementsLogs == EventLog!Spec /\ AuditLog!Spec

(***************************************************************************)
(* verify_chain passes, in whatever order the database gives rows with one *)
(* number, only if the entries of a trace are one unbroken chain from a    *)
(* first entry, although it never looks at the first hash_prev; and it     *)
(* raises no alarm about a trace that nothing raced on.                    *)
(***************************************************************************)
VerifyChainIsSound ==
  \A s \in Stream : \A l \in Readings(audit, s) :
    /\ VerifyChain(l) => IsChain(On(audit, s))
    /\ s \notin racedAudit => VerifyChain(l)

(***************************************************************************)
(* The sweep calls an aggregate valid only for a list that is a chain and  *)
(* as it was hashed.  An alarm means a race of appends or an event whose   *)
(* parent was made up on insertion, which is every event the callers in    *)
(* atlas/ write: about those the alarm is false.  What the sweep checks of *)
(* an aggregate without races is the beginning of its events, however old  *)
(* the cached list is.                                                     *)
(***************************************************************************)
SweepIsSound ==
  \A s \in Stream : cache[s] # Nothing =>
    /\ sweep.results[s] = "valid" =>
         IsChain(ToSet(cache[s])) /\ Altered(cache[s]) = {}
    /\ sweep.results[s] = "broken" => s \in racedEvents \/ Altered(cache[s]) # {}
    /\ s \notin racedEvents =>
         \A i \in DOMAIN cache[s] : cache[s][i] \in events /\ cache[s][i].seq = i

(***************************************************************************)
(* A call of create_event that has begun comes to its end (none becomes    *)
(* idle again), whatever other calls on the same store failed, were        *)
(* cancelled or waited: the lock always comes back.                        *)
(***************************************************************************)
CallEnds == \A c \in Call : []<>(pc[c] \in Over \cup {"idle"})

=============================================================================
