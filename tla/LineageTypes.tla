---------------------------- MODULE LineageTypes ----------------------------
(***************************************************************************)
(* What the event store, the audit ledger and the calls that write to both *)
(* have in common.                                                         *)
(*                                                                         *)
(* A hash covers the row's own fresh uuid, so equal hashes mean equal rows *)
(* and a row's id stands for its hash_self.  Each call makes one row in    *)
(* each table, which is named by the call.                                 *)
(***************************************************************************)
EXTENDS Naturals, Sequences, FiniteSets, SequencesExt

CONSTANTS
  Call,        \* calls of create_event
  Client,      \* instances of EventLineageClient, each with its EventStore
  Stream,      \* aggregate ids and trace ids
  ClientOf,    \* the instance a call is made on
  StreamOf,    \* the strategy a call is about: its aggregate and its trace
  Parented,    \* calls that name a parent event; no caller in atlas/ does
  Nothing,     \* no row: the hash_prev of a first entry; nobody
  MaxAttempts, \* max_retries of _execute_insert
  MaxFaults    \* bound: failed statements and cancelled calls

ASSUME LineageAssumption ==
  /\ ClientOf \in [Call -> Client]
  /\ StreamOf \in [Call -> Stream]
  /\ Parented \subseteq Call
  /\ Nothing \notin Call
  /\ MaxAttempts \in Nat \ {0}
  /\ MaxFaults \in Nat

(***************************************************************************)
(* Whether the row that is stored is the one that was hashed: a call       *)
(* without a parent hashes None and stores a fresh random uuid in its      *)
(* place.  (Ids and trace ids of strategies are uuids and stored as such.) *)
(***************************************************************************)
AsHashed(id) == id \in Parented

Row == [id : Call, stream : Stream, seq : Nat \ {0}, prev : Call \cup {Nothing}]

On(rows, s) == {r \in rows : r.stream = s}
Numbers(rows, s) == {r.seq : r \in On(rows, s)}

(* COALESCE(MAX(sequence), 0) *)
Top(rows, s) ==
  CHOOSE n \in Numbers(rows, s) \cup {0} : \A m \in Numbers(rows, s) : m <= n

(* ORDER BY sequence DESC LIMIT 1: any of the rows with the last number. *)
LastIds(rows, s) ==
  IF On(rows, s) = {} THEN {Nothing}
  ELSE {r.id : r \in {q \in On(rows, s) : q.seq = Top(rows, s)}}

(* ORDER BY sequence ASC: rows with one number come in either order. *)
Readings(rows, s) ==
  {l \in SetToSeqs(On(rows, s)) :
     \A i \in 1 .. Len(l) - 1 : l[i].seq <= l[i + 1].seq}

(***************************************************************************)
(* What a hash chain is for: no two rows have one predecessor, and every   *)
(* predecessor is there.                                                   *)
(***************************************************************************)
IsChain(R) ==
  /\ \A r, q \in R : r.prev = q.prev => r = q
  /\ \A r \in R : r.prev # Nothing => \E q \in R : q.id = r.prev

(***************************************************************************)
(* _execute_insert, one attempt: it commits and returns; it raises and has *)
(* committed all the same, or has not.  The id is the primary key and does *)
(* not change from one attempt to the next, so that once the row is there  *)
(* an attempt can only raise.  What normalize_uuid_params makes of the row *)
(* before is in AsHashed.                                                  *)
(***************************************************************************)
AttemptReturns(rows, row, next) ==
  /\ \A r \in rows : r.id # row.id
  /\ next = rows \cup {row}

AttemptRaises(rows, row, next) ==
  \/ next = rows
  \/ AttemptReturns(rows, row, next)

=============================================================================
