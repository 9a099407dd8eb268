----------------------------- MODULE EventStore -----------------------------
(***************************************************************************)
(* atlas/core/event_store.py: the table event_store, the lock of each      *)
(* EventStore object, and the list cache of the one object that reads      *)
(* lists, the ReplayEngine's.  That object never appends and the others    *)
(* never read lists, so the invalidation in append_event finds nothing to  *)
(* drop.                                                                   *)
(***************************************************************************)
EXTENDS LineageTypes

VARIABLES
  events,  \* rows of event_store
  lock,    \* holder of each client's asyncio lock
  cache    \* _cache of the ReplayEngine's store: a list, or Nothing

eventVars == <<events, lock, cache>>

EventInit ==
  /\ events = {}
  /\ lock = [k \in Client |-> Nothing]
  /\ cache = [s \in Stream |-> Nothing]

Acquire(c) ==
  /\ lock[ClientOf[c]] = Nothing
  /\ lock' = [lock EXCEPT ![ClientOf[c]] = c]

(* async with: given back however the body ends. *)
Released(c) ==
  [k \in Client |-> IF lock[k] = c THEN Nothing ELSE lock[k]]

(* _get_last_event: number and hash come from one row. *)
LastEvents(c) ==
  LET s == StreamOf[c]
  IN {[seq |-> Top(events, s) + 1, prev |-> p] : p \in LastIds(events, s)}

EventRow(c, draft) ==
  [id |-> c, stream |-> StreamOf[c], seq |-> draft.seq, prev |-> draft.prev]

(* get_events: from the cache, or from the table and then cached. *)
ListOf(s) == IF cache[s] # Nothing THEN {cache[s]} ELSE Readings(events, s)

(* A fault: an event without hash_prev is passed over. *)
VerifyIntegritySkips(l) ==
  IF /\ \A i \in 2 .. Len(l) : l[i].prev \in {l[i - 1].id, Nothing}
     /\ \A i \in 1 .. Len(l) : AsHashed(l[i].id)
    THEN "valid" ELSE "broken"

(***************************************************************************)
(* verify_integrity: every row's own hash, and its link to the row before. *)
(* The message about a broken link cuts the row's hash_prev to twelve      *)
(* letters, which raises when there is none.                               *)
(***************************************************************************)
Unlinked(l) == {i \in 2 .. Len(l) : l[i].prev # l[i - 1].id}
Altered(l) == {i \in 1 .. Len(l) : ~AsHashed(l[i].id)}

VerifyIntegrity(l) ==
  CASE \E i \in Unlinked(l) : l[i].prev = Nothing -> "raises"
    [] Unlinked(l) \cup Altered(l) = {} -> "valid"
    [] OTHER -> "broken"

=============================================================================
