---------------------------- MODULE AuditLedger -----------------------------
(***************************************************************************)
(* atlas/core/audit_ledger.py: the table audit_ledger, and the check of    *)
(* its chains.                                                             *)
(***************************************************************************)
EXTENDS LineageTypes

VARIABLE audit   \* rows of audit_ledger

AuditInit == audit = {}

(* _next_sequence and _get_last_hash: two reads on two connections. *)
NextSequence(c) == Top(audit, StreamOf[c]) + 1
LastHashes(c) == LastIds(audit, StreamOf[c])

AuditRow(c, draft) ==
  [id |-> c, stream |-> StreamOf[c], seq |-> draft.seq, prev |-> draft.prev]

(* A fault: an entry without hash_prev is taken for the start of a chain. *)
VerifyChainRestarts(l) ==
  \A i \in 2 .. Len(l) : l[i].prev \in {l[i - 1].id, Nothing}

(* verify_chain on the rows of one trace; the first hash_prev is not       *)
(* looked at.                                                              *)
VerifyChain(l) == \A i \in 2 .. Len(l) : l[i].prev = l[i - 1].id

=============================================================================
