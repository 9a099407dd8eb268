----------------------------- MODULE DeadLetter -----------------------------
(***************************************************************************)
(* atlas/agents/l5_execution/dead_letter.py: the execution_dead_letter     *)
(* table.  A row is the order and the reason it was recorded under; the    *)
(* reason is kept only as far as _classify tells reasons apart.            *)
(***************************************************************************)
EXTENDS ExecutionTypes

VARIABLES
  letters,   \* the rows of the table
  resolved   \* the rows with resolved = TRUE

letterVars == <<letters, resolved>>

(***************************************************************************)
(* "exhausted"  submission_exhausted, last state risk_approved             *)
(* "partial"    partial_fill_abandoned, last state partially_filled        *)
(* "retriable"  unhandled_exception whose text holds one of the tokens of  *)
(*              the transient or broker class ("connection", "reject" ...) *)
(* "other"      unhandled_exception without any of them                    *)
(***************************************************************************)
Reason == {"exhausted", "partial", "retriable", "other"}

Letter == Order \X Reason

LetterTypeOK ==
  /\ letters \in SUBSET Letter
  /\ resolved \in SUBSET letters

LetterInit == letters = {} /\ resolved = {}

HasLetter(o) == \E r \in Reason : <<o, r>> \in letters

(* record: the INSERT commits, and its commit may not be answered; publish *)
(* logs what it meets.                                                     *)
Record(o, reason) ==
  /\ letters' = letters \cup {<<o, reason>>}
  /\ UNCHANGED resolved

RecordRaises(o, reason) ==
  /\ "db" \in Faults
  /\ UNCHANGED letterVars \/ Record(o, reason)

(* _classify: the rows reconcile_unresolved submits to the broker again. *)
IsReplayed(letter) == letter[2] = "retriable"

GetUnresolved == letters \ resolved

Resolve(letter) ==
  /\ resolved' = resolved \cup {letter}
  /\ UNCHANGED letters

=============================================================================
