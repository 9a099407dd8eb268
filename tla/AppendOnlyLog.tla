---------------------------- MODULE AppendOnlyLog ----------------------------
(***************************************************************************)
(* What a ledger promises: one list of numbered entries per stream, which  *)
(* only ever grows at its end, by an entry it does not hold yet and which  *)
(* names the one before it.  A stream two writers have worked on at once   *)
(* is void: nothing is promised of it any more.                            *)
(***************************************************************************)
EXTENDS Naturals

CONSTANTS Id, Stream, Nothing

Entry == [id : Id, seq : Nat, prev : Id \cup {Nothing}]

VARIABLES
  log,  \* entries of each stream: their number, their id, the id before
  void

vars == <<log, void>>

Init ==
  /\ log = [s \in Stream |-> {}]
  /\ void = {}

IsFirst(l, x) == l = {} /\ x.seq = 1 /\ x.prev = Nothing

Follows(l, x) ==
  \E y \in l : /\ \A z \in l : z.seq <= y.seq
              /\ x.seq = y.seq + 1 /\ x.prev = y.id

(* x is the entry that is there afterwards. *)
Add(s, x) ==
  /\ s \notin void
  /\ x \in Entry
  /\ IsFirst(log[s], x) \/ Follows(log[s], x)
  /\ \A y \in log[s] : y.id # x.id
  /\ log' = [log EXCEPT ![s] = @ \cup {x}]
  /\ UNCHANGED void

Lapse(s) ==
  /\ void' = void \cup {s}
  /\ log' = [log EXCEPT ![s] = {}]

Next == \E s \in Stream : Lapse(s) \/ \E x \in log'[s] : Add(s, x)

Spec == Init /\ [][Next]_vars

=============================================================================
