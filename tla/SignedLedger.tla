---------------------------- MODULE SignedLedger -----------------------------
(***************************************************************************)
(* What the positions table is for: one signed quantity per key (a         *)
(* strategy and a symbol).  A fill adds to it, a fill of the other side    *)
(* takes from it but never turns it round, and an exit empties it and      *)
(* records exactly what it emptied.  A key two transactions worked on at   *)
(* once is void: nothing is promised of it any more.                       *)
(***************************************************************************)
EXTENDS Integers

CONSTANTS
  Key,
  Cap    \* the largest notional; a quantity of it costs one each at least

VARIABLES
  net,     \* signed quantity of the key: bought above 0, sold below
  exited,  \* quantity of the key recorded as closed by exits
  void     \* keys the promise has lapsed for

vars == <<net, exited, void>>

Init ==
  /\ net = [k \in Key |-> 0]
  /\ exited = [k \in Key |-> 0]
  /\ void = {}

Abs(n) == IF n < 0 THEN -n ELSE n

(* A signed fill d on a position p: it grows, shrinks, or ends at zero. *)
Applied(p, d) ==
  IF (p > 0 /\ d < 0 /\ p + d < 0) \/ (p < 0 /\ d > 0 /\ p + d > 0)
    THEN 0
    ELSE p + d

Fill(k, d) ==
  /\ k \notin void
  /\ net' = [net EXCEPT ![k] = Applied(@, d)]
  /\ UNCHANGED <<exited, void>>

(* One pass over the positions may exit several keys. *)
Exit(K) ==
  /\ K \cap void = {}
  /\ exited' = [k \in Key |-> IF k \in K THEN exited[k] + Abs(net[k])
                                         ELSE exited[k]]
  /\ net' = [k \in Key |-> IF k \in K THEN 0 ELSE net[k]]
  /\ UNCHANGED void

Lapse(K) ==
  /\ void' = void \cup K
  /\ net' = [k \in Key |-> IF k \in K THEN 0 ELSE net[k]]
  /\ exited' = [k \in Key |-> IF k \in K THEN 0 ELSE exited[k]]

Next ==
  \/ \E k \in Key, d \in -Cap .. Cap : Fill(k, d)
  \/ \E K \in SUBSET Key : Exit(K) \/ Lapse(K)

Spec == Init /\ [][Next]_vars

=============================================================================
