-------------------------- MODULE MCPositionManager --------------------------
(***************************************************************************)
(* Model values for TLC.                                                   *)
(***************************************************************************)
EXTENDS PositionManager, TLC

CONSTANTS o1, o2, k1, m1, m2

Orders == {o1, o2}
OneKey == {k1}
TwoLoops == {m1, m2}
Moves == {-1, 0, 1}

Buy(q, p) == [key |-> k1, side |-> "buy", qty |-> q, price |-> p]
Sell(q, p) == [key |-> k1, side |-> "sell", qty |-> q, price |-> p]
Two(a, b) == o1 :> a @@ o2 :> b

(* Up to the names of the runs: two buys within the cap, at one price and  *)
(* at two, and beyond it, by the quantity and by the price; a close, one   *)
(* that sells too much, one in part; and a fill over the cap.              *)
TwoFills ==
  { Two(Buy(1, 1), Buy(1, 1)), Two(Buy(1, 1), Buy(1, 2)),
    Two(Buy(2, 1), Buy(2, 1)), Two(Buy(2, 1), Buy(1, 2)),
    Two(Sell(1, 1), Buy(1, 2)), Two(Buy(1, 1), Sell(2, 1)),
    Two(Buy(2, 1), Sell(1, 2)), Two(Buy(1, 1), Sell(2, 2)) }

=============================================================================
