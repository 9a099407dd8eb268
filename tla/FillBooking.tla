----------------------------- MODULE FillBooking ----------------------------
(***************************************************************************)
(* What the execution layer promises about money: for each order, how much *)
(* of it the venue executed, and whether the books hold a position for it. *)
(* An order that is cancelled or filled stays so (at a venue that accepts  *)
(* an order id again, another order may follow it, unless it was booked);  *)
(* a position is booked only for an order that was executed as a whole,    *)
(* and only once.                                                          *)
(***************************************************************************)
CONSTANTS
  Order,
  Reusable   \* whether the venue accepts the id of an ended order again

VARIABLES
  exposure,  \* none, working, part (of it executed), whole, dropped, cut
  books      \* how many positions an order was booked as

Exposure == {"none", "working", "part", "whole", "dropped", "cut"}

Init ==
  /\ exposure = [o \in Order |-> "none"]
  /\ books = [o \in Order |-> 0]

Ended == {"whole", "dropped", "cut"}

(* What may become of an order in one step ("whole": a market order). *)
Outcomes(e) ==
  CASE e = "none"    -> {"working", "whole"}
    [] e = "working" -> {"part", "whole", "dropped"}
    [] e = "part"    -> {"whole", "cut"}
    [] OTHER         -> {}

(* Several orders move at once when all open orders are cancelled. *)
VenueStep ==
  /\ exposure' \in [Order -> Exposure]
  /\ \A o \in Order :
       exposure'[o] # exposure[o] =>
         \/ exposure'[o] \in Outcomes(exposure[o])
         \/ /\ Reusable /\ books[o] = 0
            /\ exposure[o] \in Ended /\ exposure'[o] = "working"
  /\ UNCHANGED books

Book(o) ==
  /\ exposure[o] = "whole"
  /\ books[o] = 0
  /\ books' = [books EXCEPT ![o] = 1]
  /\ UNCHANGED exposure

Next == VenueStep \/ \E o \in Order : Book(o)

Spec == Init /\ [][Next]_<<exposure, books>>

=============================================================================
