--------------------------- MODULE MCInventoryFeed --------------------------
(***************************************************************************)
(* A flight of five seats, two of them BOOKED and two modelled: 40, 60 or  *)
(* 80 percent are taken, the last two the lower bounds of a price tier.    *)
(***************************************************************************)
EXTENDS InventoryFeed

CONSTANTS s1, s2, b1, b2, p1

Wanted == [b \in Bookings |-> IF b = b1 THEN s1 ELSE s2]

=============================================================================
