------------------------------ MODULE SeatSale ------------------------------
(***************************************************************************)
(* What the booking platform promises, without saying how: a customer asks *)
(* for a seat; the seat is sold to at most one of those who ask, for ever; *)
(* the one it was sold to is confirmed, the others fail, and nobody fails  *)
(* who was sold the seat.                                                  *)
(***************************************************************************)
CONSTANTS Seats, Bookings, SeatOf, NoBooking

VARIABLES
    sold,      \* the booking each seat is sold to
    outcome    \* what the customer of each booking sees

saleVars == <<sold, outcome>>

Init ==
    /\ sold = [s \in Seats |-> NoBooking]
    /\ outcome = [b \in Bookings |-> "none"]

Ask(b) ==
    /\ outcome[b] = "none"
    /\ outcome' = [outcome EXCEPT ![b] = "pending"]
    /\ UNCHANGED sold

Sell(b) ==
    /\ outcome[b] = "pending"
    /\ sold[SeatOf[b]] = NoBooking
    /\ sold' = [sold EXCEPT ![SeatOf[b]] = b]
    /\ UNCHANGED outcome

Confirm(b) ==
    /\ outcome[b] = "pending"
    /\ sold[SeatOf[b]] = b
    /\ outcome' = [outcome EXCEPT ![b] = "confirmed"]
    /\ UNCHANGED sold

Fail(b) ==
    /\ outcome[b] = "pending"
    /\ sold[SeatOf[b]] # b
    /\ outcome' = [outcome EXCEPT ![b] = "failed"]
    /\ UNCHANGED sold

Next == \E b \in Bookings : Ask(b) \/ Sell(b) \/ Confirm(b) \/ Fail(b)

Spec == Init /\ [][Next]_saleVars

=============================================================================
