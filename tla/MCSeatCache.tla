----------------------------- MODULE MCSeatCache ----------------------------
(***************************************************************************)
(* Two seats; every booking wants the first one.                           *)
(***************************************************************************)
EXTENDS SeatCache

CONSTANTS s1, s2, b1, b2, p1, p2, q1, q2

WantsFirst == [b \in Bookings |-> s1]

\* Bookings and booking pods are interchangeable; the inventory pods are not, one runs
\* the cron job.
Symmetry == Permutations(Bookings) \cup Permutations(BookingPods)

=============================================================================
