--------------------------- MODULE MCBookingSystem --------------------------
(* Small instances of BookingSystem: bookings that all want the same seat.  *)
EXTENDS BookingSystem, TLC

CONSTANTS s1, f1

OneFlight == [s \in Seats |-> f1]
SameSeat == [b \in Bookings |-> s1]

\* Whatever can go wrong while handlers keep within the TTL.
TimelyFaults == {"crash", "reject", "drop", "redeliver", "rowExpiry", "keyExpiry", "add"}
\* Faults that lose work, and the expiry that cleans up after them.
LostWork == {"crash", "reject", "drop", "rowExpiry", "keyExpiry"}

\* Messages that are delivered again.
Redelivery == {"redeliver"}
\* Nothing fails, but handlers may be later than the ten minutes a lock lasts.
LateHandlers == {"rowExpiry", "lateExpiry"}
\* A lost message leaves a lock behind, which the cron jobs clean up in time.
LostMessage == {"drop", "rowExpiry", "keyExpiry"}

\* Pods differ by whether their cron job runs, so they do not permute.
Symmetry == Permutations(Tokens) \cup Permutations(BookingPods) \cup Permutations(Bookings)
=============================================================================
