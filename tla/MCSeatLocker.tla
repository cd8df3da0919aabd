---------------------------- MODULE MCSeatLocker ----------------------------
(* Small instances of SeatLocker: one seat contended for by two bookings.   *)
EXTENDS SeatLocker, TLC

CONSTANTS s1, f1

OneFlight == [s \in Seats |-> f1]
SameSeat == [b \in Bookings |-> s1]

\* Lock calls race, pods crash, locks outlive their TTL; no cron job runs.
HandlerEnv == {"crash", "rowExpiry", "add"}
\* Everything the environment can do to the service.
FullEnv == {"crash", "reject", "rowExpiry", "keyExpiry", "add", "remove", "reset"}

Symmetry == Permutations(Tokens) \cup Permutations(Pods) \cup Permutations(Bookings)
=============================================================================
