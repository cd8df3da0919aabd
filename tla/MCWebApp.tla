------------------------------ MODULE MCWebApp ------------------------------
(* Small instances of WebApp: two flights of one route, one on each page.   *)
EXTENDS WebApp

CONSTANTS f1, f2

MCRouteOf == [f \in Flights |-> OneRoute]
MCDeparture == [f \in Flights |-> IF f = f1 THEN 1 ELSE 2]
MCSeedSeats == [f \in Flights |-> 1]
MCSeedPrice == [f \in Flights |-> IF f = f1 THEN 1 ELSE 2]

=============================================================================
