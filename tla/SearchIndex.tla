----------------------------- MODULE SearchIndex ----------------------------
(***************************************************************************)
(* The Elasticsearch index "flights": created by ensureIndex when a search *)
(* pod starts and by the seed script, filled by the script and by          *)
(* GET /flights/seed, updated by two Kafka handlers, read by               *)
(* searchFlights.                                                          *)
(*                                                                         *)
(* Elasticsearch creates an index that is written to and does not exist,   *)
(* with the field types it guesses: origin and destination become analysed *)
(* text, which a term query for an airport code in capitals never matches. *)
(* The arithmetic of the counts and prices is checked in InventoryFeed.    *)
(***************************************************************************)
EXTENDS Integers, FiniteSets

CONSTANTS
    Flights, Routes,
    RouteOf,      \* route of each flight
    Departure,    \* departure time of each flight
    SeedSeats,    \* seats left of each flight, in the seeds
    SeedPrice,    \* price of each flight, in the seeds
    Prices,       \* prices that pricing-service emits
    NoValue,      \* a field the document does not have
    SearchPods,   \* search-service replicas
    Limit,        \* flights on a page
    MaxUpdates    \* bound: messages handled and sample documents written

ASSUME SearchAssumption ==
    /\ RouteOf \in [Flights -> Routes]
    /\ Departure \in [Flights -> Nat]
    /\ SeedSeats \in [Flights -> Nat] /\ SeedPrice \in [Flights -> Nat] /\ Prices \subseteq Nat
    /\ NoValue \notin Nat
    /\ IsFiniteSet(Flights) /\ Limit \in Nat \ {0} /\ MaxUpdates \in Nat

VARIABLES
    index,     \* "absent", "mapped" (as ensureIndex and the script want it) or "guessed"
    doc,       \* the document of each flight
    boot,      \* where the start of each search pod is
    script,    \* where the seed script is
    left,      \* flights the script has still to insert
    updates,   \* updates so far
    intruded,  \* history: something else than the script created the index by writing
    unwritten  \* history: the PUT or an insert of the script had no effect

indexVars == <<index, doc, boot, script, left, updates, intruded, unwritten>>

Docs == [full : BOOLEAN, seats : Nat \cup {NoValue}, price : Nat \cup {NoValue}]
NoDoc == [full |-> FALSE, seats |-> NoValue, price |-> NoValue]

IndexTypeOK ==
    /\ index \in {"absent", "mapped", "guessed"}
    /\ doc \in [Flights -> Docs]
    /\ boot \in [SearchPods -> {"down", "creating", "up"}]
    /\ script \in {"idle", "deleted", "inserting", "done"}
    /\ left \subseteq Flights
    /\ updates \in 0 .. MaxUpdates
    /\ intruded \in BOOLEAN /\ unwritten \in BOOLEAN
    /\ index = "absent" => doc = [f \in Flights |-> NoDoc]

IndexInit ==
    /\ index = "absent" /\ doc = [f \in Flights |-> NoDoc]
    /\ boot = [p \in SearchPods |-> "down"]
    /\ script = "idle" /\ left = Flights /\ updates = 0
    /\ intruded = FALSE /\ unwritten = FALSE

-----------------------------------------------------------------------------
(* ensureIndex: two requests. A create that comes second throws, the pod   *)
(* fails to start and is started again.                                    *)

CheckIndex_Blind(p) ==   \* mistake: creates whether the index exists or not
    /\ boot[p] = "down"
    /\ boot' = [boot EXCEPT ![p] = "creating"]
    /\ UNCHANGED <<index, doc, script, left, updates, intruded, unwritten>>

CheckIndex(p) ==
    /\ boot[p] = "down"
    /\ boot' = [boot EXCEPT ![p] = IF index = "absent" THEN "creating" ELSE "up"]
    /\ UNCHANGED <<index, doc, script, left, updates, intruded, unwritten>>

CreateIndex(p) ==
    /\ boot[p] = "creating"
    /\ IF index = "absent"
       THEN index' = "mapped" /\ boot' = [boot EXCEPT ![p] = "up"]
       ELSE boot' = [boot EXCEPT ![p] = "down"] /\ UNCHANGED index
    /\ UNCHANGED <<doc, script, left, updates, intruded, unwritten>>

-----------------------------------------------------------------------------
(* Writes                                                                  *)

\* A write by a service: it creates the index if there is none.
Write(f, d) ==
    /\ updates < MaxUpdates
    /\ updates' = updates + 1
    /\ doc' = [doc EXCEPT ![f] = d]
    /\ index' = IF index = "absent" THEN "guessed" ELSE index
    /\ intruded' = (intruded \/ index = "absent")
    /\ UNCHANGED <<boot, script, left, unwritten>>

Full(f) == [full |-> TRUE, seats |-> SeedSeats[f], price |-> SeedPrice[f]]

\* upsertFlight, for each flight of seedSampleFlights
UpsertFlight(f) == Write(f, Full(f))

\* updateAvailableSeats. Without a document it is inserted with one field; the
\* script fails on a document without that field, and the message is skipped.
UpdateAvailableSeats(f, delta) ==
    LET old == doc[f].seats
        Floor(n) == IF n < 0 THEN 0 ELSE n
    IN Write(f, [doc[f] EXCEPT !.seats = IF doc[f] = NoDoc THEN Floor(delta)
                                         ELSE IF old = NoValue THEN NoValue
                                         ELSE Floor(old + delta)])

UpdatePrice(f, price) == Write(f, [doc[f] EXCEPT !.price = price])

-----------------------------------------------------------------------------
(* The seed script: DELETE, PUT, bulk inserts. What Elasticsearch answers   *)
(* is printed at most: each may fail, and the script goes on.              *)

DeleteIndex_KeepsGoing ==   \* mistake: inserts without creating the index
    /\ script = "idle" /\ script' = "inserting"
    /\ \/ index' = "absent" /\ doc' = [f \in Flights |-> NoDoc]
       \/ UNCHANGED <<index, doc>>
    /\ UNCHANGED <<boot, left, updates, intruded, unwritten>>

DeleteIndex ==
    /\ script = "idle" /\ script' = "deleted"
    /\ \/ index' = "absent" /\ doc' = [f \in Flights |-> NoDoc]
       \/ UNCHANGED <<index, doc>>
    /\ UNCHANGED <<boot, left, updates, intruded, unwritten>>

PutIndex ==
    /\ script = "deleted" /\ script' = "inserting"
    /\ \/ index' = (IF index = "absent" THEN "mapped" ELSE index) /\ UNCHANGED unwritten
       \/ unwritten' = TRUE /\ UNCHANGED index
    /\ UNCHANGED <<doc, boot, left, updates, intruded>>

BulkInsert(f) ==
    /\ script = "inserting" /\ f \in left
    /\ left' = left \ {f}
    /\ script' = IF left = {f} THEN "done" ELSE script
    /\ \/ /\ doc' = [doc EXCEPT ![f] = Full(f)]
          /\ index' = IF index = "absent" THEN "guessed" ELSE index
          /\ UNCHANGED unwritten
       \/ unwritten' = TRUE /\ UNCHANGED <<doc, index>>
    /\ UNCHANGED <<boot, updates, intruded>>

-----------------------------------------------------------------------------
(* searchFlights                                                           *)

\* The sort names two fields: without an index or without documents that have
\* made them known, Elasticsearch refuses the search.
Searchable == index = "mapped" \/ (index = "guessed" /\ \E f \in Flights : doc[f].full)

\* must: origin and destination, and the seats if a number of passengers is given.
Matches(route, passengers) ==
    {f \in Flights :
        /\ index = "mapped" /\ doc[f].full /\ RouteOf[f] = route
        /\ passengers > 0 => doc[f].seats >= passengers}

\* sort: price, then departure
Before(f, g) ==
    \/ doc[f].price < doc[g].price
    \/ doc[f].price = doc[g].price /\ Departure[f] < Departure[g]

Page(route, passengers, n) ==
    LET found == Matches(route, passengers)
        Rank(f) == Cardinality({g \in found : Before(g, f)})
    IN {f \in found : (n - 1) * Limit <= Rank(f) /\ Rank(f) < n * Limit}

TotalPages(route, passengers) ==
    (Cardinality(Matches(route, passengers)) + Limit - 1) \div Limit

-----------------------------------------------------------------------------
ScriptStep == DeleteIndex \/ PutIndex \/ \E f \in Flights : BulkInsert(f)

PodStarts(p) == CheckIndex(p) \/ CreateIndex(p)

IndexNext ==
    \/ \E p \in SearchPods : PodStarts(p)
    \/ ScriptStep
    \/ \E f \in Flights : \/ UpsertFlight(f)
                          \/ \E d \in {1, -1} : UpdateAvailableSeats(f, d)
                          \/ \E price \in Prices : UpdatePrice(f, price)

-----------------------------------------------------------------------------
(* Properties                                                              *)

\* After the script every flight with a free seat is on some page of a search for
\* its route, although starting pods create the index, too, and prices and seats
\* change; unless a message or a sample flight was written between DELETE and PUT, or
\* the PUT or an insert had no effect.
SeededIsFound ==
    script = "done" /\ ~intruded /\ ~unwritten =>
        \A f \in Flights :
            \/ doc[f].seats = 0
            \/ \E n \in 1 .. TotalPages(RouteOf[f], 1) : f \in Page(RouteOf[f], 1, n)

\* A pod that loses the race to create the index comes up in the end.
PodsStart == \A p \in SearchPods : <>(boot[p] = "up")

=============================================================================
