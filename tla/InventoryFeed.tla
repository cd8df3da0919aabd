---------------------------- MODULE InventoryFeed ---------------------------
(***************************************************************************)
(* What inventory.changed does downstream, for one flight:                 *)
(*                                                                         *)
(*   pricing-service counts the taken seats, prices the flight by its      *)
(*   occupancy and emits pricing.updated when the price changes;           *)
(*   search-service counts the free seats and shows the price.             *)
(*                                                                         *)
(* Neither looks at the seat: a message is +1 or -1. Messages have no key  *)
(* and spread over twelve partitions, so they may arrive in any order; all *)
(* that matters is how many of each kind a service has still to handle.    *)
(* On their way messages may get lost, and as deployed they go to one      *)
(* service only. What that does to a count is added up exactly: its drift. *)
(***************************************************************************)
EXTENDS SeatChanges, Integers, Sequences, SequencesExt

CONSTANTS
    BasePrice,     \* basePrice of the flight
    totalSeats,    \* its totalSeats
    Elsewhere,     \* how many seats that are not in Seats are BOOKED at first
    MaxTroubles,   \* bound on what goes wrong and what the administrator does
    MaxQueue       \* bound on the messages of a topic that a service has to handle

ASSUME BasePriceAssumption == BasePrice \in Nat
ASSUME SeatsAssumption ==
    /\ totalSeats \in Nat \ {0} /\ Elsewhere \in Nat
    /\ IsFiniteSet(Seats) /\ Elsewhere + Cardinality(Seats) <= totalSeats
ASSUME PodsAssumption == IsFiniteSet(Pods)
ASSUME MaxQueueAssumption == MaxQueue \in Nat \ {0}
ASSUME MaxTroublesAssumption == MaxTroubles \in Nat

VARIABLES
    elsewhere,                   \* Postgres: the BOOKED seats that are not in Seats
    sharedGroup,                 \* whether all services consume as one group
    bookedSeats, currentPrice,   \* Postgres: the flight's row in flight_prices
    availableSeats, price,       \* Elasticsearch: the flight's document
    toPricing, toSearch,         \* how many inventory.changed each has to handle
    updates,                     \* pricing.updated on their way
    \* History:
    pricingDrift, searchDrift,   \* by how much each will count too many taken seats
    stale,                       \* the latest price will not be the last one shown
    troubles                     \* how often something has gone wrong

countVars == <<bookedSeats, availableSeats>>
priceVars == <<currentPrice, price, updates, stale>>
queueVars == <<toPricing, toSearch>>
driftVars == <<pricingDrift, searchDrift>>
vars == <<seatVars, elsewhere, sharedGroup, countVars, priceVars, queueVars, driftVars, troubles>>

Tenths == {10, 12, 15, 20}

\* calculatePrice: the multiplier in tenths
Multiplier(booked) ==
    CASE booked * 10 >= totalSeats * 8 -> 20
      [] booked * 10 \in totalSeats * 6 .. totalSeats * 8 - 1 -> 15
      [] booked * 10 \in totalSeats * 3 .. totalSeats * 6 - 1 -> 12
      [] OTHER -> 10

\* ... rounded to thousands
Rounded(amount) == ((amount + 500) \div 1000) * 1000
PriceAt(multiplier) == Rounded((BasePrice * multiplier) \div 10)

TypeOK ==
    /\ SeatsTypeOK
    /\ elsewhere \in Nat /\ sharedGroup \in BOOLEAN
    /\ bookedSeats \in Nat /\ availableSeats \in Nat
    /\ currentPrice \in {PriceAt(m) : m \in Tenths}
    /\ price \in {PriceAt(m) : m \in Tenths}
    /\ updates \in Seq({PriceAt(m) : m \in Tenths})
    /\ toPricing \in [BOOLEAN -> Nat] /\ toSearch \in [BOOLEAN -> Nat]
    /\ pricingDrift \in Int /\ searchDrift \in Int
    /\ stale \in BOOLEAN
    /\ troubles \in 0..MaxTroubles

\* KAFKA_GROUP_ID is set in no manifest, and its default is one group for all services
\* (index.js:110); or each service is given a group of its own.
Init ==
    /\ SeatsInit
    /\ elsewhere = Elsewhere /\ sharedGroup \in BOOLEAN
    /\ bookedSeats = Elsewhere /\ availableSeats = totalSeats - Elsewhere
    /\ currentPrice = PriceAt(Multiplier(Elsewhere)) /\ price = currentPrice
    /\ toPricing = [available \in BOOLEAN |-> 0] /\ toSearch = [available \in BOOLEAN |-> 0]
    /\ updates = <<>>
    /\ pricingDrift = 0 /\ searchDrift = 0 /\ stale = FALSE /\ troubles = 0

-----------------------------------------------------------------------------
(* Losses.                                                                 *)

Trouble == troubles < MaxTroubles /\ troubles' = troubles + 1

\* What a message makes a service add to the seats it takes for taken.
Weight(available) == IF available THEN -1 ELSE 1

\* Both services will count n seats too many.
BothDrift(n) == pricingDrift' = pricingDrift + n /\ searchDrift' = searchDrift + n

\* The weight of the announcements that are due in some pods and in their cron runs.
DueIn(S) ==
      Cardinality({a \in announce : a.pod \in S /\ ~a.available})
    - Cardinality({a \in announce : a.pod \in S /\ a.available})
    - Cardinality({x \in S \X Seats : x[2] \in sweep[x[1]].freed})

-----------------------------------------------------------------------------
(* inventory-service                                                       *)

TakenSeats == elsewhere + Cardinality({s \in Seats : Taken(s)})

\* The cache admits the booking.
Request(b) ==
    /\ request[b] = "none"
    /\ Becomes(b, "asked")
    /\ UNCHANGED <<rowVars, sweep, announce>>

SeatStep ==
    /\ \/ /\ \/ \E b \in Bookings : Request(b) \/ LockLoses(b) \/ Confirm(b) \/ GiveUp(b)
             \/ \E p \in Pods, b \in Bookings : LockWins(p, b)
             \/ \E s \in Seats : Expire(s)
             \/ \E p \in Pods : CronRead(p) \/ CronAnnounce(p)
          /\ UNCHANGED driftVars
       \* A seat is announced as free whether it was taken or not.
       \/ \E p \in Pods, b \in Bookings :
             Release(p, b) /\ BothDrift(IF HasLock(b) THEN 0 ELSE -1)
       \/ \E p \in Pods, s \in Seats :
             CronFree(p, s) /\ BothDrift(IF Taken(s) THEN 0 ELSE -1)
    /\ UNCHANGED <<elsewhere, sharedGroup, countVars, priceVars, queueVars, troubles>>

\* Seats nobody took are announced as free or gone; a reset is announced to neither service.
AdminStep ==
    /\ Trouble
    /\ \/ \E p \in Pods, s \in Seats : AddSeat(p, s) /\ BothDrift(-1) /\ UNCHANGED elsewhere
       \/ \E p \in Pods, s \in Seats : RemoveSeat(p, s) /\ BothDrift(1) /\ UNCHANGED elsewhere
       \/ ResetSeats /\ elsewhere' = 0 /\ BothDrift(TakenSeats)
    /\ UNCHANGED <<sharedGroup, countVars, priceVars, queueVars>>

\* What was announced by nobody is counted by nobody.
SeatTrouble ==
    /\ Trouble
    /\ \/ \E b \in Bookings : (MessageLost(b) \/ ReleaseAgain(b)) /\ UNCHANGED driftVars
       \/ \E a \in announce : AnswerLost(a) /\ BothDrift(-Weight(a.available))
       \/ \E p \in Pods : PodStops(p) /\ BothDrift(-DueIn({p}))
       \/ \E p \in Pods, s \in Seats :
             CronFails(p, s)
                /\ BothDrift(Cardinality(sweep[p].freed)
                             + (IF Taken(s) /\ status'[s] = "AVAILABLE" THEN 1 ELSE 0))
    /\ UNCHANGED <<elsewhere, sharedGroup, countVars, priceVars, queueVars>>

Room(queue) == queue[TRUE] + queue[FALSE] < MaxQueue
OneMore(queue, available) == [queue EXCEPT ![available] = @ + 1]
OneLess(queue, available) == [queue EXCEPT ![available] = @ - 1]

\* inventory.changed goes to every group that subscribes, unless emit drops it; of one
\* shared group one service gets it: pricing, search or booking-service.
Reaches(pricingToo, searchToo) ==
    \/ sharedGroup /\ ~(pricingToo /\ searchToo) /\ UNCHANGED troubles
    \/ ~sharedGroup /\ pricingToo /\ searchToo /\ UNCHANGED troubles
    \/ ~sharedGroup /\ ~pricingToo /\ ~searchToo /\ Trouble

Announce(a) ==
    /\ a \in announce
    /\ Room(toPricing) /\ Room(toSearch)
    /\ announce' = announce \ {a}
    /\ \E pricingToo, searchToo \in BOOLEAN :
          /\ Reaches(pricingToo, searchToo)
          /\ IF pricingToo
             THEN toPricing' = OneMore(toPricing, a.available) /\ UNCHANGED pricingDrift
             ELSE UNCHANGED toPricing /\ pricingDrift' = pricingDrift - Weight(a.available)
          /\ IF searchToo
             THEN toSearch' = OneMore(toSearch, a.available) /\ UNCHANGED searchDrift
             ELSE UNCHANGED toSearch /\ searchDrift' = searchDrift - Weight(a.available)
    /\ UNCHANGED <<rowVars, request, sweep>>
    /\ UNCHANGED <<elsewhere, sharedGroup, countVars, priceVars>>

-----------------------------------------------------------------------------
(* pricing-service: one replica, one message after the other               *)

AtLeastZero_NoFloor(n) == n   \* mistake: Math.max is missing

AtLeastZero(n) == IF n < 0 THEN 0 ELSE n

\* onInventoryChanged up to repo.save; counting below zero counts nothing.
SaveCount(available) ==
    /\ bookedSeats' = AtLeastZero(bookedSeats + Weight(available))
    /\ currentPrice' = PriceAt(Multiplier(bookedSeats'))

PricingFloor(available) == IF available /\ bookedSeats = 0 THEN 1 ELSE 0

Tell_RisesOnly(new) ==   \* mistake: a price that falls is not emitted
    /\ IF new > currentPrice
       THEN updates' = Append(updates, new) /\ stale' = FALSE
       ELSE UNCHANGED <<updates, stale>>
    /\ UNCHANGED troubles

\* A new price is emitted, or dropped by emit.
Tell(new) ==
    IF new = currentPrice THEN UNCHANGED <<updates, stale, troubles>>
    ELSE \/ updates' = Append(updates, new) /\ stale' = FALSE /\ UNCHANGED troubles
         \/ UNCHANGED updates /\ stale' = TRUE /\ Trouble

\* A new price is not emitted.
Untold == stale' = (stale \/ currentPrice' # currentPrice) /\ UNCHANGED updates

PricingHandles(available) ==
    /\ toPricing[available] > 0
    /\ Len(updates) < MaxQueue
    /\ toPricing' = OneLess(toPricing, available)
    /\ SaveCount(available)
    /\ Tell(currentPrice')
    /\ pricingDrift' = pricingDrift + PricingFloor(available)
    /\ UNCHANGED <<seatVars, elsewhere, sharedGroup, availableSeats, price, toSearch, searchDrift>>

\* findOneBy or save rejects, without an effect: the message is skipped.
PricingSkips(available) ==
    /\ Trouble
    /\ toPricing[available] > 0
    /\ toPricing' = OneLess(toPricing, available)
    /\ pricingDrift' = pricingDrift - Weight(available)
    /\ UNCHANGED <<seatVars, elsewhere, sharedGroup, countVars, priceVars, toSearch, searchDrift>>

\* save takes effect but rejects: the message is skipped, nothing is emitted.
PricingUnanswered(available) ==
    /\ Trouble
    /\ toPricing[available] > 0
    /\ toPricing' = OneLess(toPricing, available)
    /\ SaveCount(available) /\ Untold
    /\ pricingDrift' = pricingDrift + PricingFloor(available)
    /\ UNCHANGED <<seatVars, elsewhere, sharedGroup, availableSeats, price, toSearch, searchDrift>>

\* The pod stops after the save: nothing is emitted, the message comes again.
PricingStops(available) ==
    /\ Trouble
    /\ toPricing[available] > 0
    /\ SaveCount(available) /\ Untold
    /\ pricingDrift' = pricingDrift + Weight(available) + PricingFloor(available)
    /\ UNCHANGED <<seatVars, elsewhere, sharedGroup, availableSeats, price, queueVars, searchDrift>>

-----------------------------------------------------------------------------
(* search-service                                                          *)

Delta_Swapped(available) == IF available THEN -1 ELSE 1   \* mistake: the wrong way round

Delta(available) == IF available THEN 1 ELSE -1

\* updateAvailableSeats
Count(available) == availableSeats' = AtLeastZero(availableSeats + Delta(available))

SearchFloor(available) == IF ~available /\ availableSeats = 0 THEN 1 ELSE 0

SearchCounts(available) ==
    /\ toSearch[available] > 0
    /\ toSearch' = OneLess(toSearch, available)
    /\ Count(available)
    /\ searchDrift' = searchDrift - SearchFloor(available)
    /\ UNCHANGED <<seatVars, elsewhere, sharedGroup, bookedSeats, priceVars, toPricing, pricingDrift,
                   troubles>>

\* The update is rejected, as with a version conflict: the message is skipped.
SearchSkips(available) ==
    /\ Trouble
    /\ toSearch[available] > 0
    /\ toSearch' = OneLess(toSearch, available)
    /\ searchDrift' = searchDrift - Weight(available)
    /\ UNCHANGED <<seatVars, elsewhere, sharedGroup, countVars, priceVars, toPricing, pricingDrift>>

\* The pod stops after the update: the message comes again.
SearchStops(available) ==
    /\ Trouble
    /\ toSearch[available] > 0
    /\ Count(available)
    /\ searchDrift' = searchDrift + Weight(available) - SearchFloor(available)
    /\ UNCHANGED <<seatVars, elsewhere, sharedGroup, bookedSeats, priceVars, queueVars, pricingDrift>>

\* updatePrice. A price handled before an older one is replaced by that.
SearchPrices(i) ==
    /\ i \in DOMAIN updates
    /\ price' = updates[i]
    /\ updates' = RemoveAt(updates, i)
    /\ stale' = (stale \/ (i = Len(updates) /\ i > 1))
    /\ UNCHANGED <<seatVars, elsewhere, sharedGroup, countVars, currentPrice, queueVars, driftVars,
                   troubles>>

\* updatePrice rejects and the message is skipped; or the pod stops after it, and the
\* message comes again.
SearchPriceFails(i) ==
    /\ Trouble
    /\ i \in DOMAIN updates
    /\ \/ /\ updates' = RemoveAt(updates, i)
          /\ stale' = (stale \/ i = Len(updates))
          /\ UNCHANGED price
       \/ price' = updates[i] /\ UNCHANGED <<updates, stale>>
    /\ UNCHANGED <<seatVars, elsewhere, sharedGroup, countVars, currentPrice, queueVars, driftVars>>

Next ==
    \/ SeatStep \/ AdminStep \/ SeatTrouble
    \/ \E a \in announce : Announce(a)
    \/ \E available \in BOOLEAN :
          \/ PricingHandles(available) \/ PricingSkips(available)
          \/ PricingUnanswered(available) \/ PricingStops(available)
          \/ SearchCounts(available) \/ SearchSkips(available) \/ SearchStops(available)
    \/ \E i \in DOMAIN updates : SearchPrices(i) \/ SearchPriceFails(i)

Spec == Init /\ [][Next]_vars

-----------------------------------------------------------------------------
\* The changes that are still to be announced or handled, as seen by a service.
Owed(queue) == queue[FALSE] - queue[TRUE] + DueIn(Pods)

\* pricing-service's count is the number of taken seats but for what has still to reach
\* it, in whatever order, and for its drift: what was announced though nothing changed,
\* lost by inventory-service, by Kafka or by a handler, taken by another service of the
\* group, handled twice, or cut off at zero. No other step makes it drift.
PricingBalances == bookedSeats + Owed(toPricing) = TakenSeats + pricingDrift

\* The same of search-service's count of free seats.
SearchBalances == totalSeats - availableSeats + Owed(toSearch) = TakenSeats + searchDrift

\* When everything has been handled, and the latest price was neither lost nor replaced
\* by an older one, customers see the price of the flight's occupancy, but for the drift.
\* A tier starts at its lower bound: 120 seats of 150 cost double, as in
\* pricing.service.spec.ts:47-61; the comment at pricing.service.ts:11 says > 80%.
PriceShownFollowsDemand ==
    /\ ~stale /\ updates = <<>>
    /\ SeatsQuiet /\ \A available \in BOOLEAN : toPricing[available] = 0
    =>
    LET percent == ((TakenSeats + pricingDrift) * 100) \div totalSeats
    IN price = PriceAt(CASE percent < 30 -> 10
                         [] percent \in 30..59 -> 12
                         [] percent \in 60..79 -> 15
                         [] percent >= 80 -> 20)

=============================================================================
