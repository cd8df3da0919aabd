# Verification of the airline ticket booking platform

TLA+ models, TLC runs and TLAPS proofs for the services under `src/`: what
happens to a seat and to a booking when several pods, a cron job, two databases,
Redis, Kafka, Elasticsearch and a browser act on them at once.

Contents: 1 the system, 2 the modules, 3 the runs and their bounds, 4 what the
runs found, 5 the proofs, 6 what is not modelled, 7 the plan.

## 1. The system

Five NestJS services talk through Kafka (topics without message keys, 12
partitions each, so no order between messages) and keep their state in Postgres,
Redis and Elasticsearch; a React application calls their HTTP APIs. The manifests
under `src/k8s` run booking-service twice, inventory-service three times,
search-service three times, the others once.

| Component | State | Operations | Talks to |
|---|---|---|---|
| seat lock service, `inventory-service/.../seat-locker.service.ts` | table `seats` (status, lockToken, lockExpiresAt), Redis keys `seat:lock:<flight>:<seat>` with a TTL of 600 s | `lock`, `release`, `confirm`, `releaseExpiredSeats`, `addAvailableSeat`, `removeSeat`, `resetAllSeatsToAvailable` | called by the next row |
| inventory handlers, cron and HTTP, `inventory.kafka-handler.service.ts`, `inventory.controller.ts` | none of their own | `seat.lock`, `seat.release`, `seat.confirm`; the cron job every minute; add, remove, reset | emit `seat.locked`, `seat.lock.failed`, `seat.confirmed`, `seat.confirm.failed`, `inventory.changed`, `inventory.available.init` |
| booking creation, `booking.service.ts` | table `bookings`, a map of requests in flight per pod | `create` | cache; emits `seat.lock` |
| booking saga, `booking.saga.ts` | status and sagaState of the booking; the payment callback in memory | `onSeatLocked`, `onPaymentCompleted`, `onSeatConfirmed`, `compensate` | emits `seat.confirm`, `seat.release`, `booking.confirmed` |
| seat availability cache, `available-seats-cache.service.ts`, `shared-seat-availability-redis.service.ts`, `seat-availability-publisher.service.ts` | Redis sets `airline:sa:<flight>` shared by both services | reserve, unreserve, apply a change, replace everything | `inventory.changed`, `inventory.available.init` |
| Kafka library, `libs/kafka-rdkafka/index.js` | a promise chain of handlers, the committed offsets | `emit`, `handleMessage`, shutdown | broker |
| pricing, `pricing.service.ts` | `flight_prices` | `onInventoryChanged` | emits `pricing.updated` |
| search, `search.service.ts`, and the seed script `04-elasticsearch-seed.js` | Elasticsearch index `flights` | `ensureIndex`, `searchFlights`, `seedSampleFlights`, `updateAvailableSeats`, `updatePrice`; DELETE, PUT and bulk insert of the script | |
| notification | none | logs `booking.confirmed` | |
| frontend, `SearchPage.tsx`, `BookPage.tsx`, `TrackPage.tsx`, `api.ts` | React state of the page that is open, requests in flight, a timer | search and page, load and pick seats, book, track | the APIs of search, inventory and booking |

What makes it hard:

* a lock is two facts in two stores, written in two steps, by pods that race;
* the saga is a chain of conditional UPDATEs and messages in two services; a
  message may be late, lost or repeated, and overtake another;
* the payment callback and everything after an UPDATE live in a pod's memory;
* a handler that throws is skipped, and `emit` swallows its errors;
* locks expire while somebody may still be working on their booking;
* the cron job frees by id what it read a moment ago, on every replica;
* both services write the same Redis set, with single changes and with whole
  snapshots that were read a moment ago;
* messages are received ahead of their handlers: a crash, a shutdown or a
  rebalance finds a chain of them;
* starting pods, the seed script and handlers may all create the search index;
* answers to the browser overtake each other, get lost, or find another page.

What correctness means here, component by component: a lock call tells the truth
about the row, and its losers leave nothing behind (seat lock service); a token
whose lock is gone is harmless (release, confirm); a customer whose booking says
CONFIRMED has the seat, and nobody else has (saga); no seat is lost to a booking
that failed; every booking settles when nothing fails; every lock ends even when
something does; the cache hides no free seat and offers no locked one without a
cause (cache); counts and prices follow the seats but for what was lost, and by no
more than that (pricing, search); no message
is committed untried, handled out of order or repeated without a cause (Kafka
library); seeded flights are found (search); the pages say what happened and one
visit makes one booking (frontend). The hazards are listed line by line in
`PROJECT.json`.

## 2. The modules

| Module | Models |
|---|---|
| `SeatLocker` | the seat lock service: one action per SQL statement or Redis command |
| `BookingSystem` | the saga end to end; extends `SeatLocker` with booking-service, Kafka and notification-service |
| `SeatSale` | the abstract sale of seats that the whole system implements |
| `SeatChanges` | inventory-service as the listeners see it: each operation on a row in one step, and the announcement that follows |
| `SeatCache` | the Redis set of seats on offer and the requests in flight; extends `SeatChanges` |
| `InventoryFeed` | pricing-service and search-service; extends `SeatChanges` |
| `KafkaRunner` | the Kafka library of every service: promise chain, commits, shutdown, rebalances |
| `SearchIndex` | the Elasticsearch index: who creates it, writes it and searches it |
| `WebApp` | one browser tab over the three APIs; extends `SearchIndex` |
| `SeatLockerProofs`, `BookingSystemProofs`, `SeatCacheProofs`, `InventoryFeedProofs`, `KafkaRunnerProofs`, `SearchIndexProofs`, `WebAppProofs` | theorems about the module they are named after |
| `SeatChangesProofs` | lemmas about `SeatChanges` for the two modules that extend it |
| `MCSeatLocker`, `MCBookingSystem`, `MCSeatCache`, `MCInventoryFeed`, `MCKafkaRunner`, `MCWebApp` | small instances for TLC |

### SeatLocker

`row` is the `seats` table: status (MISSING when there is no row), token, and
whether `lockExpiresAt` has passed. `redis` is the token in each lock key. `call`
is the Kafka handler each pod is running (handlers are chained, one at a time):
the statement it is at, its booking, its token and its answer. `cron` is the set
of rows each pod's `releaseExpiredSeats` has read and has still to free. `admin`
is the administrator's request in progress. The other four variables are history:
the booking a token was generated for, the tokens that were granted, the token
that booked a seat, the number of faults.

`lock` is `StartLock`, `LockSetNX`, `LockUpdate` and, when no row was affected,
`LockFind`, `LockInsert` or `LockUndo`; `release` is `StartRelease`, `ReleaseKey`,
`ReleaseRow`; `confirm` is `StartConfirm`, `ConfirmRow`, `ConfirmKey`; `Reply` is
the return of the handler. `CronRead` and `CronFree` are the SELECT and the
UPDATE by id of `releaseExpiredSeats`. `AddFind`/`AddSave`,
`RemoveFind`/`RemoveDelete` and `ResetRows`/`ResetKey` are the administrator's
requests, read before write as in the code. `CallRejects` is any awaited call
that rejects, with or without its effect, and goes where the code's catch blocks
go. A token is an abstract value and `randomUUID()` the choice of a new one. Time
is abstract: `RowExpires` and `KeyExpires` happen at any moment.

What the environment may do is the constant `Env`, a subset of `EnvKinds`, and
crashes, rejected calls, lost and repeated messages count against `MaxFaults`.
`LockerSpec` is the service on its own, under clients that release and confirm
the tokens they were granted, in any order and any number of times.

### BookingSystem

`booking` has the status and the token of each booking; `log` and `pending` are
what was emitted and what a consumer has still to receive, as sets, so messages
overtake each other; `timers` and `cont` are what a booking pod holds in memory:
payments under way, and functions whose UPDATE is committed and whose rest (emit,
start the payment) is still to come. `OnSeatLocked`, `OnPaymentCompleted`,
`OnSeatConfirmed` and `Compensate` are the conditional UPDATEs; `Resume` is the
rest of the function. The inventory side starts the calls of `SeatLocker`
(`ReceiveLock`, `ReceiveRelease`, `ReceiveConfirm`) and turns their answers into
messages (`HandlerReply`). `seat.confirm.failed` is emitted and has no
subscriber, as in the code. A crash loses timers and suspended functions and
brings back the message whose handler had not returned. `ContRejects` is a
committed UPDATE whose answer got lost, `Lose` a message that never arrives
(producer not ready, queue full, or a handler that threw before changing
anything), `Redeliver` one that arrives again.

The cache may admit or refuse a request; here every request may be admitted,
which is what the service does when the cache has nothing on the flight.

### SeatSale

Two variables, `sold` and `outcome`, and four actions: ask, sell, confirm, fail.
`BookingSystem` implements it with `sold[s]` = the booking whose token booked the
row of `s` while that row is BOOKED, and `outcome[b]` = the status of `b` with the
three intermediate ones taken together. Creating the booking asks, the UPDATE of
`confirm` sells, the UPDATEs of `onSeatConfirmed` and `compensate` confirm and
fail; every other step of the system changes nothing in the sale.

### SeatChanges

The rows again, coarser: an operation of `SeatLocker` is one step, and what
matters is the gap between the statement that changes a row and
`emitInventoryChanged`, which runs when its answer has come. `announce` holds the
announcements that are due, `sweep` the rows that each pod's cron run has read
(`found`) and freed (`freed`). `Release` announces a free seat whether its UPDATE
matched or not, `Confirm` announces nothing, `LockLoses` may happen at any time,
because a lock key can be in the way of a free row. `request` is how far each
booking has come. `AddSeat` and `RemoveSeat` are one step here (`SeatLocker` has
their two), on the seats in `Managed`; `ResetSeats` frees every row and announces
nothing, as in the code.

Between the row and the announcement things get lost. `MessageLost`: `emit` drops
`seat.lock`, its negative answer or `seat.release`, or the handler throws at once
and its message is skipped. `AnswerLost`: the statement took effect, its answer did
not come, the handler throws or the administrator gets an error, and nobody is told.
`CronFails`: an UPDATE of the cron job rejects, so that `releaseExpiredSeats`
throws and no row it has freed is announced. `PodStops`: the pod dies with what it
had to announce, and its message comes again; `ReleaseAgain`: it dies after that but
before the commit.

### SeatCache

`offered` is the set of one flight; empty and absent are the same, as in Redis.
`inflight` is each booking pod's map of requests whose `doCreate` has not
settled: `Request` looks there first and refuses a second request for the seat,
`Settle` is the clean-up when the promise is fulfilled or rejected.
`Admits`/`TryReserve` is `TRY_RESERVE_LUA`, `Unreserve` is `UNRESERVE_LUA`,
`Offer` is `syncSeat` and `applyAvailability`, `Replace` the snapshot. `Create` is
the rest of `doCreate` with its ends (queued; dropped by `emit`; INSERT rejected),
`BookingCrash` the death of a pod with its map, `Compensate` and `Return` the two
halves of `compensate`, with `returning` for the bookings in between. `feed` is
what Kafka still has to deliver.

A snapshot is read in one step and written in another: `ReadRows` is a pod that
starts (`publishInitialSnapshots`) or the second half of a reset of the flight
(`ResetFlight`, which frees the rows first), `WriteSnapshot` replaces the set and
emits it. `ResetOther` is the reset of another flight: its snapshot does not name
this one, so the set goes (`Drop`), directly and again when the message
(`WithoutFlight`) arrives.

`Orderly` marks the steps that assume an order: a message delivered first come
first served, a snapshot used while it is up to date. `Disorders` drops these
assumptions one by one. Nothing is assumed of the cron job: it may free a row that
was locked again since it read it.

What gets lost is a `Trouble`, and there are `MaxTroubles`: everything of
`SeatChanges`; `syncSeat` or a snapshot's pipeline failing; `emit` dropping
`inventory.changed` or `inventory.available.init`, or another service of the shared
consumer group taking it (both in `Announce` and `WriteSnapshot`: written or not,
queued or not); a handler that rejects (`Skip`); a reset that ends after its UPDATE
(`ResetFails`); a reservation whose answer is lost (`ReserveUnanswered`).

Four history variables: `published` (a snapshot of the flight is in force),
`stranded` (reservations that nobody will take back, until the seat is announced
again), `outdated` (seats that were announced as taken when they were free again,
because the cron job freed the row between the UPDATE of a lock and its
announcement), and `unheard`: the news of a seat that no message brought to
booking-service. That a seat is free is unheard until a message says so; that it was
taken stays unheard.

### InventoryFeed

A message is +1 or -1 to both services, so `toPricing` and `toSearch` only count
what each has still to handle: any order is allowed. `PricingHandles` is
`onInventoryChanged` with the emit after it (`Tell`, which `emit` may drop),
`SearchCounts` and `SearchPrices` are the handlers of search-service. `Elsewhere`
seats of the flight are taken and stay so unless they are reset.

Each handler has the ways in which it can go wrong: it rejects without an effect and
its message is skipped (`PricingSkips`, `SearchSkips`, as after a version
conflict); it rejects though its statement took effect (`PricingUnanswered`, no
price is emitted); its pod stops before the commit and the message comes again
(`PricingStops`, `SearchStops`); the same of a price (`SearchPriceFails`). `Announce`
may drop the message. With those of `SeatChanges` and the administrator's
changes they count against `MaxTroubles`.

`sharedGroup` is chosen by `Init`. It is TRUE as deployed: KAFKA_GROUP_ID is set in
no manifest, all services are one consumer group, and each message reaches one of
pricing, search and booking (`Reaches`), for which no trouble is needed. It is FALSE
when every service is given a group of its own.

`pricingDrift` and `searchDrift` are history: how many taken seats too many each
service will have counted when it has handled what is on its way. A step changes a
drift only where the code announces what did not happen (a late release, a seat the
cron job frees twice, one that the administrator adds or removes), does not
announce what did (a reset, `CronFails`, `PodStops`, `AnswerLost`), loses a message
or handles it twice, or cuts a count off at zero; and by the number of seats
concerned. `stale` is history, too: the latest price was lost, or replaced by an
older one. Whatever else may happen, the properties say that the counts are off by
the drift exactly, and the price by no more.

### KafkaRunner

A message is a pair of a partition and an offset. `end`, `committed`, `owner` and
`position` are the broker's; `chain` is `this.processing` of each pod, the
messages received and not yet settled; `life` and `awaited` are how far
`onModuleDestroy` has come. `Receive` is the `data` event, `HandlerReturns`,
`HandlerThrows`, `Commit` and `CommitFails` are the steps of `handleMessage`,
`Stop`, `Disconnect` and `Exit` the shutdown: it awaits the chain as it is at that
moment, and what arrives later is handled without a commit. The broker is
external, modelled from how the library configures it: `Assign` and `Move` give a
partition to a pod that reads on from the committed offset, or from the end when
there is none (`skipped`), because `auto.offset.reset` is not set. Nothing stops a
pod that lost a partition from going on with what it has in its chain, and its
commit may still arrive.

### SearchIndex and WebApp

`index` is absent, has the field types the code wants, or has guessed ones
because a write came first. `CheckIndex`/`CreateIndex` is `ensureIndex`, two
requests; `DeleteIndex`, `PutIndex` and `BulkInsert` the seed script;
`UpsertFlight`, `UpdateAvailableSeats` and `UpdatePrice` what services write, with
an upsert that inserts a document of one field; a request of the script may have no
effect, as it looks at the status of none (`unwritten`: its PUT, or an insert that is
only reported); `Matches`, `Before`, `Page` and
`TotalPages` the query, its sort and its pages.

`WebApp` is one tab: the page that is open, with its React state, and the requests
in flight (`req`), each of which is sent, answered, arrives and is followed by the
page's continuation in separate steps. `AskPage`, `LoadSeats`, `HandleBook` and
`FetchBooking` are the functions up to their `await`, `ShowPage`, `ShowSeats`,
`ShowBooking` and `ShowStatus` the rest of them; a page that was left is not
changed. `Tick` is TrackPage's timer, `Lose` a connection that breaks before or
after the server did its work. `AnswerCreate` is `doCreate`: refused; inserted and
answered, its `seat.lock` queued or dropped (the saga of such a booking never
starts); or inserted although the answer of Postgres is lost, which the client is
told as an error. The seats' labels are BookPage's (01A) and the
rows' (1A), which differ in rows 1 to 9. The saga is reduced to what pages can see
of it (`SagaStep`).

## 3. The runs

| Run | Question | Instance |
|---|---|---|
| `locker_handlers` | Do lock answers tell the truth, do keys and rows agree at rest, is a lock never stolen, when three pods race? | 1 seat, 2 bookings, 3 tokens, 3 pods, 1 crash, seat creation, expired rows; no cron |
| `locker_full` | Is a token whose lock has gone harmless, whatever happens? | 2 pods with cron, all of `Env` that concerns the service, 1 fault |
| `system_faults` | Does a CONFIRMED customer have the seat, and keep the lock until then, under any two faults? | 2 bookings, 4 tokens, 2 inventory pods (one with cron), 1 booking pod |
| `system_recovery` | Is no seat sold twice, does the saga implement `SeatSale`, and does every lock end, when work is lost? As long as nothing is, does every booking settle, is the winner announced and the seat sold? | 2 bookings, 3 tokens, 1 fault: crash, rejected call or lost message |
| `cache_order` | Is a free seat refused, or a locked one offered, only for a cause? | 2 seats, 2 rivals for the first, an administrator for the second, 2 booking pods, 2 inventory pods (one with cron), 1 pod start or reset of the flight, a reset of another flight after each snapshot, 2 messages on their way, 1 trouble |
| `feed_order` | Are the counts off by exactly what was lost or told twice, in any order of messages, and does the price shown follow them? | 5 seats, 2 of them modelled, 40 to 80 percent taken; 2 bookings, 1 pod, 2 messages on their way to each service, 1 trouble, with one group and with a group for each service |
| `kafka_runner` | Is a message committed untried, handled out of order or repeated without a cause, or never tried? | 1 partition, 2 pods, 3 messages, 1 crash or lost commit, 1 move, 1 shutdown |
| `web_customer` | Are seeded flights found, do the pages say what is true, does one visit make one booking and end with its outcome on the screen? | 2 flights, one on each page; 2 search pods, 1 update, 2 requests in flight, 1 lost answer (of a server or of Postgres), 1 rival |
| `late_confirm`, `redelivered_lock`, `cron_race`, `seat_labels` | the four violations of section 4 | 1 or 2 bookings, 1 seat |

`NoDoubleSale` follows from `ConfirmedHoldsSeat`, so that `system_faults` covers it
too; `system_recovery` checks it by name.

One seat is enough for the saga: every statement names one seat, and seats meet
only in a pod's queue (handlers of a pod run one after the other, so a second seat
would only delay) and in the lists of the cron job and the reset, which treat each
seat on its own; the proofs of section 5 are for any number. Two bookings are the
winner and the loser. Two inventory pods are two
concurrent handlers; three give a holder, a rival and a third that comes between.
A lock call uses one token, so an instance needs as many tokens as bookings plus
the calls that faults repeat, one for each fault: the instances have that many,
and no lock call is kept from starting for want of a token except in `LockerSpec`,
where clients may ask for ever and the number of tokens bounds the behaviours.

For the cache the rivals on one seat and a second seat that keeps the set from
being empty, or does not when it is removed, are all there is to tell apart, and
two booking pods are one that has the request in flight and one that has not. In
`feed_order` 60 and 80 percent are the lower bounds of two price tiers, so the
comparisons are tested where they change; a queue of two holds a release and the lock
it overtakes. One booking wants the seat that the administrator adds and removes.

In both runs one trouble or one change by the administrator happens, because each
cause is to explain its own effect; the theorems of section 5 are for any number.
So `AddSeat` finds a row there in the runs (adding what was removed takes two
changes), and what needs two troubles is left to the proofs. A `syncSeat` that rejects is not awaited by anybody: that
an unhandled rejection may end the process is `PodStops`. A pipeline that ends in
the middle, and the choice which service a message of the shared group went to, are
not told apart in `SeatCache`: the message is one that booking-service did not get.

`kafka_runner` has one partition because partitions meet only in a pod's chain
and the theorems about order and commits are for any number; three messages let
one be handled, one wait and one arrive late. In `web_customer` two requests in
flight are two answers that cross; a page is visited once (no way back from
TrackPage), the index moves only while SearchPage is open, and a flight is
selected when it is at rest (`IndexAtRest`), because nothing after that depends on
it.

`cache_order` assumes order (`Disorders = {}`), which the code does not secure:
`inventory.changed` has twelve partitions and no key. Each assumption is needed.
With `{"overtaking"}` a late "taken" hides a seat that is free again until the
next announcement or pod start; with `{"lateSnapshot"}` a pod that starts while a
seat is being locked offers it again to everybody. `OfferedForAReason` needs the
second only (section 5). The run says that the design is right up to these, not
that the deployment is. Other weaknesses are part of the model and
excused in the properties by name: without a snapshot in force (`published`: none
yet, or another flight was reset since) an announcement creates a set of one seat,
and every other free seat is refused; a seat put back while the set is gone is
forgotten, and so is one whose pod died (`stranded`); the cron job may free a
row that was locked again since it read it, so that the seat's announcement as
taken is the last one and hides it (`outdated`); and the news that a seat is free may
never have reached booking-service (`unheard`).

Deadlock is not checked: a system that has served its requests stops, and a
booking that lost its message stays what it is. Where stopping would be wrong the
liveness properties say so. Symmetry (of tokens, pods that have the same jobs,
bookings) is used in the runs without temporal properties other than action
properties.

Fairness. `BookingSystem` (`FairSpec`): the services go on as long as they can
(`ServiceStep`: a NestJS process runs its handlers, timers and cron job), a lock
whose booking nothing works on passes its `lockExpiresAt`, and a Redis key passes
its TTL. It is one weak-fairness condition for all service steps together, which
is weaker than one for each pod; it is enough because in the runs that use it no
service can be kept busy for ever by one pod: work is finite. Nothing is assumed
of clients, administrators and faults. `KafkaRunner`: each pod goes on (handlers
end, Nest finishes its shutdown, Kubernetes restarts a pod that is down), and the
broker assigns a free partition and delivers what its owner has not received.
`WebApp`: servers answer or fail, answers arrive, sagas go on, search pods are
started again, TrackPage's timer fires. Nobody has to press a button.

`Env` without `lateExpiry` says that handlers and messages keep within the TTL of
10 minutes: a row expires only when no message, handler, timer or suspended
function is left for its booking (`InProgress`). It is the assumption under which
confirm may ignore `lockExpiresAt`; `late_confirm` drops it. The lock key may expire
at any moment even then.

`SettlesIfNothingFails`, `ConfirmedIsAnnounced` and `DemandIsServed` promise nothing
once a fault has happened: a step that is lost is repeated by nobody, so a booking may
then stay as it is for ever. That is what the code does, not a finding of a run;
`LocksEnd` says that its lock goes all the same.

## 4. What the runs found

* `late_confirm` (`EveryBookingSettles`): "if any step fails, compensate()"
  (booking.saga.ts:16) does not hold of the confirm. The lock expires before
  `seat.confirm` is handled, the answer is `seat.confirm.failed`, and that is in
  nobody's topic list (booking.module.ts:19): the booking stays in
  PAYMENT_PROCESSING for ever. Nothing has crashed or got lost in the trace.
* `redelivered_lock` (`BookedForLiveBooking`): handlers are to be idempotent
  (README.md:321), but a second delivery of `seat.lock` finds the key of the
  first, answers `seat.lock.failed`, and `compensate` fails a booking whose
  `seat.confirm` is already on its way. The seat stays BOOKED for nobody. Nothing
  else can do that: theorem `NoSeatIsLost`.
* `cron_race` (`ConfirmedHoldsSeat`): "BOOKED for ever" (seat-locker.service.ts:131)
  does not hold with the cron job on more than one replica, because
  `releaseExpiredSeats` updates by id what it read before. With one cron job and
  handlers within the TTL it does: theorem `CustomersHoldTheirSeats`.
* `seat_labels` (`OneCustomerPerSeat`): BookPage.tsx:160 names the seats of rows 1
  to 9 with two digits (01A), the seeded rows are 1A (01-inventory-seats.sql:12),
  and a label without a row counts as AVAILABLE (line 161). The page shows every
  seat of these rows as free; where the cache admits the request, the lock handler
  inserts a second row for a seat that is sold.

Weaknesses that the models contain and the properties excuse by name, without a
run of their own:

* Redis removes a set with its last member and without a set everybody is admitted
  (available-seats-cache.service.ts:9): for a full flight the fast reject is gone,
  and only the lock keeps seats from being sold twice.
* All services share the consumer group `service-group` (libs/kafka-rdkafka/index.js:110)
  unless KAFKA_GROUP_ID is set, and no manifest sets it (`sharedGroup`): a change of a
  seat reaches one of three services, and the counts of the other two, or the cache,
  drift with every message.
* Nothing repairs a count: a message that `emit` drops or a handler skips, a cron run
  that ends in the middle and a pod that dies before its announcement shift it for
  good (`pricingDrift`, `searchDrift`), and hide a seat from the cache until it is
  announced again or a pod starts (`unheard`).
* At exactly 80 percent a flight costs double, as in pricing.service.spec.ts:47-61; the
  comment at pricing.service.ts:11 says "> 80%", and the tiers of the comment meet at
  their bounds. `PriceShownFollowsDemand` follows the code and the test there.
* A group without a committed offset starts at the end of a partition, so a pod that
  crashes before its first commit leaves what it had chained to nobody (`skipped`).
* Resetting one flight replaces the snapshots of all (inventory.controller.ts:105),
  and is told to booking-service only: counts and prices keep the old demand
  (`published`, the drifts).
* A message or a sample flight that is written between DELETE and PUT of the seed
  creates the index with guessed field types (`intruded`); the script goes on after a
  PUT that failed, with the same result, and only prints what was not inserted
  (`unwritten`).
* An answer of `POST /bookings`, or of Postgres to its INSERT, that gets lost is shown
  as Booking Failed (`lost`);
  answers of two searches, or of two loads of the seats, may cross (`crossed`).

## 5. The proofs

All for any number of seats, bookings, tokens, pods, partitions and messages; the
assumptions are the named `ASSUME`s of the modules on their constants, which TLC
evaluates in the runs, and the premises stated in the theorems.

### SeatLockerProofs

* `LockerTyping`: `LockerSpec => []LockerTypeOK`, for any environment. The
  invariant is inductive as it stands because it relates the variables: a row has
  a token exactly while it is LOCKED, a booker exactly while it is BOOKED, and a
  handler in progress has a booking and a token issued for that booking (without
  which the seat it works on would not be a seat). One lemma per group of actions;
  the row-writing statements (`SetLocked`, `SetBooked`, `SetFree`, `SetMany`) and
  the call steps (`CallSteps`) are lemmas used by all of them.
* `LocksAreNotStolen` and `BookedIsForever`: `LockNotStolen` and `BookedForever`
  under `NoCleanup` (no cron job, no removals, no resets: the paths that write
  rows without looking). They rest on two more invariants: `CallInOrder`, that
  the statement a handler is at tells which function it is in, and `AdminAsked`,
  that a removal is under way only where the administrator may ask for one. The
  argument is that a conditional UPDATE, also one whose answer is lost, touches a
  LOCKED row only with that row's token and a BOOKED row never.
* `SpentIsForever`: `SpentForever`, for any environment: rows get tokens only from
  lock calls that are still writing, and lock calls only tokens never issued.
* `LockRepliesAreTrue`: `LockReplyTruthful` under `Undisturbed` (`NoCleanup`, and no
  call rejects: one that rejects may have taken effect without the caller's
  knowing). The invariants: a lock call shares its token with no other handler
  (`TokensApart`), a row's token belongs to a booking of that seat
  (`RowTokensPlaced`), and a lock call's token is in a row exactly when the call is
  about to say so (`LockWritten`).
* `KeysAgreeAtRest`: `QuietKeysAgree` under `OnlyHandlers` (also no key expires in
  Redis). The invariant explains each key and each lock while nothing has crashed: a
  key is the row's, or that of a call that will drop it or write the row
  (`KeyHasReason`); a lock has its key, unless a release has dropped it and is about
  to free the row (`LockHasKey`); and a lock call past its SETNX has its key, unless
  the row is BOOKED and the call will lose (`CallKnows`). `locker_handlers` satisfies
  both premises.

### BookingSystemProofs

The module proves what the system runs check about two bookings and one seat.

* `SystemTyping` (any environment). `TypeOK` is not inductive: that the token of a
  message was generated for its booking has to be carried through the logs. `IInv`
  adds that a handler's message, a suspended function's message and a booking's
  token were all in `log` before, and that tokens that travel were granted. The
  last makes every step of the system a step of the clients of `LockerNext`, or one
  that leaves the service alone (lemma `LockerSide`), so that the invariants of
  `SeatLockerProofs` hold in the whole system, and with them `TokensStaySpent`.
* `NoSeatIsLost`, if `"redeliver"` is not in `Env`: `BookedForLiveBooking`, with
  every other fault, resets, late handlers and any number of cron jobs. The
  invariant `SaleInv`: a booking is created once, its lock is asked for once and
  answered once (`Once`, the part that a repeated message breaks), a `seat.confirm`
  is only emitted for a booking whose lock was won and that is past payment
  (`PaidFor`), and a seat is only booked by a `seat.confirm` (`BookedAsked`). So a
  booking whose seat is booked has no `seat.lock.failed` that could fail it.
* `CustomersHoldTheirSeats`, `NoSeatIsSoldTwice`, `LocksStand`, under `Timely` (at
  most one cron job; handlers within the TTL; no removal, no reset), with messages
  delivered again, lost, and calls rejected at will. The invariant `HeldInv`: a row
  in the hands of the cron job is expired, and nothing works for its booking any
  more (`CronHolds`, `Quiet`), so the UPDATE by id hits what was read; a finished
  `confirm`, a `seat.confirmed` and a CONFIRMED booking each imply a row booked for
  that booking (`Held`). The lemma `RowMoves` lists the ways a row can change.
* `SagaImplementsSale`, under both premises: `Spec => ImplementsSale`. Every step
  maps to one of the four actions of `SeatSale` or to a stutter.
* `SagasGoOn`, under `Timely`: `NeverStranded`, that while nothing has failed every
  unsettled booking has a message, a handler, a timer or a suspended function that
  takes it further. The premise is needed because nobody consumes
  `seat.confirm.failed`: a booking may only not be left behind if its confirm
  never fails. So the invariant `StrandInv` says why it does not. Whatever fails,
  the saga goes forward (`Forward`: a seat is asked for after payment and given
  back after failure). While nothing fails, a lock that somebody relies on
  (`Claims`) is in its row or has booked it (`Standing`), and each status has its
  chain of work (`Carried`, one named part for each status). It does not need the
  premise that nothing is delivered again: a redelivery is one of the things that
  fail, and counted.

`system_faults` satisfies `Timely`, `system_recovery` both premises. That the
premises are needed is what `cron_race` and `redelivered_lock` show.

### SeatChangesProofs and SeatCacheProofs

`SeatChangesProofs` has what `SeatCacheProofs` and `InventoryFeedProofs` share: the
types, and for each of the variables `request`, `status`, `announce` and `sweep`
the ways in which a step may change it, losses included (`RequestMoves`, `RowMoves`,
`AnnounceMoves`, `SweepMoves`); and `Answering`, that an announcement which is due for
a booking is the one its handler owes, so that a pod that stops takes back what it
has not announced and nothing else.

* `CacheTypesInvariant`, for any `Disorders`. `TypeOK` relates requests, maps and
  reservations; it is inductive with `Answering` and `KeptInflight`, that a request is in flight in
  one pod and that its reservation is given back there only after the booking
  failed.
* `OfferedReasons`, if `"lateSnapshot"` is not in `Disorders`: `OfferedForAReason`,
  with messages overtaking each other at will. The invariant `PastInv`: a taken seat
  has the booking that took it (`HolderHadLock`), a row that the cron job has read was
  locked by somebody (`FoundHadLock`), and a free seat that was announced, or is
  about to be, had a holder who lost it, or one that nobody heard of (`FreedIsGone`,
  by `Lapsed`).
* `HiddenReasons`, if `Disorders = {}`: `HiddenForAReason`, with any number of
  troubles. The invariant `HiddenInv`: a free seat that is not on offer is named free
  by a message on its way or still to be sent, or one of the causes holds
  (`FreeIsAwaited`, by `Claimed` and `Awaited`); and a message that takes a free seat
  off the set is not the last about it (`FreeIsSaidLater`), unless one of them does. A
  step makes a seat free, or drops the word about it, only with a new word
  (`NowSaid`) or a new cause.

The attempt to prove the last one showed that it was untrue in its first form, on
instances larger than the run's: a cron job that has read an expired lock can free
the row under the next lock's announcement. The model has that step now, without
an assumption, and the property the excuse `outdated`.

### InventoryFeedProofs

`FeedTyping`, `PricingIsRight`, `SearchIsRight`, `PriceIsRight`. The invariant
`IInv` adds to `TypeOK` that a row a cron run has read is freed and announced once
(`SweepsApart`), the two balances, and that unless `stale` the last price on its way,
or else the one shown, is the one last computed (`PriceFollows`). A balance is an
equation of cardinalities, with the seats that are taken, or that nobody can know to
be free yet, on one side (`Seen`). A step of the rows makes them a number less
(`Accounted`) and adds that number to both drifts: one for most steps, all that a pod
had to say for `PodStops`, all that a run had freed for `CronFails`. Lemmas say what
that does to the cardinalities. No theorem has a premise about groups or faults.
`PriceIsRight` follows with the arithmetic of the tiers.

### KafkaRunnerProofs

`TypeCorrect`, `CommitsAreSafe`, `OrderIsKept`. The invariant `IInv`: whatever is below a
committed offset was tried or skipped (`CommitsBehind`); whatever is below a
message in a chain was tried, was skipped or is before it in that chain
(`ChainsCovered`); the same below the position of an owner (`OwnersCovered`); a
handler that has returned has its message in `tried` (`ReturnedTried`); and what
is below a tried message was tried or skipped (`TriedBehind`). The second and the
third survive a move of the partition because the new owner starts at a committed
offset or behind what is then `skipped`.

`RepeatsHaveReasons`: `RepeatsArePaid`, that handlings are repeated at most as often
as crashes, lost commits and shutdowns explain. The invariant `RepeatInv` is an
account. `Open` are the messages handled and not committed, but for those whose
commit is under way in the group, `Unwatched` the handlers still to return in pods
that left the group; the repeats and these two together never exceed `owed`
(`Paid`). A crash or a lost commit opens one message and pays one; a pod that
leaves has paid for its chain; a handler that returns for a message already done
takes it out of `Open`, or itself out of `Unwatched`. That a message in a chain is
not committed and in no other chain of the group is `ChainsInOrder`: each chain
holds only messages of partitions its pod owns, between the committed offset and
the position, in order. This is what a partition that is taken from a pod with
messages of it breaks, so these parts are stated for `~overtaken`.

### SearchIndexProofs and WebAppProofs

* `SeededFlightsAreFound`, for any number of search pods and flights. The invariant
  `IndexInv`: an index with the wrong field types has been created by a write
  between DELETE and PUT, or before there was an index, or after a PUT that failed
  (`IndexKept`); a document that was inserted has its numbers (`DocsKept`).
* `WebTypesInvariant`, any number of requests in flight: `TypeOK` with the types of
  what a request may ask and be answered (`PageTypes`, `RequestTypes`,
  `WorldTypes`). A bound on the page number shown was false beyond the run's
  instance, where an answer for a page that is gone can arrive, and was dropped.
* `CustomersFindSeededFlights`: the promise of the index in the whole system.
* `ListedPageIsNamed`: while no second search crossed the first, a search in flight
  is the one of the page shown (`OneSearch`).
* `VisitBooksOnce` and `LastScreenIsTrue`, from `BookInv`: seats are loaded before
  anything is booked (`SeatsFirst`); a POST is in flight, or a booking made, only
  once and then the form is gone (`OneCreate`); what the page was told is so
  (`ToldOfBooking`), and it is told of a failure after a refusal or a loss
  (`ToldOfFailure`).

### Only model-checked

Liveness (`SettlesIfNothingFails`, `ConfirmedIsAnnounced`, `DemandIsServed`,
`LocksEnd`, `EveryMessageTried`, `PodsStart`, `OutcomeIsShown`), which under
fairness is out of the prover's reach. Every other property of a passing run is
stated by a theorem.

## 6. What is not modelled

* The administrator's pages of the frontend: each is one GET and a table.
* The cache's in-memory fallback, which runs without REDIS_URL: no manifest leaves
  it out, and several replicas could not share it.
* The SQL seeds, but for the names of the seats.
* Layout, filters of what is shown, and the texts of reasons and notifications.
* Requests that only read and that no page modelled here depends on.
* The second UPDATE of `onSeatLocked`, which stores a measured time (that it may
  fail is `ContRejects`).
* A Redis pipeline that is cut off between its commands, and a flight without a row in
  `flight_prices` (the seeds make one for each).
* Kafka, Redis, Postgres and Elasticsearch themselves, beyond what the services
  rely on; deployment files and tests.

`booking.failed` is subscribed to by notification-service and emitted by nobody.
The status CANCELLED is declared and never set.

## 7. The plan

The order was by what matters most to the platform, a sold seat: `SeatLocker` and
its proofs, `BookingSystem` and `SeatSale`; then what follows a seat, `SeatChanges`,
`SeatCache`, `InventoryFeed`; then what carries the messages, `KafkaRunner`; then
what the customer sees, `SearchIndex` and `WebApp`; then the proofs of the saga,
the feed and the library, and of the cache, the index and the pages. All of this
is done.

Left: that `SeatLocker` implements the coarser operations of `SeatChanges`; a
refinement from `BookingSystem`'s messages to `KafkaRunner`'s "tried at least once
unless skipped"; the composition of `SeatCache` and `InventoryFeed` with one consumer
group, where a message that one of them misses is one the other got; `HiddenForAReason` with messages that overtake each other, in the
weaker form that still holds.
