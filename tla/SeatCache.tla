------------------------------ MODULE SeatCache -----------------------------
(***************************************************************************)
(* The seat availability cache of booking-service: the Redis set           *)
(* airline:sa:<flight> of the seats on offer, which both services write.   *)
(*                                                                         *)
(*   tryReserve  takes a requested seat out of the set, or refuses;        *)
(*   unreserve   puts it back when the booking fails;                      *)
(*   syncSeat    (inventory-service, with every announcement) and          *)
(*   inventory.changed (later, through Kafka) add or remove one seat;      *)
(*   a snapshot of the rows replaces the set when a pod starts and when    *)
(*   the flight is reset, directly and through inventory.available.init;   *)
(*   the snapshot of a reset of another flight removes the set, likewise.  *)
(*                                                                         *)
(* Before it asks the cache, a booking pod looks in its map of requests in *)
(* flight and rejects a second one for the same seat.                      *)
(*                                                                         *)
(* Redis has no empty sets: when the last member goes the key goes, and a  *)
(* flight without a key is one the cache knows nothing about. The set of   *)
(* one flight is modelled; a script and a pipeline are one step each, and  *)
(* the index names every flight that has a set.                            *)
(***************************************************************************)
EXTENDS SeatChanges, Sequences, SequencesExt

CONSTANTS
    BookingPods,   \* booking-service replicas
    Disorders,     \* what may get out of order, a subset of DisorderKinds
    MaxSnapshots,  \* bound on the starts of inventory pods and the resets of the flight
    MaxFeed,       \* bound on the messages that are on their way at once
    MaxTroubles    \* bound on what gets lost and what the administrator adds or removes

DisorderKinds ==
    { "overtaking",    \* a message is delivered before an earlier one
      "lateSnapshot" } \* a snapshot is used after the rows have changed

ASSUME DisordersAssumption == Disorders \subseteq DisorderKinds
ASSUME MaxSnapshotsAssumption == MaxSnapshots \in Nat
ASSUME MaxFeedAssumption == MaxFeed \in Nat \ {0}
ASSUME MaxTroublesAssumption == MaxTroubles \in Nat

VARIABLES
    offered,    \* Redis: the set of the flight; {} when there is no key
    inflight,   \* each booking pod's map of requests whose doCreate has not settled
    feed,       \* Kafka: inventory.changed and inventory.available.init to come
    returning,  \* failed bookings whose unreserve is still to be called
    snapshot,   \* each inventory pod's snapshot: none, still to be read, or to be written
    snapshots,  \* starts and resets so far
    \* History:
    published,  \* a snapshot of the flight has been written, and none without it since
    stranded,   \* reservations that no unreserve takes back
    outdated,   \* seats that were announced as taken when they were free again
    unheard,    \* <<s, TRUE>>: no message has told booking-service that seat s is free;
                \* <<s, FALSE>>: nor, one time, that it was taken
    troubles    \* how often that has happened so far

cacheVars ==
    <<offered, inflight, feed, returning, snapshot, snapshots, published, stranded, outdated,
      unheard, troubles>>
lossVars == <<unheard, troubles>>
vars == <<seatVars, cacheVars>>

NoSnapshot == [stage |-> "none", seats |-> {}]

Changed(s, available) == [kind |-> "changed", s |-> s, available |-> available]
Fresh(S) == [kind |-> "init", seats |-> S]
WithoutFlight == [kind |-> "other"]

Feeds ==
    [kind : {"changed"}, s : Seats, available : BOOLEAN] \cup [kind : {"init"}, seats : SUBSET Seats]
        \cup {WithoutFlight}

\* The rows, the cache and what is on its way between them are well-formed: a taken
\* row has a holder, a reservation is only given up or taken back once, and a pod
\* handles one request for a seat at a time, as long as the request is not settled.
TypeOK ==
    /\ SeatsTypeOK
    /\ offered \subseteq Seats
    /\ feed \in Seq(Feeds)
    /\ snapshot \in [Pods -> [stage : {"none", "reset", "read"}, seats : SUBSET Seats]]
    /\ snapshots \in 0..MaxSnapshots
    /\ published \in BOOLEAN
    /\ returning \subseteq {b \in Bookings : request[b] \in {"releasing", "released", "done"}}
    /\ stranded \subseteq {b \in Bookings : request[b] \in {"releasing", "released", "done"}}
    /\ returning \cap stranded = {}
    /\ outdated \subseteq Seats
    /\ unheard \subseteq Seats \X BOOLEAN /\ troubles \in 0..MaxTroubles
    /\ inflight \in [BookingPods -> SUBSET Bookings]
    /\ \A q \in BookingPods : \A b \in inflight[q] :
          /\ request[b] \in {"none", "reserved"} \/ b \in returning
          /\ \A c \in inflight[q] \ {b} : SeatOf[c] # SeatOf[b]

Init ==
    /\ SeatsInit
    /\ offered = {} /\ feed = <<>> /\ returning = {}
    /\ inflight = [q \in BookingPods |-> {}]
    /\ snapshot = [p \in Pods |-> NoSnapshot] /\ snapshots = 0
    /\ published = FALSE /\ stranded = {} /\ outdated = {} /\ unheard = {} /\ troubles = 0

\* A step that is taken out of order only where that may happen.
Orderly(ok, kind) == ok \/ kind \in Disorders

Trouble == troubles < MaxTroubles /\ troubles' = troubles + 1

\* News that gets lost: <<s, TRUE>>, that the seat is free, or <<s, FALSE>>.
Missed(news) == unheard' = unheard \cup news

-----------------------------------------------------------------------------
(* The set.                                                                *)

\* TRY_RESERVE_LUA answers 1 or 2.
Admits(s) == offered = {} \/ s \in offered

Offer_AddsOnly(s, available) ==   \* mistake: the SREM is missing
    /\ offered' = offered \cup (IF available THEN {s} ELSE {})
    /\ stranded' = {b \in stranded : SeatOf[b] # s \/ ~available}

\* applyAvailability and syncSeat: SADD or SREM, whether there is a key or not
Offer(s, available) ==
    /\ offered' = IF available THEN offered \cup {s} ELSE offered \ {s}
    /\ stranded' = {b \in stranded : SeatOf[b] # s \/ ~available}

\* replaceAllFromSnapshots and replaceAllFromInventoryInit
Replace(S) ==
    /\ offered' = S
    /\ published' = (published \/ S # {})
    /\ stranded' = {b \in stranded : SeatOf[b] \notin S}

\* ... with the snapshots of other flights: the index names this one, its set goes.
Drop == offered' = {} /\ published' = FALSE /\ UNCHANGED stranded

-----------------------------------------------------------------------------
(* booking-service                                                         *)

InFlight == UNION {inflight[q] : q \in BookingPods}

\* create(): a second request for the seat is rejected while the first is in flight.
Request(q, b) ==
    /\ request[b] = "none" /\ b \notin InFlight
    /\ \/ /\ \E c \in inflight[q] : SeatOf[c] = SeatOf[b]
          /\ Becomes(b, "refused") /\ UNCHANGED inflight
       \/ /\ \A c \in inflight[q] : SeatOf[c] # SeatOf[b]
          /\ inflight' = [inflight EXCEPT ![q] = @ \cup {b}] /\ UNCHANGED request
    /\ UNCHANGED <<rowVars, sweep, announce>>
    /\ UNCHANGED <<offered, feed, returning, snapshot, snapshots, published, stranded, outdated, lossVars>>

Settle_Fulfilled(b, fulfilled) ==   \* mistake: p.then(cleanup), not p.then(cleanup, cleanup)
    inflight' = [q \in BookingPods |-> IF fulfilled THEN inflight[q] \ {b} ELSE inflight[q]]

\* The promise of doCreate is fulfilled or rejected.
Settle(b, fulfilled) == inflight' = [q \in BookingPods |-> inflight[q] \ {b}]

TryReserve(b) ==
    /\ b \in InFlight /\ request[b] = "none"
    /\ IF Admits(SeatOf[b])
       THEN offered' = offered \ {SeatOf[b]} /\ Becomes(b, "reserved") /\ UNCHANGED inflight
       ELSE UNCHANGED offered /\ Becomes(b, "refused") /\ Settle(b, FALSE)
    /\ UNCHANGED <<rowVars, sweep, announce>>
    /\ UNCHANGED <<feed, returning, snapshot, snapshots, published, stranded, outdated, lossVars>>

\* The script takes the seat but its answer is lost: the request fails, nothing is put back.
ReserveUnanswered(b) ==
    /\ Trouble
    /\ b \in InFlight /\ request[b] = "none"
    /\ Admits(SeatOf[b]) /\ offered' = offered \ {SeatOf[b]}
    /\ Becomes(b, "done") /\ Settle(b, FALSE)
    /\ stranded' = stranded \cup {b}
    /\ UNCHANGED <<rowVars, sweep, announce>>
    /\ UNCHANGED <<feed, returning, snapshot, snapshots, published, outdated, unheard>>

\* The booking is inserted and seat.lock emitted, or dropped by emit without an error;
\* or the INSERT is rejected.
Create(b) ==
    /\ request[b] = "reserved"
    /\ \/ Becomes(b, "asked") /\ Settle(b, TRUE) /\ UNCHANGED <<returning, stranded>>
       \/ /\ Becomes(b, "done") /\ Settle(b, TRUE)
          /\ stranded' = stranded \cup {b} /\ UNCHANGED returning
       \/ /\ Becomes(b, "done") /\ returning' = returning \cup {b}
          /\ UNCHANGED <<stranded, inflight>>
    /\ UNCHANGED <<rowVars, sweep, announce>>
    /\ UNCHANGED <<offered, feed, snapshot, snapshots, published, outdated, lossVars>>

\* The pod dies with the requests it is handling.
BookingCrash(q) ==
    /\ inflight[q] # {}
    /\ inflight' = [inflight EXCEPT ![q] = {}]
    /\ request' = [b \in Bookings |->
          IF b \notin inflight[q] THEN request[b]
          ELSE IF request[b] = "none" THEN "refused" ELSE "done"]
    /\ returning' = returning \ inflight[q]
    /\ stranded' = stranded \cup {b \in inflight[q] : request[b] # "none"}
    /\ UNCHANGED <<rowVars, sweep, announce>>
    /\ UNCHANGED <<offered, feed, snapshot, snapshots, published, outdated, lossVars>>

Compensate_Repeats(b) ==   \* mistake: compensate does not look at the status
    /\ \/ request[b] \in {"lost", "done"} /\ Becomes(b, "done") /\ UNCHANGED <<rowVars, sweep, announce>>
       \/ GiveUp(b)
    /\ returning' = returning \cup {b}
    /\ UNCHANGED <<offered, inflight, feed, snapshot, snapshots, published, stranded, outdated, lossVars>>

\* seat.lock.failed; or a booking that has locked its seat fails, and emits
\* seat.release before it calls unreserve.
Compensate(b) ==
    /\ \/ request[b] = "lost" /\ Becomes(b, "done") /\ UNCHANGED <<rowVars, sweep, announce>>
       \/ GiveUp(b)
    /\ returning' = returning \cup {b}
    /\ UNCHANGED <<offered, inflight, feed, snapshot, snapshots, published, stranded, outdated, lossVars>>

\* UNRESERVE_LUA does nothing when there is no key.
Unreserve(b) ==
    IF offered = {}
    THEN UNCHANGED offered /\ stranded' = stranded \cup {b}
    ELSE offered' = offered \cup {SeatOf[b]} /\ UNCHANGED stranded

\* The script runs, or the pod stops before it does.
Return(b) ==
    /\ b \in returning
    /\ \/ Unreserve(b)
       \/ UNCHANGED offered /\ stranded' = stranded \cup {b}
    /\ returning' = returning \ {b}
    /\ Settle(b, FALSE)
    /\ UNCHANGED <<seatVars, feed, snapshot, snapshots, published, outdated, lossVars>>

-----------------------------------------------------------------------------
(* inventory-service                                                       *)

Available == {s \in Seats : status[s] = "AVAILABLE"}

Publish(m) == Len(feed) < MaxFeed /\ feed' = Append(feed, m)

\* emitInventoryChanged: syncSeat, which is not awaited and may fail, and
\* inventory.changed, which emit may drop, or another service of the group may take.
Announce(a) ==
    /\ a \in announce
    /\ announce' = announce \ {a}
    /\ \E written, queued \in BOOLEAN :
          /\ IF written THEN Offer(a.s, a.available) ELSE UNCHANGED <<offered, stranded>>
          /\ IF queued
             THEN /\ Publish(Changed(a.s, a.available))
                  /\ unheard' = IF a.available THEN unheard \ {<<a.s, TRUE>>} ELSE unheard
             ELSE UNCHANGED feed /\ Missed({<<a.s, a.available>>})
          /\ IF written /\ queued THEN UNCHANGED troubles ELSE Trouble
          /\ outdated' = IF ~a.available THEN outdated \cup ({a.s} \cap Available)
                         ELSE IF queued THEN outdated \ {a.s} ELSE outdated
    /\ UNCHANGED <<rowVars, request, sweep>>
    /\ UNCHANGED <<inflight, returning, snapshot, snapshots, published>>

SeatStep ==
    /\ \/ \E b \in Bookings : LockLoses(b) \/ Confirm(b)
       \/ \E p \in Pods, b \in Bookings : LockWins(p, b) \/ Release(p, b)
       \/ \E p \in Pods : CronRead(p) \/ CronAnnounce(p)
       \/ \E p \in Pods, s \in Seats : CronFree(p, s)
    /\ UNCHANGED cacheVars

AdminStep ==
    /\ Trouble
    /\ \E p \in Pods, s \in Seats : AddSeat(p, s) \/ RemoveSeat(p, s)
    /\ UNCHANGED <<offered, inflight, feed, returning, snapshot, snapshots, published, stranded,
                   outdated, unheard>>

\* What a snapshot tells, once it is read; before, any seat may be in it.
Untold(p) == IF snapshot[p].stage = "reset" THEN Seats ELSE snapshot[p].seats

\* What gets lost in inventory-service (SeatChanges), and the news with it. Without an
\* answer to seat.lock, or without its handling, no unreserve will follow.
SeatTrouble ==
    /\ Trouble
    /\ \/ \E b \in Bookings :
             /\ MessageLost(b)
             /\ stranded' = stranded \cup ({b} \ {c \in Bookings : request[c] = "releasing"})
             /\ UNCHANGED <<snapshot, unheard>>
       \/ \E b \in Bookings : ReleaseAgain(b) /\ UNCHANGED <<snapshot, unheard, stranded>>
       \/ \E a \in announce :
             AnswerLost(a) /\ Missed({<<a.s, a.available>>}) /\ UNCHANGED <<snapshot, stranded>>
       \/ \E p \in Pods, s \in Seats :
             /\ CronFails(p, s)
             /\ Missed((sweep[p].freed \cup {s}) \X {TRUE})
             /\ UNCHANGED <<snapshot, stranded>>
       \/ \E p \in Pods :
             /\ PodStops(p)
             /\ snapshot' = [snapshot EXCEPT ![p] = NoSnapshot]
             /\ Missed({<<a.s, a.available>> : a \in {a \in announce : a.pod = p}}
                         \cup (sweep[p].freed \cup Untold(p)) \X {TRUE})
             /\ UNCHANGED stranded
    /\ UNCHANGED <<offered, inflight, feed, returning, snapshots, published, outdated>>

\* Nor is a message about the lock ten minutes on its way.
LockExpires(s) ==
    /\ Expire(s)
    /\ \A i \in DOMAIN feed : feed[i].kind = "changed" => feed[i].s # s
    /\ UNCHANGED cacheVars

\* The snapshot is what the rows are and what has been announced.
UpToDate(S) == S = Available /\ announce = {} /\ \A p \in Pods : sweep[p].freed = {}

\* The rows are reset, and their lock keys deleted, before they are read.
ResetFlight(p) ==
    /\ snapshot[p].stage = "none"
    /\ snapshots < MaxSnapshots /\ snapshots' = snapshots + 1
    /\ ResetSeats
    /\ snapshot' = [snapshot EXCEPT ![p] = [@ EXCEPT !.stage = "reset"]]
    /\ UNCHANGED <<offered, inflight, feed, returning, published, stranded, outdated, lossVars>>

\* A reset, or a pod that starts (publishInitialSnapshots), reads the rows ...
ReadRows(p) ==
    /\ \/ snapshot[p].stage = "reset" /\ UNCHANGED snapshots
       \/ /\ snapshot[p].stage = "none"
          /\ snapshots < MaxSnapshots /\ snapshots' = snapshots + 1
    /\ snapshot' = [snapshot EXCEPT ![p] = [stage |-> "read", seats |-> Available]]
    /\ UNCHANGED <<seatVars, offered, inflight, feed, returning, published, stranded, outdated, lossVars>>

\* ... writes the set and emits the same snapshot. Either may fail: a pipeline does not
\* reject when its commands do; when the read before it does, nothing is emitted.
WriteSnapshot(p) ==
    /\ snapshot[p].stage = "read"
    /\ Orderly(UpToDate(snapshot[p].seats), "lateSnapshot")
    /\ \E written, queued \in BOOLEAN :
          /\ IF written THEN Replace(snapshot[p].seats)
             ELSE UNCHANGED <<offered, published, stranded>>
          /\ IF queued
             THEN /\ Publish(Fresh(snapshot[p].seats))
                  /\ unheard' = unheard \ (snapshot[p].seats \X {TRUE})
                  /\ outdated' = outdated \ snapshot[p].seats
             ELSE UNCHANGED <<feed, outdated>> /\ Missed(snapshot[p].seats \X {TRUE})
          /\ IF written /\ queued THEN UNCHANGED troubles ELSE Trouble
    /\ snapshot' = [snapshot EXCEPT ![p] = NoSnapshot]
    /\ UNCHANGED <<seatVars, inflight, returning, snapshots>>

\* The rows are reset, but deleting their keys or reading them rejects.
ResetFails(p) ==
    /\ Trouble
    /\ snapshot[p].stage = "reset"
    /\ snapshot' = [snapshot EXCEPT ![p] = NoSnapshot]
    /\ Missed(Seats \X {TRUE})
    /\ UNCHANGED <<seatVars, offered, inflight, feed, returning, snapshots, published, stranded,
                   outdated>>

\* resetSeatsInternal(flightId) for another flight (bound: once after each snapshot)
ResetOther ==
    /\ published
    /\ Drop
    /\ \/ Publish(WithoutFlight) /\ UNCHANGED troubles
       \/ Trouble /\ UNCHANGED feed
    /\ UNCHANGED <<seatVars, inflight, returning, snapshot, snapshots, outdated, unheard>>

-----------------------------------------------------------------------------
(* booking-service's consumer. The messages have no key and the topics     *)
(* twelve partitions: nothing but luck keeps them in order.                *)

Deliver(i) ==
    /\ i \in DOMAIN feed
    /\ feed' = RemoveAt(feed, i)
    /\ \/ /\ feed[i].kind = "changed"
          /\ Offer(feed[i].s, feed[i].available)
          /\ Orderly(i = 1, "overtaking")
          /\ UNCHANGED published
       \/ /\ feed[i].kind = "init"
          /\ Replace(feed[i].seats)
          /\ Orderly(i = 1 /\ UpToDate(feed[i].seats), "lateSnapshot")
       \/ feed[i].kind = "other" /\ Drop
    /\ UNCHANGED <<seatVars, inflight, returning, snapshot, snapshots, outdated, lossVars>>

News(m) ==
    CASE m.kind = "changed" -> {<<m.s, m.available>>}
      [] m.kind = "init" -> m.seats \X {TRUE}
      [] m.kind = "other" -> {}

\* The handler rejects, and the message is logged and skipped.
Skip(i) ==
    /\ Trouble
    /\ i \in DOMAIN feed
    /\ feed' = RemoveAt(feed, i)
    /\ Missed(News(feed[i]))
    /\ UNCHANGED <<seatVars, offered, inflight, returning, snapshot, snapshots, published, stranded,
                   outdated>>

Next ==
    \/ \E q \in BookingPods, b \in Bookings : Request(q, b)
    \/ \E b \in Bookings :
          TryReserve(b) \/ ReserveUnanswered(b) \/ Create(b) \/ Compensate(b) \/ Return(b)
    \/ \E q \in BookingPods : BookingCrash(q)
    \/ \E a \in announce : Announce(a)
    \/ SeatStep \/ AdminStep \/ SeatTrouble
    \/ \E s \in Seats : LockExpires(s)
    \/ \E p \in Pods : ResetFlight(p) \/ ReadRows(p) \/ WriteSnapshot(p) \/ ResetFails(p)
    \/ ResetOther
    \/ \E i \in DOMAIN feed : Deliver(i) \/ Skip(i)

Spec == Init /\ [][Next]_vars

-----------------------------------------------------------------------------
\* Somebody will put the seat on offer.
OnItsWay(s) ==
    \/ \E b \in returning : SeatOf[b] = s
    \/ \E a \in announce : a.s = s /\ a.available
    \/ \E p \in Pods :
          \/ s \in sweep[p].freed
          \/ snapshot[p].stage = "reset"
          \/ s \in snapshot[p].seats
    \/ \E i \in DOMAIN feed :
          feed[i] = Changed(s, TRUE) \/ (feed[i].kind = "init" /\ s \in feed[i].seats)

\* A request for the seat would be refused by the pod.
Refuses(q, s) == ~Admits(s) \/ \E b \in inflight[q] : SeatOf[b] = s

\* No booking pod turns customers away from a seat that is free: from a snapshot on
\* until another flight is reset, a free seat is refused only while a request for it
\* is being handled, while the news that it is free is on its way, or because that
\* news was lost (unheard: dropped by emit, skipped, or never told by a pod that
\* stopped or a statement that was rejected), or a reservation was (stranded: with its
\* pod or its message, or put back when the set was gone), or because the announcement
\* of an earlier lock or removal came after the seat was free again (outdated).
HiddenForAReason ==
    published =>
        \A s \in Available, q \in BookingPods : Refuses(q, s) =>
            \/ OnItsWay(s)
            \/ \E b \in Bookings :
                  /\ SeatOf[b] = s
                  /\ \/ request[b] \in {"reserved", "asked", "lost"}
                     \/ request[b] = "none" /\ b \in inflight[q]
            \/ \E b \in stranded : SeatOf[b] = s
            \/ s \in outdated
            \/ <<s, TRUE>> \in unheard

\* The booking has failed, or its lock was taken from it.
Past(b) ==
    \/ request[b] \in {"releasing", "released", "done"}
    \/ request[b] \in {"locked", "confirmed"} /\ holder[SeatOf[b]] # b

\* A seat that is taken is not offered once its lock has been announced, whatever
\* snapshots were written and whatever the cron job freed since it was reserved: only
\* a booking that failed (compensate) or lost its lock can offer it again, or the
\* administrator who adds it; unless the announcement of the lock was lost (unheard).
OfferedForAReason ==
    \A s \in offered \ Managed : Taken(s) =>
        \/ \E a \in announce : a.s = s /\ ~a.available
        \/ \E i \in DOMAIN feed : feed[i] = Changed(s, FALSE)
        \/ \E b \in Bookings : SeatOf[b] = s /\ Past(b)
        \/ <<s, FALSE>> \in unheard

=============================================================================
