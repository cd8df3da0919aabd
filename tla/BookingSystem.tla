---------------------------- MODULE BookingSystem ---------------------------
(***************************************************************************)
(* The booking saga end to end: booking-service (HTTP create, BookingSaga, *)
(* its Kafka handler), inventory-service (the module SeatLocker, started   *)
(* and answered through Kafka) and the consumer of booking.confirmed in    *)
(* notification-service.                                                   *)
(*                                                                         *)
(*   create          -- seat.lock -->       inventory: lock                *)
(*   onSeatLocked    <-- seat.locked --     (or compensate                 *)
(*                                           <-- seat.lock.failed --)      *)
(*   payment timer, then onPaymentCompleted                                *)
(*                   -- seat.confirm -->    inventory: confirm             *)
(*   onSeatConfirmed <-- seat.confirmed --                                 *)
(*                   -- booking.confirmed --> notification                 *)
(*   compensate      -- seat.release -->    inventory: release             *)
(*                                                                         *)
(* Kafka: the producer names neither key nor partition, so messages arrive *)
(* in any order; offsets are committed after the handler, so a message may *)
(* arrive again. `log` is what was emitted, `pending` what a consumer has  *)
(* still to receive.                                                       *)
(*                                                                         *)
(* A booking-service handler is one conditional UPDATE and, when it hit a  *)
(* row, the rest of the function: a continuation the pod loses if it dies. *)
(* The seat availability cache (tryReserve, unreserve, inventory.changed)  *)
(* may admit or refuse any request: here every request may be admitted,    *)
(* and the cache has its own module, SeatCache.                            *)
(***************************************************************************)
EXTENDS SeatLocker

CONSTANT BookingPods   \* booking-service replicas

VARIABLES
    booking,   \* Postgres: status of each booking and the token in its sagaState
    log,       \* Kafka: messages emitted so far
    pending,   \* Kafka: messages a subscriber has still to receive
    timers,    \* each booking pod's bookings whose mock payment is running
    cont,      \* each booking pod's functions whose UPDATE is done, the rest not
    notified   \* bookings notification-service has announced as confirmed

sagaVars == <<booking, log, pending, timers, cont, notified>>
vars == <<lockerVars, sagaVars>>

-----------------------------------------------------------------------------
Msg(type, b, t) == [type |-> type, b |-> b, t |-> t]

ToInventory == {"seat.lock", "seat.release", "seat.confirm"}
ToBooking == {"seat.locked", "seat.lock.failed", "seat.confirmed"}
ToNotification == {"booking.confirmed"}

Subscribed_NoLockFailed ==   \* mistake: seat.lock.failed is not subscribed to either
    ToInventory \cup (ToBooking \ {"seat.lock.failed"}) \cup ToNotification

\* The topics some consumer subscribes to: seat.confirm.failed has none.
Subscribed == ToInventory \cup ToBooking \cup ToNotification

Messages ==
    [type : Subscribed \cup {"seat.confirm.failed"}, b : Bookings, t : Tokens \cup {NoToken}]

\* Functions suspended after their UPDATE or INSERT: BookingService.create,
\* onSeatLocked, onPaymentCompleted, onSeatConfirmed and compensate.
Conts == [fn : {"create", "locked", "paid", "confirmed", "compensate"}, b : Bookings]

\* Kafka handlers run one after the other; HTTP requests and timers do not wait.
KafkaFns == {"locked", "confirmed", "compensate"}
Busy(q) == \E c \in cont[q] : c.fn \in KafkaFns

Statuses == {"NONE", "INITIATED", "SEAT_LOCKED", "PAYMENT_PROCESSING", "CONFIRMED", "FAILED"}

\* A booking past INITIATED and not FAILED knows the token of its lock, and a
\* token found in a booking was generated for it.
BookingWellFormed(b) ==
    /\ booking[b].status \in {"SEAT_LOCKED", "PAYMENT_PROCESSING", "CONFIRMED"}
          => booking[b].token # NoToken
    /\ booking[b].token # NoToken => issued[booking[b].token] = b

\* The topics whose messages carry the lock token: the booking's own.
WithToken == {"seat.locked", "seat.release", "seat.confirm"}

MessageWellFormed(m) ==
    IF m.type \in WithToken THEN m.t \in Tokens /\ issued[m.t] = m.b ELSE m.t = NoToken

\* A function suspended after onSeatLocked's UPDATE finds the token in the row.
ContWellFormed(c) == c.fn \in {"locked", "paid", "confirmed"} => booking[c.b].token # NoToken

TypeOK ==
    /\ LockerTypeOK
    /\ booking \in [Bookings -> [status : Statuses, token : Tokens \cup {NoToken}]]
    /\ log \subseteq Messages
    /\ pending \subseteq log
    /\ timers \in [BookingPods -> SUBSET Bookings]
    /\ cont \in [BookingPods -> SUBSET Conts]
    /\ notified \subseteq Bookings
    /\ \A b \in Bookings : BookingWellFormed(b)
    /\ \A m \in log : MessageWellFormed(m)
    /\ \A q \in BookingPods : \A c \in cont[q] : ContWellFormed(c)

Init ==
    /\ LockerInit
    /\ booking = [b \in Bookings |-> [status |-> "NONE", token |-> NoToken]]
    /\ log = {}
    /\ pending = {}
    /\ timers = [q \in BookingPods |-> {}]
    /\ cont = [q \in BookingPods |-> {}]
    /\ notified = {}

-----------------------------------------------------------------------------
(* Kafka                                                                   *)

Emit(M) ==
    /\ log' = log \cup M
    /\ pending' = pending \cup {m \in M : m.type \in Subscribed}

Consume_NoCommit(m) ==   \* mistake: the offset of a handled message is not committed
    /\ m \in pending
    /\ UNCHANGED <<log, pending>>

Consume(m) ==
    /\ m \in pending
    /\ pending' = pending \ {m}
    /\ UNCHANGED log

-----------------------------------------------------------------------------
(* inventory-service: InventoryKafkaHandlerService around SeatLocker.      *)

ReceiveLock(p, m) ==
    /\ m.type = "seat.lock"
    /\ Consume(m)
    /\ \E t \in Tokens : StartLock(p, m.b, t)
    /\ UNCHANGED <<booking, timers, cont, notified>>

ReceiveRelease(p, m) ==
    /\ m.type = "seat.release"
    /\ Consume(m)
    /\ StartRelease(p, m.b, m.t)
    /\ UNCHANGED <<booking, timers, cont, notified>>

ReceiveConfirm(p, m) ==
    /\ m.type = "seat.confirm"
    /\ Consume(m)
    /\ StartConfirm(p, m.b, m.t)
    /\ UNCHANGED <<booking, timers, cont, notified>>

Answers_AlwaysConfirms(c) ==   \* mistake: the result of confirm is not looked at
    CASE c.op = "lock" /\ c.ok -> {Msg("seat.locked", c.b, c.t)}
      [] c.op = "lock" /\ ~c.ok -> {Msg("seat.lock.failed", c.b, NoToken)}
      [] c.op = "confirm" -> {Msg("seat.confirmed", c.b, NoToken)}
      [] OTHER -> {}

\* What the handler emits for a finished call.
Answers(c) ==
    CASE c.op = "lock" /\ c.ok -> {Msg("seat.locked", c.b, c.t)}
      [] c.op = "lock" /\ ~c.ok -> {Msg("seat.lock.failed", c.b, NoToken)}
      [] c.op = "confirm" /\ c.ok -> {Msg("seat.confirmed", c.b, NoToken)}
      [] c.op = "confirm" /\ ~c.ok -> {Msg("seat.confirm.failed", c.b, NoToken)}
      [] OTHER -> {}

HandlerReply(p) ==
    /\ Reply(p)
    /\ Emit(Answers(call[p]))
    /\ UNCHANGED <<booking, timers, cont, notified>>

\* The message a pod is handling: its offset is committed only after the reply,
\* so Kafka delivers it again when the pod dies.
Handled(c) ==
    CASE c.op = "lock" -> {Msg("seat.lock", c.b, NoToken)}
      [] c.op = "release" -> {Msg("seat.release", c.b, c.t)}
      [] c.op = "confirm" -> {Msg("seat.confirm", c.b, c.t)}
      [] OTHER -> {}

InventoryCrash(p) ==
    /\ PodCrash(p)
    /\ pending' = pending \cup Handled(call[p])
    /\ UNCHANGED <<booking, log, timers, cont, notified>>

LockerStep ==
    /\ \/ \E p \in Pods : HandlerStep(p)
       \/ \E p \in CronPods : CronStep(p)
    /\ UNCHANGED sagaVars

-----------------------------------------------------------------------------
(* booking-service                                                         *)

Status(b) == booking[b].status
Suspend(q, fn, b) == cont' = [cont EXCEPT ![q] = @ \cup {[fn |-> fn, b |-> b]}]

\* BookingService.create up to the INSERT. The in-flight map of the pod refuses
\* a seat that another request of the same pod is still creating.
Create(q, b) ==
    /\ Status(b) = "NONE"
    /\ \A c \in cont[q] : c.fn = "create" => SeatOf[c.b] # SeatOf[b]
    /\ booking' = [booking EXCEPT ![b].status = "INITIATED"]
    /\ Suspend(q, "create", b)
    /\ UNCHANGED <<log, pending, timers, notified>>

\* mergeSagaUpdate: one UPDATE guarded by the statuses it may start from. When no
\* row matches, the function returns and the message counts as handled.
MergeSaga(q, b, from, to, fn) ==
    \/ /\ Status(b) \in from
       /\ booking' = [booking EXCEPT ![b].status = to]
       /\ Suspend(q, fn, b)
    \/ /\ Status(b) \notin from
       /\ UNCHANGED <<booking, cont>>

OnSeatLocked_NoToken(q, m) ==   \* mistake: the token is not merged into sagaState
    /\ m.type = "seat.locked"
    /\ ~Busy(q)
    /\ Consume(m)
    /\ MergeSaga(q, m.b, {"INITIATED"}, "SEAT_LOCKED", "locked")
    /\ UNCHANGED <<timers, notified>>

OnSeatLocked(q, m) ==
    /\ m.type = "seat.locked"
    /\ ~Busy(q)
    /\ Consume(m)
    /\ \/ /\ Status(m.b) = "INITIATED"
          /\ booking' = [booking EXCEPT ![m.b] = [status |-> "SEAT_LOCKED", token |-> m.t]]
          /\ Suspend(q, "locked", m.b)
       \/ /\ Status(m.b) # "INITIATED"
          /\ UNCHANGED <<booking, cont>>
    /\ UNCHANGED <<timers, notified>>

OnPaymentCompleted(q, b) ==
    /\ b \in timers[q]
    /\ timers' = [timers EXCEPT ![q] = @ \ {b}]
    /\ MergeSaga(q, b, {"SEAT_LOCKED"}, "PAYMENT_PROCESSING", "paid")
    /\ UNCHANGED <<log, pending, notified>>

OnSeatConfirmed(q, m) ==
    /\ m.type = "seat.confirmed"
    /\ ~Busy(q)
    /\ Consume(m)
    /\ MergeSaga(q, m.b, {"PAYMENT_PROCESSING"}, "CONFIRMED", "confirmed")
    /\ UNCHANGED <<timers, notified>>

Compensate(q, m) ==
    /\ m.type = "seat.lock.failed"
    /\ ~Busy(q)
    /\ Consume(m)
    /\ MergeSaga(q, m.b, {"INITIATED", "SEAT_LOCKED", "PAYMENT_PROCESSING"}, "FAILED",
                 "compensate")
    /\ UNCHANGED <<timers, notified>>

Emissions_Silent(c) ==   \* mistake: onSeatConfirmed announces nothing
    CASE c.fn = "create" -> {Msg("seat.lock", c.b, NoToken)}
      [] c.fn = "paid" -> {Msg("seat.confirm", c.b, booking[c.b].token)}
      [] c.fn = "compensate" /\ booking[c.b].token # NoToken ->
            {Msg("seat.release", c.b, booking[c.b].token)}
      [] OTHER -> {}

\* The rest of the function, after its UPDATE: create asks for the lock,
\* onSeatLocked starts the payment, onPaymentCompleted asks for the seat,
\* onSeatConfirmed announces it, compensate gives a lock back if it has one.
Emissions(c) ==
    CASE c.fn = "create" -> {Msg("seat.lock", c.b, NoToken)}
      [] c.fn = "paid" -> {Msg("seat.confirm", c.b, booking[c.b].token)}
      [] c.fn = "confirmed" -> {Msg("booking.confirmed", c.b, NoToken)}
      [] c.fn = "compensate" /\ booking[c.b].token # NoToken ->
            {Msg("seat.release", c.b, booking[c.b].token)}
      [] OTHER -> {}

Resume_NoPayment(q, c) ==   \* mistake: onSeatLocked does not start the payment
    /\ c \in cont[q]
    /\ cont' = [cont EXCEPT ![q] = @ \ {c}]
    /\ Emit(Emissions(c))
    /\ UNCHANGED <<booking, timers, notified>>

Resume(q, c) ==
    /\ c \in cont[q]
    /\ cont' = [cont EXCEPT ![q] = @ \ {c}]
    /\ Emit(Emissions(c))
    /\ timers' = IF c.fn = "locked" THEN [timers EXCEPT ![q] = @ \cup {c.b}] ELSE timers
    /\ UNCHANGED <<booking, notified>>

\* The message a suspended Kafka handler is handling.
Uncommitted(c) ==
    CASE c.fn = "locked" -> {Msg("seat.locked", c.b, booking[c.b].token)}
      [] c.fn = "confirmed" -> {Msg("seat.confirmed", c.b, NoToken)}
      [] c.fn = "compensate" -> {Msg("seat.lock.failed", c.b, NoToken)}
      [] OTHER -> {}

\* Suspended functions and payment timers live in the memory of the pod.
BookingCrash(q) ==
    /\ Fault("crash")
    /\ pending' = pending \cup UNION {Uncommitted(c) : c \in cont[q]}
    /\ timers' = [timers EXCEPT ![q] = {}]
    /\ cont' = [cont EXCEPT ![q] = {}]
    /\ UNCHANGED <<row, redis, call, cron, admin, issued, granted, bookedBy>>
    /\ UNCHANGED <<booking, log, notified>>

\* The answer of Postgres is lost though the UPDATE is done: the function throws
\* and the runner goes on with the next message. (A payment callback that throws
\* is an unhandled rejection and takes the pod down: BookingCrash.)
ContRejects(q, c) ==
    /\ Fault("reject")
    /\ c \in cont[q] /\ c.fn # "paid"
    /\ cont' = [cont EXCEPT ![q] = @ \ {c}]
    /\ UNCHANGED <<row, redis, call, cron, admin, issued, granted, bookedBy>>
    /\ UNCHANGED <<booking, log, pending, timers, notified>>

-----------------------------------------------------------------------------
(* notification-service *)

NotifyConfirmed(m) ==
    /\ m.type = "booking.confirmed"
    /\ Consume(m)
    /\ notified' = notified \cup {m.b}
    /\ UNCHANGED <<booking, timers, cont>>

-----------------------------------------------------------------------------
(* Time and Kafka's faults.                                                *)

\* Something that can still move the saga of b.
InProgress(b) ==
    \/ \E m \in pending : m.b = b
    \/ \E p \in Pods : call[p].b = b
    \/ \E q \in BookingPods : b \in timers[q] \/ \E c \in cont[q] : c.b = b

\* A lock outlives its TTL (10 minutes) only when nothing works on its booking
\* any more, unless "lateExpiry" lets handlers and messages be later than that.
LockExpires(s) ==
    /\ RowExpires(s)
    /\ InProgress(issued[row[s].token]) => "lateExpiry" \in Env
    /\ UNCHANGED sagaVars

KeyVanishes(s) == KeyExpires(s) /\ UNCHANGED sagaVars

\* The producer is not ready, its queue is full, the broker loses the message,
\* or its handler throws before changing anything and the runner skips it.
Lose(m) ==
    /\ Fault("drop")
    /\ m \in pending
    /\ pending' = pending \ {m}
    /\ UNCHANGED <<row, redis, call, cron, admin, issued, granted, bookedBy>>
    /\ UNCHANGED <<booking, log, timers, cont, notified>>

\* The offset of a handled message was not committed (crash, rebalance): it comes
\* again, within the TTL of its booking's lock unless "lateExpiry".
Redeliver(m) ==
    /\ Fault("redeliver")
    /\ m \in log \ pending
    /\ m.type \in Subscribed
    /\ (\E s \in Seats : row[s].expired /\ issued[row[s].token] = m.b) => "lateExpiry" \in Env
    /\ pending' = pending \cup {m}
    /\ UNCHANGED <<row, redis, call, cron, admin, issued, granted, bookedBy>>
    /\ UNCHANGED <<booking, log, timers, cont, notified>>

-----------------------------------------------------------------------------
Request == \E q \in BookingPods, b \in Bookings : Create(q, b) /\ UNCHANGED lockerVars

InventoryReceives ==
    \E p \in Pods, m \in pending :
        ReceiveLock(p, m) \/ ReceiveRelease(p, m) \/ ReceiveConfirm(p, m)

SagaStep ==
    /\ \/ \E q \in BookingPods, m \in pending :
             OnSeatLocked(q, m) \/ OnSeatConfirmed(q, m) \/ Compensate(q, m)
       \/ \E q \in BookingPods, b \in Bookings : OnPaymentCompleted(q, b)
       \/ \E q \in BookingPods : \E c \in cont[q] : Resume(q, c)
       \/ \E m \in pending : NotifyConfirmed(m)
    /\ UNCHANGED lockerVars

\* What the services do by themselves once a request has been made.
ServiceStep ==
    \/ InventoryReceives
    \/ LockerStep
    \/ \E p \in Pods : HandlerReply(p)
    \/ SagaStep

Faulty ==
    \/ \E p \in Pods : InventoryCrash(p) \/ (CallRejects(p) /\ UNCHANGED sagaVars)
    \/ \E q \in BookingPods : BookingCrash(q) \/ \E c \in cont[q] : ContRejects(q, c)
    \/ \E m \in pending : Lose(m)
    \/ \E m \in log : Redeliver(m)

Next ==
    \/ Request
    \/ ServiceStep
    \/ AdminStep /\ UNCHANGED sagaVars
    \/ \E s \in Seats : LockExpires(s) \/ KeyVanishes(s)
    \/ Faulty

Spec == Init /\ [][Next]_vars

\* The services keep working and time passes; nothing obliges a client to ask, an
\* administrator to act or a fault to happen.
Fairness ==
    /\ WF_vars(ServiceStep)
    /\ WF_vars(\E s \in Seats : LockExpires(s))
    /\ WF_vars(\E s \in Seats : KeyVanishes(s))

FairSpec == Spec /\ Fairness

-----------------------------------------------------------------------------
(* Properties.                                                             *)

Unsettled == {"INITIATED", "SEAT_LOCKED", "PAYMENT_PROCESSING"}

\* The booker of a seat that is BOOKED.
Booker(s) == issued[bookedBy[s]]

\* A customer whose booking says CONFIRMED has the seat: the row is BOOKED, and
\* it was this booking's token that booked it. (onSeatConfirmed and confirm, two
\* services and two databases apart.)
ConfirmedHoldsSeat ==
    \A b \in Bookings :
        Status(b) = "CONFIRMED" =>
            /\ row[SeatOf[b]].status = "BOOKED"
            /\ Booker(SeatOf[b]) = b

\* No seat is sold twice.
NoDoubleSale ==
    \A b, c \in Bookings :
        Status(b) = "CONFIRMED" /\ Status(c) = "CONFIRMED" /\ SeatOf[b] = SeatOf[c] => b = c

\* "WHERE status IN (...) lam UPDATE idempotent - replay event = no-op"
\* (booking.saga.ts:20): a seat that is BOOKED was booked for a booking that
\* is, or is about to be, CONFIRMED: no seat is lost to a booking that failed.
BookedForLiveBooking ==
    \A s \in Seats :
        row[s].status = "BOOKED" => Status(Booker(s)) \in {"PAYMENT_PROCESSING", "CONFIRMED"}

\* As long as nothing fails, a booking that is not settled has a message, a
\* handler or a timer that will move it: the chain of handlers never lets go.
NeverStranded ==
    faults = 0 => \A b \in Bookings : Status(b) \in Unsettled => InProgress(b)

\* "Neu bat ky buoc nao fail -> compensate()" (booking.saga.ts:16): whatever a
\* step answers, every booking ends CONFIRMED or FAILED. The code does not keep
\* this: seat.confirm.failed, the answer of a confirm that comes after the lock
\* has expired and was cleaned up, has no consumer (booking.module.ts:19).
EveryBookingSettles ==
    \A b \in Bookings : Status(b) = "INITIATED" ~> Status(b) \in {"CONFIRMED", "FAILED"}

\* What is left of that promise: as long as no process crashes, no call is
\* rejected and no message is lost, and locks outlive the handlers that use
\* them, every booking settles; of its steps only the lock can then answer no.
SettlesIfNothingFails ==
    \A b \in Bookings :
        Status(b) = "INITIATED" ~> Status(b) \in {"CONFIRMED", "FAILED"} \/ faults > 0

\* A confirmed booking is eventually announced, unless something fails.
ConfirmedIsAnnounced ==
    \A b \in Bookings : Status(b) = "CONFIRMED" ~> b \in notified \/ faults > 0

\* A seat in demand is sold: once a request for it was accepted, the seat gets
\* BOOKED (for this booking or a rival) unless something fails.
DemandIsServed ==
    \A b \in Bookings : Status(b) = "INITIATED" ~> row[SeatOf[b]].status = "BOOKED" \/ faults > 0

\* No lock is for ever: whatever crashes or gets lost, the row of every locked
\* seat leaves LOCKED and its lock key disappears.
LocksEnd ==
    \A s \in Seats :
        row[s].status = "LOCKED" \/ redis[s] # NoToken
            ~> row[s].status # "LOCKED" /\ redis[s] = NoToken

\* The whole saga implements the abstract sale of seats: a seat is sold when
\* confirm books its row, and a booking is pending until it is settled.
Outcome(b) ==
    CASE Status(b) = "NONE" -> "none"
      [] Status(b) = "CONFIRMED" -> "confirmed"
      [] Status(b) = "FAILED" -> "failed"
      [] OTHER -> "pending"

SoldTo(s) == IF row[s].status = "BOOKED" THEN Booker(s) ELSE NoBooking

Sale == INSTANCE SeatSale WITH
            sold <- [s \in Seats |-> SoldTo(s)],
            outcome <- [b \in Bookings |-> Outcome(b)]

ImplementsSale == Sale!Spec

=============================================================================
