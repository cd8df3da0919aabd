------------------------- MODULE BookingSystemProofs ------------------------
(***************************************************************************)
(* Proofs about BookingSystem, for any number of seats, bookings, tokens   *)
(* and replicas of both services.                                          *)
(***************************************************************************)
EXTENDS BookingSystem, SeatLockerProofs

USE SeatOfAssumption, CronPodsAssumption, EnvAssumption, MaxFaultsAssumption,
    NoValueAssumption

(***************************************************************************)
(* Part 1: what a message, a handler or a booking knows was said before.   *)
(***************************************************************************)

\* The saga's half of the type invariant.
SagaTypeOK ==
  /\ booking \in [Bookings -> [status : Statuses, token : Tokens \cup {NoToken}]]
  /\ log \subseteq Messages
  /\ pending \subseteq log
  /\ timers \in [BookingPods -> SUBSET Bookings]
  /\ cont \in [BookingPods -> SUBSET Conts]
  /\ notified \subseteq Bookings
  /\ \A b \in Bookings : BookingWellFormed(b)
  /\ \A m \in log : MessageWellFormed(m)
  /\ \A q \in BookingPods : \A c \in cont[q] : ContWellFormed(c)

\* The message an inventory pod is handling was emitted.
HandledLogged == \A p \in Pods : Handled(call[p]) \subseteq log

\* So was the one a booking pod has suspended a handler of.
ContLogged ==
  \A q \in BookingPods : \A c \in cont[q] :
     /\ c.fn = "confirmed" => Msg("seat.confirmed", c.b, NoToken) \in log
     /\ c.fn = "compensate" => Msg("seat.lock.failed", c.b, NoToken) \in log

\* A booking has the token a seat.locked brought it, and is past INITIATED then.
TokenLogged ==
  \A b \in Bookings :
     booking[b].token # NoToken =>
        /\ booking[b].status \notin {"NONE", "INITIATED"}
        /\ Msg("seat.locked", b, booking[b].token) \in log

\* The tokens that travel were given to a client of the seat lock service.
LogGranted == \A m \in log : m.type \in WithToken => m.t \in granted

IInv == /\ LockerTypeOK /\ CallInOrder /\ AdminAsked
        /\ SagaTypeOK /\ HandledLogged /\ ContLogged /\ TokenLogged /\ LogGranted

LEMMA TypeParts == IInv => TypeOK
  BY DEF IInv, SagaTypeOK, TypeOK

LEMMA MsgFields ==
  \A type, b, t : /\ Msg(type, b, t).type = type
                  /\ Msg(type, b, t).b = b
                  /\ Msg(type, b, t).t = t
  BY DEF Msg

LEMMA InitIInv == Init => IInv
  <1> SUFFICES ASSUME Init PROVE IInv
    OBVIOUS
  <1>1. LockerInit /\ LockerTypeOK
    BY LockerInitType DEF Init
  <1>2. CallInOrder /\ AdminAsked /\ HandledLogged
    BY <1>1 DEF LockerInit, CallInOrder, AdminAsked, AdminIdle, Idle, HandledLogged, Handled
  <1>3. SagaTypeOK
    BY DEF Init, SagaTypeOK, Statuses, BookingWellFormed
  <1>4. ContLogged /\ TokenLogged /\ LogGranted
    BY DEF Init, ContLogged, TokenLogged, LogGranted
  <1> QED BY <1>1, <1>2, <1>3, <1>4 DEF IInv

\* Of the seat lock service, nothing but the count of faults changes.
LockerStill == UNCHANGED <<row, redis, call, cron, admin, issued, granted, bookedBy>>

\* To the seat lock service, the system is one of the environments that its own
\* specification admits: its handlers start with tokens that were granted.
LEMMA LockerSide ==
  ASSUME IInv, [Next]_vars
  PROVE  LockerNext \/ (LockerStill /\ faults' \in 0..MaxFaults)
  <1>1. \A m \in log : /\ m.b \in Bookings
                       /\ m.type \in WithToken => m.t \in granted /\ issued[m.t] = m.b
    BY DEF IInv, SagaTypeOK, Messages, MessageWellFormed, LogGranted
  <1>2. pending \subseteq log /\ faults \in 0..MaxFaults
    BY DEF IInv, SagaTypeOK, LockerTypeOK
  <1>3. CASE Request
    BY <1>2, <1>3 DEF Request, LockerStill, lockerVars
  <1>4. CASE InventoryReceives
    <2>1. PICK p \in Pods, m \in pending :
                 ReceiveLock(p, m) \/ ReceiveRelease(p, m) \/ ReceiveConfirm(p, m)
      BY <1>4 DEF InventoryReceives
    <2>2. ClientStep(p)
      BY <1>1, <1>2, <2>1 DEF ReceiveLock, ReceiveRelease, ReceiveConfirm, ClientStep, WithToken
    <2> QED BY <2>2 DEF LockerNext
  <1>5. CASE LockerStep
    BY <1>5 DEF LockerStep, LockerNext
  <1>6. CASE \E p \in Pods : HandlerReply(p)
    BY <1>6 DEF HandlerReply, LockerNext
  <1>7. CASE SagaStep
    BY <1>2, <1>7 DEF SagaStep, LockerStill, lockerVars
  <1>8. CASE Faulty
    <2>1. CASE \E p \in Pods : InventoryCrash(p) \/ CallRejects(p)
      BY <2>1 DEF InventoryCrash, LockerNext
    <2>2. CASE \/ \E q \in BookingPods : BookingCrash(q) \/ \E c \in cont[q] : ContRejects(q, c)
               \/ \E m \in pending : Lose(m)
               \/ \E m \in log : Redeliver(m)
      <3>1. LockerStill /\ \E kind : Fault(kind)
        BY <2>2 DEF BookingCrash, ContRejects, Lose, Redeliver, LockerStill
      <3> QED BY <3>1, FaultType DEF IInv
    <2> QED BY <1>8, <2>1, <2>2 DEF Faulty
  <1>9. CASE AdminStep \/ \E s \in Seats : LockExpires(s) \/ KeyVanishes(s)
    BY <1>9 DEF LockExpires, KeyVanishes, LockerNext
  <1>10. CASE UNCHANGED vars
    BY <1>2, <1>10 DEF vars, lockerVars, LockerStill
  <1> QED BY <1>3, <1>4, <1>5, <1>6, <1>7, <1>8, <1>9, <1>10 DEF Next, ServiceStep

LEMMA LockerKept ==
  ASSUME IInv, [Next]_vars
  PROVE  LockerTypeOK' /\ CallInOrder' /\ AdminAsked'
  <1>1. CASE LockerNext
    BY <1>1, LockerNextType, CallInOrderStep, AdminAskedStep DEF IInv
  <1>2. CASE LockerStill /\ faults' \in 0..MaxFaults
    BY <1>2 DEF IInv, LockerStill, LockerTypeOK, RowTypeOK, RowWellFormed, CallTypeOK,
                CallWellFormed, CallInOrder, AdminAsked
  <1> QED BY <1>1, <1>2, LockerSide

\* A token keeps the booking it was generated for, and stays granted.
LEMMA TokensKept ==
  ASSUME IInv, [Next]_vars
  PROVE  /\ \A t \in Tokens : issued[t] # NoBooking => issued'[t] = issued[t]
         /\ granted \subseteq granted'
  <1>0. issued \in [Tokens -> Bookings \cup {NoBooking}]
    BY DEF IInv, LockerTypeOK
  <1>1. CASE LockerNext
    <2>1. CASE UNCHANGED <<issued, granted>>
      BY <2>1
    <2>2. ASSUME NEW p \in Pods, ClientStep(p) \/ Reply(p)
          PROVE  /\ \A t \in Tokens : issued[t] # NoBooking => issued'[t] = issued[t]
                 /\ granted \subseteq granted'
      BY <1>0, <2>2 DEF ClientStep, StartLock, StartRelease, StartConfirm, Reply
    <2>3. CASE \E p \in Pods : HandlerStep(p) \/ PodCrash(p) \/ CallRejects(p)
      <3>1. UNCHANGED <<issued, granted>>
        BY <2>3 DEF HandlerStep, LockSetNX, LockUpdate, LockFind, LockInsert, LockUndo, ReleaseKey,
                    ReleaseRow, ConfirmRow, ConfirmKey, PodCrash, CallRejects
      <3> QED BY <2>1, <3>1
    <2>4. CASE AdminStep
      BY <2>1, <2>4 DEF AdminStep, AddFind, AddSave, RemoveFind, RemoveDelete, ResetRows, ResetKey
    <2>5. CASE \E s \in Seats : RowExpires(s) \/ KeyExpires(s)
      BY <2>1, <2>5 DEF RowExpires, KeyExpires
    <2>6. CASE \E p \in CronPods : CronStep(p)
      BY <2>1, <2>6 DEF CronStep, CronRead, CronFree
    <2> QED BY <1>1, <2>2, <2>3, <2>4, <2>5, <2>6 DEF LockerNext
  <1>2. CASE LockerStill
    BY <1>2 DEF LockerStill
  <1> QED BY <1>1, <1>2, LockerSide

(***************************************************************************)
(* What a step does to the bookings, the log and the suspended functions.  *)
(***************************************************************************)

\* Nothing is emitted, no booking changes, no function is suspended.
Plain ==
  /\ UNCHANGED <<booking, log>>
  /\ pending' \subseteq log
  /\ timers' \in [BookingPods -> SUBSET Bookings]
  /\ cont' \in [BookingPods -> SUBSET Conts]
  /\ \A q \in BookingPods : cont'[q] \subseteq cont[q]
  /\ notified' \subseteq Bookings

\* The UPDATE of a handler: from the statuses it accepts, on what was said.
MayAdvance(fn, b, new) ==
  \/ fn = "create" /\ Status(b) = "NONE" /\ new.status = "INITIATED" /\ new.token = booking[b].token
  \/ fn = "locked" /\ Status(b) = "INITIATED" /\ new.status = "SEAT_LOCKED"
     /\ new.token \in Tokens /\ Msg("seat.locked", b, new.token) \in log
  \/ fn = "paid" /\ Status(b) = "SEAT_LOCKED" /\ new.status = "PAYMENT_PROCESSING"
     /\ new.token = booking[b].token
  \/ fn = "confirmed" /\ Status(b) = "PAYMENT_PROCESSING" /\ new.status = "CONFIRMED"
     /\ new.token = booking[b].token /\ Msg("seat.confirmed", b, NoToken) \in log
  \/ fn = "compensate" /\ Status(b) \in Unsettled /\ new.status = "FAILED"
     /\ new.token = booking[b].token /\ Msg("seat.lock.failed", b, NoToken) \in log

Advance(q, fn, b, new) ==
  /\ MayAdvance(fn, b, new)
  /\ booking' = [booking EXCEPT ![b] = new]
  /\ cont' = [cont EXCEPT ![q] = @ \cup {[fn |-> fn, b |-> b]}]
  /\ UNCHANGED <<log, notified>>
  /\ pending' \subseteq pending
  /\ timers' \in [BookingPods -> SUBSET Bookings]

Values == [status : Statuses, token : Tokens \cup {NoToken}]

Advances ==
  /\ UNCHANGED lockerVars
  /\ \E q \in BookingPods, b \in Bookings,
         fn \in {"create", "locked", "paid", "confirmed", "compensate"},
        new \in Values : Advance(q, fn, b, new)

LEMMA CreateAdvances ==
  ASSUME IInv, NEW q \in BookingPods, NEW b \in Bookings, Create(q, b)
  PROVE  \E new \in Values : Advance(q, "create", b, new)
  <1> DEFINE new == [booking[b] EXCEPT !.status = "INITIATED"]
  <1>1. booking[b] \in Values
    BY DEF IInv, SagaTypeOK, Values
  <1>2. new \in Values /\ new.status = "INITIATED" /\ new.token = booking[b].token
    BY <1>1 DEF Values, Statuses
  <1>3. booking' = [booking EXCEPT ![b] = new] /\ Status(b) = "NONE"
    BY DEF Create
  <1>4. cont' = [cont EXCEPT ![q] = @ \cup {[fn |-> "create", b |-> b]}]
    BY DEF Create, Suspend
  <1>5. UNCHANGED <<log, notified, pending>> /\ timers' \in [BookingPods -> SUBSET Bookings]
    BY DEF Create, IInv, SagaTypeOK
  <1>6. MayAdvance("create", b, new)
    <2> HIDE DEF new
    <2> QED BY <1>2, <1>3 DEF MayAdvance
  <1> HIDE DEF new
  <1> QED BY <1>2, <1>3, <1>4, <1>5, <1>6 DEF Advance

\* mergeSagaUpdate on a row in one of the statuses it accepts.
LEMMA MergeAdvances ==
  ASSUME IInv, NEW q \in BookingPods, NEW b \in Bookings,
         NEW fn \in {"paid", "confirmed", "compensate"},
         NEW from, NEW to \in Statuses, MergeSaga(q, b, from, to, fn), Status(b) \in from,
         \/ fn = "paid" /\ from = {"SEAT_LOCKED"} /\ to = "PAYMENT_PROCESSING"
         \/ fn = "confirmed" /\ from = {"PAYMENT_PROCESSING"} /\ to = "CONFIRMED"
            /\ Msg("seat.confirmed", b, NoToken) \in log
         \/ fn = "compensate" /\ from = Unsettled /\ to = "FAILED"
            /\ Msg("seat.lock.failed", b, NoToken) \in log,
         UNCHANGED <<log, notified>>, pending' \subseteq pending,
         timers' \in [BookingPods -> SUBSET Bookings]
  PROVE  \E new \in Values : Advance(q, fn, b, new)
  <1> DEFINE new == [booking[b] EXCEPT !.status = to]
  <1>1. booking[b] \in Values
    BY DEF IInv, SagaTypeOK, Values
  <1>2. new \in Values /\ new.status = to /\ new.token = booking[b].token
    BY <1>1 DEF Values
  <1>3. booking' = [booking EXCEPT ![b] = new]
    BY DEF MergeSaga
  <1>4. cont' = [cont EXCEPT ![q] = @ \cup {[fn |-> fn, b |-> b]}]
    BY DEF MergeSaga, Suspend
  <1>6. MayAdvance(fn, b, new)
    <2> HIDE DEF new
    <2> QED BY <1>2 DEF MayAdvance
  <1> HIDE DEF new
  <1> QED BY <1>2, <1>3, <1>4, <1>6 DEF Advance

LEMMA StepKinds ==
  ASSUME IInv, [Next]_vars
  PROVE  \/ Plain
         \/ \E p \in Pods : HandlerReply(p)
         \/ UNCHANGED lockerVars /\ \E q \in BookingPods : \E c \in cont[q] : Resume(q, c)
         \/ Advances
  <1>0. /\ pending \subseteq log /\ notified \subseteq Bookings
        /\ timers \in [BookingPods -> SUBSET Bookings]
        /\ cont \in [BookingPods -> SUBSET Conts]
        /\ log \subseteq Messages
    BY DEF IInv, SagaTypeOK
  <1>1. \A m \in log : /\ m.b \in Bookings
                       /\ m.type \in {"seat.confirmed", "seat.lock.failed"} =>
                            Msg(m.type, m.b, NoToken) = m
                       /\ m.type = "seat.locked"
                            => m.t \in Tokens /\ Msg("seat.locked", m.b, m.t) = m
    BY DEF IInv, SagaTypeOK, Messages, MessageWellFormed, WithToken, Msg
  <1>2. ASSUME UNCHANGED sagaVars PROVE Plain
    BY <1>0, <1>2 DEF sagaVars, Plain
  <1>3. CASE Request
    BY <1>3, CreateAdvances DEF Request, Advances
  <1>4. CASE InventoryReceives
    BY <1>0, <1>4 DEF InventoryReceives, ReceiveLock, ReceiveRelease, ReceiveConfirm, Consume, Plain
  <1>5. CASE \/ LockerStep \/ (AdminStep /\ UNCHANGED sagaVars)
             \/ \E s \in Seats : LockExpires(s) \/ KeyVanishes(s)
    BY <1>2, <1>5 DEF LockerStep, LockExpires, KeyVanishes
  <1>6. CASE SagaStep
    <2>1. ASSUME NEW q \in BookingPods, NEW m \in pending, OnSeatLocked(q, m)
          PROVE  Plain \/ Advances
      <3>1. CASE Status(m.b) = "INITIATED"
        <4> DEFINE new == [status |-> "SEAT_LOCKED", token |-> m.t]
        <4>1. m.b \in Bookings /\ m.t \in Tokens /\ Msg("seat.locked", m.b, m.t) \in log
          BY <1>0, <1>1, <2>1 DEF OnSeatLocked
        <4>2. new \in Values /\ new.status = "SEAT_LOCKED" /\ new.token = m.t
          BY <4>1 DEF Values, Statuses
        <4>3. /\ booking' = [booking EXCEPT ![m.b] = new]
              /\ cont' = [cont EXCEPT ![q] = @ \cup {[fn |-> "locked", b |-> m.b]}]
              /\ UNCHANGED <<log, notified, timers>> /\ pending' \subseteq pending
          BY <2>1, <3>1 DEF OnSeatLocked, Suspend, Consume
        <4>4. MayAdvance("locked", m.b, new)
          BY <3>1, <4>1, <4>2 DEF MayAdvance
        <4>5. Advance(q, "locked", m.b, new)
          <5> HIDE DEF new
          <5> QED BY <1>0, <4>3, <4>4 DEF Advance
        <4>6. UNCHANGED lockerVars
          BY <1>6 DEF SagaStep
        <4> HIDE DEF new
        <4> QED BY <4>1, <4>2, <4>5, <4>6 DEF Advances
      <3>2. CASE Status(m.b) # "INITIATED"
        BY <1>0, <2>1, <3>2 DEF OnSeatLocked, Consume, Plain
      <3> QED BY <3>1, <3>2
    <2>2. ASSUME NEW q \in BookingPods, NEW m \in pending, OnSeatConfirmed(q, m)
          PROVE  Plain \/ Advances
      <3>1. CASE Status(m.b) \in {"PAYMENT_PROCESSING"}
        <4>1. \E new \in Values : Advance(q, "confirmed", m.b, new)
          <5>1. m.b \in Bookings /\ Msg("seat.confirmed", m.b, NoToken) \in log
            BY <1>0, <1>1, <2>2 DEF OnSeatConfirmed
          <5>2. /\ MergeSaga(q, m.b, {"PAYMENT_PROCESSING"}, "CONFIRMED", "confirmed")
                /\ UNCHANGED <<log, notified, timers>> /\ pending' \subseteq pending
            BY <2>2 DEF OnSeatConfirmed, Consume
          <5>3. "CONFIRMED" \in Statuses
            BY DEF Statuses
          <5> QED BY <1>0, <3>1, <5>1, <5>2, <5>3, MergeAdvances
        <4> QED BY <1>1, <1>0, <1>6, <4>1 DEF Advances, SagaStep
      <3>2. CASE Status(m.b) \notin {"PAYMENT_PROCESSING"}
        BY <1>0, <2>2, <3>2 DEF OnSeatConfirmed, MergeSaga, Consume, Plain
      <3> QED BY <3>1, <3>2
    <2>3. ASSUME NEW q \in BookingPods, NEW m \in pending, Compensate(q, m)
          PROVE  Plain \/ Advances
      <3>1. CASE Status(m.b) \in Unsettled
        <4>1. \E new \in Values : Advance(q, "compensate", m.b, new)
          <5>1. m.b \in Bookings /\ Msg("seat.lock.failed", m.b, NoToken) \in log
            BY <1>0, <1>1, <2>3 DEF Compensate
          <5>2. /\ MergeSaga(q, m.b, Unsettled, "FAILED", "compensate")
                /\ UNCHANGED <<log, notified, timers>> /\ pending' \subseteq pending
            BY <2>3 DEF Compensate, Consume, Unsettled
          <5>3. "FAILED" \in Statuses
            BY DEF Statuses
          <5> QED BY <1>0, <3>1, <5>1, <5>2, <5>3, MergeAdvances
        <4> QED BY <1>1, <1>0, <1>6, <4>1 DEF Advances, SagaStep
      <3>2. CASE Status(m.b) \notin Unsettled
        BY <1>0, <2>3, <3>2 DEF Compensate, MergeSaga, Consume, Plain, Unsettled
      <3> QED BY <3>1, <3>2
    <2>4. ASSUME NEW q \in BookingPods, NEW b \in Bookings, OnPaymentCompleted(q, b)
          PROVE  Plain \/ Advances
      <3>0. timers' \in [BookingPods -> SUBSET Bookings]
        BY <1>0, <2>4 DEF OnPaymentCompleted
      <3>1. CASE Status(b) \in {"SEAT_LOCKED"}
        <4>1. \E new \in Values : Advance(q, "paid", b, new)
          <5>1. /\ MergeSaga(q, b, {"SEAT_LOCKED"}, "PAYMENT_PROCESSING", "paid")
                /\ UNCHANGED <<log, notified, pending>>
            BY <2>4 DEF OnPaymentCompleted
          <5>2. "PAYMENT_PROCESSING" \in Statuses
            BY DEF Statuses
          <5> QED BY <3>0, <3>1, <5>1, <5>2, MergeAdvances
        <4> QED BY <1>6, <4>1 DEF Advances, SagaStep
      <3>2. CASE Status(b) \notin {"SEAT_LOCKED"}
        BY <1>0, <2>4, <3>0, <3>2 DEF OnPaymentCompleted, MergeSaga, Plain
      <3> QED BY <3>1, <3>2
    <2>5. ASSUME NEW m \in pending, NotifyConfirmed(m)
          PROVE  Plain
      BY <1>0, <1>1, <2>5 DEF NotifyConfirmed, Consume, Plain
    <2> QED BY <1>6, <2>1, <2>2, <2>3, <2>4, <2>5 DEF SagaStep
  <1>7. CASE Faulty
    <2>1. ASSUME NEW p \in Pods, InventoryCrash(p)
          PROVE  Plain
      BY <1>0, <2>1 DEF InventoryCrash, Plain, IInv, HandledLogged
    <2>2. ASSUME NEW q \in BookingPods, BookingCrash(q)
          PROVE  Plain
      <3>1. \A c \in cont[q] : Uncommitted(c) \subseteq log
        <4> TAKE c \in cont[q]
        <4>1. c \in Conts /\ ContWellFormed(c)
          BY <1>0 DEF IInv, SagaTypeOK
        <4>2. c.fn = "locked" => Msg("seat.locked", c.b, booking[c.b].token) \in log
          BY <4>1 DEF IInv, TokenLogged, ContWellFormed, Conts
        <4>3. /\ c.fn = "confirmed" => Msg("seat.confirmed", c.b, NoToken) \in log
              /\ c.fn = "compensate" => Msg("seat.lock.failed", c.b, NoToken) \in log
          BY DEF IInv, ContLogged
        <4> QED BY <4>1, <4>2, <4>3 DEF Uncommitted, Conts
      <3> QED BY <1>0, <2>2, <3>1 DEF BookingCrash, Plain
    <2>3. ASSUME NEW q \in BookingPods, NEW c \in cont[q], ContRejects(q, c)
          PROVE  Plain
      BY <1>0, <2>3 DEF ContRejects, Plain
    <2>4. ASSUME NEW m \in log, (m \in pending /\ Lose(m)) \/ Redeliver(m)
          PROVE  Plain
      BY <1>0, <2>4 DEF Lose, Redeliver, Plain
    <2> QED BY <1>0, <1>2, <1>7, <2>1, <2>2, <2>3, <2>4 DEF Faulty
  <1>8. CASE UNCHANGED vars
    BY <1>2, <1>8 DEF vars
  <1> QED BY <1>3, <1>4, <1>5, <1>6, <1>7, <1>8 DEF Next, ServiceStep, SagaStep

(***************************************************************************)
(* What a step does to the handlers of inventory-service.                  *)
(***************************************************************************)

Receives(p, m) == ReceiveLock(p, m) \/ ReceiveRelease(p, m) \/ ReceiveConfirm(p, m)

SameCall(c, d) == c.op = d.op /\ c.b = d.b /\ c.t = d.t

\* A handler stays, ends, goes on for the same booking, or starts on a message.
LEMMA CallMoves ==
  ASSUME IInv, [Next]_vars, NEW p \in Pods
  PROVE  \/ call'[p] = call[p]
         \/ call'[p] = Idle
         \/ (HandlerStep(p) \/ CallRejects(p)) /\ SameCall(call'[p], call[p])
         \/ \E m \in pending : Receives(p, m)
  <1> DEFINE Goal == \/ call'[p] = call[p]
                     \/ call'[p] = Idle
                     \/ (HandlerStep(p) \/ CallRejects(p)) /\ SameCall(call'[p], call[p])
                     \/ \E m \in pending : Receives(p, m)
  <1> SUFFICES Goal
    OBVIOUS
  <1>0. call \in [Pods -> Calls]
    BY DEF IInv, LockerTypeOK, CallTypeOK
  <1>1. ASSUME NEW r \in Pods, NEW m \in pending, Receives(r, m)
        PROVE  Goal
    <2>1. CASE r = p
      BY <1>1, <2>1
    <2>2. CASE r # p
      BY <1>0, <1>1, <2>2 DEF Receives, ReceiveLock, ReceiveRelease, ReceiveConfirm, StartLock,
                              StartRelease, StartConfirm
    <2> QED BY <2>1, <2>2
  <1>2. ASSUME NEW r \in Pods, HandlerStep(r) \/ CallRejects(r)
        PROVE  Goal
    <2>1. ASSUME NEW pc, Goto(r, pc)
          PROVE  Goal
      BY <1>0, <1>2, <2>1 DEF Goto, Calls, SameCall
    <2>2. ASSUME NEW ok, Answer(r, ok)
          PROVE  Goal
      BY <1>0, <1>2, <2>2 DEF Answer, Calls, SameCall
    <2>3. ASSUME Throw(r)
          PROVE  Goal
      BY <1>0, <2>3 DEF Throw
    <2> HIDE DEF Goal
    <2>4. CASE HandlerStep(r)
      BY <2>1, <2>2, <2>3, <2>4
         DEF HandlerStep, LockSetNX, LockUpdate, LockFind, LockInsert, LockUndo, ReleaseKey,
             ReleaseRow, ConfirmRow, ConfirmKey
    <2>5. CASE CallRejects(r)
      BY <2>1, <2>2, <2>3, <2>5 DEF CallRejects, Rejected
    <2> QED BY <1>2, <2>4, <2>5
  <1>3. ASSUME NEW r \in Pods, Reply(r) \/ PodCrash(r)
        PROVE  Goal
    BY <1>0, <1>3 DEF Reply, PodCrash
  <1>4. ASSUME UNCHANGED call
        PROVE  Goal
    BY <1>4
  <1> HIDE DEF Goal
  <1>5. CASE Request \/ SagaStep \/ UNCHANGED vars
    BY <1>4, <1>5 DEF Request, SagaStep, vars, lockerVars
  <1>6. CASE InventoryReceives
    BY <1>1, <1>6 DEF InventoryReceives, Receives
  <1>7. CASE LockerStep
    BY <1>2, <1>4, <1>7 DEF LockerStep, CronStep, CronRead, CronFree
  <1>8. CASE \E r \in Pods : HandlerReply(r)
    BY <1>3, <1>8 DEF HandlerReply
  <1>9. CASE Faulty
    BY <1>2, <1>3, <1>4, <1>9 DEF Faulty, InventoryCrash, BookingCrash, ContRejects, Lose, Redeliver
  <1>10. CASE AdminStep
    BY <1>4, <1>10 DEF AdminStep, AddFind, AddSave, RemoveFind, RemoveDelete, ResetRows, ResetKey
  <1>11. CASE \E s \in Seats : LockExpires(s) \/ KeyVanishes(s)
    BY <1>4, <1>11 DEF LockExpires, KeyVanishes, RowExpires, KeyExpires
  <1> QED BY <1>5, <1>6, <1>7, <1>8, <1>9, <1>10, <1>11 DEF Next, ServiceStep

\* The message a handler starts on is the one it handles.
LEMMA ReceivedCall ==
  ASSUME IInv, NEW p \in Pods, NEW m \in pending, Receives(p, m)
  PROVE  /\ m \in log /\ m.b \in Bookings /\ pending' = pending \ {m} /\ log' = log
         /\ Handled(call'[p]) = {m} /\ call'[p].b = m.b
         /\ call[p].pc = "idle"
         /\ \/ m.type = "seat.lock" /\ call'[p].op = "lock" /\ call'[p].pc = "setnx"
            \/ m.type = "seat.release" /\ call'[p].op = "release" /\ call'[p].pc = "relKey"
            \/ m.type = "seat.confirm" /\ call'[p].op = "confirm" /\ call'[p].pc = "confRow"
               /\ call'[p].t = m.t
         /\ \A r \in Pods \ {p} : call'[r] = call[r]
  <1>0. call \in [Pods -> Calls]
    BY DEF IInv, LockerTypeOK, CallTypeOK
  <1>1. m \in log /\ m \in Messages /\ m.b \in Bookings /\ MessageWellFormed(m)
    BY DEF IInv, SagaTypeOK, Messages
  <1>2. m = Msg(m.type, m.b, m.t)
    BY <1>1 DEF Messages, Msg
  <1>3. CASE ReceiveLock(p, m)
    <2>1. m.type = "seat.lock" /\ m.t = NoToken
      BY <1>1, <1>3 DEF ReceiveLock, MessageWellFormed, WithToken
    <2>2. /\ call'[p].op = "lock" /\ call'[p].b = m.b /\ call'[p].pc = "setnx"
          /\ call[p].pc = "idle"
          /\ \A r \in Pods \ {p} : call'[r] = call[r]
      BY <1>0, <1>3 DEF ReceiveLock, StartLock, At
    <2>3. Handled(call'[p]) = {m}
      BY <1>2, <2>1, <2>2 DEF Handled
    <2> QED BY <1>1, <1>3, <2>1, <2>2, <2>3 DEF ReceiveLock, Consume
  <1>4. CASE ReceiveRelease(p, m)
    <2>2. /\ call'[p].op = "release" /\ call'[p].b = m.b /\ call'[p].t = m.t
          /\ call'[p].pc = "relKey" /\ call[p].pc = "idle" /\ m.type = "seat.release"
          /\ \A r \in Pods \ {p} : call'[r] = call[r]
      BY <1>0, <1>4 DEF ReceiveRelease, StartRelease, At
    <2>3. Handled(call'[p]) = {m}
      BY <1>2, <2>2 DEF Handled
    <2> QED BY <1>1, <1>4, <2>2, <2>3 DEF ReceiveRelease, Consume
  <1>5. CASE ReceiveConfirm(p, m)
    <2>2. /\ call'[p].op = "confirm" /\ call'[p].b = m.b /\ call'[p].t = m.t
          /\ call'[p].pc = "confRow" /\ call[p].pc = "idle" /\ m.type = "seat.confirm"
          /\ \A r \in Pods \ {p} : call'[r] = call[r]
      BY <1>0, <1>5 DEF ReceiveConfirm, StartConfirm, At
    <2>3. Handled(call'[p]) = {m}
      BY <1>2, <2>2 DEF Handled
    <2> QED BY <1>1, <1>5, <2>2, <2>3 DEF ReceiveConfirm, Consume
  <1> QED BY <1>3, <1>4, <1>5 DEF Receives

\* Nothing that was emitted is taken back.
LEMMA LogGrows ==
  ASSUME IInv, [Next]_vars
  PROVE  log \subseteq log'
  BY StepKinds DEF Plain, Advances, Advance, HandlerReply, Resume, Emit

LEMMA HandledKept ==
  ASSUME IInv, [Next]_vars
  PROVE  HandledLogged'
  <1> SUFFICES ASSUME NEW p \in Pods PROVE Handled(call'[p]) \subseteq log'
    BY DEF HandledLogged
  <1>0. Handled(call[p]) \subseteq log /\ log \subseteq log'
    BY LogGrows DEF IInv, HandledLogged
  <1>1. CASE call'[p] = call[p]
    BY <1>0, <1>1
  <1>2. CASE call'[p] = Idle
    BY <1>2 DEF Handled, Idle
  <1>3. CASE SameCall(call'[p], call[p])
    BY <1>0, <1>3 DEF SameCall, Handled
  <1>4. CASE \E m \in pending : Receives(p, m)
    BY <1>0, <1>4, ReceivedCall
  <1> QED BY <1>1, <1>2, <1>3, <1>4, CallMoves

(***************************************************************************)
(* What is emitted is well formed, and carries a token that was granted.   *)
(***************************************************************************)

LEMMA OldMessages ==
  ASSUME IInv, [Next]_vars, NEW m \in log
  PROVE  MessageWellFormed(m)' /\ (m.type \in WithToken => m.t \in granted')
  BY TokensKept DEF IInv, SagaTypeOK, Messages, MessageWellFormed, LogGranted

LEMMA NewAnswers ==
  ASSUME IInv, [Next]_vars, NEW p \in Pods, HandlerReply(p), NEW m \in Answers(call[p])
  PROVE  /\ m \in Messages /\ MessageWellFormed(m)'
         /\ m.type \in WithToken => m.t \in granted'
         /\ call[p].pc = "reply" /\ m.b = call[p].b
  <1>1. call[p].b \in Bookings /\ call[p].t \in Tokens /\ issued'[call[p].t] = call[p].b
        /\ call[p].pc = "reply"
    BY DEF HandlerReply, Reply, At, IInv, LockerTypeOK, CallTypeOK, CallWellFormed
  <1>2. call[p].op = "lock" /\ call[p].ok => call[p].t \in granted'
    BY DEF HandlerReply, Reply
  <1>3. \/ m = Msg("seat.locked", call[p].b, call[p].t) /\ call[p].op = "lock" /\ call[p].ok
        \/ \E type \in {"seat.lock.failed", "seat.confirmed", "seat.confirm.failed"} :
              m = Msg(type, call[p].b, NoToken)
    BY DEF Answers
  <1> QED BY <1>1, <1>2, <1>3
          DEF Msg, Messages, Subscribed, ToInventory, ToBooking, ToNotification, MessageWellFormed,
              WithToken

LEMMA NewEmissions ==
  ASSUME IInv, [Next]_vars, NEW q \in BookingPods, NEW c \in cont[q], NEW m \in Emissions(c)
  PROVE  /\ m \in Messages /\ MessageWellFormed(m)'
         /\ m.type \in WithToken => m.t \in granted'
         /\ m.b = c.b
  <1>1. c \in Conts /\ c.b \in Bookings /\ ContWellFormed(c)
    BY DEF IInv, SagaTypeOK, Conts
  <1> DEFINE t == booking[c.b].token
  <1>2. t # NoToken => t \in Tokens /\ issued[t] = c.b /\ t \in granted
    <2>1. t # NoToken => t \in Tokens /\ issued[t] = c.b /\ Msg("seat.locked", c.b, t) \in log
      BY <1>1 DEF IInv, SagaTypeOK, BookingWellFormed, TokenLogged
    <2> QED BY <2>1, MsgFields DEF IInv, LogGranted, WithToken
  <1>3. t # NoToken => issued'[t] = c.b /\ t \in granted'
    BY <1>1, <1>2, TokensKept
  <1>4. \/ m = Msg("seat.confirm", c.b, t) /\ t # NoToken
        \/ m = Msg("seat.release", c.b, t) /\ t # NoToken
        \/ \E type \in {"seat.lock", "booking.confirmed"} : m = Msg(type, c.b, NoToken)
    BY <1>1 DEF Emissions, ContWellFormed
  <1> HIDE DEF t
  <1> QED BY <1>1, <1>2, <1>3, <1>4
          DEF Msg, Messages, Subscribed, ToInventory, ToBooking, ToNotification, MessageWellFormed,
              WithToken

LEMMA LogKept ==
  ASSUME IInv, [Next]_vars
  PROVE  /\ log' \subseteq Messages /\ pending' \subseteq log'
         /\ \A m \in log' : MessageWellFormed(m)'
         /\ LogGranted'
  <1>0. log \subseteq Messages /\ pending \subseteq log
    BY DEF IInv, SagaTypeOK
  <1>1. CASE UNCHANGED log /\ pending' \subseteq log
    BY <1>0, <1>1, OldMessages DEF LogGranted
  <1>2. ASSUME NEW p \in Pods, HandlerReply(p)
        PROVE  /\ log' \subseteq Messages /\ pending' \subseteq log'
               /\ \A m \in log' : MessageWellFormed(m)'
               /\ LogGranted'
    <2>1. log' = log \cup Answers(call[p]) /\ pending' \subseteq pending \cup Answers(call[p])
      BY <1>2 DEF HandlerReply, Emit
    <2>2. \A m \in Answers(call[p]) : /\ m \in Messages /\ MessageWellFormed(m)'
                                      /\ m.type \in WithToken => m.t \in granted'
      BY <1>2, NewAnswers
    <2> QED BY <1>0, <2>1, <2>2, OldMessages DEF LogGranted
  <1>3. ASSUME NEW q \in BookingPods, NEW c \in cont[q], Resume(q, c)
        PROVE  /\ log' \subseteq Messages /\ pending' \subseteq log'
               /\ \A m \in log' : MessageWellFormed(m)'
               /\ LogGranted'
    <2>1. log' = log \cup Emissions(c) /\ pending' \subseteq pending \cup Emissions(c)
      BY <1>3 DEF Resume, Emit
    <2>2. \A m \in Emissions(c) : /\ m \in Messages /\ MessageWellFormed(m)'
                                  /\ m.type \in WithToken => m.t \in granted'
      BY <1>3, NewEmissions
    <2> QED BY <1>0, <2>1, <2>2, OldMessages DEF LogGranted
  <1>4. Plain \/ Advances => UNCHANGED log /\ pending' \subseteq log
    BY <1>0 DEF Plain, Advances, Advance
  <1> QED BY <1>1, <1>2, <1>3, <1>4, StepKinds

(***************************************************************************)
(* The bookings and the suspended functions.                               *)
(***************************************************************************)

LEMMA BookingKept ==
  ASSUME IInv, [Next]_vars
  PROVE  /\ booking' \in [Bookings -> Values]
         /\ \A b \in Bookings : BookingWellFormed(b)'
         /\ TokenLogged'
  <1>0. /\ booking \in [Bookings -> Values]
        /\ \A b \in Bookings : BookingWellFormed(b)
        /\ \A m \in log : MessageWellFormed(m)
        /\ TokenLogged
    BY DEF IInv, SagaTypeOK, Values
  <1>1. \A t \in Tokens : issued[t] # NoBooking => issued'[t] = issued[t]
    BY TokensKept
  <1>2. log \subseteq log'
    BY LogGrows
  <1>3. CASE UNCHANGED booking
    BY <1>0, <1>1, <1>2, <1>3 DEF BookingWellFormed, TokenLogged, Values
  <1>4. CASE Advances
    <2>1. PICK q \in BookingPods, b \in Bookings,
               fn \in {"create", "locked", "paid", "confirmed", "compensate"}, new \in Values :
                  Advance(q, fn, b, new)
      BY <1>4 DEF Advances
    <2>2. booking' = [booking EXCEPT ![b] = new] /\ MayAdvance(fn, b, new) /\ UNCHANGED issued
      BY <1>4, <2>1 DEF Advance, Advances, lockerVars
    <2>3. /\ new.status \in {"SEAT_LOCKED", "PAYMENT_PROCESSING", "CONFIRMED"}
             => new.token # NoToken
          /\ new.token # NoToken => /\ new.status \notin {"NONE", "INITIATED"}
                                    /\ Msg("seat.locked", b, new.token) \in log
      BY <1>0, <2>2 DEF MayAdvance, BookingWellFormed, TokenLogged, Status, Unsettled
    <2>4. new.token # NoToken => issued[new.token] = b
      BY <1>0, <2>3, MsgFields DEF MessageWellFormed, WithToken
    <2> QED BY <1>0, <1>1, <1>2, <2>2, <2>3, <2>4 DEF BookingWellFormed, TokenLogged
  <1>5. Plain \/ (\E p \in Pods : HandlerReply(p))
          \/ (\E q \in BookingPods : \E c \in cont[q] : Resume(q, c)) => UNCHANGED booking
    BY DEF Plain, HandlerReply, Resume
  <1> QED BY <1>3, <1>4, <1>5, StepKinds

LEMMA ContKept ==
  ASSUME IInv, [Next]_vars
  PROVE  /\ cont' \in [BookingPods -> SUBSET Conts]
         /\ \A q \in BookingPods : \A c \in cont'[q] : ContWellFormed(c)'
         /\ ContLogged'
  <1>0. /\ cont \in [BookingPods -> SUBSET Conts] /\ ContLogged
        /\ \A q \in BookingPods : \A c \in cont[q] : ContWellFormed(c)
    BY DEF IInv, SagaTypeOK
  <1>1. log \subseteq log'
    BY LogGrows
  <1>2. ASSUME UNCHANGED booking, cont' \in [BookingPods -> SUBSET Conts],
               \A q \in BookingPods : cont'[q] \subseteq cont[q]
        PROVE  /\ \A q \in BookingPods : \A c \in cont'[q] : ContWellFormed(c)'
               /\ ContLogged'
    BY <1>0, <1>1, <1>2 DEF ContWellFormed, ContLogged
  <1>3. CASE \E q \in BookingPods : \E c \in cont[q] : Resume(q, c)
    <2>0. PICK q \in BookingPods : \E c \in cont[q] : Resume(q, c)
      BY <1>3
    <2>1. PICK c \in cont[q] : Resume(q, c)
      BY <2>0
    <2>2. /\ cont' \in [BookingPods -> SUBSET Conts] /\ UNCHANGED booking
          /\ \A r \in BookingPods : cont'[r] \subseteq cont[r]
      BY <1>0, <2>1 DEF Resume
    <2> QED BY <1>2, <2>2
  <1>4. CASE Plain \/ \E p \in Pods : HandlerReply(p)
    <2>1. /\ cont' \in [BookingPods -> SUBSET Conts] /\ UNCHANGED booking
          /\ \A r \in BookingPods : cont'[r] \subseteq cont[r]
      BY <1>0, <1>4 DEF Plain, HandlerReply
    <2> QED BY <1>2, <2>1
  <1>5. CASE Advances
    <2>1. PICK q \in BookingPods, b \in Bookings,
               fn \in {"create", "locked", "paid", "confirmed", "compensate"}, new \in Values :
                  Advance(q, fn, b, new)
      BY <1>5 DEF Advances
    <2> DEFINE d == [fn |-> fn, b |-> b]
    <2>2. d \in Conts /\ d.fn = fn /\ d.b = b
      BY DEF Conts
    <2>3. /\ booking' = [booking EXCEPT ![b] = new] /\ MayAdvance(fn, b, new)
          /\ cont' = [cont EXCEPT ![q] = cont[q] \cup {d}]
      BY <2>1 DEF Advance
    <2> HIDE DEF d
    <2>4. \A r \in BookingPods : \A c \in cont'[r] : c \in cont[r] \/ (r = q /\ c = d)
      BY <1>0, <2>3
    <2>5. cont' \in [BookingPods -> SUBSET Conts]
      BY <1>0, <2>2, <2>3
    <2>6. booking \in [Bookings -> Values] /\ BookingWellFormed(b)
      BY DEF IInv, SagaTypeOK, Values
    <2>7. /\ booking'[b] = new /\ \A c \in Bookings : c # b => booking'[c] = booking[c]
          /\ booking[b].token # NoToken => new.token # NoToken
          /\ fn \in {"locked", "paid", "confirmed"} => new.token # NoToken
      BY <2>3, <2>6 DEF MayAdvance, BookingWellFormed, Status
    <2>8. \A r \in BookingPods : \A c \in cont[r] : c.b \in Bookings
      BY <1>0 DEF Conts
    <2>9. \A r \in BookingPods : \A c \in cont'[r] : ContWellFormed(c)'
      BY <1>0, <2>2, <2>4, <2>7, <2>8 DEF ContWellFormed
    <2>10. ContLogged'
      BY <1>0, <1>1, <2>2, <2>3, <2>4 DEF ContLogged, MayAdvance
    <2> QED BY <2>5, <2>9, <2>10
  <1> QED BY <1>3, <1>4, <1>5, StepKinds

LEMMA OthersKept ==
  ASSUME IInv, [Next]_vars
  PROVE  timers' \in [BookingPods -> SUBSET Bookings] /\ notified' \subseteq Bookings
  <1>0. /\ timers \in [BookingPods -> SUBSET Bookings] /\ notified \subseteq Bookings
        /\ cont \in [BookingPods -> SUBSET Conts]
    BY DEF IInv, SagaTypeOK
  <1>1. CASE \E q \in BookingPods : \E c \in cont[q] : Resume(q, c)
    BY <1>0, <1>1 DEF Resume, Conts
  <1>2. CASE Plain \/ Advances \/ \E p \in Pods : HandlerReply(p)
    BY <1>0, <1>2 DEF Plain, Advances, Advance, HandlerReply
  <1> QED BY <1>1, <1>2, StepKinds

LEMMA NextIInv == IInv /\ [Next]_vars => IInv'
  <1> SUFFICES ASSUME IInv, [Next]_vars PROVE IInv'
    OBVIOUS
  <1>1. SagaTypeOK'
    BY LogKept, BookingKept, ContKept, OthersKept DEF SagaTypeOK, Values
  <1> QED BY <1>1, LockerKept, LogKept, HandledKept, BookingKept, ContKept DEF IInv

LEMMA SystemIInv == Spec => []IInv
  BY InitIInv, NextIInv, PTL DEF Spec

\* The type invariant of the whole saga: among others, that every token found
\* in a booking, a message or a handler was generated for that booking, that a
\* booking past INITIATED knows the token of its lock, and so that the
\* seat.confirm and seat.release the saga emits name a lock. (booking.saga.ts,
\* inventory-kafka-handler.service.ts, seat-locker.service.ts)
THEOREM SystemTyping == Spec => []TypeOK
  BY SystemIInv, TypeParts, PTL

\* A token whose lock has gone never holds a seat again, in the whole system as
\* in the service on its own: a release or a confirm that arrives late or twice
\* touches nobody else's seat. (SeatLockerService.release, confirm)
THEOREM TokensStaySpent == Spec => SpentForever
  <1>1. IInv /\ [Next]_vars => [\A t \in Tokens : Spent(t) => Spent(t)']_lockerVars
    <2> SUFFICES ASSUME IInv, [Next]_vars, NEW t \in Tokens, Spent(t)
                 PROVE  Spent(t)'
      OBVIOUS
    <2>1. CASE LockerNext
      BY <2>1, RowsStaySpent, CallsStaySpent DEF Spent, Writing, IInv
    <2>2. CASE LockerStill
      BY <2>2 DEF LockerStill, Spent
    <2> QED BY <2>1, <2>2, LockerSide
  <1> QED BY <1>1, SystemIInv, PTL DEF Spec, SpentForever

(***************************************************************************)
(* Part 2: who may write a row, and what a step makes of it.               *)
(***************************************************************************)

Same(s) == row'[s] = row[s] /\ bookedBy'[s] = bookedBy[s]

Freed(s) == row'[s] = Unlocked("AVAILABLE")

\* The ways the row of a seat changes in a step.
RowMoves(s) ==
  \/ Same(s)
  \/ \E p \in Pods : /\ At(p, "update") \/ At(p, "insert")
                     /\ row[s].status \in {"AVAILABLE", "MISSING"}
                     /\ row'[s] = LockedWith(call[p].t) /\ bookedBy'[s] = bookedBy[s]
  \/ \E p \in Pods : /\ At(p, "relRow") /\ row[s].token = call[p].t
                     /\ Freed(s) /\ bookedBy'[s] = bookedBy[s]
  \/ \E p \in Pods : /\ At(p, "confRow") /\ s = SeatAt(p) /\ Confirmable(s, call[p].t)
                     /\ row'[s] = Unlocked("BOOKED") /\ bookedBy'[s] = call[p].t
                     /\ BookRow(s, call[p].t)
  \/ \E p \in CronPods : /\ s \in cron[p] /\ s \notin cron'[p]
                         /\ Freed(s) /\ bookedBy'[s] = NoToken
  \/ row[s].status = "MISSING" /\ Freed(s) /\ bookedBy'[s] = bookedBy[s]
  \/ /\ Env \cap {"remove", "reset"} # {}
     /\ row'[s] \in {Unlocked("AVAILABLE"), Unlocked("MISSING")} /\ bookedBy'[s] = NoToken
  \/ /\ row[s].status = "LOCKED" /\ LockExpires(s)
     /\ row'[s] = [row[s] EXCEPT !.expired = TRUE] /\ bookedBy'[s] = bookedBy[s]

LEMMA HandlerRows ==
  ASSUME IInv, NEW p \in Pods, HandlerStep(p) \/ CallRejects(p), NEW s \in Seats
  PROVE  RowMoves(s)
  <1>0. /\ row \in [Seats -> Rows] /\ bookedBy \in [Seats -> Tokens \cup {NoToken}]
        /\ \A u \in Seats : RowWellFormed(u)
    BY DEF IInv, LockerTypeOK, RowTypeOK
  <1>1. SeatAt(p) \in Seats /\ call[p].t \in Tokens
    <2>1. call[p].pc # "idle"
      BY DEF HandlerStep, At, LockSetNX, LockUpdate, LockFind, LockInsert, LockUndo, ReleaseKey,
             ReleaseRow, ConfirmRow, ConfirmKey, CallRejects, Rejected
    <2> QED BY <2>1, SeatOfCall DEF IInv
  <1>2. ASSUME UNCHANGED <<row, bookedBy>>
        PROVE  RowMoves(s)
    BY <1>2 DEF RowMoves, Same
  <1>3. ASSUME At(p, "update") \/ At(p, "insert"),
               row[SeatAt(p)].status \in {"AVAILABLE", "MISSING"},
               SetRow(SeatAt(p), LockedWith(call[p].t)), UNCHANGED bookedBy
        PROVE  RowMoves(s)
    <2>1. CASE s = SeatAt(p)
      <3>1. row'[s] = LockedWith(call[p].t)
        BY <1>0, <1>3, <2>1 DEF SetRow
      <3> QED BY <1>3, <2>1, <3>1, Zenon DEF RowMoves
    <2>2. CASE s # SeatAt(p)
      <3>1. row'[s] = row[s]
        BY <1>0, <1>3, <2>2 DEF SetRow
      <3> QED BY <1>3, <3>1 DEF RowMoves, Same
    <2> QED BY <2>1, <2>2
  <1>4. ASSUME At(p, "relRow"), FreeRowOf(SeatAt(p), call[p].t), UNCHANGED bookedBy
        PROVE  RowMoves(s)
    <2>1. CASE s = SeatAt(p) /\ row[s].token = call[p].t
      <3>1. Freed(s)
        BY <1>0, <1>4, <2>1 DEF FreeRowOf, Freed
      <3> QED BY <1>4, <2>1, <3>1, Zenon DEF RowMoves
    <2>2. CASE ~(s = SeatAt(p) /\ row[s].token = call[p].t)
      <3>1. row'[s] = row[s]
        BY <1>0, <1>4, <2>2 DEF FreeRowOf
      <3> QED BY <1>4, <3>1 DEF RowMoves, Same
    <2> QED BY <2>1, <2>2
  <1>5. ASSUME At(p, "confRow"), Confirmable(SeatAt(p), call[p].t), BookRow(SeatAt(p), call[p].t)
        PROVE  RowMoves(s)
    <2>1. CASE s = SeatAt(p)
      <3>1. row'[s] = Unlocked("BOOKED") /\ bookedBy'[s] = call[p].t
        BY <1>0, <1>5, <2>1 DEF BookRow, SetRow
      <3> QED BY <1>5, <2>1, <3>1, Zenon DEF RowMoves
    <2>2. CASE s # SeatAt(p)
      <3>1. row'[s] = row[s] /\ bookedBy'[s] = bookedBy[s]
        BY <1>0, <1>5, <2>2 DEF BookRow, SetRow
      <3> QED BY <3>1 DEF RowMoves, Same
    <2> QED BY <2>1, <2>2
  <1>6. CASE HandlerStep(p)
    BY <1>2, <1>3, <1>4, <1>5, <1>6
       DEF HandlerStep, LockSetNX, LockUpdate, LockFind, LockInsert, LockUndo, ReleaseKey,
           ReleaseRow, ConfirmRow, ConfirmKey
  <1>7. CASE CallRejects(p)
    BY <1>2, <1>3, <1>4, <1>5, <1>7 DEF CallRejects, LateEffect
  <1> QED BY <1>6, <1>7

LEMMA AdminRows ==
  ASSUME IInv, AdminStep, NEW s \in Seats
  PROVE  RowMoves(s)
  <1>0. row \in [Seats -> Rows] /\ bookedBy \in [Seats -> Tokens \cup {NoToken}] /\ AdminAsked
    BY DEF IInv, LockerTypeOK, RowTypeOK
  <1>1. ASSUME UNCHANGED <<row, bookedBy>>
        PROVE  RowMoves(s)
    BY <1>1 DEF RowMoves, Same
  <1>2. ASSUME NEW S, NEW st \in {"AVAILABLE", "MISSING"}, SetRows(S, st),
               Env \cap {"remove", "reset"} # {}
        PROVE  RowMoves(s)
    BY <1>2 DEF SetRows, RowMoves, Same
  <1>3. ASSUME NEW u \in Seats, AddSave(u)
        PROVE  RowMoves(s)
    <2>1. \/ row'[s] = row[s]
          \/ row[s].status = "MISSING" /\ row'[s] = Unlocked("AVAILABLE")
      BY <1>0, <1>3 DEF AddSave, SetRow
    <2>2. UNCHANGED bookedBy
      BY <1>3 DEF AddSave
    <2> QED BY <2>1, <2>2 DEF RowMoves, Same, Freed
  <1>4. ASSUME NEW u \in Seats, RemoveDelete(u)
        PROVE  RowMoves(s)
    BY <1>0, <1>2, <1>4 DEF RemoveDelete, AdminAsked
  <1>5. ASSUME NEW scope \in ResetScopes, ResetRows(scope)
        PROVE  RowMoves(s)
    BY <1>2, <1>5 DEF ResetRows
  <1>6. ASSUME NEW u \in Seats, AddFind(u) \/ RemoveFind(u) \/ ResetKey(u)
        PROVE  RowMoves(s)
    BY <1>1, <1>6 DEF AddFind, RemoveFind, ResetKey
  <1> QED BY <1>3, <1>4, <1>5, <1>6 DEF AdminStep

LEMMA RowsMove ==
  ASSUME IInv, [Next]_vars, NEW s \in Seats
  PROVE  RowMoves(s)
  <1>0. row \in [Seats -> Rows] /\ bookedBy \in [Seats -> Tokens \cup {NoToken}]
    BY DEF IInv, LockerTypeOK, RowTypeOK
  <1>1. ASSUME UNCHANGED <<row, bookedBy>>
        PROVE  RowMoves(s)
    BY <1>1 DEF RowMoves, Same
  <1>2. CASE Request \/ SagaStep \/ UNCHANGED vars
    BY <1>1, <1>2 DEF Request, SagaStep, vars, lockerVars
  <1>3. CASE InventoryReceives \/ \E p \in Pods : HandlerReply(p)
    BY <1>1, <1>3 DEF InventoryReceives, ReceiveLock, ReceiveRelease, ReceiveConfirm, StartLock,
                      StartRelease, StartConfirm, HandlerReply, Reply
  <1>4. CASE LockerStep
    <2>1. ASSUME NEW p \in CronPods, NEW u \in Seats, CronFree(p, u)
          PROVE  RowMoves(s)
      <3>1. CASE s = u
        <4>1. cron \in [Pods -> SUBSET Seats] /\ p \in Pods
          BY DEF IInv, LockerTypeOK
        <4>2. s \in cron[p] /\ s \notin cron'[p] /\ Freed(s) /\ bookedBy'[s] = NoToken
          BY <2>1, <3>1, <4>1 DEF CronFree, SetRows, Freed
        <4> QED BY <4>2 DEF RowMoves
      <3>2. CASE s # u
        BY <2>1, <3>2 DEF CronFree, SetRows, RowMoves, Same
      <3> QED BY <3>1, <3>2
    <2>2. ASSUME NEW p \in CronPods, CronRead(p)
          PROVE  RowMoves(s)
      BY <1>1, <2>2 DEF CronRead
    <2> QED BY <1>4, <2>1, <2>2, HandlerRows DEF LockerStep, CronStep
  <1>5. CASE Faulty
    <2>1. CASE \E p \in Pods : CallRejects(p)
      BY <2>1, HandlerRows
    <2>2. CASE ~ \E p \in Pods : CallRejects(p)
      BY <1>1, <1>5, <2>2 DEF Faulty, InventoryCrash, PodCrash, BookingCrash, ContRejects, Lose,
                              Redeliver
    <2> QED BY <2>1, <2>2
  <1>6. ASSUME NEW u \in Seats, LockExpires(u)
        PROVE  RowMoves(s)
    <2>1. row' = [row EXCEPT ![u].expired = TRUE] /\ UNCHANGED bookedBy /\ row[u].status = "LOCKED"
      BY <1>6 DEF LockExpires, RowExpires
    <2>2. CASE s = u
      <3>1. row'[s] = [row[s] EXCEPT !.expired = TRUE]
        BY <1>0, <2>1, <2>2
      <3> QED BY <1>6, <2>1, <2>2, <3>1 DEF RowMoves
    <2>3. CASE s # u
      BY <1>0, <2>1, <2>3 DEF RowMoves, Same
    <2> QED BY <2>2, <2>3
  <1>7. ASSUME NEW u \in Seats, KeyVanishes(u)
        PROVE  RowMoves(s)
    BY <1>1, <1>7 DEF KeyVanishes, KeyExpires
  <1> QED BY <1>2, <1>3, <1>4, <1>5, <1>6, <1>7, AdminRows DEF Next, ServiceStep

\* A token is generated when a handler starts on a seat.lock.
LEMMA IssuedMoves ==
  ASSUME IInv, [Next]_vars
  PROVE  \/ UNCHANGED issued
         \/ \E m \in pending, t \in Tokens :
               issued[t] = NoBooking /\ issued' = [issued EXCEPT ![t] = m.b]
  <1>1. CASE Request \/ SagaStep \/ UNCHANGED vars
    BY <1>1 DEF Request, SagaStep, vars, lockerVars
  <1>2. CASE InventoryReceives
    BY <1>2 DEF InventoryReceives, ReceiveLock, ReceiveRelease, ReceiveConfirm, StartLock,
                StartRelease, StartConfirm
  <1>3. CASE LockerStep
    BY <1>3 DEF LockerStep, CronStep, CronRead, CronFree, HandlerStep, LockSetNX, LockUpdate,
                LockFind, LockInsert, LockUndo, ReleaseKey, ReleaseRow, ConfirmRow, ConfirmKey
  <1>4. CASE \E p \in Pods : HandlerReply(p)
    BY <1>4 DEF HandlerReply, Reply
  <1>5. CASE Faulty
    BY <1>5 DEF Faulty, InventoryCrash, PodCrash, CallRejects, BookingCrash, ContRejects, Lose,
                Redeliver
  <1>6. CASE AdminStep
    BY <1>6 DEF AdminStep, AddFind, AddSave, RemoveFind, RemoveDelete, ResetRows, ResetKey
  <1>7. CASE \E s \in Seats : LockExpires(s) \/ KeyVanishes(s)
    BY <1>7 DEF LockExpires, KeyVanishes, RowExpires, KeyExpires
  <1> QED BY <1>1, <1>2, <1>3, <1>4, <1>5, <1>6, <1>7 DEF Next, ServiceStep

(***************************************************************************)
(* Work is only done for bookings that exist.                              *)
(***************************************************************************)
Begun ==
  /\ \A t \in Tokens : issued[t] \in Bookings => Status(issued[t]) # "NONE"
  /\ \A m \in log : Status(m.b) # "NONE"
  /\ \A q \in BookingPods : \A c \in cont[q] : Status(c.b) # "NONE"

\* A booking that exists goes on existing.
LEMMA StatusMoves ==
  ASSUME IInv, [Next]_vars, NEW b \in Bookings, Status(b) # "NONE"
  PROVE  booking'[b].status # "NONE"
  <1>0. booking \in [Bookings -> Values]
    BY DEF IInv, SagaTypeOK, Values
  <1>1. CASE UNCHANGED booking
    BY <1>1 DEF Status
  <1>2. CASE Advances
    BY <1>0, <1>2 DEF Advances, Advance, MayAdvance, Status
  <1>3. CASE Plain \/ (\E p \in Pods : HandlerReply(p))
               \/ \E q \in BookingPods : \E c \in cont[q] : Resume(q, c)
    BY <1>1, <1>3 DEF Plain, HandlerReply, Resume
  <1> QED BY <1>2, <1>3, StepKinds

LEMMA BegunKept ==
  ASSUME IInv, Begun, [Next]_vars
  PROVE  Begun'
  <1>0. /\ issued \in [Tokens -> Bookings \cup {NoBooking}]
        /\ log \subseteq Messages /\ pending \subseteq log
        /\ cont \in [BookingPods -> SUBSET Conts]
        /\ \A m \in log : m.b \in Bookings
        /\ \A q \in BookingPods : \A c \in cont[q] : c.b \in Bookings
    BY DEF IInv, LockerTypeOK, SagaTypeOK, Messages, Conts
  <1>1. \A b \in Bookings : Status(b) # "NONE" => Status(b)' # "NONE"
    BY StatusMoves DEF Status
  <1>2. \A t \in Tokens : issued'[t] \in Bookings => booking'[issued'[t]].status # "NONE"
    <2>1. CASE UNCHANGED issued
      BY <1>1, <2>1 DEF Begun, Status
    <2>2. ASSUME NEW m \in pending, NEW u \in Tokens, issued' = [issued EXCEPT ![u] = m.b]
          PROVE  \A t \in Tokens : issued'[t] \in Bookings => booking'[issued'[t]].status # "NONE"
      BY <1>0, <1>1, <2>2 DEF Begun, Status
    <2> QED BY <2>1, <2>2, IssuedMoves
  <1>3. (\A m \in log' : Status(m.b)' # "NONE")
        /\ \A q \in BookingPods : \A c \in cont'[q] : Status(c.b)' # "NONE"
    <2>1. CASE Plain
      BY <1>0, <1>1, <2>1 DEF Plain, Begun
    <2>2. ASSUME NEW p \in Pods, HandlerReply(p)
          PROVE  (\A m \in log' : Status(m.b)' # "NONE")
                 /\ \A q \in BookingPods : \A c \in cont'[q] : Status(c.b)' # "NONE"
      <3>1. log' = log \cup Answers(call[p]) /\ UNCHANGED cont
        BY <2>2 DEF HandlerReply, Emit
      <3>2. call[p].pc # "idle" => call[p].b \in Bookings /\ Status(call[p].b) # "NONE"
        BY DEF IInv, LockerTypeOK, CallTypeOK, CallWellFormed, Begun
      <3>3. \A m \in Answers(call[p]) : m.b \in Bookings /\ Status(m.b) # "NONE"
        BY <2>2, <3>2, NewAnswers
      <3> QED BY <1>0, <1>1, <3>1, <3>3 DEF Begun
    <2>3. ASSUME NEW q \in BookingPods, NEW c \in cont[q], Resume(q, c)
          PROVE  (\A m \in log' : Status(m.b)' # "NONE")
                 /\ \A r \in BookingPods : \A d \in cont'[r] : Status(d.b)' # "NONE"
      <3>1. log' = log \cup Emissions(c) /\ \A r \in BookingPods : cont'[r] \subseteq cont[r]
        BY <1>0, <2>3 DEF Resume, Emit
      <3>2. \A m \in Emissions(c) : m.b \in Bookings /\ Status(m.b) # "NONE"
        BY <1>0, <2>3, NewEmissions DEF Begun
      <3> QED BY <1>0, <1>1, <3>1, <3>2 DEF Begun
    <2>4. CASE Advances
      <3>1. PICK q \in BookingPods, b \in Bookings,
                 fn \in {"create", "locked", "paid", "confirmed", "compensate"}, new \in Values :
                    Advance(q, fn, b, new)
        BY <2>4 DEF Advances
      <3>2. /\ cont' = [cont EXCEPT ![q] = cont[q] \cup {[fn |-> fn, b |-> b]}]
            /\ booking' = [booking EXCEPT ![b] = new] /\ MayAdvance(fn, b, new) /\ UNCHANGED log
        BY <3>1 DEF Advance
      <3>3. Status(b)' # "NONE"
        <4>1. new.status # "NONE"
          BY <3>2 DEF MayAdvance
        <4>2. booking \in [Bookings -> Values]
          BY DEF IInv, SagaTypeOK, Values
        <4> QED BY <3>2, <4>1, <4>2 DEF Status
      <3> DEFINE d == [fn |-> fn, b |-> b]
      <3>4. \A r \in BookingPods : \A c \in cont'[r] : c \in cont[r] \/ c.b = b
        <4>1. d.b = b /\ cont' = [cont EXCEPT ![q] = cont[q] \cup {d}]
          BY <3>2
        <4> HIDE DEF d
        <4> QED BY <1>0, <4>1
      <3> QED BY <1>0, <1>1, <3>2, <3>3, <3>4 DEF Begun
    <2> QED BY <2>1, <2>2, <2>3, <2>4, StepKinds
  <1> QED BY <1>2, <1>3 DEF Begun, Status

(***************************************************************************)
(* Part 3: a booking's lock is asked for once and answered once, as long   *)
(* as no handled message is delivered again.                               *)
(***************************************************************************)
NoRedelivery == "redeliver" \notin Env

LockMsg(b) == Msg("seat.lock", b, NoToken)
Won(b, t) == Msg("seat.locked", b, t)
Lost(b) == Msg("seat.lock.failed", b, NoToken)

Creation(b) == [fn |-> "create", b |-> b]
Locking(p, b) == call[p].op = "lock" /\ call[p].b = b
Answered(b) == Lost(b) \in log \/ \E t \in Tokens : Won(b, t) \in log

\* One pod will ask for the lock of a booking, and has not yet.
CreatedOnce ==
  \A b \in Bookings, q \in BookingPods :
     Creation(b) \in cont[q] =>
        /\ LockMsg(b) \notin log
        /\ \A r \in BookingPods : Creation(b) \in cont[r] => r = q

\* One handler works on it, and has not answered yet.
LockedOnce ==
  \A b \in Bookings, p \in Pods :
     Locking(p, b) =>
        /\ LockMsg(b) \in log /\ LockMsg(b) \notin pending
        /\ ~Answered(b)
        /\ \A r \in Pods : Locking(r, b) => r = p

\* There is one answer: a token or a refusal.
AnsweredOnce ==
  \A b \in Bookings :
     /\ Answered(b) => LockMsg(b) \in log /\ LockMsg(b) \notin pending
     /\ \A t \in Tokens : Won(b, t) \in log => Lost(b) \notin log
     /\ \A t, u \in Tokens : Won(b, t) \in log /\ Won(b, u) \in log => t = u

Once == CreatedOnce /\ LockedOnce /\ AnsweredOnce

\* The messages of a lock are told apart by their topic, booking and token.
LEMMA MsgsDiffer ==
  ASSUME NEW b, NEW t
  PROVE  /\ LockMsg(b).type = "seat.lock" /\ LockMsg(b).b = b
         /\ Won(b, t).type = "seat.locked" /\ Won(b, t).b = b /\ Won(b, t).t = t
         /\ Lost(b).type = "seat.lock.failed" /\ Lost(b).b = b
  BY DEF LockMsg, Won, Lost, Msg

\* Who creates: the pod whose INSERT the step is.
LEMMA CreationCause ==
  ASSUME IInv, [Next]_vars, NEW b \in Bookings, NEW q \in BookingPods, Creation(b) \in cont'[q],
         Creation(b) \notin cont[q]
  PROVE  /\ Status(b) = "NONE" /\ UNCHANGED <<log, call>>
         /\ \A r \in BookingPods \ {q} : cont'[r] = cont[r]
  <1>0. cont \in [BookingPods -> SUBSET Conts]
    BY DEF IInv, SagaTypeOK
  <1>1. CASE Plain \/ \E p \in Pods : HandlerReply(p)
    BY <1>1 DEF Plain, HandlerReply
  <1>2. CASE \E r \in BookingPods : \E c \in cont[r] : Resume(r, c)
    BY <1>0, <1>2 DEF Resume
  <1>3. CASE Advances
    <2>1. PICK r \in BookingPods, a \in Bookings,
               fn \in {"create", "locked", "paid", "confirmed", "compensate"}, new \in Values :
                  Advance(r, fn, a, new)
      BY <1>3 DEF Advances
    <2> DEFINE d == [fn |-> fn, b |-> a]
    <2>2. d.fn = fn /\ d.b = a /\ cont' = [cont EXCEPT ![r] = cont[r] \cup {d}]
          /\ Creation(b).fn = "create" /\ Creation(b).b = b
      BY <2>1 DEF Advance, Creation
    <2>3. UNCHANGED <<log, call>> /\ MayAdvance(fn, a, new)
      BY <1>3, <2>1 DEF Advances, Advance, lockerVars
    <2> HIDE DEF d
    <2>4. r = q /\ Creation(b) = d
      BY <1>0, <2>2
    <2>5. fn = "create" /\ a = b
      BY <2>2, <2>4
    <2> QED BY <1>0, <2>2, <2>3, <2>4, <2>5 DEF MayAdvance
  <1> QED BY <1>1, <1>2, <1>3, StepKinds

\* Who asks: the rest of that request.
LEMMA AskCause ==
  ASSUME IInv, [Next]_vars, NEW b \in Bookings, LockMsg(b) \in log', LockMsg(b) \notin log
  PROVE  /\ UNCHANGED call
         /\ \E q \in BookingPods : Creation(b) \in cont[q] /\ cont'[q] = cont[q] \ {Creation(b)}
         /\ \A r \in BookingPods : cont'[r] \subseteq cont[r]
         /\ log' = log \cup {LockMsg(b)}
  <1>0. cont \in [BookingPods -> SUBSET Conts]
    BY DEF IInv, SagaTypeOK
  <1>1. CASE Plain \/ Advances
    BY <1>1 DEF Plain, Advances, Advance
  <1>2. ASSUME NEW p \in Pods, HandlerReply(p)
        PROVE  FALSE
    <2>1. LockMsg(b) \in Answers(call[p])
      BY <1>2 DEF HandlerReply, Emit
    <2> QED BY <2>1, MsgsDiffer, MsgFields DEF Answers
  <1>3. CASE UNCHANGED lockerVars /\ \E q \in BookingPods : \E c \in cont[q] : Resume(q, c)
    <2>1. PICK q \in BookingPods : \E c \in cont[q] : Resume(q, c)
      BY <1>3
    <2>2. PICK c \in cont[q] : Resume(q, c)
      BY <2>1
    <2>3. /\ LockMsg(b) \in Emissions(c) /\ log' = log \cup Emissions(c)
          /\ cont' = [cont EXCEPT ![q] = cont[q] \ {c}]
      BY <2>2 DEF Resume, Emit
    <2>4. c.fn = "create" /\ c.b = b /\ Emissions(c) = {LockMsg(b)}
      BY <2>3, MsgsDiffer, MsgFields DEF Emissions, LockMsg
    <2>5. c = Creation(b)
      BY <1>0, <2>4 DEF Conts, Creation
    <2> QED BY <1>0, <1>3, <2>3, <2>4, <2>5 DEF lockerVars
  <1> QED BY <1>1, <1>2, <1>3, StepKinds

\* Who answers: a handler that ends, with what it found.
LEMMA AnswerCause ==
  ASSUME IInv, [Next]_vars, NEW b \in Bookings, NEW m \in log', m \notin log,
         m = Lost(b) \/ \E t \in Tokens : m = Won(b, t)
  PROVE  \E p \in Pods : /\ Locking(p, b) /\ log' = log \cup {m}
                         /\ call' = [call EXCEPT ![p] = Idle]
                         /\ UNCHANGED cont
                         /\ \A d \in Bookings : LockMsg(d) \in pending' => LockMsg(d) \in pending
  <1>1. m.type \in {"seat.lock.failed", "seat.locked"} /\ m.b = b
    BY MsgsDiffer
  <1>2. CASE Plain \/ Advances
    BY <1>2 DEF Plain, Advances, Advance
  <1>3. ASSUME NEW q \in BookingPods, NEW c \in cont[q], Resume(q, c)
        PROVE  FALSE
    <2>1. m \in Emissions(c)
      BY <1>3 DEF Resume, Emit
    <2> QED BY <1>1, <2>1, MsgFields DEF Emissions
  <1>4. ASSUME NEW p \in Pods, HandlerReply(p)
        PROVE  /\ Locking(p, b) /\ log' = log \cup {m}
               /\ call' = [call EXCEPT ![p] = Idle]
               /\ UNCHANGED cont
               /\ \A d \in Bookings : LockMsg(d) \in pending' => LockMsg(d) \in pending
    <2>1. /\ m \in Answers(call[p]) /\ log' = log \cup Answers(call[p])
          /\ pending' \subseteq pending \cup Answers(call[p])
          /\ call' = [call EXCEPT ![p] = Idle] /\ UNCHANGED cont
      BY <1>4 DEF HandlerReply, Emit, Reply
    <2>2. call[p].op = "lock" /\ call[p].b = b /\ Answers(call[p]) = {m}
      BY <1>1, <2>1, MsgFields DEF Answers
    <2>3. \A d \in Bookings : LockMsg(d) # m
      BY <1>1, MsgsDiffer
    <2> QED BY <2>1, <2>2, <2>3 DEF Locking
  <1> QED BY <1>2, <1>3, <1>4, StepKinds

\* Who locks: a handler that goes on, or that starts on the request.
LEMMA LockingCause ==
  ASSUME IInv, [Next]_vars, NEW b \in Bookings, NEW p \in Pods,
         call'[p].op = "lock", call'[p].b = b, ~Locking(p, b)
  PROVE  /\ LockMsg(b) \in pending /\ pending' = pending \ {LockMsg(b)} /\ UNCHANGED log
         /\ \A r \in Pods \ {p} : call'[r] = call[r]
  <1>1. ~(call'[p] = call[p] \/ SameCall(call'[p], call[p]))
    BY DEF Locking, SameCall
  <1>2. call'[p] # Idle
    BY DEF Idle
  <1>3. PICK m \in pending : Receives(p, m)
    BY <1>1, <1>2, CallMoves
  <1>4. /\ m \in log /\ m.b = b /\ m.type = "seat.lock"
        /\ pending' = pending \ {m} /\ log' = log
        /\ \A r \in Pods \ {p} : call'[r] = call[r]
    BY <1>3, ReceivedCall
  <1>5. m = LockMsg(b)
    <2>1. m \in Messages /\ m.t = NoToken
      BY <1>4 DEF IInv, SagaTypeOK, MessageWellFormed, WithToken
    <2> QED BY <1>4, <2>1 DEF Messages, LockMsg, Msg
  <1> QED BY <1>4, <1>5

\* Who puts a request back: the crash of the pod that works on it.
LEMMA PendingCause ==
  ASSUME NoRedelivery, IInv, [Next]_vars, NEW b \in Bookings, LockMsg(b) \in pending',
         LockMsg(b) \notin pending, LockMsg(b) \in log
  PROVE  \/ \E p \in Pods : /\ Locking(p, b) /\ call' = [call EXCEPT ![p] = Idle]
                            /\ UNCHANGED <<log, cont>>
         \/ \E q \in BookingPods : Creation(b) \in cont[q]
  <1>0. cont \in [BookingPods -> SUBSET Conts]
    BY DEF IInv, SagaTypeOK
  <1> DEFINE Goal == \/ \E p \in Pods : /\ Locking(p, b) /\ call' = [call EXCEPT ![p] = Idle]
                                        /\ UNCHANGED <<log, cont>>
                     \/ \E q \in BookingPods : Creation(b) \in cont[q]
  <1> SUFFICES Goal
    OBVIOUS
  <1>1. ASSUME pending' \subseteq pending
        PROVE  FALSE
    BY <1>1
  <1>2. ASSUME NEW M, pending' \subseteq pending \cup M, \A m \in M : m.type # "seat.lock"
        PROVE  FALSE
    BY <1>2, MsgsDiffer
  <1>3. CASE \E p \in Pods : InventoryCrash(p)
    <2>1. PICK p \in Pods : InventoryCrash(p)
      BY <1>3
    <2>2. /\ pending' = pending \cup Handled(call[p]) /\ UNCHANGED <<log, cont>>
          /\ call' = [call EXCEPT ![p] = Idle]
      BY <2>1 DEF InventoryCrash, PodCrash
    <2>3. LockMsg(b) \in Handled(call[p])
      BY <2>2
    <2>4. Locking(p, b)
      BY <2>3, MsgsDiffer, MsgFields DEF Handled, Locking
    <2> QED BY <2>2, <2>4
  <1>4. CASE \E q \in BookingPods : BookingCrash(q)
    <2>1. PICK q \in BookingPods : BookingCrash(q)
      BY <1>4
    <2> DEFINE Back == UNION {Uncommitted(c) : c \in cont[q]}
    <2>2. \A m \in Back : m.type # "seat.lock"
      BY MsgFields DEF Uncommitted
    <2>3. pending' = pending \cup Back
      BY <2>1 DEF BookingCrash
    <2> HIDE DEF Back
    <2> QED BY <1>2, <2>2, <2>3
  <1>5. ASSUME NEW p \in Pods, HandlerReply(p)
        PROVE  FALSE
    <2>1. pending' \subseteq pending \cup Answers(call[p])
      BY <1>5 DEF HandlerReply, Emit
    <2>2. \A m \in Answers(call[p]) : m.type # "seat.lock"
      BY MsgFields DEF Answers
    <2> QED BY <1>2, <2>1, <2>2
  <1>6. ASSUME NEW q \in BookingPods, NEW c \in cont[q], Resume(q, c)
        PROVE  Goal
    <2>1. LockMsg(b) \in Emissions(c)
      BY <1>6 DEF Resume, Emit
    <2>2. c.fn = "create" /\ c.b = b
      BY <2>1, MsgsDiffer, MsgFields DEF Emissions
    <2>3. c = Creation(b)
      BY <1>0, <2>2 DEF Conts, Creation
    <2> QED BY <2>3
  <1> HIDE DEF Goal
  <1>7. CASE Request
    BY <1>1, <1>7 DEF Request, Create
  <1>8. CASE InventoryReceives
    BY <1>1, <1>8 DEF InventoryReceives, ReceiveLock, ReceiveRelease, ReceiveConfirm, Consume
  <1>9. CASE LockerStep \/ (AdminStep /\ UNCHANGED sagaVars)
             \/ (\E s \in Seats : LockExpires(s) \/ KeyVanishes(s)) \/ UNCHANGED vars
    BY <1>1, <1>9 DEF LockerStep, LockExpires, KeyVanishes, sagaVars, vars
  <1>10. CASE SagaStep
    BY <1>1, <1>6, <1>10
       DEF SagaStep, OnSeatLocked, OnSeatConfirmed, Compensate, OnPaymentCompleted,
           NotifyConfirmed, Consume
  <1>11. CASE Faulty
    <2>1. CASE \E p \in Pods : CallRejects(p) /\ UNCHANGED sagaVars
      BY <1>1, <2>1 DEF sagaVars
    <2>2. CASE \/ \E q \in BookingPods : \E c \in cont[q] : ContRejects(q, c)
               \/ \E m \in pending : Lose(m)
      BY <1>1, <2>2 DEF ContRejects, Lose
    <2>3. CASE \E m \in log : Redeliver(m)
      BY <2>3 DEF Redeliver, Fault, NoRedelivery
    <2> QED BY <1>3, <1>4, <1>11, <2>1, <2>2, <2>3 DEF Faulty
  <1> QED BY <1>5, <1>7, <1>8, <1>9, <1>10, <1>11 DEF Next, ServiceStep

LEMMA CreatedOnceKept ==
  ASSUME IInv, Begun, Once, [Next]_vars
  PROVE  CreatedOnce'
  <1> SUFFICES ASSUME NEW b \in Bookings, NEW q \in BookingPods, Creation(b) \in cont'[q]
               PROVE  /\ LockMsg(b) \notin log'
                      /\ \A r \in BookingPods : Creation(b) \in cont'[r] => r = q
    BY DEF CreatedOnce
  <1>0. \/ LockMsg(b) \in log
        \/ \E r \in BookingPods : Creation(b) \in cont[r]
          => Status(b) # "NONE"
    BY MsgsDiffer DEF Begun, Creation
  <1>1. CASE Creation(b) \in cont[q]
    <2>1. LockMsg(b) \notin log /\ \A r \in BookingPods : Creation(b) \in cont[r] => r = q
      BY <1>1 DEF Once, CreatedOnce
    <2>2. LockMsg(b) \notin log'
      <3>1. SUFFICES ASSUME LockMsg(b) \in log' PROVE FALSE
        OBVIOUS
      <3>2. \E r \in BookingPods : Creation(b) \in cont[r] /\ cont'[r] = cont[r] \ {Creation(b)}
        BY <2>1, <3>1, AskCause
      <3> QED BY <2>1, <3>2
    <2>3. ASSUME NEW r \in BookingPods, Creation(b) \in cont'[r], r # q
          PROVE  FALSE
      <3>1. Creation(b) \notin cont[r]
        BY <2>1, <2>3
      <3>2. Status(b) = "NONE"
        BY <2>3, <3>1, CreationCause
      <3> QED BY <1>1, <3>2 DEF Begun, Creation
    <2> QED BY <2>2, <2>3
  <1>2. CASE Creation(b) \notin cont[q]
    <2>1. /\ Status(b) = "NONE" /\ UNCHANGED log
          /\ \A r \in BookingPods \ {q} : cont'[r] = cont[r]
      BY <1>2, CreationCause
    <2>2. LockMsg(b) \notin log
      BY <2>1, MsgsDiffer DEF Begun
    <2>3. \A r \in BookingPods : Creation(b) \notin cont[r]
      BY <2>1 DEF Begun, Creation
    <2> QED BY <2>1, <2>2, <2>3
  <1> QED BY <1>1, <1>2

LEMMA LockedOnceKept ==
  ASSUME NoRedelivery, IInv, Once, [Next]_vars
  PROVE  LockedOnce'
  <1> SUFFICES ASSUME NEW b \in Bookings, NEW p \in Pods, call'[p].op = "lock", call'[p].b = b
               PROVE  /\ LockMsg(b) \in log' /\ LockMsg(b) \notin pending'
                      /\ Lost(b) \notin log' /\ \A t \in Tokens : Won(b, t) \notin log'
                      /\ \A r \in Pods : call'[r].op = "lock" /\ call'[r].b = b => r = p
    BY DEF LockedOnce, Locking, Answered
  <1>0. /\ call \in [Pods -> Calls] /\ log \subseteq log' /\ pending \subseteq log
        /\ Idle.op # "lock"
    BY LogGrows DEF IInv, LockerTypeOK, CallTypeOK, SagaTypeOK, Idle
  <1>1. CASE Locking(p, b)
    <2>1. /\ LockMsg(b) \in log /\ LockMsg(b) \notin pending /\ ~Answered(b)
          /\ \A r \in Pods : Locking(r, b) => r = p
      BY <1>1 DEF Once, LockedOnce
    <2>2. LockMsg(b) \notin pending'
      <3>1. SUFFICES ASSUME LockMsg(b) \in pending' PROVE FALSE
        OBVIOUS
      <3>2. CASE \E q \in BookingPods : Creation(b) \in cont[q]
        BY <2>1, <3>2 DEF Once, CreatedOnce
      <3>3. CASE \E r \in Pods : Locking(r, b) /\ call' = [call EXCEPT ![r] = Idle]
        BY <1>0, <2>1, <3>3
      <3> QED BY <2>1, <3>1, <3>2, <3>3, PendingCause
    <2>3. ASSUME NEW m \in log', m = Lost(b) \/ \E t \in Tokens : m = Won(b, t)
          PROVE  FALSE
      <3>1. m \notin log
        BY <2>1, <2>3 DEF Answered
      <3>2. \E r \in Pods : Locking(r, b) /\ call' = [call EXCEPT ![r] = Idle]
        BY <2>3, <3>1, AnswerCause
      <3> QED BY <1>0, <2>1, <3>2
    <2>4. ASSUME NEW r \in Pods, call'[r].op = "lock", call'[r].b = b, r # p
          PROVE  FALSE
      <3>1. ~Locking(r, b)
        BY <2>1, <2>4
      <3> QED BY <2>1, <2>4, <3>1, LockingCause
    <2> QED BY <1>0, <2>1, <2>2, <2>3, <2>4
  <1>2. CASE ~Locking(p, b)
    <2>1. /\ LockMsg(b) \in pending /\ pending' = pending \ {LockMsg(b)} /\ UNCHANGED log
          /\ \A r \in Pods \ {p} : call'[r] = call[r]
      BY <1>2, LockingCause
    <2>2. ~Answered(b)
      BY <2>1 DEF Once, AnsweredOnce
    <2>3. \A r \in Pods : ~Locking(r, b)
      BY <2>1 DEF Once, LockedOnce
    <2> QED BY <1>0, <2>1, <2>2, <2>3 DEF Answered, Locking
  <1> QED BY <1>1, <1>2

LEMMA AnsweredOnceKept ==
  ASSUME NoRedelivery, IInv, Once, [Next]_vars
  PROVE  AnsweredOnce'
  <1> SUFFICES ASSUME NEW b \in Bookings
               PROVE  /\ Answered(b)' => LockMsg(b) \in log' /\ LockMsg(b) \notin pending'
                      /\ \A t \in Tokens : Won(b, t) \in log' => Lost(b) \notin log'
                      /\ \A t, u \in Tokens : Won(b, t) \in log' /\ Won(b, u) \in log' => t = u
    BY DEF AnsweredOnce
  <1>0. log \subseteq log'
    BY LogGrows
  <1>1. CASE \E m \in log' : m \notin log /\ (m = Lost(b) \/ \E t \in Tokens : m = Won(b, t))
    <2>1. PICK m \in log' : m \notin log /\ (m = Lost(b) \/ \E t \in Tokens : m = Won(b, t))
      BY <1>1
    <2>2. \E p \in Pods : /\ Locking(p, b) /\ log' = log \cup {m}
                          /\ \A d \in Bookings : LockMsg(d) \in pending' => LockMsg(d) \in pending
      BY <2>1, AnswerCause
    <2>3. ~Answered(b) /\ LockMsg(b) \in log /\ LockMsg(b) \notin pending
      BY <2>2 DEF Once, LockedOnce
    <2>4. \A t \in Tokens : Won(b, t).t = t /\ Won(b, t) # Lost(b)
      BY MsgsDiffer
    <2> QED BY <1>0, <2>1, <2>2, <2>3, <2>4 DEF Answered
  <1>2. CASE \A m \in log' : m = Lost(b) \/ (\E t \in Tokens : m = Won(b, t)) => m \in log
    <2>1. Answered(b)' => Answered(b)
      BY <1>2 DEF Answered
    <2>2. ASSUME Answered(b), LockMsg(b) \in pending'
          PROVE  FALSE
      <3>1. LockMsg(b) \in log /\ LockMsg(b) \notin pending
        BY <2>2 DEF Once, AnsweredOnce
      <3>2. CASE \E q \in BookingPods : Creation(b) \in cont[q]
        BY <3>1, <3>2 DEF Once, CreatedOnce
      <3>3. CASE \E p \in Pods : Locking(p, b)
        BY <2>2, <3>3 DEF Once, LockedOnce
      <3> QED BY <2>2, <3>1, <3>2, <3>3, PendingCause
    <2> QED BY <1>0, <1>2, <2>1, <2>2 DEF Once, AnsweredOnce
  <1> QED BY <1>1, <1>2

(***************************************************************************)
(* A seat is only asked for, and booked, for a booking that has paid.      *)
(***************************************************************************)
Paid(b) == Status(b) \in {"PAYMENT_PROCESSING", "CONFIRMED"}

PaidFor ==
  /\ \A q \in BookingPods : \A c \in cont[q] : c.fn = "paid" => Paid(c.b)
  /\ \A m \in log : m.type = "seat.confirm" => Paid(m.b)

\* Of the row that is BOOKED: its booking asked for it, with that token.
BookedAsked ==
  \A s \in Seats :
     row[s].status = "BOOKED" =>
        /\ Booker(s) \in Bookings /\ SeatOf[Booker(s)] = s
        /\ Msg("seat.confirm", Booker(s), bookedBy[s]) \in log

\* A booking that has paid does not fail: its lock was granted, so no refusal
\* is on its way.
LEMMA PaidIsNotLost ==
  ASSUME IInv, Once, NEW b \in Bookings, Paid(b)
  PROVE  Lost(b) \notin log
  <1>1. /\ booking[b].token \in Tokens
        /\ Won(b, booking[b].token) \in log
    BY DEF IInv, SagaTypeOK, BookingWellFormed, TokenLogged, Paid, Status, Won
  <1> QED BY <1>1 DEF Once, AnsweredOnce

LEMMA PaidStays ==
  ASSUME IInv, Once, [Next]_vars, NEW b \in Bookings, Paid(b)
  PROVE  Paid(b)'
  <1>0. booking \in [Bookings -> Values]
    BY DEF IInv, SagaTypeOK, Values
  <1>1. Lost(b) \notin log
    BY PaidIsNotLost
  <1>2. CASE UNCHANGED booking
    BY <1>2 DEF Paid, Status
  <1>3. CASE Advances
    <2>1. PICK q \in BookingPods, a \in Bookings,
               fn \in {"create", "locked", "paid", "confirmed", "compensate"}, new \in Values :
                  Advance(q, fn, a, new)
      BY <1>3 DEF Advances
    <2>2. booking' = [booking EXCEPT ![a] = new] /\ MayAdvance(fn, a, new)
      BY <2>1 DEF Advance
    <2>3. CASE a # b
      BY <1>0, <2>2, <2>3 DEF Paid, Status
    <2>4. CASE a = b
      <3>1. new.status = "CONFIRMED"
        BY <1>1, <2>2, <2>4 DEF MayAdvance, Paid, Lost
      <3> QED BY <1>0, <2>2, <2>4, <3>1 DEF Paid, Status
    <2> QED BY <2>3, <2>4
  <1>4. CASE Plain \/ (\E p \in Pods : HandlerReply(p))
               \/ \E q \in BookingPods : \E c \in cont[q] : Resume(q, c)
    BY <1>2, <1>4 DEF Plain, HandlerReply, Resume
  <1> QED BY <1>3, <1>4, StepKinds

LEMMA PaidForKept ==
  ASSUME IInv, Once, PaidFor, [Next]_vars
  PROVE  PaidFor'
  <1>0. /\ cont \in [BookingPods -> SUBSET Conts]
        /\ \A m \in log : m.b \in Bookings
        /\ \A q \in BookingPods : \A c \in cont[q] : c.b \in Bookings
    BY DEF IInv, SagaTypeOK, Messages, Conts
  <1>1. \A b \in Bookings : Paid(b) => Paid(b)'
    BY PaidStays
  <1>2. CASE Plain
    BY <1>0, <1>1, <1>2 DEF Plain, PaidFor
  <1>3. ASSUME NEW p \in Pods, HandlerReply(p)
        PROVE  PaidFor'
    <2>1. log' = log \cup Answers(call[p]) /\ UNCHANGED cont
      BY <1>3 DEF HandlerReply, Emit
    <2>2. \A m \in Answers(call[p]) : m.type # "seat.confirm"
      BY MsgFields DEF Answers
    <2> QED BY <1>0, <1>1, <2>1, <2>2 DEF PaidFor
  <1>4. ASSUME NEW q \in BookingPods, NEW c \in cont[q], Resume(q, c)
        PROVE  PaidFor'
    <2>1. log' = log \cup Emissions(c) /\ \A r \in BookingPods : cont'[r] \subseteq cont[r]
      BY <1>0, <1>4 DEF Resume, Emit
    <2>2. \A m \in Emissions(c) : m.type = "seat.confirm" => m.b = c.b /\ c.fn = "paid"
      BY MsgFields DEF Emissions
    <2> QED BY <1>0, <1>1, <2>1, <2>2 DEF PaidFor
  <1>5. CASE Advances
    <2>1. PICK q \in BookingPods, b \in Bookings,
               fn \in {"create", "locked", "paid", "confirmed", "compensate"}, new \in Values :
                  Advance(q, fn, b, new)
      BY <1>5 DEF Advances
    <2> DEFINE d == [fn |-> fn, b |-> b]
    <2>2. /\ d.fn = fn /\ d.b = b /\ cont' = [cont EXCEPT ![q] = cont[q] \cup {d}]
          /\ booking' = [booking EXCEPT ![b] = new] /\ MayAdvance(fn, b, new) /\ UNCHANGED log
      BY <2>1 DEF Advance
    <2> HIDE DEF d
    <2>3. \A r \in BookingPods : \A c \in cont'[r] : c \in cont[r] \/ c = d
      BY <1>0, <2>2
    <2>4. fn = "paid" => Paid(b)'
      <3>1. booking \in [Bookings -> Values]
        BY DEF IInv, SagaTypeOK, Values
      <3> QED BY <2>2, <3>1 DEF MayAdvance, Paid, Status
    <2> QED BY <1>0, <1>1, <2>2, <2>3, <2>4 DEF PaidFor
  <1> QED BY <1>2, <1>3, <1>4, <1>5, StepKinds

LEMMA BookedAskedKept ==
  ASSUME IInv, BookedAsked, [Next]_vars
  PROVE  BookedAsked'
  <1> SUFFICES ASSUME NEW s \in Seats, row'[s].status = "BOOKED"
               PROVE  /\ issued'[bookedBy'[s]] \in Bookings /\ SeatOf[issued'[bookedBy'[s]]] = s
                      /\ Msg("seat.confirm", issued'[bookedBy'[s]], bookedBy'[s]) \in log'
    BY DEF BookedAsked, Booker
  <1>0. /\ row \in [Seats -> Rows] /\ bookedBy \in [Seats -> Tokens \cup {NoToken}]
        /\ \A u \in Seats : RowWellFormed(u)
        /\ log \subseteq log'
        /\ \A t \in Tokens : issued[t] # NoBooking => issued'[t] = issued[t]
    BY LogGrows, TokensKept DEF IInv, LockerTypeOK, RowTypeOK
  <1>1. CASE Same(s)
    <2>1. row[s].status = "BOOKED" /\ bookedBy'[s] = bookedBy[s] /\ bookedBy[s] \in Tokens
      BY <1>0, <1>1 DEF Same, RowWellFormed
    <2>2. issued[bookedBy[s]] \in Bookings /\ SeatOf[issued[bookedBy[s]]] = s
          /\ Msg("seat.confirm", issued[bookedBy[s]], bookedBy[s]) \in log
      BY <2>1 DEF BookedAsked, Booker
    <2> QED BY <1>0, <2>1, <2>2
  <1>2. CASE ~Same(s)
    <2>1. \A st \in {"MISSING", "AVAILABLE"} : Unlocked(st).status # "BOOKED"
      BY RowValues
    <2>2. \A p \in Pods : LockedWith(call[p].t).status = "LOCKED"
      BY DEF LockedWith
    <2>3. [row[s] EXCEPT !.expired = TRUE].status = row[s].status
      BY <1>0 DEF Rows
    <2>4. PICK p \in Pods : At(p, "confRow") /\ s = SeatAt(p) /\ bookedBy'[s] = call[p].t
      BY <1>2, <2>1, <2>2, <2>3, RowsMove DEF RowMoves, Freed
    <2>5. /\ call[p].op = "confirm" /\ call[p].b \in Bookings /\ call[p].t \in Tokens
          /\ issued[call[p].t] = call[p].b
      BY <2>4 DEF IInv, CallInOrder, At, LockerTypeOK, CallTypeOK, CallWellFormed
    <2>6. Msg("seat.confirm", call[p].b, call[p].t) \in log
      BY <2>5 DEF IInv, HandledLogged, Handled
    <2> QED BY <1>0, <2>4, <2>5, <2>6 DEF SeatAt
  <1> QED BY <1>1, <1>2

SaleInv == IInv /\ Begun /\ Once /\ PaidFor /\ BookedAsked

LEMMA InitSaleInv == Init => SaleInv
  <1> SUFFICES ASSUME Init PROVE SaleInv
    OBVIOUS
  <1>1. IInv
    BY InitIInv
  <1>2. Begun
    BY DEF Init, LockerInit, Begun
  <1>3. Once
    <2>1. \A p \in Pods : call[p].op # "lock"
      BY DEF Init, LockerInit, Idle
    <2> QED BY <2>1 DEF Init, Once, CreatedOnce, LockedOnce, AnsweredOnce, Answered, Locking
  <1>4. PaidFor
    BY DEF Init, PaidFor
  <1>5. BookedAsked
    BY RowValues DEF Init, LockerInit, BookedAsked
  <1> QED BY <1>1, <1>2, <1>3, <1>4, <1>5 DEF SaleInv

LEMMA NextSaleInv ==
  ASSUME NoRedelivery
  PROVE  SaleInv /\ [Next]_vars => SaleInv'
  BY NextIInv, BegunKept, CreatedOnceKept, LockedOnceKept, AnsweredOnceKept, PaidForKept,
     BookedAskedKept
     DEF SaleInv, Once

LEMMA SystemSaleInv ==
  ASSUME NoRedelivery
  PROVE  Spec => []SaleInv
  <1>1. SaleInv /\ [Next]_vars => SaleInv'
    BY NextSaleInv
  <1> QED BY <1>1, InitSaleInv, PTL DEF Spec

\* "WHERE status IN (...) lam UPDATE idempotent" (booking.saga.ts:20): a seat
\* that is BOOKED was booked for a booking that is, or is about to be,
\* CONFIRMED, whatever dies, rejects, gets lost or late and whatever the
\* administrator does, as long as Kafka delivers no handled message again.
THEOREM NoSeatIsLost ==
  ASSUME NoRedelivery
  PROVE  Spec => []BookedForLiveBooking
  <1>1. SaleInv => BookedForLiveBooking
    <2> SUFFICES ASSUME SaleInv, NEW s \in Seats, row[s].status = "BOOKED"
                 PROVE  Status(Booker(s)) \in {"PAYMENT_PROCESSING", "CONFIRMED"}
      BY DEF BookedForLiveBooking
    <2>1. Msg("seat.confirm", Booker(s), bookedBy[s]) \in log
      BY DEF SaleInv, BookedAsked
    <2> QED BY <2>1, MsgFields DEF SaleInv, PaidFor, Paid
  <1> QED BY <1>1, SystemSaleInv, PTL

(***************************************************************************)
(* Part 4: a customer who is told CONFIRMED holds the seat. The premise: a *)
(* single cron job, handlers and messages that keep within the TTL of the  *)
(* locks, no removal and no reset.                                         *)
(***************************************************************************)
Timely ==
  /\ \E r : CronPods \subseteq {r}
  /\ Env \cap {"lateExpiry", "remove", "reset"} = {}

\* Nothing new starts to work for a booking, unless it is being made or one of
\* its messages comes again.
LEMMA WorkPending ==
  ASSUME IInv, [Next]_vars, NEW m \in pending', m \notin pending
  PROVE  InProgress(m.b) \/ Redeliver(m)
  <1>1. ASSUME pending' \subseteq pending
        PROVE  FALSE
    BY <1>1
  <1>2. CASE Request
    BY <1>1, <1>2 DEF Request, Create
  <1>3. CASE InventoryReceives
    BY <1>1, <1>3 DEF InventoryReceives, ReceiveLock, ReceiveRelease, ReceiveConfirm, Consume
  <1>4. CASE LockerStep \/ (AdminStep /\ UNCHANGED sagaVars)
             \/ (\E s \in Seats : LockExpires(s) \/ KeyVanishes(s)) \/ UNCHANGED vars
    BY <1>1, <1>4 DEF LockerStep, LockExpires, KeyVanishes, sagaVars, vars
  <1>5. ASSUME NEW p \in Pods, HandlerReply(p)
        PROVE  InProgress(m.b)
    <2>1. m \in Answers(call[p])
      BY <1>5 DEF HandlerReply, Emit
    <2>2. m.b = call[p].b
      BY <2>1, MsgFields DEF Answers
    <2> QED BY <2>2 DEF InProgress
  <1>6. CASE SagaStep
    <2>1. ASSUME NEW q \in BookingPods, NEW c \in cont[q], Resume(q, c)
          PROVE  InProgress(m.b)
      <3>1. m \in Emissions(c)
        BY <2>1 DEF Resume, Emit
      <3>2. m.b = c.b
        BY <3>1, MsgFields DEF Emissions
      <3> QED BY <3>2 DEF InProgress
    <2> QED BY <1>1, <1>6, <2>1 DEF SagaStep, OnSeatLocked, OnSeatConfirmed, Compensate,
                                    OnPaymentCompleted, NotifyConfirmed, Consume
  <1>7. CASE Faulty
    <2>1. ASSUME NEW p \in Pods, InventoryCrash(p)
          PROVE  InProgress(m.b)
      <3>1. m \in Handled(call[p])
        BY <2>1 DEF InventoryCrash
      <3>2. m.b = call[p].b
        BY <3>1, MsgFields DEF Handled
      <3> QED BY <3>2 DEF InProgress
    <2>2. ASSUME NEW q \in BookingPods, BookingCrash(q)
          PROVE  InProgress(m.b)
      <3>1. m \in UNION {Uncommitted(c) : c \in cont[q]}
        BY <2>2 DEF BookingCrash
      <3>2. PICK c \in cont[q] : m \in Uncommitted(c)
        BY <3>1
      <3>3. m.b = c.b
        BY <3>2, MsgFields DEF Uncommitted
      <3> QED BY <3>3 DEF InProgress
    <2>3. CASE \E p \in Pods : CallRejects(p) /\ UNCHANGED sagaVars
      BY <1>1, <2>3 DEF sagaVars
    <2>4. CASE \/ \E q \in BookingPods : \E c \in cont[q] : ContRejects(q, c)
               \/ \E n \in pending : Lose(n)
      BY <1>1, <2>4 DEF ContRejects, Lose
    <2>5. ASSUME NEW n \in log, Redeliver(n)
          PROVE  Redeliver(m)
      <3>1. m = n
        BY <2>5 DEF Redeliver
      <3> QED BY <2>5, <3>1
    <2> QED BY <1>7, <2>1, <2>2, <2>3, <2>4, <2>5 DEF Faulty
  <1> QED BY <1>2, <1>3, <1>4, <1>5, <1>6, <1>7 DEF Next, ServiceStep

LEMMA WorkCalls ==
  ASSUME IInv, [Next]_vars, NEW b \in Bookings, NEW p \in Pods, call'[p].b = b
  PROVE  InProgress(b)
  <1>1. call'[p] # Idle
    BY DEF Idle
  <1>2. CASE call'[p] = call[p] \/ SameCall(call'[p], call[p])
    BY <1>2 DEF SameCall, InProgress
  <1>3. CASE \E m \in pending : Receives(p, m)
    BY <1>3, ReceivedCall DEF InProgress
  <1> QED BY <1>1, <1>2, <1>3, CallMoves

LEMMA WorkInPods ==
  ASSUME IInv, [Next]_vars, NEW q \in BookingPods
  PROVE  /\ \A b \in timers'[q] : InProgress(b)
         /\ \A c \in cont'[q] : InProgress(c.b) \/ Status(c.b) = "NONE"
  <1> DEFINE Goal == /\ \A b \in timers'[q] : InProgress(b)
                     /\ \A c \in cont'[q] : InProgress(c.b) \/ Status(c.b) = "NONE"
  <1> SUFFICES Goal
    OBVIOUS
  <1>0. /\ timers \in [BookingPods -> SUBSET Bookings] /\ cont \in [BookingPods -> SUBSET Conts]
    BY DEF IInv, SagaTypeOK
  <1>1. ASSUME timers'[q] \subseteq timers[q], cont'[q] \subseteq cont[q]
        PROVE  Goal
    BY <1>1 DEF InProgress
  <1>2. ASSUME NEW r \in BookingPods, NEW fn, NEW b, Suspend(r, fn, b),
               timers'[q] \subseteq timers[q], InProgress(b) \/ Status(b) = "NONE"
        PROVE  Goal
    <2> DEFINE d == [fn |-> fn, b |-> b]
    <2>1. d.b = b /\ cont' = [cont EXCEPT ![r] = cont[r] \cup {d}]
      BY <1>2 DEF Suspend
    <2> HIDE DEF d
    <2>2. \A c \in cont'[q] : c \in cont[q] \/ c = d
      BY <1>0, <2>1
    <2> QED BY <1>2, <2>1, <2>2 DEF InProgress
  <1> HIDE DEF Goal
  <1>3. CASE Request
    BY <1>2, <1>3 DEF Request, Create
  <1>4. CASE InventoryReceives \/ \E p \in Pods : HandlerReply(p)
    BY <1>1, <1>4 DEF InventoryReceives, ReceiveLock, ReceiveRelease, ReceiveConfirm, HandlerReply
  <1>5. CASE LockerStep \/ (AdminStep /\ UNCHANGED sagaVars)
             \/ (\E s \in Seats : LockExpires(s) \/ KeyVanishes(s)) \/ UNCHANGED vars
    BY <1>1, <1>5 DEF LockerStep, LockExpires, KeyVanishes, sagaVars, vars
  <1>6. CASE SagaStep
    <2>1. ASSUME NEW r \in BookingPods, NEW m \in pending,
                 OnSeatLocked(r, m) \/ OnSeatConfirmed(r, m) \/ Compensate(r, m)
          PROVE  Goal
      <3>1. InProgress(m.b)
        BY DEF InProgress
      <3> QED BY <1>1, <1>2, <2>1, <3>1 DEF OnSeatLocked, OnSeatConfirmed, Compensate, MergeSaga
    <2>2. ASSUME NEW r \in BookingPods, NEW b \in Bookings, OnPaymentCompleted(r, b)
          PROVE  Goal
      <3>1. InProgress(b) /\ timers'[q] \subseteq timers[q]
        BY <1>0, <2>2 DEF OnPaymentCompleted, InProgress
      <3> QED BY <1>1, <1>2, <2>2, <3>1 DEF OnPaymentCompleted, MergeSaga
    <2>3. ASSUME NEW r \in BookingPods, NEW c \in cont[r], Resume(r, c)
          PROVE  Goal
      <3>1. InProgress(c.b)
        BY DEF InProgress
      <3>2. cont'[q] \subseteq cont[q] /\ \A b \in timers'[q] : b \in timers[q] \/ b = c.b
        BY <1>0, <2>3 DEF Resume
      <3> QED BY <3>1, <3>2 DEF Goal, InProgress
    <2>4. ASSUME NEW m \in pending, NotifyConfirmed(m)
          PROVE  Goal
      BY <1>1, <2>4 DEF NotifyConfirmed
    <2> QED BY <1>6, <2>1, <2>2, <2>3, <2>4 DEF SagaStep
  <1>7. CASE Faulty
    <2>1. CASE \E r \in BookingPods : BookingCrash(r) \/ \E c \in cont[r] : ContRejects(r, c)
      BY <1>0, <1>1, <2>1 DEF BookingCrash, ContRejects
    <2>2. CASE \/ \E p \in Pods : InventoryCrash(p) \/ (CallRejects(p) /\ UNCHANGED sagaVars)
               \/ \E m \in pending : Lose(m)
               \/ \E m \in log : Redeliver(m)
      BY <1>1, <2>2 DEF InventoryCrash, Lose, Redeliver, sagaVars
    <2> QED BY <1>7, <2>1, <2>2 DEF Faulty
  <1> QED BY <1>3, <1>4, <1>5, <1>6, <1>7 DEF Next, ServiceStep

LEMMA WorkCause ==
  ASSUME IInv, [Next]_vars, NEW b \in Bookings, Status(b) # "NONE", InProgress(b)'
  PROVE  InProgress(b) \/ \E m \in log : m.b = b /\ Redeliver(m)
  <1>1. \/ \E m \in pending' : m.b = b
        \/ \E p \in Pods : call'[p].b = b
        \/ \E q \in BookingPods : b \in timers'[q] \/ \E c \in cont'[q] : c.b = b
    BY DEF InProgress
  <1>2. ASSUME NEW m \in pending', m.b = b
        PROVE  InProgress(b) \/ \E n \in log : n.b = b /\ Redeliver(n)
    <2>1. CASE m \in pending
      BY <1>2, <2>1 DEF InProgress
    <2>2. CASE m \notin pending
      BY <1>2, <2>2, WorkPending DEF Redeliver
    <2> QED BY <2>1, <2>2
  <1> QED BY <1>1, <1>2, WorkCalls, WorkInPods

\* The row of a lock names a booking.
RowsIssued == \A s \in Seats : row[s].token # NoToken => issued[row[s].token] \in Bookings

\* Nothing works for the booking of a lock that has expired.
Quiet == \A s \in Seats : row[s].expired => ~InProgress(issued[row[s].token])

\* What the cron job has read is expired still: it frees no other row.
CronHolds == \A p \in Pods : \A s \in cron[p] : p \in CronPods /\ row[s].expired

Holds(b) == row[SeatOf[b]].status = "BOOKED" /\ Booker(SeatOf[b]) = b

Confirming(c) == c.pc = "confKey" \/ (c.op = "confirm" /\ c.pc = "reply" /\ c.ok)

\* A booking has its seat from the UPDATE of confirm on, through the answer and
\* the message to its own UPDATE.
Held ==
  /\ \A p \in Pods : Confirming(call[p]) => Holds(call[p].b)
  /\ \A m \in log : m.type = "seat.confirmed" => Holds(m.b)
  /\ \A b \in Bookings : Status(b) = "CONFIRMED" => Holds(b)

HeldInv == IInv /\ Begun /\ RowsIssued /\ Quiet /\ CronHolds /\ Held

\* What a row that is locked, and one that is expired, are.
LEMMA RowFacts ==
  ASSUME IInv, NEW s \in Seats
  PROVE  /\ row[s] \in Rows /\ bookedBy[s] \in Tokens \cup {NoToken}
         /\ row[s].status = "LOCKED" <=> row[s].token # NoToken
         /\ row[s].expired => row[s].status = "LOCKED"
         /\ row[s].status = "BOOKED" <=> bookedBy[s] # NoToken
  BY DEF IInv, LockerTypeOK, RowTypeOK, RowWellFormed

LEMMA RowsIssuedKept ==
  ASSUME IInv, RowsIssued, [Next]_vars
  PROVE  RowsIssued'
  <1> SUFFICES ASSUME NEW s \in Seats, row'[s].token # NoToken
               PROVE  issued'[row'[s].token] \in Bookings
    BY DEF RowsIssued
  <1>1. \A t \in Tokens : issued[t] \in Bookings => issued'[t] \in Bookings
    BY TokensKept
  <1>2. row[s] \in Rows
    BY RowFacts
  <1>3. CASE row'[s].token = row[s].token
    BY <1>1, <1>2, <1>3 DEF RowsIssued, Rows
  <1>4. ASSUME NEW p \in Pods, At(p, "update") \/ At(p, "insert"),
               row'[s] = LockedWith(call[p].t)
        PROVE  issued'[row'[s].token] \in Bookings
    <2>1. call[p].t \in Tokens /\ issued[call[p].t] \in Bookings
      BY <1>4 DEF At, IInv, LockerTypeOK, CallTypeOK, CallWellFormed
    <2> QED BY <1>1, <1>4, <2>1 DEF LockedWith
  <1>5. \A st \in {"AVAILABLE", "MISSING", "BOOKED"} : row'[s] # Unlocked(st)
    BY RowValues
  <1>6. [row[s] EXCEPT !.expired = TRUE].token = row[s].token
    BY <1>2 DEF Rows
  <1>7. \/ row'[s].token = row[s].token
        \/ \E p \in Pods : /\ At(p, "update") \/ At(p, "insert")
                           /\ row'[s] = LockedWith(call[p].t)
    BY <1>5, <1>6, RowsMove DEF RowMoves, Same, Freed
  <1> QED BY <1>3, <1>4, <1>7

LEMMA QuietKept ==
  ASSUME Timely, IInv, Begun, RowsIssued, Quiet, [Next]_vars
  PROVE  Quiet'
  <1> SUFFICES ASSUME NEW s \in Seats, row'[s].expired
               PROVE  \A b \in Bookings : issued'[row'[s].token] = b => ~InProgress(b)'
    <2>1. RowsIssued' /\ IInv'
      BY RowsIssuedKept, NextIInv
    <2>2. ASSUME NEW s \in Seats, row'[s].expired
          PROVE  issued'[row'[s].token] \in Bookings
      BY <2>1, <2>2 DEF RowsIssued, IInv, LockerTypeOK, RowTypeOK, RowWellFormed
    <2>3. ASSUME NEW s \in Seats, row'[s].expired
          PROVE  ~InProgress(issued[row[s].token])'
      <3>1. PICK b \in Bookings : b = issued'[row'[s].token]
        BY <2>2, <2>3
      <3>2. ~InProgress(b)'
        BY <2>3, <3>1
      <3> QED BY <3>1, <3>2 DEF InProgress
    <2> QED BY <2>3 DEF Quiet
  <1> SUFFICES ASSUME NEW b \in Bookings, issued'[row'[s].token] = b, InProgress(b)'
               PROVE  FALSE
    OBVIOUS
  <1>0. row[s] \in Rows
    BY RowFacts
  <1>1. CASE Same(s)
    <2>1. row[s].expired /\ row'[s].token = row[s].token /\ row[s].token \in Tokens
      BY <1>0, <1>1, RowFacts DEF Same, Rows
    <2>2. issued[row[s].token] = b
      <3>1. issued[row[s].token] \in Bookings
        BY <2>1 DEF RowsIssued
      <3> QED BY <2>1, <3>1, TokensKept
    <2>3. ~InProgress(b) /\ Status(b) # "NONE"
      BY <2>1, <2>2 DEF Quiet, Begun
    <2>4. PICK m \in log : m.b = b /\ Redeliver(m)
      BY <2>3, WorkCause
    <2> QED BY <2>1, <2>2, <2>4 DEF Redeliver, Timely
  <1>2. CASE LockExpires(s)
    <2>1. UNCHANGED <<call, issued, pending, timers, cont>>
      BY <1>2 DEF LockExpires, RowExpires, sagaVars
    <2>2. row'[s].token = row[s].token
      BY <1>0, <1>2 DEF LockExpires, RowExpires, IInv, LockerTypeOK, RowTypeOK, Rows
    <2>3. ~InProgress(b)
      BY <1>2, <2>1, <2>2 DEF LockExpires, Timely
    <2> QED BY <2>1, <2>3 DEF InProgress
  <1>3. Same(s) \/ LockExpires(s)
    <2>1. \A st \in {"AVAILABLE", "MISSING", "BOOKED"} : row'[s] # Unlocked(st)
      BY RowValues
    <2>2. \A p \in Pods : row'[s] # LockedWith(call[p].t)
      BY DEF LockedWith
    <2> QED BY <2>1, <2>2, RowsMove DEF RowMoves, Freed
  <1> QED BY <1>1, <1>2, <1>3

\* A cron run grows by reading the rows that are expired.
LEMMA CronMoves ==
  ASSUME IInv, [Next]_vars, NEW p \in Pods, NEW s \in cron'[p], s \notin cron[p]
  PROVE  s \in Seats /\ p \in CronPods /\ row[s].expired /\ UNCHANGED row
  <1>0. cron \in [Pods -> SUBSET Seats]
    BY DEF IInv, LockerTypeOK
  <1>1. ASSUME NEW r \in CronPods, CronRead(r)
        PROVE  s \in Seats /\ p \in CronPods /\ row[s].expired /\ UNCHANGED row
    <2>1. cron' = [cron EXCEPT ![r] = ExpiredSeats] /\ UNCHANGED row
      BY <1>1 DEF CronRead
    <2>2. r = p /\ s \in ExpiredSeats
      BY <1>0, <2>1
    <2> QED BY <1>1, <2>1, <2>2 DEF ExpiredSeats
  <1>2. ASSUME cron'[p] \subseteq cron[p]
        PROVE  FALSE
    BY <1>2
  <1>3. CASE Request \/ SagaStep \/ UNCHANGED vars
    BY <1>2, <1>3 DEF Request, SagaStep, vars, lockerVars
  <1>4. CASE InventoryReceives \/ \E r \in Pods : HandlerReply(r)
    BY <1>2, <1>4 DEF InventoryReceives, ReceiveLock, ReceiveRelease, ReceiveConfirm, StartLock,
                      StartRelease, StartConfirm, HandlerReply, Reply
  <1>5. CASE LockerStep
    <2>1. CASE \E r \in Pods : HandlerStep(r)
      BY <1>2, <2>1 DEF HandlerStep, LockSetNX, LockUpdate, LockFind, LockInsert, LockUndo,
                        ReleaseKey, ReleaseRow, ConfirmRow, ConfirmKey
    <2>2. ASSUME NEW r \in CronPods, NEW u \in Seats, CronFree(r, u)
          PROVE  FALSE
      <3>1. cron'[p] \subseteq cron[p]
        BY <1>0, <2>2 DEF CronFree
      <3> QED BY <1>2, <3>1
    <2> QED BY <1>1, <1>5, <2>1, <2>2 DEF LockerStep, CronStep
  <1>6. CASE Faulty
    <2>1. cron'[p] \subseteq cron[p]
      BY <1>0, <1>6 DEF Faulty, InventoryCrash, PodCrash, CallRejects, BookingCrash, ContRejects,
                        Lose, Redeliver
    <2> QED BY <1>2, <2>1
  <1>7. CASE AdminStep
    <2>1. cron'[p] \subseteq cron[p]
      BY <1>0, <1>7 DEF AdminStep, AddFind, AddSave, RemoveFind, RemoveDelete, ResetRows, ResetKey
    <2> QED BY <1>2, <2>1
  <1>8. CASE \E u \in Seats : LockExpires(u) \/ KeyVanishes(u)
    BY <1>2, <1>8 DEF LockExpires, KeyVanishes, RowExpires, KeyExpires
  <1> QED BY <1>3, <1>4, <1>5, <1>6, <1>7, <1>8 DEF Next, ServiceStep

\* A release or a confirm that finds its token works for a booking: the row
\* is not an expired one.
LEMMA NotExpired ==
  ASSUME IInv, Quiet, NEW p \in Pods, call[p].pc # "idle", NEW s \in Seats,
         row[s].token = call[p].t
  PROVE  ~row[s].expired
  <1>1. issued[row[s].token] = call[p].b
    BY DEF IInv, LockerTypeOK, CallTypeOK, CallWellFormed
  <1> QED BY <1>1 DEF Quiet, InProgress

LEMMA CronHoldsKept ==
  ASSUME Timely, IInv, Quiet, CronHolds, [Next]_vars
  PROVE  CronHolds'
  <1> SUFFICES ASSUME NEW p \in Pods, NEW s \in cron'[p]
               PROVE  p \in CronPods /\ row'[s].expired
    BY DEF CronHolds
  <1>1. CASE s \notin cron[p]
    BY <1>1, CronMoves
  <1>2. CASE s \in cron[p]
    <2>0. s \in Seats /\ p \in CronPods /\ row[s].expired /\ row[s].status = "LOCKED"
          /\ row[s] \in Rows
      BY <1>2, RowFacts DEF CronHolds, IInv, LockerTypeOK
    <2>1. CASE Same(s)
      BY <2>0, <2>1 DEF Same
    <2>2. CASE \E r \in Pods : At(r, "relRow") /\ row[s].token = call[r].t
      BY <2>0, <2>2, NotExpired DEF At
    <2>3. CASE \E r \in Pods : At(r, "confRow") /\ Confirmable(s, call[r].t)
      BY <2>0, <2>3, NotExpired DEF At, Confirmable
    <2>4. CASE \E r \in CronPods : s \in cron[r] /\ s \notin cron'[r]
      BY <2>0, <2>4 DEF Timely
    <2>5. CASE row'[s] = [row[s] EXCEPT !.expired = TRUE]
      BY <2>0, <2>5 DEF Rows
    <2>6. CASE row[s].status \in {"AVAILABLE", "MISSING"} \/ Env \cap {"remove", "reset"} # {}
      BY <2>0, <2>6 DEF Timely
    <2> QED BY <2>0, <2>1, <2>2, <2>3, <2>4, <2>5, <2>6, RowsMove DEF RowMoves
  <1> QED BY <1>1, <1>2

\* Nobody takes a seat away from the booking that holds it.
LEMMA BookedStays ==
  ASSUME Timely, IInv, CronHolds, [Next]_vars, NEW s \in Seats, row[s].status = "BOOKED"
  PROVE  Same(s)
  <1>0. row[s].token = NoToken /\ ~row[s].expired
    BY RowFacts
  <1>1. CASE \E p \in Pods : At(p, "relRow") /\ row[s].token = call[p].t
    <2>1. PICK p \in Pods : At(p, "relRow") /\ row[s].token = call[p].t
      BY <1>1
    <2>2. call[p].t \in Tokens
      BY <2>1 DEF At, IInv, LockerTypeOK, CallTypeOK, CallWellFormed
    <2> QED BY <1>0, <2>1, <2>2
  <1>2. CASE \E p \in Pods : Confirmable(s, call[p].t)
    BY <1>2 DEF Confirmable
  <1>3. CASE \E p \in CronPods : s \in cron[p]
    BY <1>0, <1>3 DEF CronHolds
  <1>4. CASE \/ row[s].status \in {"AVAILABLE", "MISSING", "LOCKED"}
             \/ Env \cap {"remove", "reset"} # {}
    BY <1>4 DEF Timely
  <1> QED BY <1>1, <1>2, <1>3, <1>4, RowsMove DEF RowMoves

LEMMA HoldsStays ==
  ASSUME Timely, IInv, CronHolds, [Next]_vars, NEW b \in Bookings, Holds(b)
  PROVE  Holds(b)'
  <1>1. /\ SeatOf[b] \in Seats /\ row[SeatOf[b]].status = "BOOKED"
        /\ issued[bookedBy[SeatOf[b]]] = b /\ bookedBy[SeatOf[b]] \in Tokens
    BY RowFacts DEF Holds, Booker
  <1>2. Same(SeatOf[b])
    BY <1>1, BookedStays
  <1>3. issued'[bookedBy[SeatOf[b]]] = b
    BY <1>1, TokensKept
  <1> QED BY <1>1, <1>2, <1>3 DEF Same, Holds, Booker

\* A confirm goes on to succeed only by its UPDATE of the row.
LEMMA ConfirmCause ==
  ASSUME IInv, NEW p \in Pods, HandlerStep(p) \/ CallRejects(p), Confirming(call'[p])
  PROVE  \/ Confirming(call[p])
         \/ /\ At(p, "confRow") /\ row'[SeatAt(p)].status = "BOOKED"
            /\ bookedBy'[SeatAt(p)] = call[p].t
  <1>0. /\ call \in [Pods -> Calls] /\ CallInOrder
        /\ row \in [Seats -> Rows] /\ bookedBy \in [Seats -> Tokens \cup {NoToken}]
    BY DEF IInv, LockerTypeOK, CallTypeOK, RowTypeOK
  <1>1. ASSUME NEW pc, Goto(p, pc), pc \notin {"confKey", "reply"}
        PROVE  FALSE
    BY <1>0, <1>1 DEF Goto, Calls, Confirming
  <1>2. ASSUME NEW ok \in BOOLEAN, Answer(p, ok)
        PROVE  ok /\ call[p].op = "confirm"
    BY <1>0, <1>2 DEF Answer, Calls, Confirming
  <1>3. ASSUME Throw(p)
        PROVE  FALSE
    BY <1>0, <1>3 DEF Throw, Idle, Confirming
  <1>4. CASE ConfirmRow(p)
    <2>1. Confirmable(SeatAt(p), call[p].t) /\ BookRow(SeatAt(p), call[p].t)
      BY <1>2, <1>4 DEF ConfirmRow
    <2>2. SeatAt(p) \in Seats
      BY <1>4, SeatOfCall DEF ConfirmRow, At, IInv
    <2>3. row'[SeatAt(p)].status = "BOOKED" /\ bookedBy'[SeatAt(p)] = call[p].t
      BY <1>0, <2>1, <2>2 DEF BookRow, SetRow, Unlocked
    <2> QED BY <1>4, <2>3 DEF ConfirmRow
  <1>5. CASE ConfirmKey(p)
    BY <1>5 DEF ConfirmKey, At, Confirming
  <1>6. CASE LockSetNX(p) \/ LockUpdate(p) \/ LockFind(p) \/ LockInsert(p) \/ LockUndo(p)
    <2>1. call[p].op = "lock"
      BY <1>0, <1>6 DEF LockSetNX, LockUpdate, LockFind, LockInsert, LockUndo, At, CallInOrder
    <2> QED BY <1>1, <1>2, <1>3, <1>6, <2>1
            DEF LockSetNX, LockUpdate, LockFind, LockInsert, LockUndo
  <1>7. CASE ReleaseKey(p) \/ ReleaseRow(p)
    <2>1. call[p].op = "release"
      BY <1>0, <1>7 DEF ReleaseKey, ReleaseRow, At, CallInOrder
    <2> QED BY <1>1, <1>2, <1>7, <2>1 DEF ReleaseKey, ReleaseRow
  <1>8. CASE CallRejects(p)
    BY <1>1, <1>2, <1>3, <1>8 DEF CallRejects, Rejected, At, Confirming
  <1> QED BY <1>4, <1>5, <1>6, <1>7, <1>8 DEF HandlerStep

LEMMA HeldKept ==
  ASSUME Timely, IInv, CronHolds, Held, [Next]_vars
  PROVE  Held'
  <1>0. \A b \in Bookings : Holds(b) => Holds(b)'
    BY HoldsStays
  <1>1. ASSUME NEW p \in Pods, Confirming(call'[p])
        PROVE  \E b \in Bookings : b = call'[p].b /\ Holds(b)'
    <2>0. Confirming(call[p]) => call[p].b \in Bookings /\ Holds(call[p].b)
      BY DEF Confirming, Held, IInv, LockerTypeOK, CallTypeOK, CallWellFormed
    <2>1. CASE call'[p] = call[p]
      BY <1>0, <1>1, <2>0, <2>1
    <2>2. CASE call'[p] = Idle
      BY <1>1, <2>2 DEF Confirming, Idle
    <2>3. CASE (HandlerStep(p) \/ CallRejects(p)) /\ SameCall(call'[p], call[p])
      <3>1. CASE Confirming(call[p])
        BY <1>0, <2>0, <2>3, <3>1 DEF SameCall
      <3>2. CASE /\ At(p, "confRow") /\ row'[SeatAt(p)].status = "BOOKED"
                 /\ bookedBy'[SeatAt(p)] = call[p].t
        <4>1. call[p].b \in Bookings /\ call[p].t \in Tokens /\ issued[call[p].t] = call[p].b
          BY <3>2 DEF At, IInv, LockerTypeOK, CallTypeOK, CallWellFormed
        <4>2. issued'[call[p].t] = call[p].b
          BY <4>1, TokensKept
        <4>3. PICK b \in Bookings : b = call[p].b
          BY <4>1
        <4>4. Holds(b)'
          BY <3>2, <4>2, <4>3 DEF SeatAt, Holds, Booker
        <4> QED BY <2>3, <4>3, <4>4 DEF SameCall
      <3> QED BY <1>1, <2>3, <3>1, <3>2, ConfirmCause
    <2>4. CASE \E m \in pending : Receives(p, m)
      BY <1>1, <2>4, ReceivedCall DEF Confirming
    <2> QED BY <2>1, <2>2, <2>3, <2>4, CallMoves
  <1>2. ASSUME NEW m \in log', m.type = "seat.confirmed"
        PROVE  m.b \in Bookings /\ Holds(m.b)'
    <2>1. CASE m \in log
      <3>1. m.b \in Bookings /\ Holds(m.b)
        BY <1>2, <2>1 DEF Held, IInv, SagaTypeOK, Messages
      <3> QED BY <1>0, <3>1
    <2>2. ASSUME NEW p \in Pods, HandlerReply(p), m \notin log
          PROVE  m.b \in Bookings /\ Holds(m.b)'
      <3>1. m \in Answers(call[p])
        BY <2>2 DEF HandlerReply, Emit
      <3>2. call[p].op = "confirm" /\ call[p].ok /\ m.b = call[p].b
        BY <1>2, <3>1, MsgFields DEF Answers
      <3>3. call[p].pc = "reply" /\ call[p].b \in Bookings
        BY <2>2 DEF HandlerReply, Reply, At, IInv, LockerTypeOK, CallTypeOK, CallWellFormed
      <3> QED BY <1>0, <3>2, <3>3 DEF Held, Confirming
    <2>3. ASSUME NEW q \in BookingPods, NEW c \in cont[q], Resume(q, c), m \notin log
          PROVE  FALSE
      <3>1. m \in Emissions(c)
        BY <2>3 DEF Resume, Emit
      <3> QED BY <1>2, <3>1, MsgFields DEF Emissions
    <2>4. CASE Plain \/ Advances
      BY <2>1, <2>4 DEF Plain, Advances, Advance
    <2> QED BY <2>1, <2>2, <2>3, <2>4, StepKinds
  <1>3. ASSUME NEW b \in Bookings, booking'[b].status = "CONFIRMED"
        PROVE  Holds(b)'
    <2>1. CASE Status(b) = "CONFIRMED"
      BY <1>0, <2>1 DEF Held
    <2>2. CASE UNCHANGED booking
      BY <1>3, <2>1, <2>2 DEF Status
    <2>3. CASE Advances
      <3>1. PICK q \in BookingPods, a \in Bookings,
                 fn \in {"create", "locked", "paid", "confirmed", "compensate"}, new \in Values :
                    Advance(q, fn, a, new)
        BY <2>3 DEF Advances
      <3>2. booking' = [booking EXCEPT ![a] = new] /\ MayAdvance(fn, a, new)
            /\ booking \in [Bookings -> Values]
        BY <3>1 DEF Advance, IInv, SagaTypeOK, Values
      <3>3. CASE a # b
        BY <1>3, <2>1, <3>2, <3>3 DEF Status
      <3>4. CASE a = b
        <4>1. Msg("seat.confirmed", b, NoToken) \in log
          BY <1>3, <3>2, <3>4 DEF MayAdvance
        <4> QED BY <1>0, <4>1, MsgFields DEF Held
      <3> QED BY <3>3, <3>4
    <2>4. CASE Plain \/ (\E p \in Pods : HandlerReply(p))
                 \/ \E q \in BookingPods : \E c \in cont[q] : Resume(q, c)
      BY <2>2, <2>4 DEF Plain, HandlerReply, Resume
    <2> QED BY <2>3, <2>4, StepKinds
  <1>4. \A p \in Pods : Confirming(call'[p]) =>
           row'[SeatOf[call'[p].b]].status = "BOOKED"
           /\ issued'[bookedBy'[SeatOf[call'[p].b]]] = call'[p].b
    BY <1>1 DEF Holds, Booker
  <1> QED BY <1>2, <1>3, <1>4 DEF Held, Holds, Booker, Status, Confirming

LEMMA InitHeldInv == Init => HeldInv
  <1> SUFFICES ASSUME Init PROVE HeldInv
    OBVIOUS
  <1>1. IInv /\ Begun
    BY InitSaleInv DEF SaleInv
  <1>2. \A s \in Seats : row[s].token = NoToken /\ row[s].expired = FALSE
    BY RowValues DEF Init, LockerInit
  <1>3. CronHolds
    BY DEF Init, LockerInit, CronHolds
  <1>4. Held
    <2>1. \A p \in Pods : ~Confirming(call[p])
      BY DEF Init, LockerInit, Idle, Confirming
    <2> QED BY <2>1 DEF Init, Held, Status
  <1> QED BY <1>1, <1>2, <1>3, <1>4 DEF HeldInv, RowsIssued, Quiet

LEMMA SystemHeldInv ==
  ASSUME Timely
  PROVE  Spec => []HeldInv
  <1>1. HeldInv /\ [Next]_vars => HeldInv'
    BY NextIInv, BegunKept, RowsIssuedKept, QuietKept, CronHoldsKept, HeldKept DEF HeldInv
  <1> QED BY <1>1, InitHeldInv, PTL DEF Spec

\* A customer whose booking says CONFIRMED has the seat: two services, two
\* databases and Kafka apart, whatever crashes, rejects, gets lost or comes
\* again. (onSeatConfirmed, SeatLockerService.confirm)
THEOREM CustomersHoldTheirSeats ==
  ASSUME Timely
  PROVE  Spec => []ConfirmedHoldsSeat
  <1>1. HeldInv => ConfirmedHoldsSeat
    BY DEF HeldInv, Held, Holds, ConfirmedHoldsSeat
  <1> QED BY <1>1, SystemHeldInv, PTL

\* No seat is sold twice.
THEOREM NoSeatIsSoldTwice ==
  ASSUME Timely
  PROVE  Spec => []NoDoubleSale
  <1>1. HeldInv => NoDoubleSale
    BY DEF HeldInv, Held, Holds, NoDoubleSale
  <1> QED BY <1>1, SystemHeldInv, PTL

\* With the one cron job that keeps time, a lock that has not expired ends only
\* by the release or the confirm that carries its token. (releaseExpiredSeats
\* frees by id: it is the time its pods keep, and their number, that protects
\* the other locks.)
THEOREM LocksStand ==
  ASSUME Timely
  PROVE  Spec => LockNotStolen
  <1>1. HeldInv /\ [Next]_vars
          => [\A s \in Seats :
                row[s].status = "LOCKED" /\ ~row[s].expired /\ row'[s].token # row[s].token
                  => \E p \in Pods : /\ call[p].op \in {"release", "confirm"}
                                    /\ call[p].t = row[s].token]_lockerVars
    <2> SUFFICES ASSUME HeldInv, [Next]_vars, NEW s \in Seats, row[s].status = "LOCKED",
                        ~row[s].expired, row'[s].token # row[s].token
                 PROVE  \E p \in Pods : /\ call[p].op \in {"release", "confirm"}
                                       /\ call[p].t = row[s].token
      OBVIOUS
    <2>1. row[s] \in Rows /\ CallInOrder
      BY RowFacts DEF HeldInv, IInv
    <2>2. CASE \E p \in Pods : At(p, "relRow") /\ row[s].token = call[p].t
      BY <2>1, <2>2 DEF At, CallInOrder
    <2>3. CASE \E p \in Pods : At(p, "confRow") /\ Confirmable(s, call[p].t)
      BY <2>1, <2>3 DEF At, CallInOrder, Confirmable
    <2>4. CASE \E p \in CronPods : s \in cron[p]
      BY <2>4 DEF HeldInv, CronHolds
    <2>5. [row[s] EXCEPT !.expired = TRUE].token = row[s].token
      BY <2>1 DEF Rows
    <2>6. IInv
      BY DEF HeldInv
    <2>7. RowMoves(s) /\ Env \cap {"remove", "reset"} = {}
      BY <2>6, RowsMove DEF Timely
    <2>8. row'[s] # row[s] /\ row'[s] # [row[s] EXCEPT !.expired = TRUE]
      BY <2>5
    <2> QED BY <2>2, <2>3, <2>4, <2>7, <2>8 DEF RowMoves, Same
  <1> QED BY <1>1, SystemHeldInv, PTL DEF Spec, LockNotStolen

(***************************************************************************)
(* Part 5: the saga implements the sale of seats. A seat is sold when      *)
(* confirm books its row.                                                  *)
(***************************************************************************)

LEMMA InitSale == Init => Sale!Init
  <1> SUFFICES ASSUME Init PROVE Sale!Init
    OBVIOUS
  <1>1. \A s \in Seats : SoldTo(s) = NoBooking
    BY RowValues DEF Init, LockerInit, SoldTo
  <1>2. \A b \in Bookings : Outcome(b) = "none"
    BY DEF Init, Outcome, Status
  <1> QED BY <1>1, <1>2 DEF Sale!Init

\* What the customer sees does not depend on the rows.
LEMMA OutcomeKept ==
  ASSUME UNCHANGED booking, NEW b \in Bookings
  PROVE  Outcome(b)' = Outcome(b)
  BY DEF Outcome, Status

\* A seat is sold by the UPDATE of confirm, and only by it.
LEMMA SoldMoves ==
  ASSUME Timely, HeldInv, BookedAsked, [Next]_vars, NEW s \in Seats
  PROVE  \/ SoldTo(s)' = SoldTo(s)
         \/ \E p \in Pods : /\ At(p, "confRow") /\ s = SeatAt(p) /\ Confirmable(s, call[p].t)
                            /\ BookRow(s, call[p].t)
  <1>0. IInv /\ CronHolds
    BY DEF HeldInv
  <1>1. CASE row[s].status = "BOOKED"
    <2>1. Same(s) /\ bookedBy[s] \in Tokens
      BY <1>0, <1>1, BookedStays, RowFacts
    <2>2. issued[bookedBy[s]] \in Bookings
      BY <1>1 DEF BookedAsked, Booker
    <2>3. issued'[bookedBy[s]] = issued[bookedBy[s]]
      BY <1>0, <2>1, <2>2, TokensKept
    <2> QED BY <1>1, <2>1, <2>3 DEF Same, SoldTo, Booker
  <1>2. CASE row[s].status # "BOOKED" /\ row'[s].status = "BOOKED"
    <2>1. \A st \in {"MISSING", "AVAILABLE"} : Unlocked(st).status # "BOOKED"
      BY RowValues
    <2>2. \A p \in Pods : LockedWith(call[p].t).status = "LOCKED"
      BY DEF LockedWith
    <2>3. [row[s] EXCEPT !.expired = TRUE].status = row[s].status
      BY <1>0, RowFacts DEF Rows
    <2> QED BY <1>0, <1>2, <2>1, <2>2, <2>3, RowsMove DEF RowMoves, Freed, Same
  <1>3. CASE row[s].status # "BOOKED" /\ row'[s].status # "BOOKED"
    BY <1>3 DEF SoldTo
  <1> QED BY <1>1, <1>2, <1>3

\* The UPDATE of confirm sells the seat.
LEMMA BookingSells ==
  ASSUME Timely, HeldInv, SaleInv, [Next]_vars, UNCHANGED booking, NEW p \in Pods,
         At(p, "confRow"), Confirmable(SeatAt(p), call[p].t), BookRow(SeatAt(p), call[p].t)
  PROVE  Sale!Next
  <1>1. /\ call[p].b \in Bookings /\ call[p].t \in Tokens /\ issued[call[p].t] = call[p].b
        /\ call[p].op = "confirm" /\ IInv
    BY DEF At, HeldInv, IInv, CallInOrder, LockerTypeOK, CallTypeOK, CallWellFormed
  <1>2. PICK b \in Bookings : b = call[p].b
    BY <1>1
  <1> DEFINE s == SeatOf[b]
  <1>3. s \in Seats /\ s = SeatAt(p) /\ row[s].status = "LOCKED"
    BY <1>2 DEF SeatAt, Confirmable
  <1>4. Outcome(b) = "pending"
    <2>1. Msg("seat.confirm", b, call[p].t) \in log
      BY <1>1, <1>2 DEF IInv, HandledLogged, Handled
    <2>2. Paid(b)
      BY <2>1, MsgFields DEF SaleInv, PaidFor
    <2>3. Status(b) # "CONFIRMED"
      BY <1>3 DEF HeldInv, Held, Holds
    <2> QED BY <2>2, <2>3 DEF Outcome, Paid
  <1>5. SoldTo(s) = NoBooking
    BY <1>3 DEF SoldTo
  <1>6. SoldTo(s)' = b
    <2>1. row'[s].status = "BOOKED" /\ bookedBy'[s] = call[p].t
      BY <1>1, <1>3, RowFacts DEF BookRow, SetRow, Unlocked, IInv, LockerTypeOK, RowTypeOK
    <2>2. issued'[call[p].t] = b
      BY <1>1, <1>2, TokensKept
    <2> QED BY <2>1, <2>2 DEF SoldTo, Booker
  <1> HIDE DEF s
  <1>7. \A u \in Seats : u # s => SoldTo(u)' = SoldTo(u)
    <2> SUFFICES ASSUME NEW u \in Seats, u # s PROVE SoldTo(u)' = SoldTo(u)
      OBVIOUS
    <2>1. row'[u] = row[u]
      BY <1>3, <1>1 DEF BookRow, SetRow, IInv, LockerTypeOK, RowTypeOK
    <2>2. ~ \E r \in Pods : Confirmable(u, call[r].t) /\ BookRow(u, call[r].t)
      <3> SUFFICES ASSUME NEW r \in Pods, Confirmable(u, call[r].t), BookRow(u, call[r].t)
                   PROVE  FALSE
        OBVIOUS
      <3>1. row'[u].status = "BOOKED"
        BY <1>1 DEF BookRow, SetRow, Unlocked, IInv, LockerTypeOK, RowTypeOK
      <3> QED BY <2>1, <3>1 DEF Confirmable
    <2> QED BY <2>2, SoldMoves DEF SaleInv
  <1>8. [u \in Seats |-> SoldTo(u)]' = [[u \in Seats |-> SoldTo(u)] EXCEPT ![s] = b]
    BY <1>3, <1>6, <1>7
  <1>9. [c \in Bookings |-> Outcome(c)]' = [c \in Bookings |-> Outcome(c)]
    BY OutcomeKept
  <1>10. Sale!Sell(b)
    <2>1. SeatOf[b] = s
      BY DEF s
    <2> QED BY <1>3, <1>4, <1>5, <1>8, <1>9, <2>1 DEF Sale!Sell
  <1> QED BY <1>10 DEF Sale!Next

\* The UPDATEs of booking-service: one asks, one confirms, one fails, and two
\* are not seen from outside.
LEMMA AdvancesMap ==
  ASSUME HeldInv, SaleInv, [Next]_vars, Advances
  PROVE  Sale!Next \/ UNCHANGED Sale!saleVars
  <1>1. PICK q \in BookingPods, b \in Bookings,
             fn \in {"create", "locked", "paid", "confirmed", "compensate"}, new \in Values :
                Advance(q, fn, b, new)
    BY DEF Advances
  <1>2. /\ booking' = [booking EXCEPT ![b] = new] /\ MayAdvance(fn, b, new)
        /\ booking \in [Bookings -> Values] /\ UNCHANGED <<row, bookedBy, issued>>
    BY <1>1 DEF Advance, Advances, lockerVars, HeldInv, IInv, SagaTypeOK, Values
  <1> DEFINE sold == [s \in Seats |-> SoldTo(s)]
             outcome == [c \in Bookings |-> Outcome(c)]
  <1>3. sold' = sold
    BY <1>2 DEF SoldTo, Booker
  <1>4. ASSUME NEW o, Outcome(b)' = o
        PROVE  outcome' = [outcome EXCEPT ![b] = o]
    <2>1. \A c \in Bookings : c # b => Outcome(c)' = Outcome(c)
      BY <1>2 DEF Outcome, Status
    <2> QED BY <1>4, <2>1
  <1>5. Status(b)' = new.status
    BY <1>2 DEF Status
  <1>6. CASE fn = "create"
    <2>1. Outcome(b) = "none" /\ Outcome(b)' = "pending"
      BY <1>2, <1>5, <1>6 DEF MayAdvance, Outcome
    <2>2. outcome' = [outcome EXCEPT ![b] = "pending"]
      BY <1>4, <2>1
    <2>3. Sale!Ask(b)
      BY <1>3, <2>1, <2>2 DEF Sale!Ask
    <2> QED BY <2>3 DEF Sale!Next
  <1>7. CASE fn \in {"locked", "paid"}
    <2>1. Outcome(b) = "pending" /\ Outcome(b)' = "pending"
      BY <1>2, <1>5, <1>7 DEF MayAdvance, Outcome
    <2>2. outcome' = [outcome EXCEPT ![b] = "pending"]
      BY <1>4, <2>1
    <2>3. outcome' = outcome
      BY <2>1, <2>2
    <2> QED BY <1>3, <2>3 DEF Sale!saleVars
  <1>8. CASE fn = "confirmed"
    <2>1. Outcome(b) = "pending" /\ Outcome(b)' = "confirmed"
      BY <1>2, <1>5, <1>8 DEF MayAdvance, Outcome
    <2>2. outcome' = [outcome EXCEPT ![b] = "confirmed"]
      BY <1>4, <2>1
    <2>3. Holds(b)
      BY <1>2, <1>8, MsgFields DEF MayAdvance, HeldInv, Held
    <2>4. SeatOf[b] \in Seats /\ SoldTo(SeatOf[b]) = b
      BY <2>3 DEF SoldTo, Holds
    <2>5. Sale!Confirm(b)
      BY <1>3, <2>1, <2>2, <2>4 DEF Sale!Confirm
    <2> QED BY <2>5 DEF Sale!Next
  <1>9. CASE fn = "compensate"
    <2>1. Outcome(b) = "pending" /\ Outcome(b)' = "failed"
      BY <1>2, <1>5, <1>9 DEF MayAdvance, Outcome, Unsettled
    <2>2. outcome' = [outcome EXCEPT ![b] = "failed"]
      BY <1>4, <2>1
    <2>3. SeatOf[b] \in Seats /\ SoldTo(SeatOf[b]) # b
      <3>1. SUFFICES ASSUME row[SeatOf[b]].status = "BOOKED", Booker(SeatOf[b]) = b
                     PROVE  FALSE
        BY DEF SoldTo
      <3>2. Msg("seat.confirm", b, bookedBy[SeatOf[b]]) \in log
        BY <3>1 DEF SaleInv, BookedAsked
      <3>3. Paid(b)
        BY <3>2, MsgFields DEF SaleInv, PaidFor
      <3>4. Lost(b) \notin log
        BY <3>3, PaidIsNotLost DEF SaleInv
      <3> QED BY <1>2, <1>9, <3>4 DEF MayAdvance, Lost
    <2>4. Sale!Fail(b)
      BY <1>3, <2>1, <2>2, <2>3 DEF Sale!Fail
    <2> QED BY <2>4 DEF Sale!Next
  <1> QED BY <1>6, <1>7, <1>8, <1>9

\* The saga implements the sale of seats: whatever crashes, rejects or gets lost,
\* a seat is sold at most once and for ever, to a booking that is not failed
\* afterwards, and nobody is confirmed who was not sold the seat.
THEOREM SagaImplementsSale ==
  ASSUME Timely, NoRedelivery
  PROVE  Spec => ImplementsSale
  <1>1. HeldInv /\ SaleInv /\ [Next]_vars => [Sale!Next]_(Sale!saleVars)
    <2> SUFFICES ASSUME HeldInv, SaleInv, [Next]_vars
                 PROVE  Sale!Next \/ UNCHANGED Sale!saleVars
      OBVIOUS
    <2>1. CASE Advances
      BY <2>1, AdvancesMap
    <2>2. CASE UNCHANGED booking
      <3>1. CASE \A s \in Seats : SoldTo(s)' = SoldTo(s)
        <4>1. [s \in Seats |-> SoldTo(s)]' = [s \in Seats |-> SoldTo(s)]
          BY <3>1
        <4>2. [b \in Bookings |-> Outcome(b)]' = [b \in Bookings |-> Outcome(b)]
          BY <2>2, OutcomeKept
        <4> QED BY <4>1, <4>2 DEF Sale!saleVars
      <3>2. CASE ~ \A s \in Seats : SoldTo(s)' = SoldTo(s)
        BY <2>2, <3>2, SoldMoves, BookingSells DEF SaleInv
      <3> QED BY <3>1, <3>2
    <2>3. Advances \/ UNCHANGED booking
      BY StepKinds DEF HeldInv, Plain, HandlerReply, Resume
    <2> QED BY <2>1, <2>2, <2>3
  <1> QED BY <1>1, InitSale, SystemHeldInv, SystemSaleInv, PTL DEF Spec, ImplementsSale, Sale!Spec

-----------------------------------------------------------------------------
(***************************************************************************)
(* Part 6: as long as nothing fails, the saga of a booking goes on. The    *)
(* premise is that of part 4; messages are not delivered again because     *)
(* that is one of the things that fail.                                    *)
(***************************************************************************)

\* The steps of the system in which nothing fails.
Smooth ==
  \/ Request
  \/ ServiceStep
  \/ AdminStep /\ UNCHANGED sagaVars
  \/ \E s \in Seats : LockExpires(s) \/ KeyVanishes(s)
  \/ UNCHANGED vars

LEMMA SmoothSteps ==
  ASSUME IInv, [Next]_vars, faults' = 0
  PROVE  Smooth /\ faults = 0
  <1>0. faults \in Nat
    BY DEF IInv, LockerTypeOK
  <1>1. CASE Faulty
    <2>1. \E kind : Fault(kind)
      BY <1>1 DEF Faulty, InventoryCrash, PodCrash, CallRejects, BookingCrash, ContRejects, Lose,
                  Redeliver
    <2>2. faults' = faults + 1
      BY <2>1 DEF Fault
    <2> QED BY <1>0, <2>2
  <1>2. CASE Request \/ SagaStep \/ UNCHANGED vars
    BY <1>2 DEF Request, SagaStep, vars, lockerVars, Smooth, ServiceStep
  <1>3. CASE InventoryReceives \/ \E p \in Pods : HandlerReply(p)
    <2>1. UNCHANGED faults
      BY <1>3 DEF InventoryReceives, ReceiveLock, ReceiveRelease, ReceiveConfirm, StartLock,
                  StartRelease, StartConfirm, HandlerReply, Reply
    <2> QED BY <1>3, <2>1 DEF Smooth, ServiceStep
  <1>4. CASE LockerStep
    <2>1. UNCHANGED faults
      BY <1>4 DEF LockerStep, CronStep, CronRead, CronFree, HandlerStep, LockSetNX, LockUpdate,
                  LockFind, LockInsert, LockUndo, ReleaseKey, ReleaseRow, ConfirmRow, ConfirmKey
    <2> QED BY <1>4, <2>1 DEF Smooth, ServiceStep
  <1>5. CASE AdminStep /\ UNCHANGED sagaVars
    <2>1. UNCHANGED faults
      BY <1>5 DEF AdminStep, AddFind, AddSave, RemoveFind, RemoveDelete, ResetRows, ResetKey
    <2> QED BY <1>5, <2>1 DEF Smooth
  <1>6. CASE \E s \in Seats : LockExpires(s) \/ KeyVanishes(s)
    <2>1. UNCHANGED faults
      BY <1>6 DEF LockExpires, KeyVanishes, RowExpires, KeyExpires
    <2> QED BY <1>6, <2>1 DEF Smooth
  <1> QED BY <1>1, <1>2, <1>3, <1>4, <1>5, <1>6 DEF Next, ServiceStep

\* What happens to a message that is on its way, ...
LEMMA SmoothConsumes ==
  ASSUME IInv, Smooth, NEW m \in pending, m \notin pending'
  PROVE  \/ \E p \in Pods : Receives(p, m)
         \/ \E q \in BookingPods : OnSeatLocked(q, m) \/ OnSeatConfirmed(q, m) \/ Compensate(q, m)
         \/ NotifyConfirmed(m)
  <1> DEFINE Goal == \/ \E p \in Pods : Receives(p, m)
                     \/ \E q \in BookingPods :
                           OnSeatLocked(q, m) \/ OnSeatConfirmed(q, m) \/ Compensate(q, m)
                     \/ NotifyConfirmed(m)
  <1> SUFFICES Goal
    OBVIOUS
  <1>1. ASSUME pending \subseteq pending'
        PROVE  Goal
    BY <1>1
  <1>2. ASSUME NEW n \in pending, Consume(n)
        PROVE  n = m
    BY <1>2 DEF Consume
  <1>3. CASE InventoryReceives
    <2>1. PICK p \in Pods, n \in pending : Receives(p, n)
      BY <1>3 DEF InventoryReceives, Receives
    <2>2. Consume(n)
      BY <2>1 DEF Receives, ReceiveLock, ReceiveRelease, ReceiveConfirm
    <2> QED BY <1>2, <2>1, <2>2
  <1>4. CASE SagaStep
    <2>1. ASSUME NEW q \in BookingPods, NEW n \in pending,
                 OnSeatLocked(q, n) \/ OnSeatConfirmed(q, n) \/ Compensate(q, n)
          PROVE  Goal
      <3>1. n = m
        BY <1>2, <2>1 DEF OnSeatLocked, OnSeatConfirmed, Compensate
      <3> QED BY <2>1, <3>1
    <2>2. ASSUME NEW n \in pending, NotifyConfirmed(n)
          PROVE  Goal
      <3>1. n = m
        BY <1>2, <2>2 DEF NotifyConfirmed
      <3> QED BY <2>2, <3>1
    <2>3. ASSUME NEW q \in BookingPods, NEW c \in cont[q], Resume(q, c)
          PROVE  Goal
      BY <1>1, <2>3 DEF Resume, Emit
    <2>4. ASSUME NEW q \in BookingPods, NEW b \in Bookings, OnPaymentCompleted(q, b)
          PROVE  Goal
      BY <1>1, <2>4 DEF OnPaymentCompleted
    <2> HIDE DEF Goal
    <2> QED BY <1>4, <2>1, <2>2, <2>3, <2>4 DEF SagaStep
  <1>5. CASE \E p \in Pods : HandlerReply(p)
    BY <1>1, <1>5 DEF HandlerReply, Emit
  <1>6. CASE \/ Request \/ LockerStep \/ (AdminStep /\ UNCHANGED sagaVars) \/ UNCHANGED vars
             \/ \E s \in Seats : LockExpires(s) \/ KeyVanishes(s)
    BY <1>1, <1>6 DEF Request, Create, LockerStep, LockExpires, KeyVanishes, sagaVars, vars
  <1> QED BY <1>3, <1>4, <1>5, <1>6 DEF Smooth, ServiceStep

\* ... and where one comes from.
LEMMA SmoothEmits ==
  ASSUME IInv, Smooth, NEW m \in pending', m \notin pending
  PROVE  \/ \E p \in Pods : HandlerReply(p) /\ m \in Answers(call[p])
         \/ \E q \in BookingPods : \E c \in cont[q] : Resume(q, c) /\ m \in Emissions(c)
  <1>1. ASSUME pending' \subseteq pending
        PROVE  FALSE
    BY <1>1
  <1>2. CASE \E p \in Pods : HandlerReply(p)
    BY <1>2 DEF HandlerReply, Emit
  <1>3. CASE SagaStep
    <2>1. CASE \E q \in BookingPods : \E c \in cont[q] : Resume(q, c)
      BY <2>1 DEF Resume, Emit
    <2>2. CASE ~ \E q \in BookingPods : \E c \in cont[q] : Resume(q, c)
      BY <1>1, <1>3, <2>2 DEF SagaStep, OnSeatLocked, OnSeatConfirmed, Compensate,
                              OnPaymentCompleted, NotifyConfirmed, Consume
    <2> QED BY <2>1, <2>2
  <1>4. CASE InventoryReceives
    BY <1>1, <1>4 DEF InventoryReceives, ReceiveLock, ReceiveRelease, ReceiveConfirm, Consume
  <1>5. CASE \/ Request \/ LockerStep \/ (AdminStep /\ UNCHANGED sagaVars) \/ UNCHANGED vars
             \/ \E s \in Seats : LockExpires(s) \/ KeyVanishes(s)
    BY <1>1, <1>5 DEF Request, Create, LockerStep, LockExpires, KeyVanishes, sagaVars, vars
  <1> QED BY <1>2, <1>3, <1>4, <1>5 DEF Smooth, ServiceStep

\* The functions and timers of a booking pod go on by running.
LEMMA SmoothPods ==
  ASSUME IInv, Smooth, NEW q \in BookingPods
  PROVE  /\ \A c \in cont[q] : c \in cont'[q] \/ Resume(q, c)
         /\ \A b \in timers[q] : b \in timers'[q] \/ OnPaymentCompleted(q, b)
  <1> DEFINE Goal == /\ \A c \in cont[q] : c \in cont'[q] \/ Resume(q, c)
                     /\ \A b \in timers[q] : b \in timers'[q] \/ OnPaymentCompleted(q, b)
  <1> SUFFICES Goal
    OBVIOUS
  <1>0. timers \in [BookingPods -> SUBSET Bookings] /\ cont \in [BookingPods -> SUBSET Conts]
    BY DEF IInv, SagaTypeOK
  <1>1. ASSUME timers[q] \subseteq timers'[q], cont[q] \subseteq cont'[q]
        PROVE  Goal
    BY <1>1
  <1>2. ASSUME NEW r \in BookingPods, NEW fn, NEW b, Suspend(r, fn, b)
        PROVE  cont[q] \subseteq cont'[q]
    BY <1>0, <1>2 DEF Suspend
  <1>3. ASSUME NEW r \in BookingPods, NEW c \in cont[r], Resume(r, c)
        PROVE  Goal
    <2>1. timers[q] \subseteq timers'[q]
      BY <1>0, <1>3 DEF Resume
    <2>2. ASSUME NEW d \in cont[q], d \notin cont'[q]
          PROVE  Resume(q, d)
      <3>1. r = q /\ c = d
        BY <1>0, <1>3, <2>2 DEF Resume
      <3> QED BY <1>3, <3>1
    <2> QED BY <2>1, <2>2
  <1>4. ASSUME NEW r \in BookingPods, NEW b \in Bookings, OnPaymentCompleted(r, b)
        PROVE  Goal
    <2>1. cont[q] \subseteq cont'[q]
      BY <1>2, <1>4 DEF OnPaymentCompleted, MergeSaga
    <2>2. ASSUME NEW a \in timers[q], a \notin timers'[q]
          PROVE  OnPaymentCompleted(q, a)
      <3>1. r = q /\ b = a
        BY <1>0, <1>4, <2>2 DEF OnPaymentCompleted
      <3> QED BY <1>4, <3>1
    <2> QED BY <2>1, <2>2
  <1> HIDE DEF Goal
  <1>5. CASE Request
    BY <1>1, <1>2, <1>5 DEF Request, Create
  <1>6. CASE SagaStep
    BY <1>1, <1>2, <1>3, <1>4, <1>6
       DEF SagaStep, OnSeatLocked, OnSeatConfirmed, Compensate, MergeSaga, NotifyConfirmed
  <1>7. CASE InventoryReceives \/ \E p \in Pods : HandlerReply(p)
    BY <1>1, <1>7 DEF InventoryReceives, ReceiveLock, ReceiveRelease, ReceiveConfirm, HandlerReply
  <1>8. CASE \/ LockerStep \/ (AdminStep /\ UNCHANGED sagaVars) \/ UNCHANGED vars
             \/ \E s \in Seats : LockExpires(s) \/ KeyVanishes(s)
    BY <1>1, <1>8 DEF LockerStep, LockExpires, KeyVanishes, sagaVars, vars
  <1> QED BY <1>5, <1>6, <1>7, <1>8 DEF Smooth, ServiceStep

\* No lock call has met an error.
NoThrow == \A p \in Pods : call[p].pc # "undoThrow"

\* A handler stays where it is, goes on for its booking, answers, or starts.
LEMMA SmoothCalls ==
  ASSUME IInv, NoThrow, Smooth, NEW p \in Pods
  PROVE  \/ call'[p] = call[p]
         \/ HandlerStep(p) /\ SameCall(call'[p], call[p])
            /\ call'[p].pc \notin {"idle", "undoThrow"}
         \/ HandlerReply(p) /\ call'[p] = Idle
         \/ \E m \in pending : Receives(p, m)
  <1> DEFINE Goal == \/ call'[p] = call[p]
                     \/ HandlerStep(p) /\ SameCall(call'[p], call[p])
                        /\ call'[p].pc \notin {"idle", "undoThrow"}
                     \/ HandlerReply(p) /\ call'[p] = Idle
                     \/ \E m \in pending : Receives(p, m)
  <1> SUFFICES Goal
    OBVIOUS
  <1>0. call \in [Pods -> Calls]
    BY DEF IInv, LockerTypeOK, CallTypeOK
  <1>1. ASSUME NEW r \in Pods, NEW m \in pending, Receives(r, m)
        PROVE  Goal
    <2>1. CASE r = p
      BY <1>1, <2>1
    <2>2. CASE r # p
      BY <1>0, <1>1, <2>2 DEF Receives, ReceiveLock, ReceiveRelease, ReceiveConfirm, StartLock,
                              StartRelease, StartConfirm
    <2> QED BY <2>1, <2>2
  <1>2. ASSUME NEW r \in Pods, HandlerStep(r)
        PROVE  Goal
    <2>1. ASSUME NEW pc, Goto(r, pc), pc \notin {"idle", "undoThrow"}
          PROVE  Goal
      BY <1>0, <1>2, <2>1 DEF Goto, Calls, SameCall
    <2>2. ASSUME NEW ok, Answer(r, ok)
          PROVE  Goal
      BY <1>0, <1>2, <2>2 DEF Answer, Calls, SameCall
    <2> HIDE DEF Goal
    <2> QED BY <1>2, <2>1, <2>2
         DEF HandlerStep, LockSetNX, LockUpdate, LockFind, LockInsert, LockUndo, ReleaseKey,
             ReleaseRow, ConfirmRow, ConfirmKey, NoThrow, At
  <1>3. ASSUME NEW r \in Pods, HandlerReply(r)
        PROVE  Goal
    <2>1. call' = [call EXCEPT ![r] = Idle]
      BY <1>3 DEF HandlerReply, Reply
    <2> QED BY <1>0, <1>3, <2>1
  <1>4. ASSUME UNCHANGED call
        PROVE  Goal
    BY <1>4
  <1> HIDE DEF Goal
  <1>5. CASE Request \/ SagaStep \/ UNCHANGED vars
    BY <1>4, <1>5 DEF Request, SagaStep, vars, lockerVars
  <1>6. CASE InventoryReceives
    BY <1>1, <1>6 DEF InventoryReceives, Receives
  <1>7. CASE LockerStep
    BY <1>2, <1>4, <1>7 DEF LockerStep, CronStep, CronRead, CronFree
  <1>8. CASE AdminStep
    BY <1>4, <1>8 DEF AdminStep, AddFind, AddSave, RemoveFind, RemoveDelete, ResetRows, ResetKey
  <1>9. CASE \E s \in Seats : LockExpires(s) \/ KeyVanishes(s)
    BY <1>4, <1>9 DEF LockExpires, KeyVanishes, RowExpires, KeyExpires
  <1> QED BY <1>3, <1>5, <1>6, <1>7, <1>8, <1>9 DEF Smooth, ServiceStep

LEMMA NoThrowKept ==
  ASSUME IInv, NoThrow, Smooth
  PROVE  NoThrow'
  <1> SUFFICES ASSUME NEW p \in Pods PROVE call'[p].pc # "undoThrow"
    BY DEF NoThrow
  <1>1. CASE \E m \in pending : Receives(p, m)
    BY <1>1, ReceivedCall
  <1>2. CASE call'[p] = call[p] \/ call'[p] = Idle
    BY <1>2 DEF NoThrow, Idle
  <1> QED BY <1>1, <1>2, SmoothCalls

(***************************************************************************)
(* A saga does not turn back, with whatever faults: the seat is asked for  *)
(* after the payment, and given back after the failure.                    *)
(***************************************************************************)
Asked(b) == Status(b) \in {"PAYMENT_PROCESSING", "CONFIRMED", "FAILED"}

Forward ==
  /\ \A q \in BookingPods : \A c \in cont[q] :
        /\ c.fn = "paid" => Asked(c.b)
        /\ c.fn = "compensate" => Status(c.b) = "FAILED"
  /\ \A m \in log :
        /\ m.type = "seat.confirm" => Asked(m.b)
        /\ m.type = "seat.release" => Status(m.b) = "FAILED"

LEMMA NoWayBack ==
  ASSUME IInv, [Next]_vars, NEW b \in Bookings
  PROVE  /\ Asked(b) => Asked(b)'
         /\ Status(b) = "FAILED" => booking'[b].status = "FAILED"
  <1>0. booking \in [Bookings -> Values]
    BY DEF IInv, SagaTypeOK, Values
  <1>1. CASE UNCHANGED booking
    BY <1>1 DEF Asked, Status
  <1>2. CASE Advances
    <2>1. PICK q \in BookingPods, a \in Bookings,
               fn \in {"create", "locked", "paid", "confirmed", "compensate"}, new \in Values :
                  Advance(q, fn, a, new)
      BY <1>2 DEF Advances
    <2>2. booking' = [booking EXCEPT ![a] = new] /\ MayAdvance(fn, a, new)
      BY <2>1 DEF Advance
    <2>3. CASE a # b
      BY <1>0, <2>2, <2>3 DEF Asked, Status
    <2>4. CASE a = b
      <3>1. booking'[b] = new
        BY <1>0, <2>2, <2>4
      <3>2. /\ Asked(b) => new.status \in {"CONFIRMED", "FAILED"}
            /\ Status(b) # "FAILED"
        BY <2>2, <2>4 DEF MayAdvance, Asked, Unsettled
      <3> QED BY <3>1, <3>2 DEF Asked, Status
    <2> QED BY <2>3, <2>4
  <1>3. CASE Plain \/ (\E p \in Pods : HandlerReply(p))
               \/ \E q \in BookingPods : \E c \in cont[q] : Resume(q, c)
    BY <1>1, <1>3 DEF Plain, HandlerReply, Resume
  <1> QED BY <1>2, <1>3, StepKinds

LEMMA ForwardKept ==
  ASSUME IInv, Forward, [Next]_vars
  PROVE  Forward'
  <1>0. /\ cont \in [BookingPods -> SUBSET Conts]
        /\ \A m \in log : m.b \in Bookings
        /\ \A q \in BookingPods : \A c \in cont[q] : c.b \in Bookings
    BY DEF IInv, SagaTypeOK, Messages, Conts
  <1>1. \A b \in Bookings : /\ Asked(b) => Asked(b)'
                            /\ Status(b) = "FAILED" => Status(b)' = "FAILED"
    BY NoWayBack DEF Status
  <1>2. CASE Plain
    BY <1>0, <1>1, <1>2 DEF Plain, Forward
  <1>3. ASSUME NEW p \in Pods, HandlerReply(p)
        PROVE  Forward'
    <2>1. log' = log \cup Answers(call[p]) /\ UNCHANGED cont
      BY <1>3 DEF HandlerReply, Emit
    <2>2. \A m \in Answers(call[p]) : m.type \notin {"seat.confirm", "seat.release"}
      BY MsgFields DEF Answers
    <2> QED BY <1>0, <1>1, <2>1, <2>2 DEF Forward
  <1>4. ASSUME NEW q \in BookingPods, NEW c \in cont[q], Resume(q, c)
        PROVE  Forward'
    <2>1. log' = log \cup Emissions(c) /\ \A r \in BookingPods : cont'[r] \subseteq cont[r]
      BY <1>0, <1>4 DEF Resume, Emit
    <2>2. \A m \in Emissions(c) : /\ m.type = "seat.confirm" => m.b = c.b /\ c.fn = "paid"
                                  /\ m.type = "seat.release" => m.b = c.b /\ c.fn = "compensate"
      BY MsgFields DEF Emissions
    <2> QED BY <1>0, <1>1, <2>1, <2>2 DEF Forward
  <1>5. CASE Advances
    <2>1. PICK q \in BookingPods, b \in Bookings,
               fn \in {"create", "locked", "paid", "confirmed", "compensate"}, new \in Values :
                  Advance(q, fn, b, new)
      BY <1>5 DEF Advances
    <2> DEFINE d == [fn |-> fn, b |-> b]
    <2>2. /\ d.fn = fn /\ d.b = b /\ cont' = [cont EXCEPT ![q] = cont[q] \cup {d}]
          /\ booking' = [booking EXCEPT ![b] = new] /\ MayAdvance(fn, b, new) /\ UNCHANGED log
      BY <2>1 DEF Advance
    <2> HIDE DEF d
    <2>3. \A r \in BookingPods : \A c \in cont'[r] : c \in cont[r] \/ c = d
      BY <1>0, <2>2
    <2>4. /\ fn = "paid" => Asked(b)'
          /\ fn = "compensate" => Status(b)' = "FAILED"
      <3>1. booking \in [Bookings -> Values]
        BY DEF IInv, SagaTypeOK, Values
      <3> QED BY <2>2, <3>1 DEF MayAdvance, Asked, Status
    <2> QED BY <1>0, <1>1, <2>2, <2>3, <2>4 DEF Forward
  <1> QED BY <1>2, <1>3, <1>4, <1>5, StepKinds

(***************************************************************************)
(* A lock that was granted stands while the saga works for it.             *)
(***************************************************************************)
Stands(b, t) == row[SeatOf[b]].token = t \/ bookedBy[SeatOf[b]] = t

\* Somebody relies on the lock: the call that is about to say so, the message that
\* says so, or the booking.
Claims(b, t) ==
  \/ \E p \in Pods : Locking(p, b) /\ At(p, "reply") /\ call[p].ok /\ call[p].t = t
  \/ Won(b, t) \in pending
  \/ Status(b) \in {"SEAT_LOCKED", "PAYMENT_PROCESSING"} /\ booking[b].token = t

Standing ==
  \A b \in Bookings, t \in Tokens : Claims(b, t) /\ Status(b) # "FAILED" => Stands(b, t)

\* A lock call says yes only by writing the row.
LEMMA LockWrites ==
  ASSUME IInv, NEW p \in Pods, HandlerStep(p), call'[p].op = "lock", call'[p].pc = "reply",
         call'[p].ok
  PROVE  \/ call[p].op = "lock" /\ At(p, "reply") /\ call[p].ok
         \/ row'[SeatAt(p)].token = call[p].t
  <1>0. /\ call \in [Pods -> Calls] /\ CallInOrder /\ row \in [Seats -> Rows]
    BY DEF IInv, LockerTypeOK, CallTypeOK, RowTypeOK
  <1>1. SeatAt(p) \in Seats /\ call[p].t \in Tokens
    <2>1. call[p].pc # "idle"
      BY DEF HandlerStep, At, LockSetNX, LockUpdate, LockFind, LockInsert, LockUndo, ReleaseKey,
             ReleaseRow, ConfirmRow, ConfirmKey
    <2> QED BY <2>1, SeatOfCall DEF IInv
  <1>2. ASSUME NEW pc, Goto(p, pc), pc # "reply"
        PROVE  FALSE
    BY <1>0, <1>2 DEF Goto, Calls
  <1>3. ASSUME NEW ok \in BOOLEAN, Answer(p, ok)
        PROVE  ok /\ call[p].op = "lock"
    BY <1>0, <1>3 DEF Answer, Calls
  <1>4. ASSUME Throw(p)
        PROVE  FALSE
    BY <1>0, <1>4 DEF Throw, Idle
  <1>5. ASSUME SetRow(SeatAt(p), LockedWith(call[p].t))
        PROVE  row'[SeatAt(p)].token = call[p].t
    BY <1>0, <1>1, <1>5 DEF SetRow, LockedWith
  <1>6. CASE LockUpdate(p) \/ LockInsert(p)
    BY <1>2, <1>5, <1>6 DEF LockUpdate, LockInsert
  <1>7. CASE LockSetNX(p) \/ LockFind(p) \/ LockUndo(p)
    BY <1>2, <1>3, <1>4, <1>7 DEF LockSetNX, LockFind, LockUndo
  <1>8. CASE ReleaseKey(p) \/ ReleaseRow(p) \/ ConfirmRow(p) \/ ConfirmKey(p)
    <2>1. call[p].op # "lock"
      BY <1>0, <1>8 DEF ReleaseKey, ReleaseRow, ConfirmRow, ConfirmKey, At, CallInOrder
    <2> QED BY <1>2, <1>3, <1>8, <2>1 DEF ReleaseKey, ReleaseRow, ConfirmRow, ConfirmKey
  <1> QED BY <1>6, <1>7, <1>8 DEF HandlerStep

Suspended(fn, b) == \E q \in BookingPods : [fn |-> fn, b |-> b] \in cont[q]

\* What a step makes of a booking, and of the function that does it.
SagaMoves(b) ==
  \/ Status(b) = "NONE" /\ booking'[b].status = "INITIATED" /\ Suspended("create", b)'
  \/ /\ Status(b) = "INITIATED" /\ booking'[b].status = "SEAT_LOCKED" /\ Suspended("locked", b)'
     /\ booking'[b].token \in Tokens /\ Won(b, booking'[b].token) \in pending
  \/ /\ Status(b) = "SEAT_LOCKED" /\ booking'[b].status = "PAYMENT_PROCESSING"
     /\ booking'[b].token = booking[b].token /\ Suspended("paid", b)'
  \/ booking'[b].status \in {"CONFIRMED", "FAILED"}

LEMMA SmoothBookings ==
  ASSUME IInv, Smooth, NEW b \in Bookings, booking'[b] # booking[b]
  PROVE  SagaMoves(b) /\ UNCHANGED lockerVars
  <1>0. /\ booking \in [Bookings -> Values] /\ cont \in [BookingPods -> SUBSET Conts]
        /\ pending \subseteq log /\ log \subseteq Messages
    BY DEF IInv, SagaTypeOK, Values
  <1>1. ASSUME UNCHANGED booking
        PROVE  FALSE
    BY <1>1
  <1>2. ASSUME NEW q \in BookingPods, NEW fn, NEW a, Suspend(q, fn, a)
        PROVE  Suspended(fn, a)'
    <2>1. [fn |-> fn, b |-> a] \in cont'[q]
      BY <1>0, <1>2 DEF Suspend
    <2> QED BY <2>1 DEF Suspended
  <1>3. ASSUME NEW a \in Bookings, NEW st, booking' = [booking EXCEPT ![a].status = st]
        PROVE  a = b /\ booking'[b].status = st /\ booking'[b].token = booking[b].token
    <2>1. a = b
      BY <1>0, <1>3
    <2>2. booking[b] \in Values /\ booking'[b] = [booking[b] EXCEPT !.status = st]
      BY <1>0, <1>3, <2>1
    <2> QED BY <2>1, <2>2 DEF Values
  <1>4. CASE Request
    <2>1. PICK q \in BookingPods, a \in Bookings : Create(q, a) /\ UNCHANGED lockerVars
      BY <1>4 DEF Request
    <2>2. /\ booking' = [booking EXCEPT ![a].status = "INITIATED"]
          /\ Suspend(q, "create", a) /\ Status(a) = "NONE"
      BY <2>1 DEF Create
    <2>3. a = b /\ booking'[b].status = "INITIATED"
      BY <1>3, <2>2
    <2>4. Suspended("create", a)'
      BY <1>2, <2>2
    <2> QED BY <2>1, <2>2, <2>3, <2>4 DEF SagaMoves
  <1>5. CASE SagaStep
    <2>0. UNCHANGED lockerVars
      BY <1>5 DEF SagaStep
    <2>1. ASSUME NEW q \in BookingPods, NEW m \in pending, OnSeatLocked(q, m)
          PROVE  SagaMoves(b)
      <3>1. /\ booking' = [booking EXCEPT ![m.b] = [status |-> "SEAT_LOCKED", token |-> m.t]]
            /\ Suspend(q, "locked", m.b) /\ Status(m.b) = "INITIATED" /\ m.type = "seat.locked"
        BY <1>1, <2>1 DEF OnSeatLocked
      <3>2. m.b = b
        BY <1>0, <3>1
      <3>3. booking'[b].status = "SEAT_LOCKED" /\ booking'[b].token = m.t
        BY <1>0, <3>1, <3>2
      <3>4. m.t \in Tokens /\ m = Won(b, m.t)
        <4>1. m \in Messages /\ MessageWellFormed(m)
          BY <1>0 DEF IInv, SagaTypeOK
        <4> QED BY <3>1, <3>2, <4>1 DEF Messages, MessageWellFormed, WithToken, Won, Msg
      <3>5. Suspended("locked", b)'
        BY <1>2, <3>1, <3>2
      <3> QED BY <3>1, <3>2, <3>3, <3>4, <3>5 DEF SagaMoves
    <2>2. ASSUME NEW q \in BookingPods, NEW a \in Bookings, NEW from, NEW to, NEW fn,
                 MergeSaga(q, a, from, to, fn)
          PROVE  a = b /\ Status(b) \in from /\ booking'[b].status = to
                 /\ booking'[b].token = booking[b].token /\ Suspended(fn, b)'
      <3>1. booking' = [booking EXCEPT ![a].status = to] /\ Suspend(q, fn, a) /\ Status(a) \in from
        BY <1>1, <2>2 DEF MergeSaga
      <3> QED BY <1>2, <1>3, <3>1
    <2>3. \A m \in pending : m.b \in Bookings
      BY <1>0 DEF Messages
    <2>4. ASSUME NEW q \in BookingPods, NEW m \in pending,
                 OnSeatConfirmed(q, m) \/ Compensate(q, m)
          PROVE  SagaMoves(b)
      BY <2>2, <2>3, <2>4 DEF OnSeatConfirmed, Compensate, SagaMoves
    <2>5. ASSUME NEW q \in BookingPods, NEW a \in Bookings, OnPaymentCompleted(q, a)
          PROVE  SagaMoves(b)
      <3>1. MergeSaga(q, a, {"SEAT_LOCKED"}, "PAYMENT_PROCESSING", "paid")
        BY <2>5 DEF OnPaymentCompleted
      <3> QED BY <2>2, <3>1 DEF SagaMoves
    <2> QED BY <1>1, <1>5, <2>0, <2>1, <2>4, <2>5 DEF SagaStep, Resume, NotifyConfirmed
  <1>6. CASE InventoryReceives \/ \E p \in Pods : HandlerReply(p)
    BY <1>1, <1>6 DEF InventoryReceives, ReceiveLock, ReceiveRelease, ReceiveConfirm, HandlerReply
  <1>7. CASE \/ LockerStep \/ (AdminStep /\ UNCHANGED sagaVars) \/ UNCHANGED vars
             \/ \E s \in Seats : LockExpires(s) \/ KeyVanishes(s)
    BY <1>1, <1>7 DEF LockerStep, LockExpires, KeyVanishes, sagaVars, vars
  <1> QED BY <1>4, <1>5, <1>6, <1>7 DEF Smooth, ServiceStep

\* Whoever comes to rely on a lock has it from somebody who did, or wrote the row.
LEMMA ClaimCause ==
  ASSUME IInv, NoThrow, Smooth, NEW b \in Bookings, NEW t \in Tokens, Claims(b, t)'
  PROVE  Claims(b, t) \/ Stands(b, t)'
  <1>1. ASSUME NEW p \in Pods, call'[p].op = "lock", call'[p].b = b, call'[p].pc = "reply",
               call'[p].ok, call'[p].t = t
        PROVE  Claims(b, t) \/ Stands(b, t)'
    <2>1. CASE call'[p] = call[p]
      BY <1>1, <2>1 DEF Claims, Locking, At
    <2>2. CASE HandlerStep(p) /\ SameCall(call'[p], call[p])
      <3>1. call[p].b = b /\ call[p].t = t /\ call[p].op = "lock"
        BY <1>1, <2>2 DEF SameCall
      <3>2. \/ call[p].op = "lock" /\ At(p, "reply") /\ call[p].ok
            \/ row'[SeatAt(p)].token = call[p].t
        BY <1>1, <2>2, LockWrites
      <3> QED BY <3>1, <3>2 DEF Claims, Locking, Stands, SeatAt
    <2>3. CASE call'[p] = Idle
      BY <1>1, <2>3 DEF Idle
    <2>4. CASE \E m \in pending : Receives(p, m)
      BY <1>1, <2>4, ReceivedCall
    <2> QED BY <2>1, <2>2, <2>3, <2>4, SmoothCalls
  <1>2. ASSUME Won(b, t) \in pending'
        PROVE  Claims(b, t)
    <2>1. CASE Won(b, t) \in pending
      BY <2>1 DEF Claims
    <2>2. ASSUME NEW p \in Pods, HandlerReply(p), Won(b, t) \in Answers(call[p])
          PROVE  Claims(b, t)
      <3>1. call[p].op = "lock" /\ call[p].ok /\ call[p].b = b /\ call[p].t = t
        BY <2>2, MsgFields DEF Answers, Won
      <3>2. At(p, "reply")
        BY <2>2 DEF HandlerReply, Reply
      <3> QED BY <3>1, <3>2 DEF Claims, Locking
    <2>3. ASSUME NEW q \in BookingPods, NEW c \in cont[q], Won(b, t) \in Emissions(c)
          PROVE  FALSE
      BY <2>3, MsgFields DEF Emissions, Won
    <2> QED BY <1>2, <2>1, <2>2, <2>3, SmoothEmits
  <1>3. ASSUME booking'[b].status \in {"SEAT_LOCKED", "PAYMENT_PROCESSING"}, booking'[b].token = t
        PROVE  Claims(b, t)
    <2>1. CASE booking'[b] = booking[b]
      BY <1>3, <2>1 DEF Claims, Status
    <2>2. CASE SagaMoves(b)
      BY <1>3, <2>2 DEF SagaMoves, Claims
    <2> QED BY <2>1, <2>2, SmoothBookings
  <1> QED BY <1>1, <1>2, <1>3 DEF Claims, Locking, At, Status, Won

(***************************************************************************)
(* What carries the saga on from each status.                              *)
(***************************************************************************)
LockChain(b) ==
  \/ Suspended("create", b)
  \/ LockMsg(b) \in pending
  \/ \E p \in Pods : Locking(p, b) /\ ~At(p, "idle")
  \/ Lost(b) \in pending
  \/ \E t \in Tokens : Won(b, t) \in pending

PayChain(b) == Suspended("locked", b) \/ \E q \in BookingPods : b \in timers[q]

ConfirmChain(b) ==
  \/ Suspended("paid", b)
  \/ Msg("seat.confirm", b, booking[b].token) \in pending
  \/ \E p \in Pods : At(p, "confRow") /\ call[p].b = b /\ call[p].t = booking[b].token

BookedMsg(b) == Msg("seat.confirmed", b, NoToken)

BookedChain(b) ==
  \/ \E p \in Pods : Confirming(call[p]) /\ call[p].b = b
  \/ BookedMsg(b) \in pending

\* A confirm that will find its row, or one that has booked it.
Carried ==
  \A b \in Bookings :
     /\ Status(b) = "INITIATED" => LockChain(b)
     /\ Status(b) = "SEAT_LOCKED" => PayChain(b)
     /\ Status(b) = "PAYMENT_PROCESSING" => ConfirmChain(b) \/ BookedChain(b)
     /\ Status(b) = "PAYMENT_PROCESSING" /\ Holds(b) => BookedChain(b)

LEMMA SuspendedWorks ==
  \A fn, b : Suspended(fn, b) => InProgress(b)
  <1> SUFFICES ASSUME NEW fn, NEW b, NEW q \in BookingPods, [fn |-> fn, b |-> b] \in cont[q]
               PROVE  InProgress(b)
    BY DEF Suspended
  <1>1. PICK c \in cont[q] : c.b = b
    OBVIOUS
  <1> QED BY <1>1 DEF InProgress

LEMMA ClaimsWork ==
  ASSUME Carried, NEW b \in Bookings, NEW t, Claims(b, t)
  PROVE  InProgress(b)
  <1>1. \A m \in pending : InProgress(m.b)
    BY DEF InProgress
  <1>2. \A p \in Pods : InProgress(call[p].b)
    BY DEF InProgress
  <1>3. \A q \in BookingPods : \A a \in timers[q] : InProgress(a)
    BY DEF InProgress
  <1>4. CASE \E p \in Pods : Locking(p, b)
    BY <1>2, <1>4 DEF Locking
  <1>5. CASE Won(b, t) \in pending
    BY <1>1, <1>5, MsgFields DEF Won
  <1>6. CASE PayChain(b)
    BY <1>3, <1>6, SuspendedWorks DEF PayChain
  <1>7. CASE ConfirmChain(b)
    BY <1>1, <1>2, <1>7, SuspendedWorks, MsgFields DEF ConfirmChain
  <1>8. CASE BookedChain(b)
    BY <1>1, <1>2, <1>8, MsgFields DEF BookedChain, BookedMsg
  <1> QED BY <1>4, <1>5, <1>6, <1>7, <1>8 DEF Claims, Carried

\* Neither the cron job nor a release takes the lock away.
LEMMA StandsStays ==
  ASSUME Timely, HeldInv, Forward, Carried, Smooth, [Next]_vars,
         NEW b \in Bookings, NEW t \in Tokens, Claims(b, t), Status(b) # "FAILED", Stands(b, t),
         issued[t] = b
  PROVE  Stands(b, t)'
  <1> DEFINE s == SeatOf[b]
  <1>0. s \in Seats /\ IInv /\ CronHolds /\ Quiet
    BY DEF HeldInv
  <1>1. InProgress(b)
    BY ClaimsWork
  <1>2. CASE row[s].status = "BOOKED"
    <2>1. Same(s)
      BY <1>0, <1>2, BookedStays
    <2> QED BY <2>1 DEF Same, Stands
  <1>3. CASE row[s].status # "BOOKED"
    <2>1. row[s].token = t /\ row[s].status = "LOCKED" /\ row[s] \in Rows
      BY <1>0, <1>3, RowFacts DEF Stands
    <2>2. ~row[s].expired
      BY <1>0, <1>1, <2>1 DEF Quiet
    <2>3. ASSUME NEW p \in Pods, At(p, "relRow"), call[p].t = t
          PROVE  FALSE
      <3>1. call[p].op = "release" /\ call[p].b = b
        BY <1>0, <2>3 DEF At, IInv, CallInOrder, LockerTypeOK, CallTypeOK, CallWellFormed
      <3>2. Msg("seat.release", b, t) \in log
        BY <1>0, <2>3, <3>1 DEF IInv, HandledLogged, Handled
      <3> QED BY <3>2, MsgFields DEF Forward
    <2>4. CASE Same(s)
      BY <2>1, <2>4 DEF Same, Stands
    <2>5. CASE \E p \in Pods : Confirmable(s, call[p].t) /\ bookedBy'[s] = call[p].t
      BY <2>1, <2>5 DEF Confirmable, Stands
    <2>6. CASE row'[s] = [row[s] EXCEPT !.expired = TRUE]
      BY <2>1, <2>6 DEF Rows, Stands
    <2>7. CASE \E p \in CronPods : s \in cron[p]
      BY <1>0, <2>2, <2>7 DEF CronHolds
    <2>8. CASE \E p \in Pods : At(p, "relRow") /\ row[s].token = call[p].t
      BY <2>1, <2>3, <2>8
    <2>9. CASE \/ row[s].status \in {"AVAILABLE", "MISSING"}
               \/ Env \cap {"remove", "reset"} # {}
      BY <2>1, <2>9 DEF Timely
    <2>10. RowMoves(s)
      BY <1>0, RowsMove
    <2> HIDE DEF s
    <2> QED BY <2>1, <2>4, <2>5, <2>6, <2>7, <2>8, <2>9, <2>10 DEF RowMoves
  <1> QED BY <1>2, <1>3

LEMMA StandingKept ==
  ASSUME Timely, HeldInv, Forward, NoThrow, Standing, Carried, Smooth, [Next]_vars
  PROVE  Standing'
  <1> SUFFICES ASSUME NEW b \in Bookings, NEW t \in Tokens, Claims(b, t)',
                      booking'[b].status # "FAILED"
               PROVE  Stands(b, t)'
    BY DEF Standing, Status
  <1>0. IInv
    BY DEF HeldInv
  <1>1. CASE Claims(b, t)
    <2>1. Status(b) # "FAILED"
      BY <1>0, NoWayBack
    <2>2. Stands(b, t)
      BY <1>1, <2>1 DEF Standing
    <2>3. issued[t] = b
      <3>1. CASE \E p \in Pods : Locking(p, b) /\ At(p, "reply") /\ call[p].t = t
        BY <1>0, <3>1 DEF Locking, At, IInv, LockerTypeOK, CallTypeOK, CallWellFormed
      <3>2. CASE Won(b, t) \in pending
        BY <1>0, <3>2, MsgFields DEF IInv, SagaTypeOK, MessageWellFormed, WithToken, Won
      <3>3. CASE booking[b].token = t
        BY <1>0, <3>3 DEF IInv, SagaTypeOK, BookingWellFormed
      <3> QED BY <1>1, <3>1, <3>2, <3>3 DEF Claims
    <2> QED BY <1>1, <2>1, <2>2, <2>3, StandsStays
  <1> QED BY <1>0, <1>1, ClaimCause

LEMMA LockChainKept ==
  ASSUME IInv, NoThrow, Smooth, NEW b \in Bookings, Status(b) = "INITIATED",
         booking'[b] = booking[b], LockChain(b)
  PROVE  LockChain(b)'
  <1>0. booking \in [Bookings -> Values] /\ cont \in [BookingPods -> SUBSET Conts]
    BY DEF IInv, SagaTypeOK, Values
  <1>1. ASSUME NEW q \in BookingPods, [fn |-> "create", b |-> b] \in cont[q]
        PROVE  LockChain(b)'
    <2>1. PICK c \in cont[q] : c = [fn |-> "create", b |-> b]
      BY <1>1
    <2>2. CASE c \in cont'[q]
      BY <2>1, <2>2 DEF LockChain, Suspended
    <2>3. CASE Resume(q, c)
      <3>1. Emissions(c) = {LockMsg(b)}
        BY <2>1 DEF Emissions, LockMsg
      <3>2. LockMsg(b) \in pending'
        BY <2>3, <3>1, MsgFields DEF Resume, Emit, LockMsg, Subscribed, ToInventory
      <3> QED BY <3>2 DEF LockChain, LockMsg
    <2> QED BY <2>2, <2>3, SmoothPods
  <1>2. ASSUME LockMsg(b) \in pending
        PROVE  LockChain(b)'
    <2>1. PICK m \in pending : m = LockMsg(b) /\ m.type = "seat.lock" /\ m.b = b
      BY <1>2, MsgFields DEF LockMsg
    <2>2. CASE m \in pending'
      BY <2>1, <2>2 DEF LockChain, LockMsg
    <2>3. ASSUME NEW p \in Pods, Receives(p, m)
          PROVE  LockChain(b)'
      <3>1. call'[p].op = "lock" /\ call'[p].b = b /\ call'[p].pc # "idle"
        BY <2>1, <2>3, ReceivedCall
      <3> QED BY <3>1 DEF LockChain, Locking, At
    <2> QED BY <2>1, <2>2, <2>3, SmoothConsumes
            DEF OnSeatLocked, OnSeatConfirmed, Compensate, NotifyConfirmed
  <1>3. ASSUME NEW p \in Pods, Locking(p, b), ~At(p, "idle")
        PROVE  LockChain(b)'
    <2>1. CASE call'[p] = call[p] \/ (SameCall(call'[p], call[p]) /\ call'[p].pc # "idle")
      BY <1>3, <2>1 DEF LockChain, Locking, At, SameCall
    <2>2. CASE HandlerReply(p)
      <3>1. call[p].t \in Tokens /\ call[p].op = "lock" /\ call[p].b = b
        BY <1>3 DEF Locking, At, IInv, LockerTypeOK, CallTypeOK, CallWellFormed
      <3>2. Answers(call[p]) = {Won(b, call[p].t)} \/ Answers(call[p]) = {Lost(b)}
        BY <3>1 DEF Answers, Won, Lost
      <3>3. Won(b, call[p].t) \in pending' \/ Lost(b) \in pending'
        BY <2>2, <3>2, MsgFields DEF HandlerReply, Emit, Won, Lost, Subscribed, ToBooking
      <3> QED BY <3>1, <3>3 DEF LockChain, Won, Lost
    <2>3. CASE \E m \in pending : Receives(p, m)
      BY <1>3, <2>3, ReceivedCall DEF At
    <2> QED BY <2>1, <2>2, <2>3, SmoothCalls
  <1>4. ASSUME Lost(b) \in pending
        PROVE  LockChain(b)'
    <2>1. PICK m \in pending : m = Lost(b) /\ m.type = "seat.lock.failed" /\ m.b = b
      BY <1>4, MsgFields DEF Lost
    <2>2. CASE m \in pending'
      BY <2>1, <2>2 DEF LockChain, Lost
    <2>3. ASSUME NEW q \in BookingPods, Compensate(q, m)
          PROVE  FALSE
      <3>1. booking' = [booking EXCEPT ![b].status = "FAILED"]
        BY <2>1, <2>3 DEF Compensate, MergeSaga
      <3>2. booking'[b].status = "FAILED"
        BY <1>0, <3>1 DEF Values
      <3> QED BY <3>2 DEF Status
    <2>4. ASSUME NEW p \in Pods, Receives(p, m)
          PROVE  FALSE
      BY <2>1, <2>4, ReceivedCall
    <2> QED BY <2>1, <2>2, <2>3, <2>4, SmoothConsumes
            DEF OnSeatLocked, OnSeatConfirmed, NotifyConfirmed
  <1>5. ASSUME NEW t \in Tokens, Won(b, t) \in pending
        PROVE  LockChain(b)'
    <2>1. PICK m \in pending : m = Won(b, t) /\ m.type = "seat.locked" /\ m.b = b
      BY <1>5, MsgFields DEF Won
    <2>2. CASE m \in pending'
      BY <2>1, <2>2 DEF LockChain, Won
    <2>3. ASSUME NEW q \in BookingPods, OnSeatLocked(q, m)
          PROVE  FALSE
      <3>1. booking'[b] = [status |-> "SEAT_LOCKED", token |-> m.t]
        BY <1>0, <2>1, <2>3 DEF OnSeatLocked
      <3> QED BY <3>1 DEF Status
    <2>4. ASSUME NEW p \in Pods, Receives(p, m)
          PROVE  FALSE
      BY <2>1, <2>4, ReceivedCall
    <2> QED BY <2>1, <2>2, <2>3, <2>4, SmoothConsumes
            DEF OnSeatConfirmed, Compensate, NotifyConfirmed
  <1> QED BY <1>1, <1>2, <1>3, <1>4, <1>5 DEF LockChain, Suspended

LEMMA PayChainKept ==
  ASSUME IInv, Smooth, NEW b \in Bookings, Status(b) = "SEAT_LOCKED",
         booking'[b] = booking[b], PayChain(b)
  PROVE  PayChain(b)'
  <1>0. /\ booking \in [Bookings -> Values] /\ timers \in [BookingPods -> SUBSET Bookings]
    BY DEF IInv, SagaTypeOK, Values
  <1>1. ASSUME NEW q \in BookingPods, [fn |-> "locked", b |-> b] \in cont[q]
        PROVE  PayChain(b)'
    <2>1. PICK c \in cont[q] : c = [fn |-> "locked", b |-> b]
      BY <1>1
    <2>2. CASE c \in cont'[q]
      BY <2>1, <2>2 DEF PayChain, Suspended
    <2>3. CASE Resume(q, c)
      <3>1. b \in timers'[q]
        BY <1>0, <2>1, <2>3 DEF Resume
      <3> QED BY <3>1 DEF PayChain
    <2> QED BY <2>2, <2>3, SmoothPods
  <1>2. ASSUME NEW q \in BookingPods, b \in timers[q]
        PROVE  PayChain(b)'
    <2>1. CASE b \in timers'[q]
      BY <2>1 DEF PayChain
    <2>2. CASE OnPaymentCompleted(q, b)
      <3>1. booking' = [booking EXCEPT ![b].status = "PAYMENT_PROCESSING"]
        BY <2>2 DEF OnPaymentCompleted, MergeSaga
      <3>2. booking'[b].status = "PAYMENT_PROCESSING"
        BY <1>0, <3>1 DEF Values
      <3> QED BY <3>2 DEF Status
    <2> QED BY <1>2, <2>1, <2>2, SmoothPods
  <1> QED BY <1>1, <1>2 DEF PayChain, Suspended

\* A confirm whose lock stands books the row.
LEMMA ConfirmBooks ==
  ASSUME IInv, Standing, NEW b \in Bookings, Status(b) = "PAYMENT_PROCESSING", ~Holds(b),
         NEW p \in Pods, At(p, "confRow"), call[p].b = b, call[p].t = booking[b].token,
         HandlerStep(p)
  PROVE  Confirming(call'[p]) /\ call'[p].b = b
  <1>0. /\ call \in [Pods -> Calls] /\ CallInOrder
    BY DEF IInv, LockerTypeOK, CallTypeOK
  <1>1. booking[b].token \in Tokens /\ issued[booking[b].token] = b
    BY DEF IInv, SagaTypeOK, BookingWellFormed, Status
  <1>2. Stands(b, booking[b].token)
    BY <1>1 DEF Standing, Claims
  <1>3. SeatOf[b] \in Seats
    OBVIOUS
  <1>4. bookedBy[SeatOf[b]] # booking[b].token
    <2>1. bookedBy[SeatOf[b]] = booking[b].token => row[SeatOf[b]].status = "BOOKED"
      BY <1>1, <1>3, RowFacts
    <2> QED BY <1>1, <2>1 DEF Holds, Booker
  <1>5. Confirmable(SeatAt(p), call[p].t)
    BY <1>1, <1>2, <1>3, <1>4, RowFacts DEF Stands, Confirmable, SeatAt
  <1>6. ConfirmRow(p)
    BY DEF HandlerStep, LockSetNX, LockUpdate, LockFind, LockInsert, LockUndo, ReleaseKey,
           ReleaseRow, ConfirmKey, At
  <1>7. Goto(p, "confKey")
    BY <1>5, <1>6 DEF ConfirmRow
  <1> QED BY <1>0, <1>7 DEF Goto, Calls, Confirming

LEMMA BookedChainKept ==
  ASSUME IInv, NoThrow, Smooth, NEW b \in Bookings, Status(b) = "PAYMENT_PROCESSING",
         booking'[b] = booking[b], BookedChain(b)
  PROVE  BookedChain(b)'
  <1>0. booking \in [Bookings -> Values] /\ call \in [Pods -> Calls] /\ CallInOrder
    BY DEF IInv, SagaTypeOK, Values, LockerTypeOK, CallTypeOK
  <1>1. ASSUME NEW p \in Pods, Confirming(call[p]), call[p].b = b
        PROVE  BookedChain(b)'
    <2>1. CASE call'[p] = call[p]
      BY <1>1, <2>1 DEF BookedChain, Confirming
    <2>2. CASE HandlerStep(p) /\ SameCall(call'[p], call[p])
      <3>1. ConfirmKey(p)
        BY <1>1, <2>2 DEF HandlerStep, LockSetNX, LockUpdate, LockFind, LockInsert, LockUndo,
                          ReleaseKey, ReleaseRow, ConfirmRow, At, Confirming
      <3>2. Answer(p, TRUE) /\ call[p].op = "confirm"
        BY <1>0, <3>1 DEF ConfirmKey, At, CallInOrder
      <3>3. call'[p].pc = "reply" /\ call'[p].ok
        BY <1>0, <3>2 DEF Answer, Calls
      <3>4. call'[p].op = "confirm" /\ call'[p].b = b
        BY <1>1, <2>2, <3>2 DEF SameCall
      <3> QED BY <3>3, <3>4 DEF BookedChain, Confirming
    <2>3. CASE HandlerReply(p)
      <3>1. call[p].op = "confirm" /\ call[p].ok
        BY <1>1, <2>3 DEF HandlerReply, Reply, At, Confirming
      <3>2. Answers(call[p]) = {BookedMsg(b)}
        BY <1>1, <3>1 DEF Answers, BookedMsg
      <3>3. BookedMsg(b) \in pending'
        BY <2>3, <3>2, MsgFields DEF HandlerReply, Emit, BookedMsg, Subscribed, ToBooking
      <3> QED BY <3>3 DEF BookedChain, BookedMsg
    <2>4. CASE \E m \in pending : Receives(p, m)
      BY <1>1, <2>4, ReceivedCall DEF Confirming
    <2> QED BY <2>1, <2>2, <2>3, <2>4, SmoothCalls
  <1>2. ASSUME BookedMsg(b) \in pending
        PROVE  BookedChain(b)'
    <2>1. PICK m \in pending : m = BookedMsg(b) /\ m.type = "seat.confirmed" /\ m.b = b
      BY <1>2, MsgFields DEF BookedMsg
    <2>2. CASE m \in pending'
      BY <2>1, <2>2 DEF BookedChain, BookedMsg
    <2>3. ASSUME NEW q \in BookingPods, OnSeatConfirmed(q, m)
          PROVE  FALSE
      <3>1. booking' = [booking EXCEPT ![b].status = "CONFIRMED"]
        BY <2>1, <2>3 DEF OnSeatConfirmed, MergeSaga
      <3>2. booking'[b].status = "CONFIRMED"
        BY <1>0, <3>1 DEF Values
      <3> QED BY <3>2 DEF Status
    <2>4. ASSUME NEW p \in Pods, Receives(p, m)
          PROVE  FALSE
      BY <2>1, <2>4, ReceivedCall
    <2> QED BY <2>1, <2>2, <2>3, <2>4, SmoothConsumes DEF OnSeatLocked, Compensate, NotifyConfirmed
  <1> QED BY <1>1, <1>2 DEF BookedChain

LEMMA ConfirmChainKept ==
  ASSUME IInv, NoThrow, Standing, Smooth, NEW b \in Bookings, Status(b) = "PAYMENT_PROCESSING",
         ~Holds(b), booking'[b] = booking[b], ConfirmChain(b)
  PROVE  ConfirmChain(b)' \/ BookedChain(b)'
  <1> DEFINE t == booking[b].token
  <1>1. ASSUME NEW q \in BookingPods, [fn |-> "paid", b |-> b] \in cont[q]
        PROVE  ConfirmChain(b)'
    <2>1. PICK c \in cont[q] : c = [fn |-> "paid", b |-> b]
      BY <1>1
    <2>2. CASE c \in cont'[q]
      BY <2>1, <2>2 DEF ConfirmChain, Suspended
    <2>3. CASE Resume(q, c)
      <3>1. Emissions(c) = {Msg("seat.confirm", b, t)}
        BY <2>1 DEF Emissions
      <3>2. Msg("seat.confirm", b, t) \in pending'
        BY <2>3, <3>1, MsgFields DEF Resume, Emit, Subscribed, ToInventory
      <3> QED BY <3>2 DEF ConfirmChain
    <2> QED BY <2>2, <2>3, SmoothPods
  <1>2. ASSUME Msg("seat.confirm", b, t) \in pending
        PROVE  ConfirmChain(b)'
    <2>1. PICK m \in pending : /\ m = Msg("seat.confirm", b, t) /\ m.type = "seat.confirm"
                               /\ m.b = b /\ m.t = t
      BY <1>2, MsgFields
    <2>2. CASE m \in pending'
      BY <2>1, <2>2 DEF ConfirmChain
    <2>3. ASSUME NEW p \in Pods, Receives(p, m)
          PROVE  ConfirmChain(b)'
      <3>1. call'[p].pc = "confRow" /\ call'[p].b = b /\ call'[p].t = t
        BY <2>1, <2>3, ReceivedCall
      <3> QED BY <3>1 DEF ConfirmChain, At
    <2> QED BY <2>1, <2>2, <2>3, SmoothConsumes
            DEF OnSeatLocked, OnSeatConfirmed, Compensate, NotifyConfirmed
  <1>3. ASSUME NEW p \in Pods, At(p, "confRow"), call[p].b = b, call[p].t = t
        PROVE  ConfirmChain(b)' \/ BookedChain(b)'
    <2>1. CASE call'[p] = call[p]
      BY <1>3, <2>1 DEF ConfirmChain, At
    <2>2. CASE HandlerStep(p)
      <3>1. Confirming(call'[p]) /\ call'[p].b = b
        BY <1>3, <2>2, ConfirmBooks
      <3> QED BY <3>1 DEF BookedChain, Confirming
    <2>3. ~HandlerReply(p)
      BY <1>3 DEF HandlerReply, Reply, At
    <2>4. CASE \E m \in pending : Receives(p, m)
      BY <1>3, <2>4, ReceivedCall DEF At
    <2> QED BY <2>1, <2>2, <2>3, <2>4, SmoothCalls
  <1> QED BY <1>1, <1>2, <1>3 DEF ConfirmChain, Suspended

\* A row becomes BOOKED by a confirm that goes on to say so.
LEMMA BookCause ==
  ASSUME IInv, Smooth, NEW s \in Seats, ~Same(s), row'[s].status = "BOOKED"
  PROVE  \E p \in Pods : /\ HandlerStep(p) /\ At(p, "confRow") /\ s = SeatAt(p)
                         /\ bookedBy'[s] = call[p].t /\ call'[p].pc = "confKey"
                         /\ call'[p].b = call[p].b
  <1> DEFINE Goal == \E p \in Pods : /\ HandlerStep(p) /\ At(p, "confRow") /\ s = SeatAt(p)
                                     /\ bookedBy'[s] = call[p].t /\ call'[p].pc = "confKey"
                                     /\ call'[p].b = call[p].b
  <1> SUFFICES Goal
    OBVIOUS
  <1>0. /\ row \in [Seats -> Rows] /\ bookedBy \in [Seats -> Tokens \cup {NoToken}]
        /\ call \in [Pods -> Calls]
    BY DEF IInv, LockerTypeOK, RowTypeOK, CallTypeOK
  <1>1. ASSUME UNCHANGED <<row, bookedBy>>
        PROVE  FALSE
    BY <1>1 DEF Same
  <1>2. ASSUME row'[s] \in {row[s], Unlocked("AVAILABLE"), Unlocked("MISSING")},
               UNCHANGED bookedBy \/ bookedBy'[s] = bookedBy[s] \/ row'[s] # row[s]
        PROVE  FALSE
    BY <1>2, RowValues DEF Same
  <1>3. CASE LockerStep
    <2>1. ASSUME NEW p \in Pods, HandlerStep(p)
          PROVE  Goal
      <3>1. SeatAt(p) \in Seats /\ call[p].t \in Tokens
        <4>1. call[p].pc # "idle"
          BY <2>1 DEF HandlerStep, At, LockSetNX, LockUpdate, LockFind, LockInsert, LockUndo,
                      ReleaseKey, ReleaseRow, ConfirmRow, ConfirmKey
        <4> QED BY <4>1, SeatOfCall DEF IInv
      <3>2. ASSUME NEW r, SetRow(SeatAt(p), r), r.status # "BOOKED", UNCHANGED bookedBy
            PROVE  FALSE
        <4>1. row'[s] = row[s] \/ row'[s] = r
          BY <1>0, <3>1, <3>2 DEF SetRow
        <4> QED BY <3>2, <4>1 DEF Same
      <3>3. LockedWith(call[p].t).status # "BOOKED"
        BY DEF LockedWith
      <3>4. ASSUME FreeRowOf(SeatAt(p), call[p].t), UNCHANGED bookedBy
            PROVE  FALSE
        <4>1. row'[s] = row[s] \/ row'[s] = Unlocked("AVAILABLE")
          BY <1>0, <3>1, <3>4 DEF FreeRowOf
        <4> QED BY <1>2, <3>4, <4>1
      <3>5. CASE ConfirmRow(p)
        <4>1. BookRow(SeatAt(p), call[p].t) /\ Goto(p, "confKey") /\ At(p, "confRow")
          BY <1>1, <3>5 DEF ConfirmRow
        <4>2. s = SeatAt(p)
          BY <1>0, <3>1, <4>1 DEF BookRow, SetRow, Same
        <4>3. bookedBy'[s] = call[p].t
          BY <1>0, <4>1, <4>2 DEF BookRow
        <4>4. call'[p].pc = "confKey" /\ call'[p].b = call[p].b
          BY <1>0, <4>1 DEF Goto, Calls
        <4> QED BY <2>1, <4>1, <4>2, <4>3, <4>4
      <3>6. CASE ~ConfirmRow(p)
        <4> HIDE DEF Goal
        <4> QED BY <1>1, <2>1, <3>2, <3>3, <3>4, <3>6
            DEF HandlerStep, LockSetNX, LockUpdate, LockFind, LockInsert, LockUndo, ReleaseKey,
                ReleaseRow, ConfirmKey
      <3> QED BY <3>5, <3>6
    <2>2. ASSUME NEW p \in CronPods, CronStep(p)
          PROVE  FALSE
      <3>1. CASE CronRead(p)
        BY <1>1, <3>1 DEF CronRead
      <3>2. ASSUME NEW u \in Seats, CronFree(p, u)
            PROVE  FALSE
        <4>1. /\ row'[s] = row[s] \/ row'[s] = Unlocked("AVAILABLE")
              /\ s # u => bookedBy'[s] = bookedBy[s] /\ row'[s] = row[s]
              /\ s = u => row'[s] = Unlocked("AVAILABLE")
          BY <3>2 DEF CronFree, SetRows
        <4> QED BY <4>1, RowValues DEF Same
      <3> QED BY <2>2, <3>1, <3>2 DEF CronStep
    <2> HIDE DEF Goal
    <2> QED BY <1>3, <2>1, <2>2 DEF LockerStep
  <1> HIDE DEF Goal
  <1>4. CASE Request \/ SagaStep \/ UNCHANGED vars
    BY <1>1, <1>4 DEF Request, SagaStep, vars, lockerVars
  <1>5. CASE InventoryReceives \/ \E p \in Pods : HandlerReply(p)
    BY <1>1, <1>5 DEF InventoryReceives, ReceiveLock, ReceiveRelease, ReceiveConfirm, StartLock,
                      StartRelease, StartConfirm, HandlerReply, Reply
  <1>6. CASE AdminStep
    <2>1. ASSUME NEW S, NEW st \in {"AVAILABLE", "MISSING"}, SetRows(S, st)
          PROVE  FALSE
      <3>1. row'[s] = Unlocked(st) \/ (row'[s] = row[s] /\ bookedBy'[s] = bookedBy[s])
        BY <2>1 DEF SetRows
      <3> QED BY <3>1, RowValues DEF Same
    <2>2. ASSUME NEW u \in Seats, AddSave(u)
          PROVE  FALSE
      <3>1. (row'[s] = row[s] \/ row'[s] = Unlocked("AVAILABLE")) /\ UNCHANGED bookedBy
        BY <1>0, <2>2 DEF AddSave, SetRow
      <3> QED BY <1>2, <3>1
    <2> QED BY <1>1, <1>6, <2>1, <2>2
            DEF AdminStep, AddFind, RemoveFind, RemoveDelete, ResetRows, ResetKey
  <1>7. CASE \E u \in Seats : KeyVanishes(u)
    BY <1>1, <1>7 DEF KeyVanishes, KeyExpires
  <1>8. ASSUME NEW u \in Seats, LockExpires(u)
        PROVE  FALSE
    <2>1. row' = [row EXCEPT ![u].expired = TRUE] /\ UNCHANGED bookedBy /\ row[u].status = "LOCKED"
      BY <1>8 DEF LockExpires, RowExpires
    <2>2. row'[s] = row[s] \/ row'[s].status = "LOCKED"
      BY <1>0, <2>1 DEF Rows
    <2> QED BY <2>1, <2>2 DEF Same
  <1> QED BY <1>3, <1>4, <1>5, <1>6, <1>7, <1>8 DEF Smooth, ServiceStep

LEMMA HoldsCause ==
  ASSUME IInv, BookedAsked, Smooth, [Next]_vars, NEW b \in Bookings, ~Holds(b), Holds(b)'
  PROVE  BookedChain(b)'
  <1>0. SeatOf[b] \in Seats
    OBVIOUS
  <1>1. row'[SeatOf[b]].status = "BOOKED" /\ issued'[bookedBy'[SeatOf[b]]] = b
    BY DEF Holds, Booker
  <1>2. ~Same(SeatOf[b])
    <2>1. ASSUME Same(SeatOf[b])
          PROVE  FALSE
      <3>1. /\ row[SeatOf[b]].status = "BOOKED" /\ bookedBy'[SeatOf[b]] = bookedBy[SeatOf[b]]
            /\ bookedBy[SeatOf[b]] \in Tokens
        BY <1>0, <1>1, <2>1, RowFacts DEF Same
      <3>2. issued[bookedBy[SeatOf[b]]] \in Bookings
        BY <1>0, <3>1 DEF BookedAsked, Booker
      <3>3. issued[bookedBy[SeatOf[b]]] = b
        BY <1>1, <3>1, <3>2, TokensKept
      <3> QED BY <3>1, <3>3 DEF Holds, Booker
    <2> QED BY <2>1
  <1>3. PICK p \in Pods : /\ HandlerStep(p) /\ At(p, "confRow") /\ SeatOf[b] = SeatAt(p)
                          /\ bookedBy'[SeatOf[b]] = call[p].t /\ call'[p].pc = "confKey"
                          /\ call'[p].b = call[p].b
    BY <1>0, <1>1, <1>2, BookCause
  <1>4. call[p].b \in Bookings /\ call[p].t \in Tokens /\ issued[call[p].t] = call[p].b
    BY <1>3 DEF At, IInv, LockerTypeOK, CallTypeOK, CallWellFormed
  <1>5. call[p].b = b
    BY <1>1, <1>3, <1>4, TokensKept
  <1> QED BY <1>3, <1>5 DEF BookedChain, Confirming

LEMMA CarriedKept ==
  ASSUME Timely, HeldInv, BookedAsked, Forward, NoThrow, Standing, Carried, Smooth, [Next]_vars
  PROVE  Carried'
  <1>0. IInv /\ CronHolds
    BY DEF HeldInv
  <1>1. ASSUME NEW b \in Bookings, booking'[b] = booking[b]
        PROVE  /\ booking'[b].status = "INITIATED" => LockChain(b)'
               /\ booking'[b].status = "SEAT_LOCKED" => PayChain(b)'
               /\ booking'[b].status = "PAYMENT_PROCESSING" => ConfirmChain(b)' \/ BookedChain(b)'
               /\ booking'[b].status = "PAYMENT_PROCESSING" /\ Holds(b)' => BookedChain(b)'
    <2>1. CASE Status(b) = "INITIATED"
      BY <1>0, <1>1, <2>1, LockChainKept DEF Carried, Status
    <2>2. CASE Status(b) = "SEAT_LOCKED"
      BY <1>0, <1>1, <2>2, PayChainKept DEF Carried, Status
    <2>3. CASE Status(b) = "PAYMENT_PROCESSING"
      <3>1. CASE BookedChain(b)
        <4>1. BookedChain(b)'
          BY <1>0, <1>1, <2>3, <3>1, BookedChainKept
        <4> QED BY <1>1, <2>3, <4>1 DEF Status
      <3>2. CASE ~BookedChain(b)
        <4>1. ~Holds(b) /\ ConfirmChain(b)
          BY <2>3, <3>2 DEF Carried
        <4>2. ConfirmChain(b)' \/ BookedChain(b)'
          BY <1>0, <1>1, <2>3, <4>1, ConfirmChainKept
        <4>3. Holds(b)' => BookedChain(b)'
          BY <1>0, <4>1, HoldsCause
        <4> QED BY <1>1, <2>3, <4>2, <4>3 DEF Status
      <3> QED BY <3>1, <3>2
    <2> QED BY <1>1, <2>1, <2>2, <2>3 DEF Status
  <1>2. ASSUME NEW b \in Bookings, booking'[b] # booking[b]
        PROVE  /\ booking'[b].status = "INITIATED" => LockChain(b)'
               /\ booking'[b].status = "SEAT_LOCKED" => PayChain(b)'
               /\ booking'[b].status = "PAYMENT_PROCESSING" => ConfirmChain(b)' \/ BookedChain(b)'
               /\ booking'[b].status = "PAYMENT_PROCESSING" /\ Holds(b)' => BookedChain(b)'
    <2>1. SagaMoves(b) /\ UNCHANGED lockerVars
      BY <1>0, <1>2, SmoothBookings
    <2>2. ASSUME Status(b) = "SEAT_LOCKED"
          PROVE  ~Holds(b)'
      <3>1. Holds(b)' => Holds(b)
        BY <2>1 DEF lockerVars, Holds, Booker
      <3>2. Holds(b) => Msg("seat.confirm", b, bookedBy[SeatOf[b]]) \in log
        BY DEF Holds, BookedAsked
      <3>3. Holds(b) => Asked(b)
        BY <3>2, MsgFields DEF Forward
      <3> QED BY <2>2, <3>1, <3>3 DEF Asked
    <2>3. CASE Status(b) = "NONE" /\ booking'[b].status = "INITIATED" /\ Suspended("create", b)'
      BY <2>3 DEF LockChain, Suspended
    <2>4. CASE /\ Status(b) = "INITIATED" /\ booking'[b].status = "SEAT_LOCKED"
               /\ Suspended("locked", b)'
      BY <2>4 DEF PayChain, Suspended
    <2>5. CASE /\ Status(b) = "SEAT_LOCKED" /\ booking'[b].status = "PAYMENT_PROCESSING"
               /\ Suspended("paid", b)'
      BY <2>2, <2>5 DEF ConfirmChain, Suspended
    <2> QED BY <2>1, <2>3, <2>4, <2>5 DEF SagaMoves
  <1> QED BY <1>1, <1>2 DEF Carried, Status

StrandInv ==
  /\ HeldInv /\ BookedAsked /\ Forward
  /\ faults = 0 => NoThrow /\ Standing /\ Carried

LEMMA InitStrandInv == Init => StrandInv
  <1> SUFFICES ASSUME Init PROVE StrandInv
    OBVIOUS
  <1>1. HeldInv /\ BookedAsked
    BY InitHeldInv, InitSaleInv DEF SaleInv
  <1>2. Forward
    BY DEF Init, Forward
  <1>3. NoThrow
    BY DEF Init, LockerInit, Idle, NoThrow
  <1>4. \A b \in Bookings : Status(b) = "NONE"
    BY DEF Init, Status
  <1>5. \A b \in Bookings, t \in Tokens : ~Claims(b, t)
    BY <1>4 DEF Init, LockerInit, Idle, Claims, Locking
  <1>6. Standing /\ Carried
    BY <1>4, <1>5 DEF Standing, Carried
  <1> QED BY <1>1, <1>2, <1>3, <1>6 DEF StrandInv

LEMMA NextStrandInv ==
  ASSUME Timely
  PROVE  StrandInv /\ [Next]_vars => StrandInv'
  <1> SUFFICES ASSUME StrandInv, [Next]_vars
               PROVE  StrandInv'
    OBVIOUS
  <1>0. HeldInv /\ IInv /\ BookedAsked /\ Forward
    BY DEF StrandInv, HeldInv
  <1>1. HeldInv'
    BY <1>0, NextIInv, BegunKept, RowsIssuedKept, QuietKept, CronHoldsKept, HeldKept DEF HeldInv
  <1>2. BookedAsked' /\ Forward'
    BY <1>0, BookedAskedKept, ForwardKept
  <1>3. ASSUME faults' = 0
        PROVE  NoThrow' /\ Standing' /\ Carried'
    <2>1. Smooth /\ faults = 0
      BY <1>0, <1>3, SmoothSteps
    <2>2. NoThrow /\ Standing /\ Carried
      BY <2>1 DEF StrandInv
    <2> QED BY <1>0, <2>1, <2>2, NoThrowKept, StandingKept, CarriedKept
  <1> QED BY <1>1, <1>2, <1>3 DEF StrandInv

\* As long as nothing fails, a booking that is not settled has a message, a handler,
\* a function or a timer that will move it, with any number of bookings, seats and
\* pods: the saga has no retry and needs none then. (BookingSaga: onSeatLocked,
\* onPaymentCompleted, onSeatConfirmed; SeatLockerService.lock, confirm)
THEOREM SagasGoOn ==
  ASSUME Timely
  PROVE  Spec => []NeverStranded
  <1>1. StrandInv => NeverStranded
    <2> SUFFICES ASSUME StrandInv, faults = 0, NEW b \in Bookings, Status(b) \in Unsettled
                 PROVE  InProgress(b)
      BY DEF NeverStranded
    <2>0. Carried /\ IInv
      BY DEF StrandInv, HeldInv
    <2>1. CASE Status(b) \in {"SEAT_LOCKED", "PAYMENT_PROCESSING"}
      <3>1. Claims(b, booking[b].token)
        BY <2>1 DEF Claims
      <3>2. booking[b].token \in Tokens
        BY <2>0, <2>1 DEF IInv, SagaTypeOK, BookingWellFormed, Status
      <3> QED BY <2>0, <3>1, <3>2, ClaimsWork
    <2>2. CASE Status(b) = "INITIATED"
      <3>1. LockChain(b)
        BY <2>0, <2>2 DEF Carried
      <3>2. (\A m \in pending : InProgress(m.b)) /\ \A p \in Pods : InProgress(call[p].b)
        BY DEF InProgress
      <3> QED BY <3>1, <3>2, SuspendedWorks, MsgFields DEF LockChain, LockMsg, Lost, Won, Locking
    <2> QED BY <2>1, <2>2 DEF Unsettled
  <1> QED BY <1>1, InitStrandInv, NextStrandInv, PTL DEF Spec

=============================================================================
