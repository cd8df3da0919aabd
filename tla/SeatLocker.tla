----------------------------- MODULE SeatLocker -----------------------------
(***************************************************************************)
(* The seat lock service of inventory-service: the `seats` table in        *)
(* Postgres, the `seat:lock:<flight>:<seat>` keys in Redis, and the        *)
(* operations of SeatLockerService that several pods run concurrently.     *)
(*                                                                         *)
(* One action is one statement sent to Postgres or Redis: whatever other   *)
(* pods, the cron job or an administrator do may come between two of them. *)
(* A pod runs one Kafka handler at a time (KafkaConsumerRunner chains      *)
(* them), next to its own run of the cron job.                             *)
(*                                                                         *)
(* A token is an abstract value; randomUUID() is the choice of one that no *)
(* lock call used before. Time is abstract: a lock's TTL is over when      *)
(* RowExpires (lockExpiresAt < NOW()) or KeyExpires (EX ttl) says so.      *)
(***************************************************************************)
EXTENDS Naturals, FiniteSets

CONSTANTS
    Seats,      \* rows of `seats`, identified by (flightId, seatNo)
    FlightOf,   \* the flight of each seat
    Bookings,   \* booking ids
    SeatOf,     \* the seat each booking asks for
    Tokens,     \* lock tokens: bounds the number of lock calls
    Pods,       \* inventory-service replicas
    CronPods,   \* the replicas whose cron job runs
    Env,        \* what the environment does, a subset of EnvKinds
    MaxFaults,  \* bound on the faults of an execution
    NoToken, NoBooking

EnvKinds ==
    { "crash",       \* a pod dies and restarts
      "reject",      \* a Postgres or Redis call rejects, its effect done or not
      "rowExpiry",   \* lockExpiresAt of a LOCKED row passes
      "lateExpiry",  \* ... even while its booking is still being worked on
      "keyExpiry",   \* Redis drops a lock key
      "drop",        \* an emitted message is lost
      "redeliver",   \* Kafka delivers a consumed message again
      "add", "remove", "reset" }  \* the administrator's requests

ASSUME SeatOfAssumption == SeatOf \in [Bookings -> Seats]
ASSUME CronPodsAssumption == CronPods \subseteq Pods
ASSUME EnvAssumption == Env \subseteq EnvKinds
ASSUME MaxFaultsAssumption == MaxFaults \in Nat
ASSUME NoValueAssumption == NoToken \notin Tokens /\ NoBooking \notin Bookings

VARIABLES
    row,       \* Postgres: the row of each seat
    redis,     \* Redis: the token in each seat's lock key
    call,      \* each pod's Kafka handler in progress
    cron,      \* each pod's cron run: expired rows it read and has still to free
    admin,     \* the administrator's request in progress
    issued,    \* history: the booking each token was generated for
    granted,   \* history: tokens a lock call answered with
    bookedBy,  \* history: the token that booked each seat that is BOOKED
    faults     \* faults so far

lockerVars == <<row, redis, call, cron, admin, issued, granted, bookedBy, faults>>

-----------------------------------------------------------------------------
Rows == [ status  : {"MISSING", "AVAILABLE", "LOCKED", "BOOKED"},
          token   : Tokens \cup {NoToken},
          expired : BOOLEAN ]

Unlocked(status) == [status |-> status, token |-> NoToken, expired |-> FALSE]
LockedWith(t) == [status |-> "LOCKED", token |-> t, expired |-> FALSE]

Calls == [ op : {"none", "lock", "release", "confirm"},
           pc : {"idle", "setnx", "update", "find", "insert", "undo", "undoThrow",
                 "relKey", "relRow", "confRow", "confKey", "reply"},
           b  : Bookings \cup {NoBooking},
           t  : Tokens \cup {NoToken},
           ok : BOOLEAN ]

Idle == [op |-> "none", pc |-> "idle", b |-> NoBooking, t |-> NoToken, ok |-> FALSE]

AdminIdle == [pc |-> "idle", seats |-> {}]

\* A row has a token, and can expire, exactly while it is LOCKED; the ghost
\* booker goes with BOOKED.
RowWellFormed(s) ==
    /\ row[s].status = "LOCKED" <=> row[s].token # NoToken
    /\ row[s].expired => row[s].status = "LOCKED"
    /\ row[s].status = "BOOKED" <=> bookedBy[s] # NoToken

\* A handler in progress works for a booking, with a token generated for it.
CallWellFormed(p) ==
    call[p].pc # "idle" =>
        /\ call[p].b \in Bookings
        /\ call[p].t \in Tokens
        /\ issued[call[p].t] = call[p].b

RowTypeOK ==
    /\ row \in [Seats -> Rows]
    /\ bookedBy \in [Seats -> Tokens \cup {NoToken}]
    /\ \A s \in Seats : RowWellFormed(s)

CallTypeOK ==
    /\ call \in [Pods -> Calls]
    /\ \A p \in Pods : CallWellFormed(p)

LockerTypeOK ==
    /\ RowTypeOK
    /\ CallTypeOK
    /\ redis \in [Seats -> Tokens \cup {NoToken}]
    /\ cron \in [Pods -> SUBSET Seats]
    /\ admin \in [pc : {"idle", "addSave", "delRow", "resetKeys"}, seats : SUBSET Seats]
    /\ issued \in [Tokens -> Bookings \cup {NoBooking}]
    /\ granted \subseteq {t \in Tokens : issued[t] \in Bookings}
    /\ faults \in 0..MaxFaults

LockerInit ==
    /\ row \in [Seats -> {Unlocked("AVAILABLE"), Unlocked("MISSING")}]
    /\ redis = [s \in Seats |-> NoToken]
    /\ call = [p \in Pods |-> Idle]
    /\ cron = [p \in Pods |-> {}]
    /\ admin = AdminIdle
    /\ issued = [t \in Tokens |-> NoBooking]
    /\ granted = {}
    /\ bookedBy = [s \in Seats |-> NoToken]
    /\ faults = 0

-----------------------------------------------------------------------------
(* The effect of each SQL statement and Redis command.                     *)

At(p, pc) == call[p].pc = pc
SeatAt(p) == SeatOf[call[p].b]

Goto(p, pc) == call' = [call EXCEPT ![p].pc = pc]
Answer(p, ok) == call' = [call EXCEPT ![p] = [@ EXCEPT !.pc = "reply", !.ok = ok]]
Throw(p) == call' = [call EXCEPT ![p] = Idle]

SetRow(s, r) == row' = [row EXCEPT ![s] = r]

\* SET key token EX ttl NX, when the key is absent
TakeKey(s, t) == redis' = [redis EXCEPT ![s] = t]

\* RELEASE_SCRIPT: delete the key only if it holds this token
DropKey(s, t) == redis' = [redis EXCEPT ![s] = IF @ = t THEN NoToken ELSE @]

\* redis.del: delete the key whatever it holds
DeleteKey(s) == redis' = [redis EXCEPT ![s] = NoToken]

FreeRowOf_StatusOnly(s, t) ==   \* mistake: the token stays in the row
    row' = [row EXCEPT ![s] = IF @.token = t THEN [@ EXCEPT !.status = "AVAILABLE"] ELSE @]

FreeRowOf_AnyToken(s, t) ==     \* mistake: no lockToken in the WHERE clause
    row' = [row EXCEPT ![s] = IF @.status = "LOCKED" THEN Unlocked("AVAILABLE") ELSE @]

\* UPDATE ... SET AVAILABLE WHERE flightId, seatNo and lockToken match
FreeRowOf(s, t) ==
    row' = [row EXCEPT ![s] = IF @.token = t THEN Unlocked("AVAILABLE") ELSE @]

\* A row that stops being BOOKED has no booker any more.
SetRows(S, status) ==
    /\ row' = [s \in Seats |-> IF s \in S THEN Unlocked(status) ELSE row[s]]
    /\ bookedBy' = [s \in Seats |-> IF s \in S THEN NoToken ELSE bookedBy[s]]

-----------------------------------------------------------------------------
(* lock(bookingId, flightId, seatNo)                                       *)

StartLock_BookingIsToken(p, b, t) ==   \* mistake: the same token for each retry
    /\ At(p, "idle")
    /\ issued[t] \in {NoBooking, b}
    /\ issued' = [issued EXCEPT ![t] = b]
    /\ call' = [call EXCEPT ![p] =
                  [op |-> "lock", pc |-> "setnx", b |-> b, t |-> t, ok |-> FALSE]]
    /\ UNCHANGED <<row, redis, cron, admin, granted, bookedBy, faults>>

StartLock(p, b, t) ==
    /\ At(p, "idle")
    /\ issued[t] = NoBooking
    /\ issued' = [issued EXCEPT ![t] = b]
    /\ call' = [call EXCEPT ![p] =
                  [op |-> "lock", pc |-> "setnx", b |-> b, t |-> t, ok |-> FALSE]]
    /\ UNCHANGED <<row, redis, cron, admin, granted, bookedBy, faults>>

LockSetNX(p) ==
    /\ At(p, "setnx")
    /\ \/ /\ redis[SeatAt(p)] = NoToken
          /\ TakeKey(SeatAt(p), call[p].t)
          /\ Goto(p, "update")
       \/ /\ redis[SeatAt(p)] # NoToken
          /\ Answer(p, FALSE)
          /\ UNCHANGED redis
    /\ UNCHANGED <<row, cron, admin, issued, granted, bookedBy, faults>>

LockUpdate_IgnoresAffected(p) ==   \* mistake: r.affected is not looked at
    /\ At(p, "update")
    /\ \/ /\ row[SeatAt(p)].status = "AVAILABLE"
          /\ SetRow(SeatAt(p), LockedWith(call[p].t))
       \/ row[SeatAt(p)].status # "AVAILABLE" /\ UNCHANGED row
    /\ Answer(p, TRUE)
    /\ UNCHANGED <<redis, cron, admin, issued, granted, bookedBy, faults>>

LockUpdate_AnyStatus(p) ==         \* mistake: no status in the WHERE clause
    /\ At(p, "update")
    /\ \/ /\ row[SeatAt(p)].status # "MISSING"
          /\ SetRow(SeatAt(p), LockedWith(call[p].t))
          /\ Answer(p, TRUE)
       \/ /\ row[SeatAt(p)].status = "MISSING"
          /\ Goto(p, "find")
          /\ UNCHANGED row
    /\ UNCHANGED <<redis, cron, admin, issued, granted, bookedBy, faults>>

LockUpdate(p) ==
    /\ At(p, "update")
    /\ \/ /\ row[SeatAt(p)].status = "AVAILABLE"
          /\ SetRow(SeatAt(p), LockedWith(call[p].t))
          /\ Answer(p, TRUE)
       \/ /\ row[SeatAt(p)].status # "AVAILABLE"
          /\ Goto(p, "find")
          /\ UNCHANGED row
    /\ UNCHANGED <<redis, cron, admin, issued, granted, bookedBy, faults>>

LockFind_NoUndo(p) ==          \* mistake: the loser keeps the lock key
    /\ At(p, "find")
    /\ IF row[SeatAt(p)].status = "MISSING" THEN Goto(p, "insert") ELSE Answer(p, FALSE)
    /\ UNCHANGED <<row, redis, cron, admin, issued, granted, bookedBy, faults>>

LockFind_MissingIsTaken(p) ==  \* mistake: a seat without a row cannot be locked
    /\ At(p, "find")
    /\ Goto(p, "undo")
    /\ UNCHANGED <<row, redis, cron, admin, issued, granted, bookedBy, faults>>

LockFind(p) ==
    /\ At(p, "find")
    /\ Goto(p, IF row[SeatAt(p)].status = "MISSING" THEN "insert" ELSE "undo")
    /\ UNCHANGED <<row, redis, cron, admin, issued, granted, bookedBy, faults>>

\* The unique index on (flightId, seatNo) rejects the insert of a row that exists.
LockInsert(p) ==
    /\ At(p, "insert")
    /\ \/ /\ row[SeatAt(p)].status = "MISSING"
          /\ SetRow(SeatAt(p), LockedWith(call[p].t))
          /\ Answer(p, TRUE)
       \/ /\ row[SeatAt(p)].status # "MISSING"
          /\ Goto(p, "undo")
          /\ UNCHANGED row
    /\ UNCHANGED <<redis, cron, admin, issued, granted, bookedBy, faults>>

LockUndo(p) ==
    /\ \/ At(p, "undo") /\ Answer(p, FALSE)
       \/ At(p, "undoThrow") /\ Throw(p)
    /\ DropKey(SeatAt(p), call[p].t)
    /\ UNCHANGED <<row, cron, admin, issued, granted, bookedBy, faults>>

(* release(flightId, seatNo, lockToken)                                    *)

StartRelease(p, b, t) ==
    /\ At(p, "idle")
    /\ call' = [call EXCEPT ![p] =
                  [op |-> "release", pc |-> "relKey", b |-> b, t |-> t, ok |-> FALSE]]
    /\ UNCHANGED <<row, redis, cron, admin, issued, granted, bookedBy, faults>>

ReleaseKey(p) ==
    /\ At(p, "relKey")
    /\ DropKey(SeatAt(p), call[p].t)
    /\ Goto(p, "relRow")
    /\ UNCHANGED <<row, cron, admin, issued, granted, bookedBy, faults>>

ReleaseRow(p) ==
    /\ At(p, "relRow")
    /\ FreeRowOf(SeatAt(p), call[p].t)
    /\ Answer(p, TRUE)
    /\ UNCHANGED <<redis, cron, admin, issued, granted, bookedBy, faults>>

(* confirm(flightId, seatNo, lockToken)                                    *)

StartConfirm(p, b, t) ==
    /\ At(p, "idle")
    /\ call' = [call EXCEPT ![p] =
                  [op |-> "confirm", pc |-> "confRow", b |-> b, t |-> t, ok |-> FALSE]]
    /\ UNCHANGED <<row, redis, cron, admin, issued, granted, bookedBy, faults>>

\* The WHERE clause of confirm: it looks at the token, not at lockExpiresAt.
Confirmable(s, t) == row[s].status = "LOCKED" /\ row[s].token = t

BookRow(s, t) ==
    /\ SetRow(s, Unlocked("BOOKED"))
    /\ bookedBy' = [bookedBy EXCEPT ![s] = t]

ConfirmRow(p) ==
    /\ At(p, "confRow")
    /\ \/ /\ Confirmable(SeatAt(p), call[p].t)
          /\ BookRow(SeatAt(p), call[p].t)
          /\ Goto(p, "confKey")
       \/ /\ ~Confirmable(SeatAt(p), call[p].t)
          /\ Answer(p, FALSE)
          /\ UNCHANGED <<row, bookedBy>>
    /\ UNCHANGED <<redis, cron, admin, issued, granted, faults>>

ConfirmKey(p) ==
    /\ At(p, "confKey")
    /\ DeleteKey(SeatAt(p))
    /\ Answer(p, TRUE)
    /\ UNCHANGED <<row, cron, admin, issued, granted, bookedBy, faults>>

\* The handler returns: its answer goes out and the message is committed.
Reply(p) ==
    /\ At(p, "reply")
    /\ call' = [call EXCEPT ![p] = Idle]
    /\ granted' = IF call[p].op = "lock" /\ call[p].ok THEN granted \cup {call[p].t}
                                                       ELSE granted
    /\ UNCHANGED <<row, redis, cron, admin, issued, bookedBy, faults>>

-----------------------------------------------------------------------------
(* releaseExpiredSeats(): getMany(), then one UPDATE by id for each row it *)
(* returned. The UPDATE does not look at the row again.                    *)

ExpiredSeats_AllLocked ==   \* mistake: no lockExpiresAt in the WHERE clause
    {s \in Seats : row[s].status = "LOCKED"}

ExpiredSeats_Swapped ==     \* mistake: lockExpiresAt > NOW()
    {s \in Seats : row[s].status = "LOCKED" /\ ~row[s].expired}

ExpiredSeats == {s \in Seats : row[s].status = "LOCKED" /\ row[s].expired}

CronRead(p) ==
    /\ cron[p] = {}
    /\ ExpiredSeats # {}
    /\ cron' = [cron EXCEPT ![p] = ExpiredSeats]
    /\ UNCHANGED <<row, redis, call, admin, issued, granted, bookedBy, faults>>

CronFree(p, s) ==
    /\ s \in cron[p]
    /\ SetRows({s}, "AVAILABLE")
    /\ cron' = [cron EXCEPT ![p] = @ \ {s}]
    /\ UNCHANGED <<redis, call, admin, issued, granted, faults>>

-----------------------------------------------------------------------------
(* The administrator's requests, one at a time: addAvailableSeat and       *)
(* removeSeat read the row and then write it, resetAllSeatsToAvailable     *)
(* rewrites the rows and then deletes the lock keys one SCAN page after    *)
(* the other.                                                              *)

AddFind(s) ==
    /\ "add" \in Env
    /\ admin.pc = "idle"
    /\ row[s].status = "MISSING"
    /\ admin' = [pc |-> "addSave", seats |-> {s}]
    /\ UNCHANGED <<row, redis, call, cron, issued, granted, bookedBy, faults>>

AddSave(s) ==
    /\ admin = [pc |-> "addSave", seats |-> {s}]
    /\ IF row[s].status = "MISSING" THEN SetRow(s, Unlocked("AVAILABLE"))
                                    ELSE UNCHANGED row
    /\ admin' = AdminIdle
    /\ UNCHANGED <<redis, call, cron, issued, granted, bookedBy, faults>>

RemoveFind(s) ==
    /\ "remove" \in Env
    /\ admin.pc = "idle"
    /\ row[s].status = "AVAILABLE"
    /\ admin' = [pc |-> "delRow", seats |-> {s}]
    /\ UNCHANGED <<row, redis, call, cron, issued, granted, bookedBy, faults>>

\* DELETE by id, whatever the row has become. A cron run that read the deleted
\* row updates by the same id and finds nothing.
RemoveDelete(s) ==
    /\ admin = [pc |-> "delRow", seats |-> {s}]
    /\ SetRows({s}, "MISSING")
    /\ cron' = [p \in Pods |-> cron[p] \ {s}]
    /\ admin' = AdminIdle
    /\ UNCHANGED <<redis, call, issued, granted, faults>>

ResetScopes == {Seats} \cup {{s \in Seats : FlightOf[s] = FlightOf[u]} : u \in Seats}

ResetRows(scope) ==
    /\ "reset" \in Env
    /\ admin.pc = "idle"
    /\ SetRows({s \in scope : row[s].status # "MISSING"}, "AVAILABLE")
    /\ admin' = [pc |-> "resetKeys", seats |-> scope]
    /\ UNCHANGED <<redis, call, cron, issued, granted, faults>>

ResetKey(s) ==
    /\ admin.pc = "resetKeys"
    /\ s \in admin.seats
    /\ DeleteKey(s)
    /\ admin' = IF admin.seats = {s} THEN AdminIdle ELSE [admin EXCEPT !.seats = @ \ {s}]
    /\ UNCHANGED <<row, call, cron, issued, granted, bookedBy, faults>>

AdminStep ==
    \/ \E s \in Seats : AddFind(s) \/ AddSave(s) \/ RemoveFind(s) \/ RemoveDelete(s)
    \/ \E scope \in ResetScopes : ResetRows(scope)
    \/ \E s \in Seats : ResetKey(s)

-----------------------------------------------------------------------------
(* Time and faults.                                                        *)

RowExpires(s) ==
    /\ "rowExpiry" \in Env
    /\ row[s].status = "LOCKED"
    /\ ~row[s].expired
    /\ row' = [row EXCEPT ![s].expired = TRUE]
    /\ UNCHANGED <<redis, call, cron, admin, issued, granted, bookedBy, faults>>

KeyExpires(s) ==
    /\ "keyExpiry" \in Env
    /\ redis[s] # NoToken
    /\ DeleteKey(s)
    /\ UNCHANGED <<row, call, cron, admin, issued, granted, bookedBy, faults>>

Fault(kind) ==
    /\ kind \in Env
    /\ faults < MaxFaults
    /\ faults' = faults + 1

\* The pod dies: its handler and its cron run are gone.
PodCrash(p) ==
    /\ Fault("crash")
    /\ call' = [call EXCEPT ![p] = Idle]
    /\ cron' = [cron EXCEPT ![p] = {}]
    /\ UNCHANGED <<row, redis, admin, issued, granted, bookedBy>>

\* Where a handler goes on when the call it awaits rejects: the catch blocks of
\* lock undo and rethrow, a failed insert counts as a lost race, the `.catch` of
\* the script and of redis.del swallow the error; anything else ends the handler.
Rejected(p) ==
    \/ At(p, "update") /\ Goto(p, "undoThrow")
    \/ At(p, "find") /\ Goto(p, "undoThrow")
    \/ At(p, "insert") /\ Goto(p, "undo")
    \/ At(p, "undo") /\ Answer(p, FALSE)
    \/ At(p, "confKey") /\ Answer(p, TRUE)
    \/ call[p].pc \in {"setnx", "undoThrow", "relKey", "relRow", "confRow"} /\ Throw(p)

\* A call that rejects may have taken effect all the same.
LateEffect(p) ==
    \/ UNCHANGED <<row, redis, bookedBy>>
    \/ /\ At(p, "setnx") /\ redis[SeatAt(p)] = NoToken
       /\ TakeKey(SeatAt(p), call[p].t)
       /\ UNCHANGED <<row, bookedBy>>
    \/ /\ \/ At(p, "update") /\ row[SeatAt(p)].status = "AVAILABLE"
          \/ At(p, "insert") /\ row[SeatAt(p)].status = "MISSING"
       /\ SetRow(SeatAt(p), LockedWith(call[p].t))
       /\ UNCHANGED <<redis, bookedBy>>
    \/ /\ At(p, "relRow")
       /\ FreeRowOf(SeatAt(p), call[p].t)
       /\ UNCHANGED <<redis, bookedBy>>
    \/ /\ At(p, "confRow") /\ Confirmable(SeatAt(p), call[p].t)
       /\ BookRow(SeatAt(p), call[p].t)
       /\ UNCHANGED redis

CallRejects(p) ==
    /\ Fault("reject")
    /\ Rejected(p)
    /\ LateEffect(p)
    /\ UNCHANGED <<cron, admin, issued, granted>>

HandlerStep(p) ==
    \/ LockSetNX(p) \/ LockUpdate(p) \/ LockFind(p) \/ LockInsert(p) \/ LockUndo(p)
    \/ ReleaseKey(p) \/ ReleaseRow(p)
    \/ ConfirmRow(p) \/ ConfirmKey(p)

CronStep(p) == CronRead(p) \/ \E s \in Seats : CronFree(p, s)

-----------------------------------------------------------------------------
(* The service on its own, under clients that know of a token what the     *)
(* protocol tells them: they release and confirm, in any order and any     *)
(* number of times, the tokens their lock calls were answered with.        *)

ClientStep(p) ==
    \/ \E b \in Bookings, t \in Tokens : StartLock(p, b, t)
    \/ \E t \in granted : StartRelease(p, issued[t], t) \/ StartConfirm(p, issued[t], t)

LockerNext ==
    \/ \E p \in Pods : ClientStep(p) \/ HandlerStep(p) \/ Reply(p)
    \/ \E p \in CronPods : CronStep(p)
    \/ AdminStep
    \/ \E s \in Seats : RowExpires(s) \/ KeyExpires(s)
    \/ \E p \in Pods : PodCrash(p) \/ CallRejects(p)

LockerSpec == LockerInit /\ [][LockerNext]_lockerVars

-----------------------------------------------------------------------------
(* Properties.                                                             *)

\* What a lock call answers is the truth: it says success exactly when the row
\* holds its token. The losers of the SETNX, of the conditional UPDATE and of
\* the insert race all leave the row to the winner. (seat-locker.service.ts,
\* lock; without the cron job, resets, removals or rejected calls.)
LockReplyTruthful ==
    \A p \in Pods :
        At(p, "reply") /\ call[p].op = "lock"
            => (call[p].ok <=> row[SeatAt(p)].token = call[p].t)

\* When no handler is running and none ever crashed, the lock keys and the rows
\* agree: a seat has a key exactly while it is LOCKED, with the same token. So
\* no path of lock, release or confirm leaves a key behind that would block the
\* seat until its TTL, or deletes the key of a lock that still stands.
QuietKeysAgree ==
    faults = 0 /\ (\A p \in Pods : At(p, "idle")) => \A s \in Seats : redis[s] = row[s].token

\* A lock that has not expired ends only by the release or the confirm that
\* carries its token, however many pods race and whatever Redis forgets.
LockNotStolen ==
    [][\A s \in Seats :
          row[s].status = "LOCKED" /\ ~row[s].expired /\ row'[s].token # row[s].token
              => \E p \in Pods : /\ call[p].op \in {"release", "confirm"}
                                /\ call[p].t = row[s].token]_lockerVars

\* "Confirm lock -> BOOKED vinh vien" (seat-locker.service.ts:131): a seat that
\* is BOOKED stays BOOKED.
BookedForever ==
    [][\A s \in Seats : row[s].status = "BOOKED" => row'[s].status = "BOOKED"]_lockerVars

\* A token that no row holds and no lock call can still write is spent: no
\* later step brings it back, so a release or confirm that arrives after its
\* lock has gone cannot touch whoever holds the seat by then.
Spent(t) ==
    /\ issued[t] # NoBooking
    /\ \A s \in Seats : row[s].token # t
    /\ \A p \in Pods : call[p].t = t => ~(call[p].pc \in {"setnx", "update", "find", "insert"})

SpentForever == [][\A t \in Tokens : Spent(t) => Spent(t)']_lockerVars

=============================================================================
