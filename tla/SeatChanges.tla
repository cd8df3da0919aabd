----------------------------- MODULE SeatChanges ----------------------------
(***************************************************************************)
(* The seats as the rest of the platform sees them: what inventory-service *)
(* does to a row, each operation of SeatLocker in one step, and what it    *)
(* announces about it. emitInventoryChanged writes the shared Redis set    *)
(* (syncSeat) and emits inventory.changed in one go, but only after the    *)
(* statement that changed the row has answered: until then the             *)
(* announcement is due in its pod, and other pods go on.                   *)
(*                                                                         *)
(* A module that listens (SeatCache, InventoryFeed) says what an           *)
(* announcement does to it, and which of these actions happen.             *)
(***************************************************************************)
EXTENDS Naturals, FiniteSets

CONSTANTS
    Seats,      \* the seats of one flight
    Bookings,   \* requests for them
    SeatOf,     \* the seat each booking wants
    Pods,       \* inventory-service replicas
    CronPods,   \* the replicas whose cron job runs
    Managed,    \* the seats the administrator adds and removes
    Happens,    \* what happens besides lock and confirm, a subset of HappensKinds
    NoBooking

HappensKinds ==
    { "expiry",   \* a lock outlives its TTL
      "giveUp",   \* a booking that has locked its seat is compensated
      "reset" }   \* the administrator resets the seats of the flight

ASSUME SeatOfAssumption == SeatOf \in [Bookings -> Seats]
ASSUME CronPodsAssumption == CronPods \subseteq Pods
ASSUME ManagedAssumption == Managed \subseteq Seats
ASSUME HappensAssumption == Happens \subseteq HappensKinds
ASSUME NoBookingAssumption == NoBooking \notin Bookings

VARIABLES
    status,     \* Postgres: the status of each seat's row
    holder,     \* ... and the booking whose token is, or was until BOOKED, in it
    expired,    \* the LOCKED seats whose lockExpiresAt has passed
    request,    \* how far each booking has come
    sweep,      \* each pod's cron run: rows it has read, rows it has freed
    announce    \* announcements that are due in a pod

seatVars == <<status, holder, expired, request, sweep, announce>>
rowVars == <<status, holder, expired>>

Requests ==
    { "none", "refused",             \* not made; refused by the cache
      "reserved",                    \* tryReserve has answered, create goes on
      "asked", "locked", "lost",     \* seat.lock is queued; its two answers
      "releasing", "released",       \* compensated, seat.release is queued; handled
      "confirmed",
      "done" }                       \* nothing more will happen to it

Taken(s) == status[s] \in {"LOCKED", "BOOKED"}

\* An announcement, with the booking whose message is being handled.
DueFor(b, p, s, available) ==
    [pod |-> p, by |-> "handler", b |-> b, s |-> s, available |-> available]
Due(p, by, s, available) ==
    [pod |-> p, by |-> by, b |-> NoBooking, s |-> s, available |-> available]
Announcements ==
    [pod : Pods, by : {"handler", "cron", "admin"}, b : Bookings \cup {NoBooking},
     s : Seats, available : BOOLEAN]

NoSweep == [found |-> {}, freed |-> {}]

SeatsTypeOK ==
    /\ status \in [Seats -> {"MISSING", "AVAILABLE", "LOCKED", "BOOKED"}]
    /\ holder \in [Seats -> Bookings \cup {NoBooking}]
    /\ expired \subseteq {s \in Seats : status[s] = "LOCKED"}
    /\ request \in [Bookings -> Requests]
    /\ sweep \in [Pods -> [found : SUBSET Seats, freed : SUBSET Seats]]
    /\ announce \subseteq Announcements
    /\ \A s \in Seats : Taken(s) <=> holder[s] # NoBooking

SeatsInit ==
    /\ status = [s \in Seats |-> "AVAILABLE"]
    /\ holder = [s \in Seats |-> NoBooking]
    /\ expired = {}
    /\ request = [b \in Bookings |-> "none"]
    /\ sweep = [p \in Pods |-> NoSweep]
    /\ announce = {}

-----------------------------------------------------------------------------
Becomes(b, r) == request' = [request EXCEPT ![b] = r]

\* A handler, a cron run or a request of the administrator makes its announcements
\* before the next one of its kind starts in the pod.
Free(p, by) == \A a \in announce : ~(a.pod = p /\ a.by = by)

FreeSeat(s) ==
    /\ status' = [status EXCEPT ![s] = "AVAILABLE"]
    /\ holder' = [holder EXCEPT ![s] = NoBooking]
    /\ expired' = expired \ {s}

\* The booking's token is in the row.
HasLock(b) == status[SeatOf[b]] = "LOCKED" /\ holder[SeatOf[b]] = b

-----------------------------------------------------------------------------
(* The handlers of seat.lock, seat.confirm and seat.release.               *)

LockWins(p, b) ==
    /\ request[b] = "asked" /\ Free(p, "handler")
    /\ ~Taken(SeatOf[b])
    /\ status' = [status EXCEPT ![SeatOf[b]] = "LOCKED"]
    /\ holder' = [holder EXCEPT ![SeatOf[b]] = b]
    /\ announce' = announce \cup {DueFor(b, p, SeatOf[b], FALSE)}
    /\ Becomes(b, "locked")
    /\ UNCHANGED <<expired, sweep>>

\* The seat is taken, or a lock key is in the way. Nothing is announced.
LockLoses(b) ==
    /\ request[b] = "asked"
    /\ Becomes(b, "lost")
    /\ UNCHANGED <<rowVars, sweep, announce>>

\* seat.locked goes out together with the announcement of the lock.
Notified(b) == request[b] = "locked" /\ \A a \in announce : a.b # b

\* Booking the row is not announced.
Confirm(b) ==
    /\ Notified(b)
    /\ HasLock(b)
    /\ status' = [status EXCEPT ![SeatOf[b]] = "BOOKED"]
    /\ expired' = expired \ {SeatOf[b]}
    /\ Becomes(b, "confirmed")
    /\ UNCHANGED <<holder, sweep, announce>>

GiveUp(b) ==
    /\ "giveUp" \in Happens
    /\ Notified(b)
    /\ Becomes(b, "releasing")
    /\ UNCHANGED <<rowVars, sweep, announce>>

\* handleSeatRelease announces a free seat whether its UPDATE matched or not.
Release(p, b) ==
    /\ request[b] = "releasing" /\ Free(p, "handler")
    /\ IF HasLock(b) THEN FreeSeat(SeatOf[b]) ELSE UNCHANGED rowVars
    /\ announce' = announce \cup {DueFor(b, p, SeatOf[b], TRUE)}
    /\ Becomes(b, "released")
    /\ UNCHANGED sweep

\* Ten minutes are enough for announcements to be made.
Expire(s) ==
    /\ "expiry" \in Happens
    /\ status[s] = "LOCKED"
    /\ \A a \in announce : a.s # s
    /\ expired' = expired \cup {s}
    /\ UNCHANGED <<status, holder, request, sweep, announce>>

-----------------------------------------------------------------------------
(* cleanupExpiredLocks: every row that was read is freed, by its id and    *)
(* whatever it holds by then; afterwards each is announced.                *)

CronRead(p) ==
    /\ p \in CronPods
    /\ sweep[p] = NoSweep /\ Free(p, "cron")
    /\ expired # {}
    /\ sweep' = [sweep EXCEPT ![p].found = expired]
    /\ UNCHANGED <<rowVars, request, announce>>

CronFree(p, s) ==
    /\ s \in sweep[p].found
    /\ IF status[s] = "MISSING" THEN UNCHANGED rowVars ELSE FreeSeat(s)
    /\ sweep' = [sweep EXCEPT ![p] = [found |-> @.found \ {s}, freed |-> @.freed \cup {s}]]
    /\ UNCHANGED <<request, announce>>

CronAnnounce_None(p) ==   \* mistake: the cron job tells nobody
    /\ sweep[p].found = {} /\ sweep[p].freed # {}
    /\ sweep' = [sweep EXCEPT ![p].freed = {}]
    /\ UNCHANGED <<rowVars, request, announce>>

CronAnnounce(p) ==
    /\ sweep[p].found = {} /\ sweep[p].freed # {}
    /\ announce' = announce \cup {Due(p, "cron", s, TRUE) : s \in sweep[p].freed}
    /\ sweep' = [sweep EXCEPT ![p].freed = {}]
    /\ UNCHANGED <<rowVars, request>>

-----------------------------------------------------------------------------
(* The administrator, who waits for the answer: it follows the             *)
(* announcement. addSeat succeeds on a seat that is there already.         *)

AdminFree == \A a \in announce : a.by # "admin"

AddSeat(p, s) ==
    /\ s \in Managed /\ AdminFree
    /\ ~Taken(s)
    /\ FreeSeat(s)
    /\ announce' = announce \cup {Due(p, "admin", s, TRUE)}
    /\ UNCHANGED <<request, sweep>>

RemoveSeat(p, s) ==
    /\ s \in Managed /\ AdminFree
    /\ status[s] = "AVAILABLE"
    /\ status' = [status EXCEPT ![s] = "MISSING"]
    /\ announce' = announce \cup {Due(p, "admin", s, FALSE)}
    /\ UNCHANGED <<holder, expired, request, sweep>>

\* resetAllSeatsToAvailable: whatever the rows hold, and without an announcement of
\* any seat; a snapshot follows, which only booking-service subscribes to.
ResetSeats ==
    /\ "reset" \in Happens /\ AdminFree
    /\ status' = [s \in Seats |-> IF status[s] = "MISSING" THEN "MISSING" ELSE "AVAILABLE"]
    /\ holder' = [s \in Seats |-> NoBooking]
    /\ expired' = {}
    /\ UNCHANGED <<request, sweep, announce>>

-----------------------------------------------------------------------------
(* What gets lost. A message comes again when the pod that handles it      *)
(* stops; one whose handler throws is logged and skipped (index.js:165).   *)

\* seat.lock, seat.lock.failed or seat.release is dropped by emit, or its handler
\* throws before it has done anything.
MessageLost(b) ==
    /\ request[b] \in {"asked", "lost", "releasing"}
    /\ Becomes(b, "done")
    /\ UNCHANGED <<rowVars, sweep, announce>>

\* The row has changed but the answer to the statement is lost: the handler throws, or
\* the administrator gets an error, and nobody is told.
AnswerLost(a) ==
    /\ a \in announce /\ a.by # "cron"
    /\ announce' = announce \ {a}
    /\ request' = [b \in Bookings |-> IF b = a.b THEN "done" ELSE request[b]]
    /\ UNCHANGED <<rowVars, sweep>>

\* An update of the cron job rejects, with or without its effect. That ends the run:
\* the rows it has freed are not announced, and no later run reads them again.
CronFails(p, s) ==
    /\ s \in sweep[p].found
    /\ \/ UNCHANGED rowVars
       \/ status[s] # "MISSING" /\ FreeSeat(s)
    /\ sweep' = [sweep EXCEPT ![p] = NoSweep]
    /\ UNCHANGED <<request, announce>>

\* The pod stops before it makes the announcements that are due.
PodStops(p) ==
    /\ announce' = {a \in announce : a.pod # p}
    /\ sweep' = [sweep EXCEPT ![p] = NoSweep]
    /\ request' = [b \in Bookings |->
          IF \E a \in announce : a.pod = p /\ a.b = b
          THEN IF request[b] = "locked" THEN "asked" ELSE "releasing"
          ELSE request[b]]
    /\ UNCHANGED rowVars

\* ... or after that, but before it commits the seat.release it has handled.
ReleaseAgain(b) ==
    /\ request[b] = "released" /\ \A a \in announce : a.b # b
    /\ Becomes(b, "releasing")
    /\ UNCHANGED <<rowVars, sweep, announce>>

-----------------------------------------------------------------------------
\* No message about a seat is queued and nothing is under way in inventory-service.
SeatsQuiet ==
    /\ \A b \in Bookings : request[b] \notin {"asked", "releasing"}
    /\ announce = {}
    /\ \A p \in Pods : sweep[p] = NoSweep

=============================================================================
