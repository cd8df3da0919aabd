------------------------- MODULE SeatChangesProofs --------------------------
(***************************************************************************)
(* Lemmas about the actions of SeatChanges, for the modules that listen to *)
(* what it announces: what each action keeps well-formed, and what it does *)
(* to one seat.                                                            *)
(***************************************************************************)
EXTENDS SeatChanges, Sequences, SequencesExt, TLAPS

USE SeatOfAssumption, CronPodsAssumption, ManagedAssumption, NoBookingAssumption

\* The announcements of the handlers, the cron job and the administrator.
LEMMA DueType ==
  ASSUME NEW p \in Pods, NEW by \in {"handler", "cron", "admin"}, NEW s \in Seats,
         NEW available \in BOOLEAN
  PROVE  /\ Due(p, by, s, available) \in Announcements
         /\ \A b \in Bookings : DueFor(b, p, s, available) \in Announcements
  BY DEF Due, DueFor, Announcements

\* Freeing a seat keeps the rows consistent.
LEMMA FreeSeatTypes ==
  ASSUME SeatsTypeOK, NEW s \in Seats, FreeSeat(s)
  PROVE  /\ status' \in [Seats -> {"MISSING", "AVAILABLE", "LOCKED", "BOOKED"}]
         /\ holder' \in [Seats -> Bookings \cup {NoBooking}]
         /\ expired' \subseteq {r \in Seats : status'[r] = "LOCKED"}
         /\ \A r \in Seats : Taken(r)' <=> holder'[r] # NoBooking
  BY DEF SeatsTypeOK, FreeSeat, Taken

RowTypes ==
    /\ status \in [Seats -> {"MISSING", "AVAILABLE", "LOCKED", "BOOKED"}]
    /\ holder \in [Seats -> Bookings \cup {NoBooking}]
    /\ expired \subseteq {r \in Seats : status[r] = "LOCKED"}
    /\ \A r \in Seats : Taken(r) <=> holder[r] # NoBooking

RestTypes ==
    /\ request \in [Bookings -> Requests]
    /\ sweep \in [Pods -> [found : SUBSET Seats, freed : SUBSET Seats]]
    /\ announce \subseteq Announcements

\* A booking asks for its seat, in the way of the listener's module.
Asks(b, r) == Becomes(b, r) /\ UNCHANGED <<rowVars, sweep, announce>>

\* What inventory-service and the bookings it answers do ...
RowAction ==
    \/ \E b \in Bookings : LockLoses(b) \/ Confirm(b) \/ GiveUp(b)
    \/ \E p \in Pods, b \in Bookings : LockWins(p, b) \/ Release(p, b)
    \/ \E s \in Seats : Expire(s)
    \/ \E p \in Pods : CronRead(p) \/ CronAnnounce(p)
    \/ \E p \in Pods, s \in Seats : CronFree(p, s) \/ AddSeat(p, s) \/ RemoveSeat(p, s)

\* ... the reset of the flight included.
SeatAction == RowAction \/ ResetSeats

LEMMA AsksTypes ==
  ASSUME SeatsTypeOK, NEW b \in Bookings, NEW r \in Requests, Asks(b, r)
  PROVE  SeatsTypeOK'
  BY DEF Asks, SeatsTypeOK, Becomes, rowVars, Taken

LEMMA SeatActionTypes ==
  ASSUME SeatsTypeOK, SeatAction
  PROVE  SeatsTypeOK'
  <1> USE DEF RowTypes, RestTypes
  <1>0. RowTypes /\ RestTypes
    BY DEF SeatsTypeOK
  <1>1. ASSUME NEW b \in Bookings, LockLoses(b) \/ GiveUp(b)
        PROVE  RowTypes' /\ RestTypes'
    <2>1. request' \in [Bookings -> Requests] /\ UNCHANGED <<rowVars, sweep, announce>>
      BY <1>0, <1>1 DEF LockLoses, GiveUp, Becomes, Requests
    <2> QED BY <1>0, <2>1 DEF rowVars, Taken
  <1>2. ASSUME NEW b \in Bookings, Confirm(b) PROVE RowTypes' /\ RestTypes'
    <2>1. SeatOf[b] \in Seats
      OBVIOUS
    <2>2. RowTypes'
      BY <1>0, <1>2, <2>1 DEF Confirm, HasLock, Taken
    <2>3. RestTypes'
      BY <1>0, <1>2 DEF Confirm, Becomes, Requests
    <2> QED BY <2>2, <2>3
  <1>3. ASSUME NEW p \in Pods, NEW b \in Bookings, LockWins(p, b) PROVE RowTypes' /\ RestTypes'
    <2>1. SeatOf[b] \in Seats
      OBVIOUS
    <2>2. RowTypes'
      BY <1>0, <1>3, <2>1 DEF LockWins, Taken
    <2>3. DueFor(b, p, SeatOf[b], FALSE) \in Announcements
      BY <2>1, DueType
    <2>4. RestTypes'
      BY <1>0, <1>3, <2>3 DEF LockWins, Becomes, Requests
    <2> QED BY <2>2, <2>4
  <1>4. ASSUME NEW p \in Pods, NEW b \in Bookings, Release(p, b) PROVE RowTypes' /\ RestTypes'
    <2>1. SeatOf[b] \in Seats
      OBVIOUS
    <2>2. RowTypes'
      BY <1>0, <1>4, <2>1, FreeSeatTypes DEF Release, SeatsTypeOK, rowVars, Taken
    <2>3. DueFor(b, p, SeatOf[b], TRUE) \in Announcements
      BY <2>1, DueType
    <2>4. RestTypes'
      BY <1>0, <1>4, <2>3 DEF Release, Becomes, Requests
    <2> QED BY <2>2, <2>4
  <1>5. ASSUME NEW s \in Seats, Expire(s) PROVE RowTypes' /\ RestTypes'
    BY <1>0, <1>5 DEF Expire, Taken
  <1>6. ASSUME NEW p \in Pods, CronRead(p) PROVE RowTypes' /\ RestTypes'
    <2>1. RowTypes'
      BY <1>0, <1>6 DEF CronRead, rowVars, Taken
    <2>2. sweep' = [sweep EXCEPT ![p] = [@ EXCEPT !.found = expired]]
      BY <1>6 DEF CronRead
    <2>3. RestTypes'
      BY <1>0, <1>6, <2>2 DEF CronRead
    <2> QED BY <2>1, <2>3
  <1>7. ASSUME NEW p \in Pods, NEW s \in Seats, CronFree(p, s) PROVE RowTypes' /\ RestTypes'
    <2>1. RowTypes'
      BY <1>0, <1>7, FreeSeatTypes DEF CronFree, SeatsTypeOK, rowVars, Taken
    <2>2. RestTypes'
      BY <1>0, <1>7 DEF CronFree
    <2> QED BY <2>1, <2>2
  <1>8. ASSUME NEW p \in Pods, CronAnnounce(p) PROVE RowTypes' /\ RestTypes'
    <2>1. RowTypes'
      BY <1>0, <1>8 DEF CronAnnounce, rowVars, Taken
    <2>2. sweep' = [sweep EXCEPT ![p] = [@ EXCEPT !.freed = {}]]
      BY <1>8 DEF CronAnnounce
    <2>3. {Due(p, "cron", s, TRUE) : s \in sweep[p].freed} \subseteq Announcements
      BY <1>0, DueType
    <2>4. announce' \subseteq Announcements
      BY <1>0, <1>8, <2>3 DEF CronAnnounce
    <2>5. sweep' \in [Pods -> [found : SUBSET Seats, freed : SUBSET Seats]] /\ request' = request
      BY <1>0, <1>8, <2>2 DEF CronAnnounce
    <2> QED BY <1>0, <2>1, <2>4, <2>5
  <1>9. ASSUME NEW p \in Pods, NEW s \in Seats, AddSeat(p, s) \/ RemoveSeat(p, s)
        PROVE  RowTypes' /\ RestTypes'
    <2>1. RowTypes'
      BY <1>0, <1>9, FreeSeatTypes DEF AddSeat, RemoveSeat, SeatsTypeOK, Taken
    <2>2. Due(p, "admin", s, TRUE) \in Announcements /\ Due(p, "admin", s, FALSE) \in Announcements
      BY DueType
    <2>3. RestTypes'
      BY <1>0, <1>9, <2>2 DEF AddSeat, RemoveSeat
    <2> QED BY <2>1, <2>3
  <1>10. ASSUME ResetSeats PROVE RowTypes' /\ RestTypes'
    BY <1>0, <1>10 DEF ResetSeats, Taken
  <1>11. RowTypes' /\ RestTypes'
    BY <1>1, <1>2, <1>3, <1>4, <1>5, <1>6, <1>7, <1>8, <1>9, <1>10 DEF SeatAction, RowAction
  <1> QED BY <1>11 DEF SeatsTypeOK

\* How far a booking comes with a step of inventory-service or of its own saga.
LEMMA RequestMoves ==
  ASSUME SeatsTypeOK, SeatAction, NEW b \in Bookings
  PROVE  \/ request'[b] = request[b]
         \/ request[b] = "asked" /\ request'[b] = "lost"
         \/ request[b] = "asked" /\ request'[b] = "locked" /\ status'[SeatOf[b]] = "LOCKED"
         \/ request[b] = "locked" /\ request'[b] = "confirmed" /\ HasLock(b)
         \/ request[b] = "locked" /\ request'[b] = "releasing"
         \/ request[b] = "releasing" /\ request'[b] = "released"
  <1> DEFINE Moves ==
         \/ request'[b] = request[b]
         \/ request[b] = "asked" /\ request'[b] = "lost"
         \/ request[b] = "asked" /\ request'[b] = "locked" /\ status'[SeatOf[b]] = "LOCKED"
         \/ request[b] = "locked" /\ request'[b] = "confirmed" /\ HasLock(b)
         \/ request[b] = "locked" /\ request'[b] = "releasing"
         \/ request[b] = "releasing" /\ request'[b] = "released"
  <1>0. request \in [Bookings -> Requests]
    BY DEF SeatsTypeOK
  <1>1. ASSUME NEW c \in Bookings, LockLoses(c) \/ Confirm(c) \/ GiveUp(c) PROVE Moves
    BY <1>0, <1>1 DEF LockLoses, Confirm, GiveUp, Notified, Becomes
  <1>2. ASSUME NEW p \in Pods, NEW c \in Bookings, LockWins(p, c) \/ Release(p, c) PROVE Moves
    <2>1. LockWins(p, c) => status'[SeatOf[c]] = "LOCKED"
      BY DEF LockWins, SeatsTypeOK
    <2> QED BY <1>0, <1>2, <2>1 DEF LockWins, Release, Becomes
  <1>3. ASSUME NEW s \in Seats, Expire(s) PROVE Moves
    BY <1>3 DEF Expire
  <1>4. ASSUME NEW p \in Pods, CronRead(p) \/ CronAnnounce(p) PROVE Moves
    BY <1>4 DEF CronRead, CronAnnounce
  <1>5. ASSUME NEW p \in Pods, NEW s \in Seats,
               CronFree(p, s) \/ AddSeat(p, s) \/ RemoveSeat(p, s)
        PROVE  Moves
    BY <1>5 DEF CronFree, AddSeat, RemoveSeat
  <1>6. ASSUME ResetSeats PROVE Moves
    BY <1>6 DEF ResetSeats
  <1>7. Moves
    BY <1>1, <1>2, <1>3, <1>4, <1>5, <1>6 DEF SeatAction, RowAction
  <1> QED BY <1>7

\* What a step does to one row: nothing, or it is locked, booked, removed, or freed, and
\* the last is announced, or noted by the cron job for later.
LEMMA RowMoves ==
  ASSUME SeatsTypeOK, RowAction, NEW s \in Seats
  PROVE  \/ status'[s] = status[s] /\ holder'[s] = holder[s]
         \/ /\ status'[s] = "LOCKED" /\ ~Taken(s)
            /\ \E b \in Bookings :
                  /\ holder'[s] = b /\ SeatOf[b] = s
                  /\ request[b] = "asked" /\ request'[b] = "locked"
            /\ \E a \in announce' : a.s = s /\ ~a.available
         \/ status[s] = "LOCKED" /\ status'[s] = "BOOKED" /\ holder'[s] = holder[s]
         \/ status'[s] = "MISSING" /\ holder'[s] = NoBooking
         \/ /\ status'[s] = "AVAILABLE" /\ holder'[s] = NoBooking
            /\ \/ \E a \in announce' : a.s = s /\ a.available
               \/ \E p \in Pods : s \in sweep'[p].freed
  <1> DEFINE Moves ==
         \/ status'[s] = status[s] /\ holder'[s] = holder[s]
         \/ /\ status'[s] = "LOCKED" /\ ~Taken(s)
            /\ \E b \in Bookings :
                  /\ holder'[s] = b /\ SeatOf[b] = s
                  /\ request[b] = "asked" /\ request'[b] = "locked"
            /\ \E a \in announce' : a.s = s /\ ~a.available
         \/ status[s] = "LOCKED" /\ status'[s] = "BOOKED" /\ holder'[s] = holder[s]
         \/ status'[s] = "MISSING" /\ holder'[s] = NoBooking
         \/ /\ status'[s] = "AVAILABLE" /\ holder'[s] = NoBooking
            /\ \/ \E a \in announce' : a.s = s /\ a.available
               \/ \E p \in Pods : s \in sweep'[p].freed
  <1> USE DEF SeatsTypeOK
  <1>1. ASSUME NEW b \in Bookings, LockLoses(b) \/ GiveUp(b) PROVE Moves
    BY <1>1 DEF LockLoses, GiveUp, rowVars
  <1>2. ASSUME NEW b \in Bookings, Confirm(b) PROVE Moves
    BY <1>2 DEF Confirm, HasLock
  <1>3. ASSUME NEW p \in Pods, NEW b \in Bookings, LockWins(p, b) PROVE Moves
    <2>1. CASE s = SeatOf[b]
      <3>1. DueFor(b, p, s, FALSE) \in announce'
        BY <1>3, <2>1 DEF LockWins
      <3>2. \E a \in announce' : a.s = s /\ ~a.available
        BY <3>1 DEF DueFor
      <3> QED BY <1>3, <2>1, <3>2 DEF LockWins, Becomes
    <2>2. CASE s # SeatOf[b]
      BY <1>3, <2>2 DEF LockWins
    <2> QED BY <2>1, <2>2
  <1>4. ASSUME NEW p \in Pods, NEW b \in Bookings, Release(p, b) PROVE Moves
    <2>1. CASE s = SeatOf[b]
      <3>1. DueFor(b, p, s, TRUE) \in announce'
        BY <1>4, <2>1 DEF Release
      <3>2. \E a \in announce' : a.s = s /\ a.available
        BY <3>1 DEF DueFor
      <3>3. CASE FreeSeat(s)
        BY <3>2, <3>3 DEF FreeSeat
      <3>4. CASE UNCHANGED rowVars
        BY <3>4 DEF rowVars
      <3> QED BY <1>4, <2>1, <3>3, <3>4 DEF Release
    <2>2. CASE s # SeatOf[b]
      BY <1>4, <2>2 DEF Release, FreeSeat, rowVars
    <2> QED BY <2>1, <2>2
  <1>5. ASSUME NEW r \in Seats, Expire(r) PROVE Moves
    BY <1>5 DEF Expire
  <1>6. ASSUME NEW p \in Pods, CronRead(p) \/ CronAnnounce(p) PROVE Moves
    BY <1>6 DEF CronRead, CronAnnounce, rowVars
  <1>7. ASSUME NEW p \in Pods, NEW r \in Seats, CronFree(p, r) PROVE Moves
    <2>1. CASE s = r
      <3>1. s \in sweep'[p].freed
        BY <1>7, <2>1 DEF CronFree
      <3> QED BY <1>7, <2>1, <3>1 DEF CronFree, FreeSeat, rowVars
    <2>2. CASE s # r
      BY <1>7, <2>2 DEF CronFree, FreeSeat, rowVars
    <2> QED BY <2>1, <2>2
  <1>8. ASSUME NEW p \in Pods, NEW r \in Seats, AddSeat(p, r) PROVE Moves
    <2>1. CASE s = r
      <3>1. Due(p, "admin", s, TRUE) \in announce'
        BY <1>8, <2>1 DEF AddSeat
      <3>2. \E a \in announce' : a.s = s /\ a.available
        BY <3>1 DEF Due
      <3> QED BY <1>8, <2>1, <3>2 DEF AddSeat, FreeSeat
    <2>2. CASE s # r
      BY <1>8, <2>2 DEF AddSeat, FreeSeat
    <2> QED BY <2>1, <2>2
  <1>9. ASSUME NEW p \in Pods, NEW r \in Seats, RemoveSeat(p, r) PROVE Moves
    BY <1>9 DEF RemoveSeat, Taken
  <1>10. Moves
    BY <1>1, <1>2, <1>3, <1>4, <1>5, <1>6, <1>7, <1>8, <1>9 DEF RowAction
  <1> QED BY <1>10

\* What is due stays due, and an announcement that a seat is free is of a seat that a
\* booking has given up, that the cron job has freed, or that the administrator adds.
LEMMA AnnounceMoves ==
  ASSUME SeatsTypeOK, SeatAction
  PROVE  /\ announce \subseteq announce'
         /\ \A a \in announce' : a.available =>
              \/ a \in announce
              \/ a.s \in Managed
              \/ \E p \in Pods : a.s \in sweep[p].freed
              \/ \E b \in Bookings : SeatOf[b] = a.s /\ request'[b] = "released"
  <1> DEFINE Moves ==
         /\ announce \subseteq announce'
         /\ \A a \in announce' : a.available =>
              \/ a \in announce
              \/ a.s \in Managed
              \/ \E p \in Pods : a.s \in sweep[p].freed
              \/ \E b \in Bookings : SeatOf[b] = a.s /\ request'[b] = "released"
  <1> USE DEF SeatsTypeOK
  <1>1. ASSUME NEW b \in Bookings, LockLoses(b) \/ GiveUp(b) \/ Confirm(b) PROVE Moves
    BY <1>1 DEF LockLoses, GiveUp, Confirm
  <1>2. ASSUME NEW p \in Pods, NEW b \in Bookings, LockWins(p, b) PROVE Moves
    BY <1>2 DEF LockWins, DueFor
  <1>3. ASSUME NEW p \in Pods, NEW b \in Bookings, Release(p, b) PROVE Moves
    <2>1. request'[b] = "released"
      BY <1>3 DEF Release, Becomes
    <2>2. announce' = announce \cup {DueFor(b, p, SeatOf[b], TRUE)}
      BY <1>3 DEF Release
    <2>3. DueFor(b, p, SeatOf[b], TRUE).s = SeatOf[b]
      BY DEF DueFor
    <2> QED BY <2>1, <2>2, <2>3
  <1>4. ASSUME NEW s \in Seats, Expire(s) PROVE Moves
    BY <1>4 DEF Expire
  <1>5. ASSUME NEW p \in Pods, CronRead(p) PROVE Moves
    BY <1>5 DEF CronRead
  <1>6. ASSUME NEW p \in Pods, CronAnnounce(p) PROVE Moves
    <2>1. announce' = announce \cup {Due(p, "cron", s, TRUE) : s \in sweep[p].freed}
      BY <1>6 DEF CronAnnounce
    <2>2. ASSUME NEW a \in announce', a \notin announce
          PROVE  \E q \in Pods : a.s \in sweep[q].freed
      <3>1. PICK s \in sweep[p].freed : a = Due(p, "cron", s, TRUE)
        BY <2>1, <2>2
      <3>2. a.s = s
        BY <3>1 DEF Due
      <3> QED BY <3>1, <3>2
    <2> QED BY <2>1, <2>2
  <1>7. ASSUME NEW p \in Pods, NEW s \in Seats, CronFree(p, s) PROVE Moves
    BY <1>7 DEF CronFree
  <1>8. ASSUME NEW p \in Pods, NEW s \in Seats, AddSeat(p, s) \/ RemoveSeat(p, s) PROVE Moves
    BY <1>8 DEF AddSeat, RemoveSeat, Due
  <1>9. ASSUME ResetSeats PROVE Moves
    BY <1>9 DEF ResetSeats
  <1>10. Moves
    BY <1>1, <1>2, <1>3, <1>4, <1>5, <1>6, <1>7, <1>8, <1>9 DEF SeatAction, RowAction
  <1> QED BY <1>10

\* The cron job reads expired locks, frees what it has read, and announces what it freed.
LEMMA SweepMoves ==
  ASSUME SeatsTypeOK, SeatAction, NEW p \in Pods, NEW s \in Seats
  PROVE  /\ s \in sweep'[p].found => s \in sweep[p].found \/ s \in expired
         /\ s \in sweep'[p].freed =>
              s \in sweep[p].freed \/ (s \in sweep[p].found /\ holder'[s] = NoBooking)
         /\ s \in sweep[p].freed =>
              s \in sweep'[p].freed \/ \E a \in announce' : a.s = s /\ a.available
  <1> DEFINE Moves ==
         /\ s \in sweep'[p].found => s \in sweep[p].found \/ s \in expired
         /\ s \in sweep'[p].freed =>
              s \in sweep[p].freed \/ (s \in sweep[p].found /\ holder'[s] = NoBooking)
         /\ s \in sweep[p].freed =>
              s \in sweep'[p].freed \/ \E a \in announce' : a.s = s /\ a.available
  <1> USE DEF SeatsTypeOK
  <1>1. CASE UNCHANGED sweep
    BY <1>1
  <1>2. ASSUME NEW q \in Pods, CronRead(q) PROVE Moves
    BY <1>2 DEF CronRead
  <1>3. ASSUME NEW q \in Pods, CronAnnounce(q) PROVE Moves
    <2>1. CASE q = p /\ s \in sweep[p].freed
      <3>1. Due(p, "cron", s, TRUE) \in announce'
        BY <1>3, <2>1 DEF CronAnnounce
      <3>2. \E a \in announce' : a.s = s /\ a.available
        BY <3>1 DEF Due
      <3> QED BY <1>3, <2>1, <3>2 DEF CronAnnounce
    <2>2. CASE ~(q = p /\ s \in sweep[p].freed)
      BY <1>3, <2>2 DEF CronAnnounce
    <2> QED BY <2>1, <2>2
  <1>4. ASSUME NEW q \in Pods, NEW r \in Seats, CronFree(q, r) PROVE Moves
    BY <1>4 DEF CronFree, FreeSeat, rowVars, Taken
  <1>5. \/ UNCHANGED sweep
        \/ \E q \in Pods : CronRead(q) \/ CronAnnounce(q)
        \/ \E q \in Pods, r \in Seats : CronFree(q, r)
    BY DEF SeatAction, RowAction, LockLoses, Confirm, GiveUp, LockWins, Release, Expire, AddSeat,
           RemoveSeat, ResetSeats
  <1>6. Moves
    BY <1>1, <1>2, <1>3, <1>4, <1>5
  <1> QED BY <1>6

-----------------------------------------------------------------------------
(* What gets lost                                                          *)

LossAction ==
    \/ \E b \in Bookings : MessageLost(b) \/ ReleaseAgain(b)
    \/ \E a \in announce : AnswerLost(a)
    \/ \E p \in Pods, s \in Seats : CronFails(p, s)
    \/ \E p \in Pods : PodStops(p)

LEMMA LossTypes ==
  ASSUME SeatsTypeOK, LossAction
  PROVE  SeatsTypeOK'
  <1> USE DEF RowTypes, RestTypes
  <1>0. RowTypes /\ RestTypes
    BY DEF SeatsTypeOK
  <1>1. ASSUME NEW b \in Bookings, MessageLost(b) \/ ReleaseAgain(b) PROVE SeatsTypeOK'
    BY <1>1, AsksTypes DEF MessageLost, ReleaseAgain, Asks, Requests
  <1>2. ASSUME NEW a \in announce, AnswerLost(a) PROVE RowTypes' /\ RestTypes'
    <2>1. request' \in [Bookings -> Requests]
      BY <1>0, <1>2 DEF AnswerLost, Requests
    <2> QED BY <1>0, <1>2, <2>1 DEF AnswerLost, rowVars, Taken
  <1>3. NoSweep \in [found : SUBSET Seats, freed : SUBSET Seats]
    BY DEF NoSweep
  <1>4. ASSUME NEW p \in Pods, NEW s \in Seats, CronFails(p, s) PROVE RowTypes' /\ RestTypes'
    <2>1. RowTypes'
      BY <1>0, <1>4, FreeSeatTypes DEF CronFails, SeatsTypeOK, rowVars, Taken
    <2>2. RestTypes'
      BY <1>0, <1>3, <1>4 DEF CronFails
    <2> QED BY <2>1, <2>2
  <1>5. ASSUME NEW p \in Pods, PodStops(p) PROVE RowTypes' /\ RestTypes'
    <2>1. request' \in [Bookings -> Requests]
      BY <1>0, <1>5 DEF PodStops, Requests
    <2>2. announce' \subseteq Announcements
      BY <1>0, <1>5 DEF PodStops
    <2>3. sweep' \in [Pods -> [found : SUBSET Seats, freed : SUBSET Seats]]
      BY <1>0, <1>3, <1>5 DEF PodStops
    <2>4. RowTypes'
      BY <1>0, <1>5 DEF PodStops, rowVars, Taken
    <2> QED BY <2>1, <2>2, <2>3, <2>4
  <1> QED BY <1>1, <1>2, <1>4, <1>5 DEF LossAction, SeatsTypeOK

\* An announcement for a booking is the one its handler owes: that its seat is locked,
\* or released. There is never a second one.
Answering ==
    \A a \in announce : a.b \in Bookings =>
        /\ a.s = SeatOf[a.b]
        /\ \/ request[a.b] = "locked" /\ ~a.available
           \/ request[a.b] = "released" /\ a.available
        /\ \A c \in announce : c.b = a.b => c = a

\* Steps that make no announcement and leave the bookings alone that are owed one.
LEMMA AnsweringFewer ==
  ASSUME Answering, announce' \subseteq announce,
         \A a \in announce' : a.b \in Bookings => request'[a.b] = request[a.b]
  PROVE  Answering'
  BY DEF Answering

LEMMA AnsweringOneMore ==
  ASSUME SeatsTypeOK, Answering, NEW b \in Bookings, NEW p \in Pods, NEW available \in BOOLEAN,
         announce' = announce \cup {DueFor(b, p, SeatOf[b], available)},
         request[b] \in {"asked", "releasing"},
         NEW r, r = (IF available THEN "released" ELSE "locked"), Becomes(b, r)
  PROVE  Answering'
  <1>1. PICK d : d = DueFor(b, p, SeatOf[b], available)
    OBVIOUS
  <1>2. d.b = b /\ d.s = SeatOf[b] /\ d.available = available
    BY <1>1 DEF DueFor
  <1>3. \A a \in announce : a.b # b
    BY DEF Answering
  <1>4. request'[b] = r /\ \A c \in Bookings \ {b} : request'[c] = request[c]
    BY DEF Becomes, SeatsTypeOK
  <1>5. announce' = announce \cup {d}
    BY <1>1
  <1> QED BY <1>2, <1>3, <1>4, <1>5 DEF Answering

LEMMA AnsweringKept ==
  ASSUME SeatsTypeOK, Answering, SeatAction \/ LossAction
  PROVE  Answering'
  <1>0. request \in [Bookings -> Requests]
    BY DEF SeatsTypeOK
  <1>1. ASSUME NEW b \in Bookings, LockLoses(b) \/ MessageLost(b) PROVE Answering'
    <2>1. request[b] \in {"asked", "lost", "releasing"} /\ announce' = announce
      BY <1>1 DEF LockLoses, MessageLost
    <2>2. \A c \in Bookings \ {b} : request'[c] = request[c]
      BY <1>0, <1>1 DEF LockLoses, MessageLost, Becomes
    <2>3. \A a \in announce : a.b # b
      BY <2>1 DEF Answering
    <2> QED BY <2>1, <2>2, <2>3, AnsweringFewer
  <1>2. ASSUME NEW b \in Bookings, Confirm(b) \/ GiveUp(b) \/ ReleaseAgain(b) PROVE Answering'
    <2>1. announce' = announce /\ \A a \in announce : a.b # b
      BY <1>2 DEF Confirm, GiveUp, ReleaseAgain, Notified
    <2>2. \A c \in Bookings \ {b} : request'[c] = request[c]
      BY <1>0, <1>2 DEF Confirm, GiveUp, ReleaseAgain, Becomes
    <2> QED BY <2>1, <2>2, AnsweringFewer
  <1>3. ASSUME NEW p \in Pods, NEW b \in Bookings, LockWins(p, b) PROVE Answering'
    <2>1. \A r : r = (IF FALSE THEN "released" ELSE "locked") => r = "locked"
      OBVIOUS
    <2> QED BY <1>3, <2>1, AnsweringOneMore DEF LockWins
  <1>4. ASSUME NEW p \in Pods, NEW b \in Bookings, Release(p, b) PROVE Answering'
    <2>1. \A r : r = (IF TRUE THEN "released" ELSE "locked") => r = "released"
      OBVIOUS
    <2> QED BY <1>4, <2>1, AnsweringOneMore DEF Release
  <1>5. ASSUME UNCHANGED request, \A a \in announce' : a \in announce \/ a.b = NoBooking
        PROVE  Answering'
    BY <1>5 DEF Answering
  <1>6. ASSUME NEW s \in Seats, Expire(s) PROVE Answering'
    BY <1>5, <1>6 DEF Expire
  <1>7. ASSUME NEW p \in Pods, CronRead(p) \/ CronAnnounce(p) PROVE Answering'
    BY <1>5, <1>7 DEF CronRead, CronAnnounce, Due
  <1>8. ASSUME NEW p \in Pods, NEW s \in Seats,
               CronFree(p, s) \/ CronFails(p, s) \/ AddSeat(p, s) \/ RemoveSeat(p, s)
        PROVE  Answering'
    BY <1>5, <1>8 DEF CronFree, CronFails, AddSeat, RemoveSeat, Due
  <1>9. ASSUME ResetSeats PROVE Answering'
    BY <1>5, <1>9 DEF ResetSeats
  <1>10. ASSUME NEW a \in announce, AnswerLost(a) PROVE Answering'
    <2>1. announce' = announce \ {a} /\ \A b \in Bookings : b # a.b => request'[b] = request[b]
      BY <1>10 DEF AnswerLost
    <2>2. \A c \in announce' : c.b \in Bookings => c.b # a.b
      BY <2>1 DEF Answering
    <2> QED BY <2>1, <2>2, AnsweringFewer
  <1>11. ASSUME NEW p \in Pods, PodStops(p) PROVE Answering'
    <2>1. /\ announce' = {a \in announce : a.pod # p}
          /\ \A b \in Bookings : (\A a \in announce : ~(a.pod = p /\ a.b = b))
                => request'[b] = request[b]
      BY <1>11 DEF PodStops
    <2>2. \A c \in announce' : c.b \in Bookings => request'[c.b] = request[c.b]
      BY <2>1 DEF Answering
    <2> QED BY <2>1, <2>2, AnsweringFewer
  <1> QED BY <1>1, <1>2, <1>3, <1>4, <1>6, <1>7, <1>8, <1>9, <1>10, <1>11
          DEF SeatAction, RowAction, LossAction

\* How far a booking comes when something is lost.
LEMMA LossRequestMoves ==
  ASSUME SeatsTypeOK, Answering, LossAction, NEW b \in Bookings
  PROVE  \/ request'[b] = request[b]
         \/ request[b] \in {"asked", "lost", "releasing"} /\ request'[b] = "done"
         \/ request[b] = "released" /\ request'[b] \in {"releasing", "done"}
         \/ /\ request[b] = "locked" /\ request'[b] \in {"asked", "done"}
            /\ \E a \in announce : a \notin announce' /\ a.s = SeatOf[b] /\ ~a.available
  <1> DEFINE Moves ==
         \/ request'[b] = request[b]
         \/ request[b] \in {"asked", "lost", "releasing"} /\ request'[b] = "done"
         \/ request[b] = "released" /\ request'[b] \in {"releasing", "done"}
         \/ /\ request[b] = "locked" /\ request'[b] \in {"asked", "done"}
            /\ \E a \in announce : a \notin announce' /\ a.s = SeatOf[b] /\ ~a.available
  <1>0. request \in [Bookings -> Requests]
    BY DEF SeatsTypeOK
  <1>1. ASSUME NEW c \in Bookings, MessageLost(c) \/ ReleaseAgain(c) PROVE Moves
    BY <1>0, <1>1 DEF MessageLost, ReleaseAgain, Becomes
  <1>2. ASSUME NEW a \in announce, AnswerLost(a) PROVE Moves
    <2>1. announce' = announce \ {a} /\ request'[b] = IF b = a.b THEN "done" ELSE request[b]
      BY <1>2 DEF AnswerLost
    <2> QED BY <2>1 DEF Answering
  <1>3. ASSUME NEW p \in Pods, NEW s \in Seats, CronFails(p, s) PROVE Moves
    BY <1>3 DEF CronFails
  <1>4. ASSUME NEW p \in Pods, PodStops(p) PROVE Moves
    <2>1. /\ announce' = {a \in announce : a.pod # p}
          /\ request'[b] = IF \E a \in announce : a.pod = p /\ a.b = b
                           THEN IF request[b] = "locked" THEN "asked" ELSE "releasing"
                           ELSE request[b]
      BY <1>4 DEF PodStops
    <2> QED BY <2>1 DEF Answering
  <1>5. Moves
    BY <1>1, <1>2, <1>3, <1>4 DEF LossAction
  <1> QED BY <1>5

\* Nothing becomes due, no seat is read or freed without a word of it but the one whose
\* update was the cron job's last.
LEMMA LossMoves ==
  ASSUME SeatsTypeOK, LossAction
  PROVE  /\ announce' \subseteq announce
         /\ \A p \in Pods : sweep'[p] = sweep[p] \/ sweep'[p] = NoSweep
         /\ \/ UNCHANGED <<status, holder>>
            \/ \E p \in Pods : \E s \in sweep[p].found : CronFails(p, s) /\ FreeSeat(s)
  <1>1. ASSUME NEW p \in Pods, NEW s \in Seats, CronFails(p, s)
        PROVE  s \in sweep[p].found /\ (UNCHANGED <<status, holder>> \/ FreeSeat(s))
    BY <1>1 DEF CronFails, rowVars
  <1> QED BY <1>1 DEF LossAction, MessageLost, ReleaseAgain, AnswerLost, CronFails, PodStops,
                      rowVars, SeatsTypeOK

\* What is left of a sequence without one element.
LEMMA RemoveAtType ==
  ASSUME NEW S, NEW s \in Seq(S), NEW i \in DOMAIN s
  PROVE  RemoveAt(s, i) \in Seq(S) /\ Len(RemoveAt(s, i)) = Len(s) - 1
  <1>1. i \in 1 .. Len(s) /\ Len(s) \in Nat
    OBVIOUS
  <1>2. /\ SubSeq(s, 1, i - 1) \in Seq(S) /\ Len(SubSeq(s, 1, i - 1)) = i - 1
        /\ SubSeq(s, i + 1, Len(s)) \in Seq(S) /\ Len(SubSeq(s, i + 1, Len(s))) = Len(s) - i
    BY <1>1
  <1>3. \A u, v \in Seq(S) : u \o v \in Seq(S) /\ Len(u \o v) = Len(u) + Len(v)
    OBVIOUS
  <1>4. RemoveAt(s, i) = SubSeq(s, 1, i - 1) \o SubSeq(s, i + 1, Len(s))
    BY Zenon DEF RemoveAt
  <1>5. RemoveAt(s, i) \in Seq(S) /\ Len(RemoveAt(s, i)) = (i - 1) + (Len(s) - i)
    BY <1>2, <1>3, <1>4
  <1> QED BY <1>1, <1>5

=============================================================================
