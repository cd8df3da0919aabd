-------------------------- MODULE SeatLockerProofs --------------------------
(***************************************************************************)
(* Proofs about SeatLocker, for any number of seats, bookings, tokens and  *)
(* pods.                                                                   *)
(***************************************************************************)
EXTENDS SeatLocker, TLAPS

USE SeatOfAssumption, CronPodsAssumption, EnvAssumption, MaxFaultsAssumption,
    NoValueAssumption

(***************************************************************************)
(* The rows that statements write.                                         *)
(***************************************************************************)

\* LockedWith and Unlocked build rows.
LEMMA RowValues ==
  /\ \A t \in Tokens : /\ LockedWith(t) \in Rows
                       /\ LockedWith(t).status = "LOCKED"
                       /\ LockedWith(t).token = t
                       /\ LockedWith(t).expired = FALSE
  /\ \A st \in {"MISSING", "AVAILABLE", "BOOKED"} :
        /\ Unlocked(st) \in Rows
        /\ Unlocked(st).status = st
        /\ Unlocked(st).token = NoToken
        /\ Unlocked(st).expired = FALSE
  BY DEF LockedWith, Unlocked, Rows

\* A seat becomes LOCKED with a token, and has no booker then.
LEMMA SetLocked ==
  ASSUME RowTypeOK, NEW s \in Seats, NEW t \in Tokens, row[s].status # "BOOKED",
         SetRow(s, LockedWith(t)), UNCHANGED bookedBy
  PROVE  RowTypeOK'
  BY RowValues DEF RowTypeOK, SetRow, RowWellFormed

\* confirm's UPDATE.
LEMMA SetBooked ==
  ASSUME RowTypeOK, NEW s \in Seats, NEW t \in Tokens, BookRow(s, t)
  PROVE  RowTypeOK'
  <1>1. Unlocked("BOOKED") \in Rows /\ Unlocked("BOOKED").status = "BOOKED"
        /\ Unlocked("BOOKED").token = NoToken /\ Unlocked("BOOKED").expired = FALSE
    BY RowValues
  <1> QED BY <1>1 DEF RowTypeOK, BookRow, SetRow, RowWellFormed

\* release's UPDATE.
LEMMA SetFree ==
  ASSUME RowTypeOK, NEW s \in Seats, NEW t \in Tokens, FreeRowOf(s, t), UNCHANGED bookedBy
  PROVE  RowTypeOK'
  <1>1. Unlocked("AVAILABLE") \in Rows /\ Unlocked("AVAILABLE").status = "AVAILABLE"
        /\ Unlocked("AVAILABLE").token = NoToken /\ Unlocked("AVAILABLE").expired = FALSE
    BY RowValues
  <1> QED BY <1>1 DEF RowTypeOK, FreeRowOf, RowWellFormed

\* The updates of the cron job, of a removal and of a reset.
LEMMA SetMany ==
  ASSUME RowTypeOK, NEW S \in SUBSET Seats, NEW st \in {"AVAILABLE", "MISSING"},
         SetRows(S, st)
  PROVE  RowTypeOK'
  <1>1. Unlocked(st) \in Rows /\ Unlocked(st).status = st
        /\ Unlocked(st).token = NoToken /\ Unlocked(st).expired = FALSE
    BY RowValues
  <1> QED BY <1>1 DEF RowTypeOK, SetRows, RowWellFormed

\* A pod's call goes on to another statement.
LEMMA CallSteps ==
  ASSUME CallTypeOK, NEW p \in Pods, UNCHANGED issued,
         \/ call[p].pc # "idle" /\ \E pc \in {"update", "find", "insert", "undo",
                             "undoThrow", "relRow", "confKey"} : Goto(p, pc)
         \/ call[p].pc # "idle" /\ \E ok \in BOOLEAN : Answer(p, ok)
         \/ Throw(p)
  PROVE  CallTypeOK'
  <1> USE DEF CallTypeOK, CallWellFormed
  <1>1. ASSUME call[p].pc # "idle",
               NEW pc \in {"update", "find", "insert", "undo", "undoThrow", "relRow", "confKey"},
               Goto(p, pc)
        PROVE  CallTypeOK'
    BY <1>1 DEF Goto, Calls
  <1>2. ASSUME call[p].pc # "idle", NEW ok \in BOOLEAN, Answer(p, ok)
        PROVE  CallTypeOK'
    <2> DEFINE c == [call[p] EXCEPT !.pc = "reply", !.ok = ok]
    <2>1. call[p] \in Calls
      OBVIOUS
    <2>2. c \in Calls /\ c.pc = "reply" /\ c.b = call[p].b /\ c.t = call[p].t
      BY <2>1, <1>2 DEF Calls
    <2>3. call' = [call EXCEPT ![p] = c]
      BY <1>2 DEF Answer
    <2> HIDE DEF c
    <2> QED BY <1>2, <2>2, <2>3
  <1>3. CASE Throw(p)
    BY <1>3 DEF Throw, Idle, Calls
  <1> QED BY <1>1, <1>2, <1>3

(***************************************************************************)
(* Type correctness, one lemma for each group of actions.                  *)
(***************************************************************************)

LEMMA LockerInitType == LockerInit => LockerTypeOK
  <1> SUFFICES ASSUME LockerInit PROVE LockerTypeOK
    OBVIOUS
  <1>1. RowTypeOK
    <2>1. /\ Unlocked("AVAILABLE") \in Rows /\ Unlocked("MISSING") \in Rows
          /\ Unlocked("AVAILABLE").status = "AVAILABLE" /\ Unlocked("MISSING").status = "MISSING"
          /\ Unlocked("AVAILABLE").token = NoToken /\ Unlocked("MISSING").token = NoToken
          /\ Unlocked("AVAILABLE").expired = FALSE /\ Unlocked("MISSING").expired = FALSE
      BY RowValues
    <2> QED BY <2>1 DEF LockerInit, RowTypeOK, RowWellFormed
  <1>2. CallTypeOK
    BY DEF LockerInit, CallTypeOK, Idle, Calls, CallWellFormed
  <1>3. admin \in [pc : {"idle", "addSave", "delRow", "resetKeys"}, seats : SUBSET Seats]
    BY DEF LockerInit, AdminIdle
  <1>4. faults \in 0..MaxFaults
    BY DEF LockerInit
  <1> QED BY <1>1, <1>2, <1>3, <1>4 DEF LockerInit, LockerTypeOK

\* A Kafka handler starts lock with a new token, or release and confirm with
\* the token of its booking.
LEMMA StartType ==
  ASSUME LockerTypeOK, NEW p \in Pods, NEW b \in Bookings, NEW t \in Tokens,
         \/ StartLock(p, b, t)
         \/ issued[t] = b /\ (StartRelease(p, b, t) \/ StartConfirm(p, b, t))
  PROVE  LockerTypeOK'
  <1> USE DEF LockerTypeOK, RowTypeOK, CallTypeOK, RowWellFormed, CallWellFormed
  <1>1. CASE StartLock(p, b, t)
    <2>1. call' \in [Pods -> Calls]
      BY <1>1 DEF StartLock, Calls
    <2>2. ASSUME NEW q \in Pods PROVE CallWellFormed(q)'
      BY <1>1 DEF StartLock, At, Calls
    <2>3. granted' \subseteq {u \in Tokens : issued'[u] \in Bookings}
      BY <1>1 DEF StartLock
    <2> QED BY <1>1, <2>1, <2>2, <2>3 DEF StartLock
  <1>2. CASE issued[t] = b /\ (StartRelease(p, b, t) \/ StartConfirm(p, b, t))
    <2>0. /\ [op |-> "release", pc |-> "relKey", b |-> b, t |-> t, ok |-> FALSE] \in Calls
          /\ [op |-> "confirm", pc |-> "confRow", b |-> b, t |-> t, ok |-> FALSE] \in Calls
      BY DEF Calls
    <2>1. call' \in [Pods -> Calls]
      BY <1>2, <2>0 DEF StartRelease, StartConfirm
    <2>2. ASSUME NEW q \in Pods PROVE CallWellFormed(q)'
      BY <1>2 DEF StartRelease, StartConfirm
    <2> QED BY <1>2, <2>1, <2>2 DEF StartRelease, StartConfirm
  <1> QED BY <1>1, <1>2

\* The seat a handler works on.
LEMMA SeatOfCall ==
  ASSUME LockerTypeOK, NEW p \in Pods, call[p].pc # "idle"
  PROVE  SeatAt(p) \in Seats /\ call[p].t \in Tokens
  BY DEF LockerTypeOK, CallTypeOK, CallWellFormed, SeatAt

LEMMA HandlerType ==
  ASSUME LockerTypeOK, NEW p \in Pods, HandlerStep(p)
  PROVE  LockerTypeOK'
  <1>0. /\ call[p].pc # "idle"
        /\ SeatAt(p) \in Seats /\ call[p].t \in Tokens
    BY SeatOfCall DEF HandlerStep, At, LockSetNX, LockUpdate, LockFind, LockInsert, LockUndo,
                      ReleaseKey, ReleaseRow, ConfirmRow, ConfirmKey
  <1>1. /\ UNCHANGED <<cron, admin, issued, granted, faults>>
        /\ redis' \in [Seats -> Tokens \cup {NoToken}]
    BY <1>0 DEF HandlerStep, LockSetNX, LockUpdate, LockFind, LockInsert, LockUndo, ReleaseKey,
            ReleaseRow, ConfirmRow, ConfirmKey, TakeKey, DropKey, DeleteKey, LockerTypeOK
  <1>2. CallTypeOK'
    BY <1>0, <1>1, CallSteps
       DEF HandlerStep, LockSetNX, LockUpdate, LockFind, LockInsert, LockUndo, ReleaseKey,
           ReleaseRow, ConfirmRow, ConfirmKey, LockerTypeOK
  <1>3. RowTypeOK'
    <2>1. ASSUME row[SeatAt(p)].status \in {"AVAILABLE", "MISSING"},
                 SetRow(SeatAt(p), LockedWith(call[p].t)), UNCHANGED bookedBy
          PROVE  RowTypeOK'
      BY <1>0, <2>1, SetLocked DEF LockerTypeOK
    <2>2. ASSUME UNCHANGED <<row, bookedBy>>
          PROVE  RowTypeOK'
      BY <2>2 DEF LockerTypeOK, RowTypeOK, RowWellFormed
    <2>3. CASE LockUpdate(p) \/ LockInsert(p)
      BY <2>1, <2>2, <2>3 DEF LockUpdate, LockInsert
    <2>4. CASE LockSetNX(p) \/ LockFind(p) \/ LockUndo(p) \/ ReleaseKey(p) \/ ConfirmKey(p)
      BY <2>2, <2>4 DEF LockSetNX, LockFind, LockUndo, ReleaseKey, ConfirmKey
    <2>5. CASE ReleaseRow(p)
      BY <1>0, <2>5, SetFree DEF ReleaseRow, LockerTypeOK
    <2>6. CASE ConfirmRow(p)
      BY <1>0, <2>2, <2>6, SetBooked DEF ConfirmRow, LockerTypeOK
    <2> QED BY <2>3, <2>4, <2>5, <2>6 DEF HandlerStep
  <1> QED BY <1>1, <1>2, <1>3 DEF LockerTypeOK

LEMMA ReplyType ==
  ASSUME LockerTypeOK, NEW p \in Pods, Reply(p)
  PROVE  LockerTypeOK'
  <1>1. call[p].t \in Tokens /\ issued[call[p].t] \in Bookings
    BY DEF Reply, At, LockerTypeOK, CallTypeOK, CallWellFormed
  <1>2. CallTypeOK'
    BY CallSteps DEF Reply, Throw, LockerTypeOK
  <1>3. RowTypeOK'
    BY DEF Reply, LockerTypeOK, RowTypeOK, RowWellFormed
  <1> QED BY <1>1, <1>2, <1>3 DEF Reply, LockerTypeOK

LEMMA CronType ==
  ASSUME LockerTypeOK, NEW p \in Pods, CronStep(p)
  PROVE  LockerTypeOK'
  <1>1. CallTypeOK'
    BY DEF CronStep, CronRead, CronFree, LockerTypeOK, CallTypeOK, CallWellFormed
  <1>2. RowTypeOK'
    <2>1. CASE CronRead(p)
      BY <2>1 DEF CronRead, LockerTypeOK, RowTypeOK, RowWellFormed
    <2>2. ASSUME NEW s \in Seats, CronFree(p, s)
          PROVE  RowTypeOK'
      BY <2>2, SetMany DEF CronFree, LockerTypeOK
    <2> QED BY <2>1, <2>2 DEF CronStep
  <1>3. cron' \in [Pods -> SUBSET Seats]
    <2>1. ExpiredSeats \subseteq Seats
      BY DEF ExpiredSeats
    <2>2. CASE CronRead(p)
      BY <2>1, <2>2 DEF CronRead, LockerTypeOK
    <2>3. ASSUME NEW s \in Seats, CronFree(p, s)
          PROVE  cron' \in [Pods -> SUBSET Seats]
      BY <2>3 DEF CronFree, LockerTypeOK
    <2> QED BY <2>2, <2>3 DEF CronStep
  <1> QED BY <1>1, <1>2, <1>3 DEF CronStep, CronRead, CronFree, LockerTypeOK

\* What a request of the administrator keeps: the calls, and nothing but rows,
\* lock keys, cron runs and the request itself may change.
LEMMA AdminType ==
  ASSUME LockerTypeOK, AdminStep
  PROVE  LockerTypeOK'
  <1> DEFINE Admins == [pc : {"idle", "addSave", "delRow", "resetKeys"}, seats : SUBSET Seats]
  <1>1. ASSUME RowTypeOK', redis' \in [Seats -> Tokens \cup {NoToken}],
               cron' \in [Pods -> SUBSET Seats], admin' \in Admins,
               UNCHANGED <<call, issued, granted, faults>>
        PROVE  LockerTypeOK'
    BY <1>1 DEF LockerTypeOK, CallTypeOK, CallWellFormed
  <1>2. ASSUME UNCHANGED <<row, bookedBy>>
        PROVE  RowTypeOK'
    BY <1>2 DEF LockerTypeOK, RowTypeOK, RowWellFormed
  <1>3. AdminIdle \in Admins
    BY DEF AdminIdle
  <1>4. ASSUME NEW s \in Seats, AddFind(s) \/ RemoveFind(s)
        PROVE  LockerTypeOK'
    BY <1>1, <1>2, <1>4 DEF AddFind, RemoveFind, LockerTypeOK
  <1>5. ASSUME NEW s \in Seats, AddSave(s)
        PROVE  LockerTypeOK'
    <2>1. CASE row[s].status = "MISSING"
      <3>1. /\ Unlocked("AVAILABLE") \in Rows /\ Unlocked("AVAILABLE").status = "AVAILABLE"
            /\ Unlocked("AVAILABLE").token = NoToken /\ Unlocked("AVAILABLE").expired = FALSE
        BY RowValues
      <3>2. RowTypeOK'
        BY <1>5, <2>1, <3>1 DEF AddSave, SetRow, LockerTypeOK, RowTypeOK, RowWellFormed
      <3> QED BY <1>1, <1>3, <1>5, <3>2 DEF AddSave, LockerTypeOK
    <2>2. CASE row[s].status # "MISSING"
      BY <1>1, <1>2, <1>3, <1>5, <2>2 DEF AddSave, LockerTypeOK
    <2> QED BY <2>1, <2>2
  <1>6. ASSUME NEW s \in Seats, RemoveDelete(s)
        PROVE  LockerTypeOK'
    <2>1. RowTypeOK'
      BY <1>6, SetMany DEF RemoveDelete, LockerTypeOK
    <2>2. cron' \in [Pods -> SUBSET Seats]
      BY <1>6 DEF RemoveDelete, LockerTypeOK
    <2> QED BY <1>1, <1>3, <1>6, <2>1, <2>2 DEF RemoveDelete, LockerTypeOK
  <1>7. ASSUME NEW scope \in ResetScopes, ResetRows(scope)
        PROVE  LockerTypeOK'
    <2>1. scope \in SUBSET Seats
      BY DEF ResetScopes
    <2>2. RowTypeOK'
      BY <1>7, <2>1, SetMany DEF ResetRows, LockerTypeOK
    <2> QED BY <1>1, <1>7, <2>1, <2>2 DEF ResetRows, LockerTypeOK
  <1>8. ASSUME NEW s \in Seats, ResetKey(s)
        PROVE  LockerTypeOK'
    <2>1. redis' \in [Seats -> Tokens \cup {NoToken}]
      BY <1>8 DEF ResetKey, DeleteKey, LockerTypeOK
    <2>2. admin' \in Admins
      BY <1>3, <1>8 DEF ResetKey, LockerTypeOK
    <2>3. RowTypeOK'
      BY <1>2, <1>8 DEF ResetKey
    <2> HIDE DEF Admins
    <2> QED BY <1>1, <1>8, <2>1, <2>2, <2>3 DEF ResetKey, LockerTypeOK
  <1> QED BY <1>4, <1>5, <1>6, <1>7, <1>8 DEF AdminStep

LEMMA ExpiryType ==
  ASSUME LockerTypeOK, NEW s \in Seats, RowExpires(s) \/ KeyExpires(s)
  PROVE  LockerTypeOK'
  <1>1. CASE RowExpires(s)
    <2> DEFINE r == [row[s] EXCEPT !.expired = TRUE]
    <2>1. /\ r \in Rows /\ r.status = row[s].status /\ r.token = row[s].token
          /\ row' = [row EXCEPT ![s] = r]
      BY <1>1 DEF RowExpires, LockerTypeOK, RowTypeOK, Rows
    <2>2. row[s].status = "LOCKED" /\ UNCHANGED bookedBy
      BY <1>1 DEF RowExpires
    <2>3. RowTypeOK'
      <3> HIDE DEF r
      <3> QED BY <2>1, <2>2 DEF LockerTypeOK, RowTypeOK, RowWellFormed
    <2>4. CallTypeOK'
      BY <1>1 DEF RowExpires, LockerTypeOK, CallTypeOK, CallWellFormed
    <2>5. UNCHANGED <<redis, cron, admin, issued, granted, faults>>
      BY <1>1 DEF RowExpires
    <2> QED BY <2>3, <2>4, <2>5 DEF LockerTypeOK
  <1>2. CASE KeyExpires(s)
    BY <1>2 DEF KeyExpires, DeleteKey, LockerTypeOK, RowTypeOK, RowWellFormed, CallTypeOK,
                CallWellFormed
  <1> QED BY <1>1, <1>2

LEMMA FaultType ==
  ASSUME LockerTypeOK, NEW kind, Fault(kind)
  PROVE  faults' \in 0..MaxFaults
  BY DEF Fault, LockerTypeOK

LEMMA CrashType ==
  ASSUME LockerTypeOK, NEW p \in Pods, PodCrash(p)
  PROVE  LockerTypeOK'
  <1>1. CallTypeOK'
    BY CallSteps DEF PodCrash, Throw, LockerTypeOK
  <1>2. RowTypeOK'
    BY DEF PodCrash, LockerTypeOK, RowTypeOK, RowWellFormed
  <1> QED BY <1>1, <1>2, FaultType DEF PodCrash, LockerTypeOK

LEMMA RejectType ==
  ASSUME LockerTypeOK, NEW p \in Pods, CallRejects(p)
  PROVE  LockerTypeOK'
  <1>0. /\ call[p].pc # "idle"
        /\ SeatAt(p) \in Seats /\ call[p].t \in Tokens
    BY SeatOfCall DEF CallRejects, Rejected, At
  <1>1. CallTypeOK'
    BY <1>0, CallSteps DEF CallRejects, Rejected, LockerTypeOK
  <1>2. redis' \in [Seats -> Tokens \cup {NoToken}]
    BY <1>0 DEF CallRejects, LateEffect, TakeKey, LockerTypeOK
  <1>3. RowTypeOK'
    <2>1. ASSUME UNCHANGED <<row, bookedBy>>
          PROVE  RowTypeOK'
      BY <2>1 DEF LockerTypeOK, RowTypeOK, RowWellFormed
    <2>2. ASSUME row[SeatAt(p)].status \in {"AVAILABLE", "MISSING"},
                 SetRow(SeatAt(p), LockedWith(call[p].t)), UNCHANGED bookedBy
          PROVE  RowTypeOK'
      BY <1>0, <2>2, SetLocked DEF LockerTypeOK
    <2>3. ASSUME FreeRowOf(SeatAt(p), call[p].t), UNCHANGED bookedBy
          PROVE  RowTypeOK'
      BY <1>0, <2>3, SetFree DEF LockerTypeOK
    <2>4. ASSUME BookRow(SeatAt(p), call[p].t)
          PROVE  RowTypeOK'
      BY <1>0, <2>4, SetBooked DEF LockerTypeOK
    <2> QED BY <2>1, <2>2, <2>3, <2>4 DEF CallRejects, LateEffect
  <1> QED BY <1>1, <1>2, <1>3, FaultType DEF CallRejects, LockerTypeOK

LEMMA LockerStutterType ==
  ASSUME LockerTypeOK, UNCHANGED lockerVars
  PROVE  LockerTypeOK'
  BY DEF lockerVars, LockerTypeOK, RowTypeOK, RowWellFormed, CallTypeOK, CallWellFormed

LEMMA LockerNextType ==
  ASSUME LockerTypeOK, [LockerNext]_lockerVars
  PROVE  LockerTypeOK'
  <1>1. ASSUME NEW p \in Pods, ClientStep(p)
        PROVE  LockerTypeOK'
    <2>1. ASSUME NEW t \in granted, StartRelease(p, issued[t], t) \/ StartConfirm(p, issued[t], t)
          PROVE  LockerTypeOK'
      <3>1. t \in Tokens /\ issued[t] \in Bookings
        BY DEF LockerTypeOK
      <3> QED BY <2>1, <3>1, StartType
    <2> QED BY <1>1, <2>1, StartType DEF ClientStep
  <1>2. ASSUME NEW p \in CronPods, CronStep(p)
        PROVE  LockerTypeOK'
    BY <1>2, CronType
  <1> QED BY <1>1, <1>2, HandlerType, ReplyType, AdminType, ExpiryType, CrashType, RejectType,
             LockerStutterType DEF LockerNext

\* The type invariant of the seat lock service: a row has a token exactly while
\* it is LOCKED, a booker exactly while it is BOOKED, and a handler only works
\* with a token that was generated for its booking.
THEOREM LockerTyping == LockerSpec => []LockerTypeOK
  BY LockerInitType, LockerNextType, PTL DEF LockerSpec

(***************************************************************************)
(* Who may change a row. The premise leaves out what takes a row away from *)
(* its lock without looking: the cron job's UPDATE by id, a removal and a  *)
(* reset. Handlers, crashes, expiries and rejected calls may be any.       *)
(***************************************************************************)
NoCleanup == CronPods = {} /\ Env \cap {"remove", "reset"} = {}

\* A statement of p's handler, or one that rejected but took effect, leaves a
\* BOOKED row alone and touches a LOCKED one only with its token.
RowRespected(p) ==
  \A s \in Seats :
     /\ row[s].status = "BOOKED" => row'[s].status = "BOOKED"
     /\ row[s].status = "LOCKED" /\ row'[s].token # row[s].token
          => call[p].op \in {"release", "confirm"} /\ call[p].t = row[s].token

\* The statement a handler is at tells the function it is in.
CallInOrder ==
  \A p \in Pods :
     /\ call[p].pc \in {"setnx", "update", "find", "insert", "undo", "undoThrow"}
          => call[p].op = "lock"
     /\ call[p].pc \in {"relKey", "relRow"} => call[p].op = "release"
     /\ call[p].pc \in {"confRow", "confKey"} => call[p].op = "confirm"

LEMMA CallInOrderStep ==
  ASSUME LockerTypeOK, CallInOrder, LockerNext
  PROVE  CallInOrder'
  <1>0. call \in [Pods -> Calls]
    BY DEF LockerTypeOK, CallTypeOK
  <1>1. ASSUME UNCHANGED call
        PROVE  CallInOrder'
    BY <1>1 DEF CallInOrder
  <1>2. ASSUME NEW p \in Pods, HandlerStep(p) \/ CallRejects(p)
        PROVE  CallInOrder'
    <2>1. ASSUME NEW pc, Goto(p, pc),
                 \/ pc \in {"update", "find", "insert", "undo", "undoThrow"} /\ call[p].op = "lock"
                 \/ pc = "relRow" /\ call[p].op = "release"
                 \/ pc = "confKey" /\ call[p].op = "confirm"
          PROVE  CallInOrder'
      BY <1>0, <2>1 DEF CallInOrder, Goto, Calls
    <2>2. ASSUME NEW ok \in BOOLEAN, Answer(p, ok)
          PROVE  CallInOrder'
      BY <1>0, <2>2 DEF CallInOrder, Answer, Calls
    <2>3. ASSUME Throw(p)
          PROVE  CallInOrder'
      BY <1>0, <2>3 DEF CallInOrder, Throw, Idle, Calls
    <2>4. CASE HandlerStep(p)
      BY <2>1, <2>2, <2>3, <2>4
         DEF HandlerStep, LockSetNX, LockUpdate, LockFind, LockInsert, LockUndo, ReleaseKey,
             ReleaseRow, ConfirmRow, ConfirmKey, At, CallInOrder
    <2>5. CASE CallRejects(p)
      BY <2>1, <2>2, <2>3, <2>5 DEF CallRejects, Rejected, At, CallInOrder
    <2> QED BY <1>2, <2>4, <2>5
  <1>3. ASSUME NEW p \in Pods, NEW c, call' = [call EXCEPT ![p] = c],
               \/ c = Idle
               \/ c.op = "lock" /\ c.pc = "setnx"
               \/ c.op = "release" /\ c.pc = "relKey"
               \/ c.op = "confirm" /\ c.pc = "confRow"
        PROVE  CallInOrder'
    BY <1>0, <1>3 DEF CallInOrder, Idle
  <1>4. ASSUME NEW p \in Pods, ClientStep(p)
        PROVE  CallInOrder'
    BY <1>3, <1>4 DEF ClientStep, StartLock, StartRelease, StartConfirm
  <1>5. ASSUME NEW p \in Pods, Reply(p) \/ PodCrash(p)
        PROVE  CallInOrder'
    BY <1>3, <1>5 DEF Reply, PodCrash
  <1>6. CASE AdminStep
    BY <1>1, <1>6 DEF AdminStep, AddFind, AddSave, RemoveFind, RemoveDelete, ResetRows, ResetKey
  <1>7. ASSUME NEW s \in Seats, RowExpires(s) \/ KeyExpires(s)
        PROVE  CallInOrder'
    BY <1>1, <1>7 DEF RowExpires, KeyExpires
  <1>8. ASSUME NEW p \in CronPods, CronStep(p)
        PROVE  CallInOrder'
    BY <1>1, <1>8 DEF CronStep, CronRead, CronFree
  <1> QED BY <1>1, <1>2, <1>4, <1>5, <1>6, <1>7, <1>8 DEF LockerNext, lockerVars

LEMMA CallsInOrder == LockerSpec => []CallInOrder
  <1>1. LockerInit => CallInOrder
    BY DEF LockerInit, CallInOrder, Idle
  <1>2. LockerTypeOK /\ CallInOrder /\ [LockerNext]_lockerVars => CallInOrder'
    BY CallInOrderStep DEF lockerVars, CallInOrder
  <1> QED BY <1>1, <1>2, LockerTyping, PTL DEF LockerSpec

LEMMA WritesRespect ==
  ASSUME LockerTypeOK, CallInOrder, NEW p \in Pods, HandlerStep(p) \/ CallRejects(p)
  PROVE  RowRespected(p)
  <1>0. /\ call[p].pc # "idle"
        /\ SeatAt(p) \in Seats /\ call[p].t \in Tokens
    BY SeatOfCall DEF HandlerStep, At, LockSetNX, LockUpdate, LockFind, LockInsert, LockUndo,
                      ReleaseKey, ReleaseRow, ConfirmRow, ConfirmKey, CallRejects, Rejected
  <1>1. row \in [Seats -> Rows] /\ \A s \in Seats : RowWellFormed(s)
    BY DEF LockerTypeOK, RowTypeOK
  <1>2. ASSUME UNCHANGED row
        PROVE  RowRespected(p)
    BY <1>2 DEF RowRespected
  <1>3. ASSUME row[SeatAt(p)].status \in {"AVAILABLE", "MISSING"},
               SetRow(SeatAt(p), LockedWith(call[p].t))
        PROVE  RowRespected(p)
    BY <1>0, <1>1, <1>3 DEF RowRespected, SetRow
  <1>4. ASSUME At(p, "relRow"), FreeRowOf(SeatAt(p), call[p].t)
        PROVE  RowRespected(p)
    <2>1. call[p].op = "release"
      BY <1>4 DEF At, CallInOrder
    <2>2. row[SeatAt(p)].token = call[p].t => row[SeatAt(p)].status = "LOCKED"
      BY <1>0, <1>1 DEF RowWellFormed
    <2> QED BY <1>0, <1>1, <1>4, <2>1, <2>2 DEF RowRespected, FreeRowOf
  <1>5. ASSUME At(p, "confRow"), Confirmable(SeatAt(p), call[p].t), BookRow(SeatAt(p), call[p].t)
        PROVE  RowRespected(p)
    <2>1. call[p].op = "confirm"
      BY <1>5 DEF At, CallInOrder
    <2> QED BY <1>0, <1>1, <1>5, <2>1 DEF RowRespected, BookRow, SetRow, Confirmable
  <1>6. CASE HandlerStep(p)
    BY <1>2, <1>3, <1>4, <1>5, <1>6
       DEF HandlerStep, LockSetNX, LockUpdate, LockFind, LockInsert, LockUndo, ReleaseKey,
           ReleaseRow, ConfirmRow, ConfirmKey, At
  <1>7. CASE CallRejects(p)
    BY <1>2, <1>3, <1>4, <1>5, <1>7 DEF CallRejects, LateEffect, At
  <1> QED BY <1>6, <1>7

\* A removal is under way only if the administrator may ask for one.
AdminAsked == admin.pc = "delRow" => "remove" \in Env

LEMMA AdminAskedStep ==
  ASSUME LockerTypeOK, AdminAsked, LockerNext
  PROVE  AdminAsked'
  <1>1. CASE AdminStep
    <2>1. ASSUME NEW s \in Seats, AddFind(s) \/ AddSave(s) \/ RemoveFind(s) \/ RemoveDelete(s)
          PROVE  AdminAsked'
      BY <2>1 DEF AddFind, AddSave, RemoveFind, RemoveDelete, AdminIdle, AdminAsked
    <2>2. ASSUME NEW scope \in ResetScopes, ResetRows(scope)
          PROVE  AdminAsked'
      BY <2>2 DEF ResetRows, AdminAsked
    <2>3. ASSUME NEW s \in Seats, ResetKey(s)
          PROVE  AdminAsked'
      BY <2>3 DEF ResetKey, AdminIdle, AdminAsked, LockerTypeOK
    <2> QED BY <1>1, <2>1, <2>2, <2>3 DEF AdminStep
  <1>2. CASE UNCHANGED admin
    BY <1>2 DEF AdminAsked
  <1>3. CASE \E p \in Pods : ClientStep(p) \/ HandlerStep(p) \/ Reply(p) \/ PodCrash(p)
                             \/ CallRejects(p)
    <2>1. UNCHANGED admin
      BY <1>3 DEF ClientStep, StartLock, StartRelease, StartConfirm, HandlerStep, LockSetNX,
                  LockUpdate, LockFind, LockInsert, LockUndo, ReleaseKey, ReleaseRow,
                  ConfirmRow, ConfirmKey, Reply, PodCrash, CallRejects
    <2> QED BY <1>2, <2>1
  <1>4. CASE \E p \in CronPods : CronStep(p)
    BY <1>2, <1>4 DEF CronStep, CronRead, CronFree
  <1>5. CASE \E s \in Seats : RowExpires(s) \/ KeyExpires(s)
    BY <1>2, <1>5 DEF RowExpires, KeyExpires
  <1> QED BY <1>1, <1>2, <1>3, <1>4, <1>5 DEF LockerNext, lockerVars

LEMMA AdminsAsk == LockerSpec => []AdminAsked
  <1>1. LockerInit => AdminAsked
    BY DEF LockerInit, AdminIdle, AdminAsked
  <1>2. LockerTypeOK /\ AdminAsked /\ [LockerNext]_lockerVars => AdminAsked'
    BY AdminAskedStep DEF lockerVars, AdminAsked
  <1> QED BY <1>1, <1>2, LockerTyping, PTL DEF LockerSpec

\* Every other step leaves the LOCKED and BOOKED rows what they are.
LEMMA OthersRespect ==
  ASSUME NoCleanup, LockerTypeOK, AdminAsked, LockerNext,
         ~ \E p \in Pods : HandlerStep(p) \/ CallRejects(p), NEW s \in Seats
  PROVE  /\ row[s].status = "BOOKED" => row'[s].status = "BOOKED"
         /\ row[s].status = "LOCKED" => row'[s].token = row[s].token
  <1>0. row \in [Seats -> Rows]
    BY DEF LockerTypeOK, RowTypeOK
  <1>1. CASE \E p \in Pods : ClientStep(p) \/ Reply(p) \/ PodCrash(p)
    BY <1>1 DEF ClientStep, StartLock, StartRelease, StartConfirm, Reply, PodCrash
  <1>2. CASE AdminStep
    <2>1. ASSUME NEW u \in Seats, AddSave(u)
          PROVE  /\ row[s].status = "BOOKED" => row'[s].status = "BOOKED"
                 /\ row[s].status = "LOCKED" => row'[s].token = row[s].token
      BY <1>0, <2>1 DEF AddSave, SetRow
    <2>2. ASSUME NEW u \in Seats, RemoveDelete(u)
          PROVE  FALSE
      BY <2>2 DEF RemoveDelete, AdminAsked, NoCleanup
    <2> QED BY <1>2, <2>1, <2>2 DEF AdminStep, AddFind, RemoveFind, ResetRows, ResetKey, NoCleanup
  <1>3. ASSUME NEW u \in Seats, RowExpires(u) \/ KeyExpires(u)
        PROVE  /\ row[s].status = "BOOKED" => row'[s].status = "BOOKED"
               /\ row[s].status = "LOCKED" => row'[s].token = row[s].token
    BY <1>0, <1>3 DEF RowExpires, KeyExpires, Rows
  <1> QED BY <1>1, <1>2, <1>3 DEF LockerNext, NoCleanup

LEMMA RowsRespected ==
  ASSUME NoCleanup, LockerTypeOK, CallInOrder, AdminAsked, LockerNext, NEW s \in Seats
  PROVE  /\ row[s].status = "BOOKED" => row'[s].status = "BOOKED"
         /\ row[s].status = "LOCKED" /\ row'[s].token # row[s].token
              => \E p \in Pods : /\ call[p].op \in {"release", "confirm"}
                                /\ call[p].t = row[s].token
  <1>1. CASE \E p \in Pods : HandlerStep(p) \/ CallRejects(p)
    BY <1>1, WritesRespect DEF RowRespected
  <1>2. CASE ~ \E p \in Pods : HandlerStep(p) \/ CallRejects(p)
    BY <1>2, OthersRespect
  <1> QED BY <1>1, <1>2

\* Without the clean-up paths a lock, expired or not, ends only by the release or
\* the confirm that carries its token: however many pods race, crash and retry,
\* the SETNX, the conditional UPDATE and the insert never take a seat twice.
THEOREM LocksAreNotStolen ==
  ASSUME NoCleanup
  PROVE  LockerSpec => LockNotStolen
  <1>1. LockerTypeOK /\ CallInOrder /\ AdminAsked /\ [LockerNext]_lockerVars
          => [\A s \in Seats :
                row[s].status = "LOCKED" /\ ~row[s].expired /\ row'[s].token # row[s].token
                  => \E p \in Pods : /\ call[p].op \in {"release", "confirm"}
                                    /\ call[p].t = row[s].token]_lockerVars
    BY RowsRespected
  <1> QED BY <1>1, LockerTyping, CallsInOrder, AdminsAsk, PTL DEF LockerSpec, LockNotStolen

\* "Confirm lock -> BOOKED vinh vien": without the clean-up paths no step takes a
\* seat out of BOOKED.
THEOREM BookedIsForever ==
  ASSUME NoCleanup
  PROVE  LockerSpec => BookedForever
  <1>1. LockerTypeOK /\ CallInOrder /\ AdminAsked /\ [LockerNext]_lockerVars
          => [\A s \in Seats : row[s].status = "BOOKED" => row'[s].status = "BOOKED"]_lockerVars
    BY RowsRespected
  <1> QED BY <1>1, LockerTyping, CallsInOrder, AdminsAsk, PTL DEF LockerSpec, BookedForever

(***************************************************************************)
(* Spent tokens, whatever the environment does: cron jobs, removals and    *)
(* resets included.                                                        *)
(***************************************************************************)
Writing == {"setnx", "update", "find", "insert"}

\* No row gets a token that no row holds and no lock call is still to write.
LEMMA RowsStaySpent ==
  ASSUME LockerTypeOK, LockerNext, NEW t \in Tokens, Spent(t), NEW s \in Seats
  PROVE  row'[s].token # t
  <1>0. /\ row \in [Seats -> Rows]
        /\ row[s].token # t
        /\ t # NoToken
        /\ \A p \in Pods : call[p].t = t => call[p].pc \notin Writing
    BY DEF LockerTypeOK, RowTypeOK, Spent, Writing
  <1>1. \A st \in {"MISSING", "AVAILABLE", "BOOKED"} : Unlocked(st).token = NoToken
    BY RowValues
  <1>2. ASSUME UNCHANGED row
        PROVE  row'[s].token # t
    BY <1>0, <1>2
  <1>3. ASSUME NEW p \in Pods, HandlerStep(p) \/ CallRejects(p)
        PROVE  row'[s].token # t
    <2>0. /\ call[p].pc # "idle"
          /\ SeatAt(p) \in Seats /\ call[p].t \in Tokens
      BY <1>3, SeatOfCall
         DEF HandlerStep, At, LockSetNX, LockUpdate, LockFind, LockInsert, LockUndo, ReleaseKey,
             ReleaseRow, ConfirmRow, ConfirmKey, CallRejects, Rejected
    <2>1. ASSUME call[p].pc \in {"update", "insert"}, SetRow(SeatAt(p), LockedWith(call[p].t))
          PROVE  row'[s].token # t
      BY <1>0, <2>0, <2>1, RowValues DEF SetRow, Writing
    <2>2. ASSUME FreeRowOf(SeatAt(p), call[p].t) \/ BookRow(SeatAt(p), call[p].t)
          PROVE  row'[s].token # t
      BY <1>0, <1>1, <2>0, <2>2 DEF FreeRowOf, BookRow, SetRow
    <2>3. CASE HandlerStep(p)
      BY <1>2, <2>1, <2>2, <2>3
         DEF HandlerStep, LockSetNX, LockUpdate, LockFind, LockInsert, LockUndo, ReleaseKey,
             ReleaseRow, ConfirmRow, ConfirmKey, At
    <2>4. CASE CallRejects(p)
      BY <1>2, <2>1, <2>2, <2>4 DEF CallRejects, LateEffect, At
    <2> QED BY <1>3, <2>3, <2>4
  <1>4. ASSUME NEW S \in SUBSET Seats, NEW st \in {"AVAILABLE", "MISSING"}, SetRows(S, st)
        PROVE  row'[s].token # t
    BY <1>0, <1>1, <1>4 DEF SetRows
  <1>5. CASE AdminStep
    <2>1. ASSUME NEW u \in Seats, AddSave(u)
          PROVE  row'[s].token # t
      BY <1>0, <1>1, <2>1 DEF AddSave, SetRow
    <2>2. ASSUME NEW u \in Seats, RemoveDelete(u)
          PROVE  row'[s].token # t
      BY <1>4, <2>2 DEF RemoveDelete
    <2>3. ASSUME NEW scope \in ResetScopes, ResetRows(scope)
          PROVE  row'[s].token # t
      <3>1. {u \in scope : row[u].status # "MISSING"} \in SUBSET Seats
        BY DEF ResetScopes
      <3> QED BY <1>4, <2>3, <3>1 DEF ResetRows
    <2>4. ASSUME NEW u \in Seats, AddFind(u) \/ RemoveFind(u) \/ ResetKey(u)
          PROVE  row'[s].token # t
      BY <1>2, <2>4 DEF AddFind, RemoveFind, ResetKey
    <2> QED BY <1>5, <2>1, <2>2, <2>3, <2>4 DEF AdminStep
  <1>6. CASE \E p \in CronPods : CronStep(p)
    BY <1>2, <1>4, <1>6 DEF CronStep, CronRead, CronFree
  <1>7. ASSUME NEW u \in Seats, RowExpires(u) \/ KeyExpires(u)
        PROVE  row'[s].token # t
    BY <1>0, <1>7 DEF RowExpires, KeyExpires, Rows
  <1>8. CASE \E p \in Pods : ClientStep(p) \/ Reply(p) \/ PodCrash(p)
    BY <1>2, <1>8 DEF ClientStep, StartLock, StartRelease, StartConfirm, Reply, PodCrash
  <1> QED BY <1>3, <1>5, <1>6, <1>7, <1>8 DEF LockerNext

\* No lock call starts with a token that was issued before.
LEMMA CallsStaySpent ==
  ASSUME LockerTypeOK, LockerNext, NEW t \in Tokens, Spent(t)
  PROVE  /\ issued'[t] # NoBooking
         /\ \A p \in Pods : call'[p].t = t => call'[p].pc \notin Writing
  <1> DEFINE Goal == /\ issued'[t] # NoBooking
                     /\ \A q \in Pods : call'[q].t = t => call'[q].pc \notin Writing
  <1>0. /\ issued \in [Tokens -> Bookings \cup {NoBooking}]
        /\ issued[t] # NoBooking
        /\ call \in [Pods -> Calls]
        /\ \A p \in Pods : call[p].t = t => call[p].pc \notin Writing
    BY DEF LockerTypeOK, CallTypeOK, Spent, Writing
  <1>1. ASSUME UNCHANGED <<call, issued>>
        PROVE  Goal
    BY <1>0, <1>1
  <1>2. ASSUME NEW p \in Pods, NEW c, call' = [call EXCEPT ![p] = c], UNCHANGED issued,
               c.pc \in Writing => c.t # t
        PROVE  Goal
    BY <1>0, <1>2
  <1>3. ASSUME NEW p \in Pods, HandlerStep(p) \/ CallRejects(p)
        PROVE  Goal
    <2>1. ASSUME NEW pc, Goto(p, pc), UNCHANGED issued,
                 pc \in Writing => call[p].pc \in Writing
          PROVE  Goal
      BY <1>0, <2>1 DEF Goto, Calls
    <2>2. ASSUME NEW ok \in BOOLEAN, Answer(p, ok), UNCHANGED issued
          PROVE  Goal
      BY <1>0, <2>2 DEF Answer, Calls, Writing
    <2>3. ASSUME Throw(p), UNCHANGED issued
          PROVE  Goal
      BY <1>2, <2>3 DEF Throw, Idle, Writing
    <2>4. CASE HandlerStep(p)
      <3> HIDE DEF Goal
      <3> QED
        BY <2>1, <2>2, <2>3, <2>4
           DEF HandlerStep, LockSetNX, LockUpdate, LockFind, LockInsert, LockUndo, ReleaseKey,
               ReleaseRow, ConfirmRow, ConfirmKey, At, Writing
    <2>5. CASE CallRejects(p)
      <3> HIDE DEF Goal
      <3> QED BY <2>1, <2>2, <2>3, <2>5 DEF CallRejects, Rejected, At, Writing
    <2> QED BY <1>3, <2>4, <2>5
  <1>4. ASSUME NEW p \in Pods, ClientStep(p)
        PROVE  Goal
    <2>1. ASSUME NEW b \in Bookings, NEW u \in Tokens, StartLock(p, b, u)
          PROVE  Goal
      BY <1>0, <2>1 DEF StartLock
    <2>2. ASSUME NEW u \in granted, StartRelease(p, issued[u], u) \/ StartConfirm(p, issued[u], u)
          PROVE  Goal
      BY <1>2, <2>2 DEF StartRelease, StartConfirm, Writing
    <2> QED BY <1>4, <2>1, <2>2 DEF ClientStep
  <1>5. ASSUME NEW p \in Pods, Reply(p) \/ PodCrash(p)
        PROVE  Goal
    BY <1>2, <1>5 DEF Reply, PodCrash, Idle, Writing
  <1>6. CASE AdminStep
    BY <1>1, <1>6 DEF AdminStep, AddFind, AddSave, RemoveFind, RemoveDelete, ResetRows, ResetKey
  <1>7. CASE \E p \in CronPods : CronStep(p)
    BY <1>1, <1>7 DEF CronStep, CronRead, CronFree
  <1>8. CASE \E u \in Seats : RowExpires(u) \/ KeyExpires(u)
    BY <1>1, <1>8 DEF RowExpires, KeyExpires
  <1>9. CASE \E p \in Pods : ClientStep(p) \/ HandlerStep(p) \/ Reply(p) \/ PodCrash(p)
                            \/ CallRejects(p)
    BY <1>3, <1>4, <1>5, <1>9
  <1> QED BY <1>6, <1>7, <1>8, <1>9 DEF LockerNext

\* A token whose lock has gone never holds a seat again, so a release or confirm
\* that arrives late, twice or out of order cannot touch the next holder.
THEOREM SpentIsForever == LockerSpec => SpentForever
  <1>1. LockerTypeOK /\ [LockerNext]_lockerVars
          => [\A t \in Tokens : Spent(t) => Spent(t)']_lockerVars
    BY RowsStaySpent, CallsStaySpent DEF Spent, Writing
  <1> QED BY <1>1, LockerTyping, PTL DEF LockerSpec, SpentForever

(***************************************************************************)
(* What a lock call answers, and what it leaves in Redis. The premise      *)
(* leaves out the clean-up paths and calls that reject: a rejected call    *)
(* may have taken effect without the caller's knowing.                     *)
(***************************************************************************)
Undisturbed == NoCleanup /\ "reject" \notin Env

LockCall(p) == call[p].op = "lock" /\ call[p].pc # "idle"

\* The token of a row was generated for a booking of its seat.
RowTokensPlaced ==
  \A s \in Seats :
     row[s].token # NoToken =>
        issued[row[s].token] \in Bookings /\ SeatOf[issued[row[s].token]] = s

\* A lock call shares its token with no other handler: the others have tokens
\* that a lock call was answered with.
TokensApart ==
  /\ \A p \in Pods : LockCall(p) => call[p].t \notin granted
  /\ \A p, q \in Pods : LockCall(p) /\ LockCall(q) /\ call[p].t = call[q].t => p = q
  /\ \A p \in Pods : call[p].pc # "idle" /\ ~LockCall(p) => call[p].t \in granted

\* The token of a lock call is in a row exactly when the call is to say so.
LockWritten ==
  \A p \in Pods :
     LockCall(p) =>
        \A s \in Seats :
           row[s].token = call[p].t <=> s = SeatAt(p) /\ At(p, "reply") /\ call[p].ok

LockInv == LockerTypeOK /\ CallInOrder /\ AdminAsked /\ RowTokensPlaced /\ TokensApart /\ LockWritten

\* A statement of p's handler moves p's call and no other.
LEMMA HandlerMoves ==
  ASSUME LockerTypeOK, CallInOrder, NEW p \in Pods, HandlerStep(p)
  PROVE  /\ \A q \in Pods \ {p} : call'[q] = call[q]
         /\ \/ call'[p] = Idle
            \/ /\ call'[p].op = call[p].op /\ call'[p].b = call[p].b /\ call'[p].t = call[p].t
               /\ call'[p].pc # "idle"
         /\ call[p].pc # "idle"
         /\ UNCHANGED <<granted, issued, faults>>
  <1>0. call \in [Pods -> Calls]
    BY DEF LockerTypeOK, CallTypeOK
  <1> DEFINE Moves == /\ \A q \in Pods \ {p} : call'[q] = call[q]
                      /\ \/ call'[p] = Idle
                         \/ /\ call'[p].op = call[p].op /\ call'[p].b = call[p].b
                            /\ call'[p].t = call[p].t /\ call'[p].pc # "idle"
  <1>1. ASSUME NEW pc, Goto(p, pc), pc # "idle" PROVE Moves
    BY <1>0, <1>1 DEF Goto, Calls
  <1>2. ASSUME NEW ok, Answer(p, ok) PROVE Moves
    BY <1>0, <1>2 DEF Answer, Calls
  <1>3. ASSUME Throw(p) PROVE Moves
    BY <1>0, <1>3 DEF Throw
  <1>4. Moves
    <2> HIDE DEF Moves
    <2> QED BY <1>1, <1>2, <1>3
            DEF HandlerStep, LockSetNX, LockUpdate, LockFind, LockInsert, LockUndo, ReleaseKey,
                ReleaseRow, ConfirmRow, ConfirmKey
  <1>5. call[p].pc # "idle" /\ UNCHANGED <<granted, issued, faults>>
    BY DEF HandlerStep, At, LockSetNX, LockUpdate, LockFind, LockInsert, LockUndo, ReleaseKey,
           ReleaseRow, ConfirmRow, ConfirmKey
  <1> QED BY <1>4, <1>5

\* What the other steps do to the calls, the rows and the tokens.
LEMMA QuietSteps ==
  ASSUME Undisturbed, LockerTypeOK, AdminAsked, LockerNext,
         ~ \E p \in Pods : ClientStep(p) \/ HandlerStep(p) \/ Reply(p) \/ PodCrash(p)
  PROVE  /\ UNCHANGED <<call, granted, issued, bookedBy, faults>>
         /\ \A s \in Seats : row'[s].token = row[s].token
  <1>0. row \in [Seats -> Rows] /\ Unlocked("AVAILABLE").token = NoToken
    BY RowValues DEF LockerTypeOK, RowTypeOK
  <1>1. CASE AdminStep
    <2>1. ASSUME NEW u \in Seats, AddSave(u)
          PROVE  \A s \in Seats : row'[s].token = row[s].token
      <3>1. row[u].status = "MISSING" => row[u].token = NoToken
        BY DEF LockerTypeOK, RowTypeOK, RowWellFormed
      <3> QED BY <1>0, <2>1, <3>1 DEF AddSave, SetRow
    <2>2. ASSUME NEW u \in Seats, RemoveDelete(u)
          PROVE  FALSE
      BY <2>2 DEF RemoveDelete, AdminAsked, NoCleanup, Undisturbed
    <2> QED BY <1>1, <2>1, <2>2 DEF AdminStep, AddFind, AddSave, RemoveFind, ResetRows, ResetKey,
                                    Undisturbed, NoCleanup
  <1>2. ASSUME NEW u \in Seats, RowExpires(u) \/ KeyExpires(u)
        PROVE  /\ UNCHANGED <<call, granted, issued, bookedBy, faults>>
               /\ \A s \in Seats : row'[s].token = row[s].token
    BY <1>0, <1>2 DEF RowExpires, KeyExpires, Rows
  <1> QED BY <1>1, <1>2 DEF LockerNext, Undisturbed, NoCleanup, CallRejects, Fault

\* StartLock takes a token that is nobody's.
LEMMA NewToken ==
  ASSUME LockerTypeOK, RowTokensPlaced, TokensApart, NEW t \in Tokens, issued[t] = NoBooking
  PROVE  /\ t \notin granted
         /\ \A p \in Pods : call[p].pc # "idle" => call[p].t # t
         /\ \A s \in Seats : row[s].token # t
  <1>1. NoBooking \notin Bookings /\ t # NoToken
    OBVIOUS
  <1> QED BY <1>1 DEF LockerTypeOK, CallTypeOK, CallWellFormed, RowTokensPlaced

LEMMA TokensApartStep ==
  ASSUME Undisturbed, LockInv, LockerNext
  PROVE  TokensApart'
  <1>0. /\ call \in [Pods -> Calls]
        /\ TokensApart
        /\ LockerTypeOK /\ CallInOrder /\ AdminAsked
        /\ Idle.pc = "idle"
    BY DEF LockInv, LockerTypeOK, CallTypeOK, Idle
  <1>1. ASSUME NEW p \in Pods, HandlerStep(p)
        PROVE  TokensApart'
    BY <1>0, <1>1, HandlerMoves DEF TokensApart, LockCall
  <1>2. ASSUME NEW p \in Pods, NEW b \in Bookings, NEW t \in Tokens, StartLock(p, b, t)
        PROVE  TokensApart'
    <2>1. /\ t \notin granted
          /\ \A q \in Pods : call[q].pc # "idle" => call[q].t # t
      BY <1>2, NewToken DEF StartLock, LockInv
    <2>2. /\ call'[p] = [op |-> "lock", pc |-> "setnx", b |-> b, t |-> t, ok |-> FALSE]
          /\ \A q \in Pods \ {p} : call'[q] = call[q]
          /\ granted' = granted
      BY <1>0, <1>2 DEF StartLock
    <2> QED BY <1>0, <2>1, <2>2 DEF TokensApart, LockCall
  <1>3. ASSUME NEW p \in Pods, NEW t \in granted,
               StartRelease(p, issued[t], t) \/ StartConfirm(p, issued[t], t)
        PROVE  TokensApart'
    <2>1. /\ call'[p].op \in {"release", "confirm"} /\ call'[p].t = t
          /\ \A q \in Pods \ {p} : call'[q] = call[q]
          /\ granted' = granted
      BY <1>0, <1>3 DEF StartRelease, StartConfirm
    <2> QED BY <1>0, <2>1 DEF TokensApart, LockCall
  <1>4. ASSUME NEW p \in Pods, Reply(p) \/ PodCrash(p)
        PROVE  TokensApart'
    <2>1. /\ call'[p] = Idle
          /\ \A q \in Pods \ {p} : call'[q] = call[q]
          /\ \/ granted' = granted
             \/ granted' = granted \cup {call[p].t} /\ LockCall(p)
      BY <1>0, <1>4 DEF Reply, PodCrash, LockCall, At
    <2> QED BY <1>0, <2>1 DEF TokensApart, LockCall
  <1>5. CASE ~ \E p \in Pods : ClientStep(p) \/ HandlerStep(p) \/ Reply(p) \/ PodCrash(p)
    BY <1>0, <1>5, QuietSteps DEF TokensApart, LockCall
  <1> QED BY <1>1, <1>2, <1>3, <1>4, <1>5 DEF ClientStep

\* What the statements of a handler write into the rows.
LEMMA RowWrites ==
  ASSUME LockerTypeOK, NEW p \in Pods, HandlerStep(p)
  PROVE  \/ UNCHANGED row
         \/ /\ \A s \in Seats \ {SeatAt(p)} : row'[s] = row[s]
            /\ \/ /\ call[p].pc \in {"update", "insert"}
                  /\ row[SeatAt(p)].token = NoToken
                  /\ row'[SeatAt(p)].token = call[p].t
                  /\ Answer(p, TRUE)
               \/ /\ call[p].pc \in {"relRow", "confRow"}
                  /\ row[SeatAt(p)].token = call[p].t
                  /\ row'[SeatAt(p)].token = NoToken
  <1>0. /\ SeatAt(p) \in Seats /\ call[p].t \in Tokens
        /\ row \in [Seats -> Rows] /\ \A s \in Seats : RowWellFormed(s)
    BY SeatOfCall DEF HandlerStep, At, LockSetNX, LockUpdate, LockFind, LockInsert, LockUndo,
                      ReleaseKey, ReleaseRow, ConfirmRow, ConfirmKey, LockerTypeOK, RowTypeOK
  <1>1. CASE LockUpdate(p) \/ LockInsert(p)
    BY <1>0, <1>1, RowValues DEF LockUpdate, LockInsert, SetRow, At, RowWellFormed
  <1>2. CASE ReleaseRow(p)
    BY <1>0, <1>2, RowValues DEF ReleaseRow, FreeRowOf, At
  <1>3. CASE ConfirmRow(p)
    BY <1>0, <1>3, RowValues DEF ConfirmRow, BookRow, SetRow, Confirmable, At
  <1> QED BY <1>1, <1>2, <1>3
          DEF HandlerStep, LockSetNX, LockFind, LockUndo, ReleaseKey, ConfirmKey

LEMMA RowTokensPlacedStep ==
  ASSUME Undisturbed, LockInv, LockerNext
  PROVE  RowTokensPlaced'
  <1>0. /\ call \in [Pods -> Calls]
        /\ issued \in [Tokens -> Bookings \cup {NoBooking}]
        /\ row \in [Seats -> Rows]
        /\ RowTokensPlaced
        /\ LockerTypeOK /\ CallInOrder /\ AdminAsked
    BY DEF LockInv, LockerTypeOK, CallTypeOK, RowTypeOK
  <1>1. ASSUME NEW p \in Pods, HandlerStep(p)
        PROVE  RowTokensPlaced'
    <2>1. /\ call[p].t \in Tokens /\ issued[call[p].t] = call[p].b /\ call[p].b \in Bookings
          /\ issued' = issued
      BY <1>0, <1>1, HandlerMoves DEF LockerTypeOK, CallTypeOK, CallWellFormed
    <2>2. \A s \in Seats : \/ row'[s].token \in {row[s].token, NoToken}
                           \/ s = SeatAt(p) /\ row'[s].token = call[p].t
      BY <1>0, <1>1, RowWrites
    <2> QED BY <1>0, <2>1, <2>2 DEF RowTokensPlaced, SeatAt
  <1>2. ASSUME NEW p \in Pods, NEW b \in Bookings, NEW t \in Tokens, StartLock(p, b, t)
        PROVE  RowTokensPlaced'
    <2>1. \A s \in Seats : row[s].token # t
      BY <1>2, NewToken DEF StartLock, LockInv
    <2> QED BY <1>0, <1>2, <2>1 DEF RowTokensPlaced, StartLock
  <1>3. CASE UNCHANGED <<row, issued>>
    BY <1>0, <1>3 DEF RowTokensPlaced
  <1>4. ASSUME NEW p \in Pods, ClientStep(p) \/ Reply(p) \/ PodCrash(p)
        PROVE  RowTokensPlaced'
    BY <1>2, <1>3, <1>4 DEF ClientStep, StartRelease, StartConfirm, Reply, PodCrash
  <1>5. CASE ~ \E p \in Pods : ClientStep(p) \/ HandlerStep(p) \/ Reply(p) \/ PodCrash(p)
    BY <1>0, <1>5, QuietSteps DEF RowTokensPlaced
  <1> QED BY <1>1, <1>4, <1>5

\* The statement after which a lock call says yes is the one that wrote its token.
LEMMA LockSays ==
  ASSUME LockerTypeOK, CallInOrder, NEW p \in Pods, HandlerStep(p), LockCall(p), LockCall(p)'
  PROVE  /\ call[p].pc # "reply"
         /\ (At(p, "reply") /\ call[p].ok)' => row'[SeatAt(p)].token = call[p].t
  <1>0. /\ call \in [Pods -> Calls]
        /\ call[p].pc \notin {"relRow", "relKey", "confRow", "confKey"}
        /\ SeatAt(p) \in Seats /\ call[p].t \in Tokens
        /\ row \in [Seats -> Rows]
    BY SeatOfCall DEF LockerTypeOK, CallTypeOK, RowTypeOK, LockCall, CallInOrder
  <1>1. LockSetNX(p) \/ LockUpdate(p) \/ LockFind(p) \/ LockInsert(p) \/ LockUndo(p)
    BY <1>0 DEF HandlerStep, ReleaseKey, ReleaseRow, ConfirmRow, ConfirmKey, At
  <1>2. CASE LockSetNX(p) \/ LockFind(p) \/ LockUndo(p)
    <2>1. ~ Throw(p)
      BY <1>0 DEF Throw, Idle, LockCall
    <2>2. ASSUME NEW pc \in {"update", "insert", "undo"}, Goto(p, pc)
          PROVE  ~ At(p, "reply")'
      BY <1>0, <2>2 DEF Goto, At, Calls
    <2>3. Answer(p, FALSE) => ~ call'[p].ok
      BY <1>0 DEF Answer, Calls
    <2> QED BY <1>2, <2>1, <2>2, <2>3 DEF LockSetNX, LockFind, LockUndo, At
  <1>3. CASE LockUpdate(p) \/ LockInsert(p)
    BY <1>0, <1>3, RowValues DEF LockUpdate, LockInsert, At, Goto, Answer, SetRow, Calls
  <1> QED BY <1>1, <1>2, <1>3

LEMMA LockWrittenStep ==
  ASSUME Undisturbed, LockInv, LockerNext
  PROVE  LockWritten'
  <1>0. /\ call \in [Pods -> Calls]
        /\ row \in [Seats -> Rows]
        /\ LockWritten /\ TokensApart
        /\ LockerTypeOK /\ CallInOrder /\ AdminAsked
    BY DEF LockInv, LockerTypeOK, CallTypeOK, RowTypeOK
  <1>t. \A p \in Pods : call[p].pc # "idle" => call[p].t \in Tokens /\ SeatAt(p) \in Seats
    BY <1>0, SeatOfCall
  <1>n. NoToken \notin Tokens
    OBVIOUS
  <1>1. ASSUME NEW p \in Pods, HandlerStep(p)
        PROVE  LockWritten'
    <2>0. call[p].pc # "idle"
      BY <1>0, <1>1, HandlerMoves
    \* The other lock calls: no row gets or loses their token.
    <2>1. ASSUME NEW q \in Pods \ {p}, LockCall(q)', NEW s \in Seats
          PROVE  (row[s].token = call[q].t <=> s = SeatAt(q) /\ At(q, "reply") /\ call[q].ok)'
      <3>1. call'[q] = call[q] /\ LockCall(q)
        BY <1>0, <1>1, <2>1, HandlerMoves DEF LockCall
      <3>2. call[q].t # call[p].t /\ call[q].t \in Tokens
        BY <1>0, <1>t, <2>0, <3>1 DEF TokensApart, LockCall
      <3>3. row'[s].token = call[q].t <=> row[s].token = call[q].t
        BY <1>0, <1>1, <1>n, <3>2, RowWrites
      <3> QED BY <1>0, <3>1, <3>3 DEF LockWritten, SeatAt, At
    \* p's own call.
    <2>2. ASSUME LockCall(p)', NEW s \in Seats
          PROVE  (row[s].token = call[p].t <=> s = SeatAt(p) /\ At(p, "reply") /\ call[p].ok)'
      <3>1. /\ call'[p].op = call[p].op /\ call'[p].b = call[p].b /\ call'[p].t = call[p].t
            /\ LockCall(p)
        BY <1>0, <1>1, <2>0, <2>2, HandlerMoves DEF LockCall, Idle
      <3>2. /\ call[p].pc # "reply"
            /\ (At(p, "reply") /\ call[p].ok)' => row'[SeatAt(p)].token = call[p].t
        BY <1>0, <1>1, <2>2, <3>1, LockSays
      <3>3. \A u \in Seats : row[u].token # call[p].t
        BY <1>0, <3>1, <3>2 DEF LockWritten, At
      <3>4. call[p].t \in Tokens /\ SeatAt(p) \in Seats /\ SeatAt(p)' = SeatAt(p)
        BY <1>t, <2>0, <3>1 DEF SeatAt
      <3>5. \/ UNCHANGED row
            \/ /\ \A u \in Seats \ {SeatAt(p)} : row'[u] = row[u]
               /\ Answer(p, TRUE)
        BY <1>0, <1>1, <3>3, <3>4, RowWrites
      <3>6. Answer(p, TRUE) => (At(p, "reply") /\ call[p].ok)'
        BY <1>0 DEF Answer, At, Calls
      <3> QED BY <3>1, <3>2, <3>3, <3>4, <3>5, <3>6
    <2> QED BY <2>1, <2>2 DEF LockWritten
  <1>2. ASSUME NEW p \in Pods, NEW b \in Bookings, NEW t \in Tokens, StartLock(p, b, t)
        PROVE  LockWritten'
    <2>1. \A s \in Seats : row[s].token # t
      BY <1>2, NewToken DEF StartLock, LockInv
    <2>2. /\ call'[p] = [op |-> "lock", pc |-> "setnx", b |-> b, t |-> t, ok |-> FALSE]
          /\ \A q \in Pods \ {p} : call'[q] = call[q]
          /\ row' = row
      BY <1>0, <1>2 DEF StartLock
    <2> QED BY <1>0, <2>1, <2>2 DEF LockWritten, LockCall, SeatAt, At
  <1>3. ASSUME NEW p \in Pods, NEW c, call' = [call EXCEPT ![p] = c], UNCHANGED row,
               c.op # "lock" \/ c.pc = "idle"
        PROVE  LockWritten'
    BY <1>0, <1>3 DEF LockWritten, LockCall, SeatAt, At
  <1>4. ASSUME NEW p \in Pods, ClientStep(p) \/ Reply(p) \/ PodCrash(p)
        PROVE  LockWritten'
    BY <1>2, <1>3, <1>4 DEF ClientStep, StartRelease, StartConfirm, Reply, PodCrash, Idle
  <1>5. CASE ~ \E p \in Pods : ClientStep(p) \/ HandlerStep(p) \/ Reply(p) \/ PodCrash(p)
    BY <1>0, <1>5, QuietSteps DEF LockWritten, LockCall, SeatAt, At
  <1> QED BY <1>1, <1>4, <1>5

LEMMA LockInvHolds ==
  ASSUME Undisturbed
  PROVE  LockerSpec => []LockInv
  <1>1. LockerInit => LockInv
    <2> SUFFICES ASSUME LockerInit PROVE LockInv
      OBVIOUS
    <2>1. \A s \in Seats : row[s].token = NoToken
      BY RowValues DEF LockerInit
    <2>2. \A p \in Pods : call[p].pc = "idle"
      BY DEF LockerInit, Idle
    <2>3. CallInOrder /\ AdminAsked
      BY DEF LockerInit, Idle, CallInOrder, AdminIdle, AdminAsked
    <2> QED BY <2>1, <2>2, <2>3, LockerInitType
            DEF LockInv, RowTokensPlaced, TokensApart, LockWritten, LockCall
  <1>2. LockInv /\ [LockerNext]_lockerVars => LockInv'
    <2>1. CASE LockerNext
      BY <2>1, LockerNextType, CallInOrderStep, AdminAskedStep, RowTokensPlacedStep,
         TokensApartStep, LockWrittenStep DEF LockInv
    <2>2. CASE UNCHANGED lockerVars
      <3>1. ASSUME LockInv PROVE RowTokensPlaced' /\ TokensApart' /\ LockWritten'
        BY <2>2, <3>1 DEF LockInv, lockerVars, RowTokensPlaced, TokensApart, LockWritten,
                          LockCall, SeatAt, At
      <3> QED BY <2>2, <3>1, LockerStutterType DEF LockInv, lockerVars, CallInOrder, AdminAsked
    <2> QED BY <2>1, <2>2
  <1> QED BY <1>1, <1>2, PTL DEF LockerSpec

\* A lock call that says yes has written its token into the row of the seat, and
\* one that says no has written it nowhere, however many pods race, crash and let
\* their locks expire. (SeatLockerService.lock: SETNX, conditional UPDATE, INSERT)
THEOREM LockRepliesAreTrue ==
  ASSUME Undisturbed
  PROVE  LockerSpec => []LockReplyTruthful
  <1>1. LockInv => LockReplyTruthful
    <2> SUFFICES ASSUME LockInv, NEW p \in Pods, At(p, "reply"), call[p].op = "lock"
                 PROVE  call[p].ok <=> row[SeatAt(p)].token = call[p].t
      BY DEF LockReplyTruthful
    <2>1. LockCall(p) /\ SeatAt(p) \in Seats
      BY SeatOfCall DEF LockCall, At, LockInv
    <2> QED BY <2>1 DEF LockInv, LockWritten
  <1> QED BY <1>1, LockInvHolds, PTL

(***************************************************************************)
(* Keys and rows. Nothing but the handlers touches the keys.               *)
(***************************************************************************)
OnlyHandlers == Undisturbed /\ "keyExpiry" \notin Env

\* A key belongs to the lock in the row, or to a call that is still to put it
\* right: a lock call after its SETNX, a confirm before its DEL.
KeyHasReason(s) ==
  redis[s] # NoToken =>
     \/ redis[s] = row[s].token
     \/ \E p \in Pods :
           /\ SeatAt(p) = s
           /\ \/ /\ call[p].pc \in {"update", "find", "insert", "undo", "undoThrow"}
                 /\ call[p].t = redis[s]
              \/ At(p, "confKey")

\* A lock has its key, unless it is being released.
LockHasKey(s) ==
  row[s].token # NoToken =>
     \/ redis[s] = row[s].token
     \/ \E p \in Pods : At(p, "relRow") /\ call[p].t = row[s].token

\* What a call knows of the key and of the row of its seat.
CallKnows(p) ==
  /\ call[p].pc \in {"update", "find", "insert"} =>
        redis[SeatAt(p)] = call[p].t \/ row[SeatAt(p)].status = "BOOKED"
  /\ At(p, "relRow") => redis[SeatAt(p)] # call[p].t
  /\ At(p, "confKey") => row[SeatAt(p)].status = "BOOKED"

\* What relates keys and rows until the first fault, between the statements too.
KeysExplained ==
  /\ \A s \in Seats : KeyHasReason(s) /\ LockHasKey(s)
  /\ \A p \in Pods : CallKnows(p)

KeyInv == (faults = 0 => KeysExplained) /\ admin.pc # "resetKeys"

\* A step that changes no key and no token, and of no call that has to do with them.
LEMMA KeysUntouched ==
  ASSUME KeysExplained, UNCHANGED redis, NEW p \in Pods,
         \A s \in Seats : /\ row'[s].token = row[s].token
                          /\ row[s].status = "BOOKED" => row'[s].status = "BOOKED",
         \A q \in Pods : call[q].pc # "idle" => SeatAt(q) \in Seats,
         \A q \in Pods \ {p} : call'[q] = call[q],
         call[p].pc \in {"idle", "setnx", "relKey", "confRow", "reply"},
         call'[p].pc \in {"idle", "setnx", "relKey", "confRow", "reply"}
  PROVE  KeysExplained'
  <1>1. \A q \in Pods \ {p} : SeatAt(q)' = SeatAt(q) /\ \A pc : At(q, pc)' = At(q, pc)
    BY DEF SeatAt, At
  <1>2. ASSUME NEW s \in Seats PROVE KeyHasReason(s)'
    BY <1>1 DEF KeysExplained, KeyHasReason, At
  <1>3. ASSUME NEW s \in Seats PROVE LockHasKey(s)'
    BY <1>1 DEF KeysExplained, LockHasKey, At
  <1>4. ASSUME NEW q \in Pods PROVE CallKnows(q)'
    BY <1>1 DEF KeysExplained, CallKnows, At
  <1> QED BY <1>2, <1>3, <1>4 DEF KeysExplained

\* The facts about p's statement that all cases below use.
LEMMA KeyFacts ==
  ASSUME LockInv, NEW p \in Pods, HandlerStep(p)
  PROVE  /\ call \in [Pods -> Calls] /\ redis \in [Seats -> Tokens \cup {NoToken}]
         /\ row \in [Seats -> Rows] /\ NoToken \notin Tokens
         /\ \A s \in Seats : RowWellFormed(s)
         /\ \A q \in Pods : call[q].pc # "idle" => SeatAt(q) \in Seats /\ call[q].t \in Tokens
         /\ call[p].pc # "idle"
         /\ \A q \in Pods \ {p} : call'[q] = call[q] /\ SeatAt(q)' = SeatAt(q)
         \* lock calls have tokens of their own
         /\ \A q \in Pods \ {p} :
               /\ call[q].pc \in {"update", "find", "insert", "undo", "undoThrow"}
                     => call[q].t # call[p].t
               /\ call[p].op = "lock" /\ call[q].pc # "idle" => call[q].t # call[p].t
         /\ call[p].op = "lock" /\ call[p].pc # "reply" => \A s \in Seats : row[s].token # call[p].t
         /\ \A s \in Seats : row[s].token = call[p].t => s = SeatAt(p)
  <1>1. /\ call \in [Pods -> Calls] /\ redis \in [Seats -> Tokens \cup {NoToken}]
        /\ row \in [Seats -> Rows] /\ NoToken \notin Tokens
        /\ \A s \in Seats : RowWellFormed(s)
        /\ LockerTypeOK /\ CallInOrder /\ TokensApart
    BY DEF LockInv, LockerTypeOK, CallTypeOK, RowTypeOK
  <1>2. \A q \in Pods : call[q].pc # "idle" => SeatAt(q) \in Seats /\ call[q].t \in Tokens
    BY <1>1, SeatOfCall
  <1>3. call[p].pc # "idle" /\ \A q \in Pods \ {p} : call'[q] = call[q]
    BY <1>1, HandlerMoves
  <1>4. \A q \in Pods \ {p} :
           /\ call[q].pc \in {"update", "find", "insert", "undo", "undoThrow"}
                 => call[q].t # call[p].t
           /\ call[p].op = "lock" /\ call[q].pc # "idle" => call[q].t # call[p].t
    BY <1>1, <1>3 DEF TokensApart, LockCall, CallInOrder
  <1>5. call[p].op = "lock" /\ call[p].pc # "reply" => \A s \in Seats : row[s].token # call[p].t
    BY <1>3 DEF LockInv, LockWritten, LockCall, At
  <1>6. \A s \in Seats : row[s].token = call[p].t => s = SeatAt(p)
    BY <1>1, <1>2, <1>3 DEF LockInv, RowTokensPlaced, LockerTypeOK, CallTypeOK, CallWellFormed, SeatAt
  <1>7. \A q \in Pods \ {p} : SeatAt(q)' = SeatAt(q)
    BY <1>3 DEF SeatAt
  <1> QED BY <1>1, <1>2, <1>3, <1>4, <1>5, <1>6, <1>7

\* SETNX, whether it takes the key or not.
LEMMA KeysSetNX ==
  ASSUME LockInv, KeysExplained, NEW p \in Pods, LockSetNX(p)
  PROVE  KeysExplained'
  <1>0. HandlerStep(p) /\ call[p].op = "lock" /\ UNCHANGED row
    BY DEF HandlerStep, LockSetNX, LockInv, CallInOrder, At
  <1>1. CASE UNCHANGED redis /\ Answer(p, FALSE)
    <2>1. call'[p].pc = "reply" /\ call[p].pc = "setnx"
      BY <1>0, <1>1, KeyFacts DEF Answer, LockSetNX, At
    <2> QED BY <1>0, <1>1, <2>1, KeyFacts, KeysUntouched
  <1>2. CASE redis[SeatAt(p)] = NoToken /\ TakeKey(SeatAt(p), call[p].t) /\ Goto(p, "update")
    <2>0. /\ call'[p].pc = "update" /\ call'[p].t = call[p].t /\ SeatAt(p)' = SeatAt(p)
          /\ call[p].pc = "setnx"
          /\ redis'[SeatAt(p)] = call[p].t
          /\ \A s \in Seats \ {SeatAt(p)} : redis'[s] = redis[s]
      BY <1>0, <1>2, KeyFacts DEF Goto, SeatAt, TakeKey, LockSetNX, At, Calls
    <2>1. ASSUME NEW s \in Seats PROVE KeyHasReason(s)'
      BY <1>0, <2>0, KeyFacts DEF KeysExplained, KeyHasReason, At
    <2>2. ASSUME NEW s \in Seats PROVE LockHasKey(s)'
      BY <1>0, <1>2, <2>0, KeyFacts DEF KeysExplained, LockHasKey, At
    <2>3. ASSUME NEW q \in Pods PROVE CallKnows(q)'
      <3>1. CASE q = p
        BY <2>0, <3>1 DEF CallKnows, At
      <3>2. CASE q # p
        BY <1>0, <1>2, <2>0, <3>2, KeyFacts DEF KeysExplained, CallKnows, At
      <3> QED BY <3>1, <3>2
    <2> QED BY <2>1, <2>2, <2>3 DEF KeysExplained
  <1> QED BY <1>1, <1>2 DEF LockSetNX

\* The UPDATE and the INSERT that win.
LEMMA KeysWin ==
  ASSUME LockInv, KeysExplained, NEW p \in Pods, HandlerStep(p),
         call[p].pc \in {"update", "insert"}, row[SeatAt(p)].status \in {"AVAILABLE", "MISSING"},
         SetRow(SeatAt(p), LockedWith(call[p].t)), Answer(p, TRUE), UNCHANGED redis
  PROVE  KeysExplained'
  <1>0. /\ call[p].op = "lock"
        /\ redis[SeatAt(p)] = call[p].t
    BY DEF LockInv, CallInOrder, KeysExplained, CallKnows
  <1>1. /\ call'[p].pc = "reply"
        /\ row'[SeatAt(p)].token = call[p].t
        /\ \A s \in Seats \ {SeatAt(p)} : row'[s] = row[s]
    <2>1. /\ row \in [Seats -> Rows]
          /\ SeatAt(p) \in Seats /\ LockedWith(call[p].t).token = call[p].t
      BY KeyFacts, RowValues
    <2>2. call'[p].pc = "reply"
      BY KeyFacts DEF Answer, Calls
    <2> QED BY <2>1, <2>2 DEF SetRow
  <1>2. ASSUME NEW s \in Seats PROVE KeyHasReason(s)'
    <2>1. CASE s = SeatAt(p)
      BY <1>0, <1>1, <2>1 DEF KeyHasReason
    <2>2. CASE s # SeatAt(p)
      <3>1. KeyHasReason(s) /\ row'[s] = row[s] /\ redis'[s] = redis[s]
        BY <1>1, <2>2 DEF KeysExplained
      <3>2. \A q \in Pods : SeatAt(q) = s => call'[q] = call[q] /\ SeatAt(q)' = s
        BY <2>2, KeyFacts
      <3> QED BY <3>1, <3>2 DEF KeyHasReason, At
    <2> QED BY <2>1, <2>2
  <1>3. ASSUME NEW s \in Seats PROVE LockHasKey(s)'
    BY <1>0, <1>1, KeyFacts DEF KeysExplained, LockHasKey, At
  <1>4. ASSUME NEW q \in Pods PROVE CallKnows(q)'
    <2>1. CASE q = p
      BY <1>1, <2>1 DEF CallKnows, At
    <2>2. CASE q # p
      BY <1>0, <1>1, <2>2, KeyFacts DEF KeysExplained, CallKnows, At
    <2> QED BY <2>1, <2>2
  <1> QED BY <1>2, <1>3, <1>4 DEF KeysExplained

\* A lock call that goes on with its key: the UPDATE or INSERT that loses, the SELECT.
LEMMA KeysGoOn ==
  ASSUME LockInv, KeysExplained, NEW p \in Pods, HandlerStep(p),
         call[p].pc \in {"update", "find", "insert"},
         NEW pc \in {"find", "insert", "undo"}, Goto(p, pc), UNCHANGED <<row, redis>>
  PROVE  KeysExplained'
  <1>1. /\ call'[p].pc = pc /\ call'[p].t = call[p].t /\ SeatAt(p)' = SeatAt(p)
    BY KeyFacts DEF Goto, SeatAt, Calls
  <1>2. ASSUME NEW s \in Seats PROVE KeyHasReason(s)'
    BY <1>1, KeyFacts DEF KeysExplained, KeyHasReason, At
  <1>3. ASSUME NEW s \in Seats PROVE LockHasKey(s)'
    BY <1>1, KeyFacts DEF KeysExplained, LockHasKey, At
  <1>4. ASSUME NEW q \in Pods PROVE CallKnows(q)'
    <2>1. CASE q = p
      BY <1>1, <2>1 DEF KeysExplained, CallKnows, At
    <2>2. CASE q # p
      BY <1>1, <2>2, KeyFacts DEF KeysExplained, CallKnows, At
    <2> QED BY <2>1, <2>2
  <1> QED BY <1>2, <1>3, <1>4 DEF KeysExplained

\* The scripts that delete a key with the call's token: a lock call that lost,
\* and the first statement of release.
LEMMA KeysDropped ==
  ASSUME LockInv, KeysExplained, NEW p \in Pods, LockUndo(p) \/ ReleaseKey(p)
  PROVE  KeysExplained'
  <1>0. /\ HandlerStep(p) /\ UNCHANGED row
        /\ call[p].pc \in {"undo", "undoThrow", "relKey"}
        /\ call[p].pc # "relKey" => call[p].op = "lock" /\ call'[p].pc \in {"reply", "idle"}
        /\ call[p].pc = "relKey" =>
              call'[p].pc = "relRow" /\ call'[p].t = call[p].t /\ SeatAt(p)' = SeatAt(p)
    <2>1. HandlerStep(p) /\ call \in [Pods -> Calls] /\ CallInOrder /\ UNCHANGED row
      BY DEF HandlerStep, LockUndo, ReleaseKey, LockInv, LockerTypeOK, CallTypeOK
    <2>2. CASE LockUndo(p)
      <3>1. ASSUME Answer(p, FALSE) PROVE call'[p].pc = "reply"
        BY <2>1, <3>1 DEF Answer, Calls
      <3>2. ASSUME Throw(p) PROVE call'[p].pc = "idle"
        BY <2>1, <3>2 DEF Throw, Idle, Calls
      <3>3. call[p].pc \in {"undo", "undoThrow"} /\ (Answer(p, FALSE) \/ Throw(p))
        BY <2>2 DEF LockUndo, At
      <3> QED BY <2>1, <3>1, <3>2, <3>3 DEF CallInOrder
    <2>3. CASE ReleaseKey(p)
      <3>1. /\ call'[p].pc = "relRow" /\ call'[p].t = call[p].t
            /\ call'[p].b = call[p].b
        BY <2>1, <2>3 DEF ReleaseKey, Goto, Calls
      <3> QED BY <2>1, <2>3, <3>1 DEF ReleaseKey, At, SeatAt
    <2> QED BY <2>1, <2>2, <2>3
  <1>1. /\ redis'[SeatAt(p)] = IF redis[SeatAt(p)] = call[p].t THEN NoToken ELSE redis[SeatAt(p)]
        /\ \A s \in Seats \ {SeatAt(p)} : redis'[s] = redis[s]
    BY <1>0, KeyFacts DEF LockUndo, ReleaseKey, DropKey
  <1>2. ASSUME NEW s \in Seats PROVE KeyHasReason(s)'
    BY <1>0, <1>1, KeyFacts DEF KeysExplained, KeyHasReason, At
  <1>3. ASSUME NEW s \in Seats PROVE LockHasKey(s)'
    BY <1>0, <1>1, KeyFacts DEF KeysExplained, LockHasKey, At
  <1>4. ASSUME NEW q \in Pods PROVE CallKnows(q)'
    <2>1. CASE q = p
      BY <1>0, <1>1, <2>1, KeyFacts DEF CallKnows, At
    <2>2. CASE q # p
      BY <1>0, <1>1, <2>2, KeyFacts DEF KeysExplained, CallKnows, At
    <2> QED BY <2>1, <2>2
  <1> QED BY <1>2, <1>3, <1>4 DEF KeysExplained

LEMMA KeysReleaseRow ==
  ASSUME LockInv, KeysExplained, NEW p \in Pods, ReleaseRow(p)
  PROVE  KeysExplained'
  <1>0. /\ HandlerStep(p) /\ UNCHANGED redis /\ call[p].pc = "relRow"
        /\ redis[SeatAt(p)] # call[p].t
    BY DEF HandlerStep, ReleaseRow, At, KeysExplained, CallKnows
  <1>1. /\ call'[p].pc = "reply"
        /\ \A s \in Seats : \/ row'[s] = row[s] /\ row[s].token # call[p].t
                            \/ /\ s = SeatAt(p) /\ row[s].token = call[p].t
                               /\ row[s].status = "LOCKED" /\ row'[s].token = NoToken
    BY <1>0, KeyFacts, RowValues DEF ReleaseRow, Answer, FreeRowOf, RowWellFormed, Calls
  <1>2. ASSUME NEW s \in Seats PROVE KeyHasReason(s)'
    BY <1>0, <1>1, KeyFacts DEF KeysExplained, KeyHasReason, At
  <1>3. ASSUME NEW s \in Seats PROVE LockHasKey(s)'
    BY <1>0, <1>1, KeyFacts DEF KeysExplained, LockHasKey, At
  <1>4. ASSUME NEW q \in Pods PROVE CallKnows(q)'
    <2>1. CASE q = p
      BY <1>1, <2>1 DEF CallKnows, At
    <2>2. CASE q # p
      BY <1>0, <1>1, <2>2, KeyFacts DEF KeysExplained, CallKnows, At
    <2> QED BY <2>1, <2>2
  <1> QED BY <1>2, <1>3, <1>4 DEF KeysExplained

LEMMA KeysConfirmRow ==
  ASSUME LockInv, KeysExplained, NEW p \in Pods, ConfirmRow(p)
  PROVE  KeysExplained'
  <1>0. HandlerStep(p) /\ UNCHANGED redis /\ call[p].pc = "confRow"
    BY DEF HandlerStep, ConfirmRow, At
  <1>1. CASE Answer(p, FALSE) /\ UNCHANGED row
    <2>1. call'[p].pc = "reply"
      BY <1>0, <1>1, KeyFacts DEF Answer
    <2> QED BY <1>0, <1>1, <2>1, KeyFacts, KeysUntouched
  <1>2. CASE Confirmable(SeatAt(p), call[p].t) /\ BookRow(SeatAt(p), call[p].t)
             /\ Goto(p, "confKey")
    <2>0. /\ call'[p].pc = "confKey" /\ SeatAt(p)' = SeatAt(p)
          /\ row'[SeatAt(p)].status = "BOOKED" /\ row'[SeatAt(p)].token = NoToken
          /\ \A s \in Seats \ {SeatAt(p)} : row'[s] = row[s]
      BY <1>0, <1>2, KeyFacts, RowValues DEF Goto, SeatAt, BookRow, SetRow, Calls
    <2>1. ASSUME NEW s \in Seats PROVE KeyHasReason(s)'
      BY <1>0, <2>0, KeyFacts DEF KeysExplained, KeyHasReason, At
    <2>2. ASSUME NEW s \in Seats PROVE LockHasKey(s)'
      BY <1>0, <2>0, KeyFacts DEF KeysExplained, LockHasKey, At
    <2>3. ASSUME NEW q \in Pods PROVE CallKnows(q)'
      <3>1. CASE q = p
        BY <2>0, <3>1 DEF CallKnows, At
      <3>2. CASE q # p
        BY <1>0, <2>0, <3>2, KeyFacts DEF KeysExplained, CallKnows, At
      <3> QED BY <3>1, <3>2
    <2> QED BY <2>1, <2>2, <2>3 DEF KeysExplained
  <1> QED BY <1>1, <1>2 DEF ConfirmRow

\* confirm's DEL hits whatever key the seat has: the seat is BOOKED, and a lock
\* call that has taken the key by now can only lose.
LEMMA KeysConfirmKey ==
  ASSUME LockInv, KeysExplained, NEW p \in Pods, ConfirmKey(p)
  PROVE  KeysExplained'
  <1>0. /\ HandlerStep(p) /\ UNCHANGED row /\ call[p].pc = "confKey"
        /\ row[SeatAt(p)].status = "BOOKED"
    BY DEF HandlerStep, ConfirmKey, At, KeysExplained, CallKnows
  <1>1. /\ call'[p].pc = "reply"
        /\ redis'[SeatAt(p)] = NoToken
        /\ \A s \in Seats \ {SeatAt(p)} : redis'[s] = redis[s]
        /\ row[SeatAt(p)].token = NoToken
    BY <1>0, KeyFacts DEF ConfirmKey, Answer, DeleteKey, RowWellFormed, Rows, Calls
  <1>2. ASSUME NEW s \in Seats PROVE KeyHasReason(s)'
    BY <1>0, <1>1, KeyFacts DEF KeysExplained, KeyHasReason, At
  <1>3. ASSUME NEW s \in Seats PROVE LockHasKey(s)'
    BY <1>0, <1>1, KeyFacts DEF KeysExplained, LockHasKey, At
  <1>4. ASSUME NEW q \in Pods PROVE CallKnows(q)'
    <2>1. CASE q = p
      BY <1>1, <2>1 DEF CallKnows, At
    <2>2. CASE q # p
      BY <1>0, <1>1, <2>2, KeyFacts DEF KeysExplained, CallKnows, At
    <2> QED BY <2>1, <2>2
  <1> QED BY <1>2, <1>3, <1>4 DEF KeysExplained

LEMMA KeyInvStep ==
  ASSUME OnlyHandlers, LockInv, KeyInv, LockerNext
  PROVE  KeyInv'
  <1>0. /\ LockerTypeOK /\ CallInOrder /\ AdminAsked /\ Undisturbed /\ NoCleanup
        /\ call \in [Pods -> Calls]
        /\ row \in [Seats -> Rows]
        /\ faults \in Nat /\ admin.pc # "resetKeys"
        /\ \A q \in Pods : call[q].pc # "idle" => SeatAt(q) \in Seats
    BY SeatOfCall DEF LockInv, LockerTypeOK, CallTypeOK, RowTypeOK, OnlyHandlers, Undisturbed, KeyInv
  <1>1. ASSUME NEW p \in Pods, HandlerStep(p), KeysExplained
        PROVE  KeysExplained'
    <2>1. CASE LockUpdate(p) \/ LockInsert(p)
      <3>1. CASE Answer(p, TRUE) /\ SetRow(SeatAt(p), LockedWith(call[p].t))
                 /\ row[SeatAt(p)].status \in {"AVAILABLE", "MISSING"}
        BY <1>1, <2>1, <3>1, KeysWin DEF LockUpdate, LockInsert, At
      <3>2. CASE UNCHANGED row /\ \E pc \in {"find", "undo"} : Goto(p, pc)
        BY <1>1, <2>1, <3>2, KeysGoOn DEF LockUpdate, LockInsert, At
      <3> QED BY <2>1, <3>1, <3>2 DEF LockUpdate, LockInsert
    <2>2. CASE LockFind(p)
      <3>1. \E pc \in {"insert", "undo"} : Goto(p, pc)
        BY <2>2 DEF LockFind
      <3> QED BY <1>1, <2>2, <3>1, KeysGoOn DEF LockFind, At
    <2> QED BY <1>1, <2>1, <2>2, KeysSetNX, KeysDropped, KeysReleaseRow, KeysConfirmRow,
               KeysConfirmKey DEF HandlerStep
  <1>2. ASSUME NEW p \in Pods, ClientStep(p) \/ Reply(p), KeysExplained
        PROVE  KeysExplained'
    <2>1. /\ UNCHANGED <<row, redis>>
          /\ call[p].pc \in {"idle", "reply"}
          /\ call'[p].pc \in {"idle", "setnx", "relKey", "confRow"}
          /\ \A q \in Pods \ {p} : call'[q] = call[q]
      BY <1>0, <1>2 DEF ClientStep, StartLock, StartRelease, StartConfirm, Reply, At, Idle
    <2> QED BY <1>0, <1>2, <2>1, KeysUntouched
  <1>3. CASE ~ \E p \in Pods : ClientStep(p) \/ HandlerStep(p) \/ Reply(p) \/ PodCrash(p)
    <2>1. /\ UNCHANGED <<call, faults>>
          /\ \A s \in Seats : row'[s].token = row[s].token
      BY <1>0, <1>3, QuietSteps
    <2>2. UNCHANGED redis /\ admin'.pc # "resetKeys"
      <3>1. CASE AdminStep
        <4>1. ~ \E s \in Seats : ResetKey(s)
          BY <1>0 DEF ResetKey
        <4>2. ~ \E scope \in ResetScopes : ResetRows(scope)
          BY <1>0 DEF ResetRows, NoCleanup
        <4>3. ASSUME NEW s \in Seats, AddFind(s) \/ AddSave(s) \/ RemoveFind(s) \/ RemoveDelete(s)
              PROVE  UNCHANGED redis /\ admin'.pc # "resetKeys"
          BY <4>3 DEF AddFind, AddSave, RemoveFind, RemoveDelete, AdminIdle
        <4> QED BY <3>1, <4>1, <4>2, <4>3 DEF AdminStep
      <3>2. ASSUME NEW u \in Seats, RowExpires(u) \/ KeyExpires(u)
            PROVE  UNCHANGED redis /\ admin'.pc # "resetKeys"
        BY <1>0, <3>2 DEF RowExpires, KeyExpires, OnlyHandlers
      <3> QED BY <1>3, <3>1, <3>2 DEF LockerNext, OnlyHandlers, Undisturbed, NoCleanup,
                                      CallRejects, Fault
    <2>3. \A s \in Seats : row[s].status = "BOOKED" => row'[s].status = "BOOKED"
      BY <1>0, RowsRespected
    <2>4. ASSUME KeysExplained PROVE KeysExplained'
      BY <1>0, <2>1, <2>2, <2>3, <2>4 DEF KeysExplained, KeyHasReason, LockHasKey, CallKnows,
                                          SeatAt, At
    <2> QED BY <2>1, <2>2, <2>4 DEF KeyInv
  <1>4. ASSUME NEW p \in Pods, HandlerStep(p) \/ ClientStep(p) \/ Reply(p)
        PROVE  KeyInv'
    <2>1. UNCHANGED <<admin, faults>>
      BY <1>4 DEF HandlerStep, LockSetNX, LockUpdate, LockFind, LockInsert, LockUndo, ReleaseKey,
                  ReleaseRow, ConfirmRow, ConfirmKey, ClientStep, StartLock, StartRelease,
                  StartConfirm, Reply
    <2> QED BY <1>1, <1>2, <1>4, <2>1 DEF KeyInv
  <1>5. ASSUME NEW p \in Pods, PodCrash(p)
        PROVE  KeyInv'
    BY <1>0, <1>5 DEF PodCrash, Fault, KeyInv
  <1> QED BY <1>3, <1>4, <1>5

\* When nothing runs and nothing ever crashed, a seat has a key exactly while it is
\* LOCKED, and with the same token: whatever lock, release and confirm calls raced,
\* none has left a key that would block the seat, or taken one away. (tryRollback
\* and RELEASE_SCRIPT, SeatLockerService)
THEOREM KeysAgreeAtRest ==
  ASSUME OnlyHandlers
  PROVE  LockerSpec => []QuietKeysAgree
  <1>0. Undisturbed
    BY DEF OnlyHandlers
  <1>1. LockerInit => KeyInv
    <2> SUFFICES ASSUME LockerInit PROVE KeyInv
      OBVIOUS
    <2>1. \A s \in Seats : redis[s] = NoToken /\ row[s].token = NoToken
      BY RowValues DEF LockerInit
    <2>2. \A p \in Pods : call[p].pc = "idle"
      BY DEF LockerInit, Idle
    <2>3. admin.pc = "idle"
      BY DEF LockerInit, AdminIdle
    <2> QED BY <2>1, <2>2, <2>3 DEF KeyInv, KeysExplained, KeyHasReason, LockHasKey, CallKnows, At
  <1>2. LockInv /\ KeyInv /\ [LockerNext]_lockerVars => KeyInv'
    <2>1. CASE LockerNext
      BY <2>1, KeyInvStep
    <2>2. CASE UNCHANGED lockerVars
      BY <2>2 DEF lockerVars, KeyInv, KeysExplained, KeyHasReason, LockHasKey, CallKnows,
                  SeatAt, At
    <2> QED BY <2>1, <2>2
  <1>3. KeyInv => QuietKeysAgree
    BY DEF KeyInv, KeysExplained, KeyHasReason, LockHasKey, At, QuietKeysAgree
  <1> QED BY <1>0, <1>1, <1>2, <1>3, LockInvHolds, PTL DEF LockerSpec

=============================================================================
