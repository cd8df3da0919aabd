-------------------------- MODULE SeatCacheProofs ---------------------------
(***************************************************************************)
(* Theorems about SeatCache, for any seats, bookings, pods and bounds:     *)
(* types, and the reasons for which a free seat is refused and a taken     *)
(* seat is offered.                                                        *)
(***************************************************************************)
EXTENDS SeatCache, SeatChangesProofs

USE SeatOfAssumption, CronPodsAssumption, ManagedAssumption, NoBookingAssumption,
    DisordersAssumption, MaxSnapshotsAssumption, MaxFeedAssumption, MaxTroublesAssumption

-----------------------------------------------------------------------------
(* Types                                                                   *)

\* A request is in flight in one pod, and its reservation is only given back there
\* once the booking has failed.
KeptInflight ==
    /\ \A q, r \in BookingPods : q # r => inflight[q] \cap inflight[r] = {}
    /\ \A b \in returning : b \in InFlight => request[b] = "done"

Types == TypeOK /\ KeptInflight

TypeInv == Types /\ Answering

\* The conjuncts of Types about the cache and its messages ...
CacheTypes ==
    /\ offered \subseteq Seats
    /\ feed \in Seq(Feeds)
    /\ snapshot \in [Pods -> [stage : {"none", "reset", "read"}, seats : SUBSET Seats]]
    /\ snapshots \in 0..MaxSnapshots
    /\ published \in BOOLEAN
    /\ outdated \subseteq Seats
    /\ unheard \subseteq Seats \X BOOLEAN
    /\ troubles \in 0..MaxTroubles

\* ... and about the requests.
RequestTypes ==
    /\ returning \subseteq {b \in Bookings : request[b] \in {"releasing", "released", "done"}}
    /\ stranded \subseteq {b \in Bookings : request[b] \in {"releasing", "released", "done"}}
    /\ returning \cap stranded = {}
    /\ inflight \in [BookingPods -> SUBSET Bookings]
    /\ \A q \in BookingPods : \A b \in inflight[q] :
          /\ request[b] \in {"none", "reserved"} \/ b \in returning
          /\ \A c \in inflight[q] \ {b} : SeatOf[c] # SeatOf[b]
    /\ KeptInflight

LEMMA TypeInvParts == TypeInv <=> SeatsTypeOK /\ CacheTypes /\ RequestTypes /\ Answering
  BY DEF TypeInv, Types, TypeOK, CacheTypes, RequestTypes

LEMMA TypesNext == Types' <=> SeatsTypeOK' /\ CacheTypes' /\ RequestTypes'
  BY DEF Types, TypeOK, CacheTypes, RequestTypes

LEMMA TypeInvPartsNext ==
  TypeInv' <=> SeatsTypeOK' /\ CacheTypes' /\ RequestTypes' /\ Answering'
  BY TypesNext DEF TypeInv

LEMMA TroubleType ==
  ASSUME CacheTypes, Trouble
  PROVE  troubles' \in 0..MaxTroubles
  BY DEF CacheTypes, Trouble

\* News is about seats.
LEMMA NewsTypes ==
  /\ \A s \in Seats : \A available \in BOOLEAN : <<s, available>> \in Seats \X BOOLEAN
  /\ \A S \in SUBSET Seats :
        S \X {TRUE} \subseteq Seats \X BOOLEAN /\ \A s \in S : <<s, TRUE>> \in S \X {TRUE}
  OBVIOUS

LEMMA MissedTypes ==
  ASSUME CacheTypes, NEW news \in SUBSET (Seats \X BOOLEAN), Missed(news)
  PROVE  /\ unheard' \subseteq Seats \X BOOLEAN
         /\ unheard \subseteq unheard' /\ \A n \in news : n \in unheard'
  BY DEF CacheTypes, Missed

LEMMA InitTypes == Init => TypeInv
  <1> SUFFICES ASSUME Init PROVE TypeInv
    OBVIOUS
  <1>1. SeatsTypeOK
    BY DEF Init, SeatsInit, SeatsTypeOK, NoSweep, Requests, Taken
  <1>2. CacheTypes
    <2>1. NoSnapshot \in [stage : {"none", "reset", "read"}, seats : SUBSET Seats]
      BY DEF NoSnapshot
    <2>2. feed \in Seq(Feeds) /\ snapshots \in 0..MaxSnapshots
      BY DEF Init
    <2>3. /\ offered = {} /\ snapshot = [p \in Pods |-> NoSnapshot]
          /\ outdated = {} /\ unheard = {} /\ troubles = 0
      BY DEF Init
    <2>4. published \in BOOLEAN
      BY DEF Init
    <2>5. troubles \in 0..MaxTroubles
      BY <2>3
    <2> QED BY <2>1, <2>2, <2>3, <2>4, <2>5 DEF CacheTypes
  <1>3. RequestTypes
    BY DEF Init, RequestTypes, KeptInflight
  <1>4. Answering
    BY DEF Init, SeatsInit, Answering
  <1> QED BY <1>1, <1>2, <1>3, <1>4, TypeInvParts

\* What is published joins the feed.
LEMMA PublishTypes ==
  ASSUME CacheTypes, NEW m \in Feeds, Publish(m)
  PROVE  feed' \in Seq(Feeds) /\ feed' = Append(feed, m)
  BY DEF CacheTypes, Publish

\* Every message is one of three kinds.
LEMMA FeedTypes ==
  /\ \A s \in Seats : \A available \in BOOLEAN : Changed(s, available) \in Feeds
  /\ \A S \in SUBSET Seats : Fresh(S) \in Feeds
  /\ WithoutFlight \in Feeds
  BY DEF Feeds, Changed, Fresh

\* The members of the maps, one pod at a time.
LEMMA InFlightMembers ==
  ASSUME RequestTypes
  PROVE  /\ \A b : b \in InFlight <=> \E q \in BookingPods : b \in inflight[q]
         /\ InFlight \subseteq Bookings
  <1>1. inflight \in [BookingPods -> SUBSET Bookings]
    BY DEF RequestTypes
  <1> QED BY <1>1 DEF InFlight

LEMMA SettleMembers ==
  ASSUME RequestTypes, NEW b, Settle(b, TRUE) \/ Settle(b, FALSE)
  PROVE  /\ inflight' \in [BookingPods -> SUBSET Bookings]
         /\ \A q \in BookingPods : inflight'[q] = inflight[q] \ {b}
  BY DEF RequestTypes, Settle

\* What the requests of all pods come to in the next state.
LEMMA RequestTypesNext ==
  ASSUME returning' \subseteq {b \in Bookings : request'[b] \in {"releasing", "released", "done"}},
         stranded' \subseteq {b \in Bookings : request'[b] \in {"releasing", "released", "done"}},
         returning' \cap stranded' = {},
         inflight' \in [BookingPods -> SUBSET Bookings],
         \A q \in BookingPods : \A b \in inflight'[q] :
           /\ request'[b] \in {"none", "reserved"} \/ b \in returning'
           /\ b \in returning' => request'[b] = "done"
           /\ \A c \in inflight'[q] \ {b} : SeatOf[c] # SeatOf[b],
         \A q, r \in BookingPods : q # r => inflight'[q] \cap inflight'[r] = {}
  PROVE  RequestTypes'
  <1>1. \A b : b \in InFlight' => \E q \in BookingPods : b \in inflight'[q]
    BY DEF InFlight
  <1> QED BY <1>1 DEF RequestTypes, KeptInflight

LEMMA RequestStepTypes ==
  ASSUME TypeInv, NEW q \in BookingPods, NEW b \in Bookings, Request(q, b)
  PROVE  Types'
  <1>0. SeatsTypeOK /\ CacheTypes /\ RequestTypes
    BY TypeInvParts
  <1>1. SeatsTypeOK'
    <2>1. CASE UNCHANGED request
      BY <1>0, <2>1 DEF Request, SeatsTypeOK, rowVars, Taken
    <2>2. CASE Becomes(b, "refused")
      BY <1>0, <2>2, AsksTypes DEF Request, Asks, Requests
    <2> QED BY <2>1, <2>2 DEF Request
  <1>2. CacheTypes'
    BY <1>0 DEF Request, CacheTypes, lossVars
  <1>3. /\ request[b] = "none" /\ UNCHANGED <<returning, stranded>>
        /\ \A r \in BookingPods : b \notin inflight[r]
    BY <1>0, InFlightMembers DEF Request
  <1>4. b \notin returning /\ b \notin stranded
    BY <1>0, <1>3 DEF RequestTypes
  <1>5. request' \in [Bookings -> Requests] /\ \A c \in Bookings \ {b} : request'[c] = request[c]
    BY <1>0, <1>1 DEF Request, Becomes, SeatsTypeOK
  <1>6. /\ inflight' \in [BookingPods -> SUBSET Bookings]
        /\ \A r \in BookingPods \ {q} : inflight'[r] = inflight[r]
        /\ inflight'[q] = inflight[q] \/ inflight'[q] = inflight[q] \cup {b}
    BY <1>0 DEF Request, RequestTypes
  <1>7. /\ b \in inflight'[q] =>
              /\ inflight'[q] = inflight[q] \cup {b} /\ request'[b] = "none"
              /\ \A c \in inflight[q] : SeatOf[c] # SeatOf[b]
        /\ b \notin inflight'[q] => inflight'[q] = inflight[q]
    BY <1>0, <1>3, <1>6 DEF Request, RequestTypes
  <1>8. RequestTypes'
    <2>1. \A r \in BookingPods : \A c \in inflight'[r] : c # b => c \in inflight[r]
      BY <1>6
    <2>2. /\ returning' \subseteq {c \in Bookings : request'[c] \in {"releasing", "released", "done"}}
          /\ stranded' \subseteq {c \in Bookings : request'[c] \in {"releasing", "released", "done"}}
          /\ returning' \cap stranded' = {}
      BY <1>0, <1>3, <1>4, <1>5 DEF RequestTypes
    <2>3. \A r \in BookingPods : \A c \in inflight'[r] :
            /\ request'[c] \in {"none", "reserved"} \/ c \in returning'
            /\ c \in returning' => request'[c] = "done"
      <3> TAKE r \in BookingPods
      <3> TAKE c \in inflight'[r]
      <3>1. c \in Bookings
        BY <1>6
      <3>2. CASE c = b
        BY <3>2, <1>3, <1>4, <1>6, <1>7
      <3>3. CASE c # b
        <4>1. c \in inflight[r] /\ request'[c] = request[c]
          BY <2>1, <3>1, <3>3, <1>5
        <4> QED BY <4>1, <1>0, <1>3, InFlightMembers DEF RequestTypes, KeptInflight
      <3> QED BY <3>2, <3>3
    <2>4. \A r \in BookingPods : \A c \in inflight'[r] : \A d \in inflight'[r] \ {c} :
            SeatOf[d] # SeatOf[c]
      BY <1>0, <1>3, <1>6, <1>7 DEF RequestTypes
    <2>5. \A r, t \in BookingPods : r # t => inflight'[r] \cap inflight'[t] = {}
      BY <1>0, <1>3, <1>6, <1>7 DEF RequestTypes, KeptInflight
    <2> QED BY <1>6, <2>2, <2>3, <2>4, <2>5, RequestTypesNext
  <1> QED BY <1>1, <1>2, <1>8, TypesNext

\* Steps that leave the map of every pod alone, or take requests out of it.
LEMMA FewerInflight ==
  ASSUME RequestTypes,
         inflight' \in [BookingPods -> SUBSET Bookings],
         \A q \in BookingPods : inflight'[q] \subseteq inflight[q],
         \A q \in BookingPods : \A b \in inflight'[q] :
           /\ request'[b] \in {"none", "reserved"} \/ b \in returning'
           /\ b \in returning' => request'[b] = "done",
         returning' \subseteq {b \in Bookings : request'[b] \in {"releasing", "released", "done"}},
         stranded' \subseteq {b \in Bookings : request'[b] \in {"releasing", "released", "done"}},
         returning' \cap stranded' = {}
  PROVE  RequestTypes'
  <1>1. \A q \in BookingPods : \A b \in inflight'[q] : \A c \in inflight'[q] \ {b} :
          SeatOf[c] # SeatOf[b]
    BY DEF RequestTypes
  <1>2. \A q, r \in BookingPods : q # r => inflight'[q] \cap inflight'[r] = {}
    BY DEF RequestTypes, KeptInflight
  <1> QED BY <1>1, <1>2, RequestTypesNext

LEMMA TryReserveTypes ==
  ASSUME TypeInv, NEW b \in Bookings, TryReserve(b)
  PROVE  Types'
  <1>0. SeatsTypeOK /\ CacheTypes /\ RequestTypes
    BY TypeInvParts
  <1>1. \E r \in {"reserved", "refused"} : Becomes(b, r)
    BY DEF TryReserve
  <1>2. SeatsTypeOK'
    BY <1>0, <1>1, AsksTypes DEF TryReserve, Asks, Requests
  <1>3. CacheTypes'
    BY <1>0 DEF TryReserve, CacheTypes, lossVars
  <1>4. /\ request[b] = "none" /\ UNCHANGED <<returning, stranded>>
        /\ b \notin returning /\ b \notin stranded
    BY <1>0 DEF TryReserve, RequestTypes
  <1>5. \A c \in Bookings \ {b} : request'[c] = request[c]
    BY <1>0, <1>1 DEF Becomes, SeatsTypeOK
  <1>6. /\ inflight' \in [BookingPods -> SUBSET Bookings]
        /\ \A q \in BookingPods : inflight'[q] \subseteq inflight[q]
        /\ request'[b] = "reserved" \/ \A q \in BookingPods : b \notin inflight'[q]
    <2>1. CASE UNCHANGED inflight /\ Becomes(b, "reserved")
      BY <1>0, <2>1 DEF RequestTypes, Becomes, SeatsTypeOK
    <2>2. CASE Settle(b, FALSE)
      <3>1. \A q \in BookingPods : inflight'[q] = inflight[q] \ {b}
        BY <1>0, <2>2, SettleMembers
      <3>2. inflight' \in [BookingPods -> SUBSET Bookings]
        BY <1>0, <2>2, SettleMembers
      <3> QED BY <3>1, <3>2
    <2>3. (UNCHANGED inflight /\ Becomes(b, "reserved")) \/ Settle(b, FALSE)
      BY DEF TryReserve
    <2> QED BY <2>1, <2>2, <2>3
  <1>7. \A q \in BookingPods : \A c \in inflight'[q] :
          /\ request'[c] \in {"none", "reserved"} \/ c \in returning'
          /\ c \in returning' => request'[c] = "done"
    <2> TAKE q \in BookingPods
    <2> TAKE c \in inflight'[q]
    <2>1. CASE c = b
      BY <2>1, <1>4, <1>6
    <2>2. CASE c # b
      BY <2>2, <1>0, <1>4, <1>5, <1>6, InFlightMembers DEF RequestTypes, KeptInflight
    <2> QED BY <2>1, <2>2
  <1>8. /\ returning' \subseteq {c \in Bookings : request'[c] \in {"releasing", "released", "done"}}
        /\ stranded' \subseteq {c \in Bookings : request'[c] \in {"releasing", "released", "done"}}
        /\ returning' \cap stranded' = {}
    BY <1>0, <1>4, <1>5 DEF RequestTypes
  <1>9. RequestTypes'
    BY <1>0, <1>6, <1>7, <1>8, FewerInflight
  <1> QED BY <1>2, <1>3, <1>9, TypesNext

LEMMA ReserveUnansweredTypes ==
  ASSUME TypeInv, NEW b \in Bookings, ReserveUnanswered(b)
  PROVE  Types'
  <1>0. SeatsTypeOK /\ CacheTypes /\ RequestTypes
    BY TypeInvParts
  <1>1. SeatsTypeOK'
    BY <1>0, AsksTypes DEF ReserveUnanswered, Asks, Requests
  <1>2. CacheTypes'
    BY <1>0, TroubleType DEF ReserveUnanswered, CacheTypes
  <1>3. /\ request[b] = "none" /\ UNCHANGED returning /\ stranded' = stranded \cup {b}
        /\ b \notin returning
    BY <1>0 DEF ReserveUnanswered, RequestTypes
  <1>4. request'[b] = "done" /\ \A c \in Bookings \ {b} : request'[c] = request[c]
    BY <1>0 DEF ReserveUnanswered, Becomes, SeatsTypeOK
  <1>5. Settle(b, FALSE)
    BY DEF ReserveUnanswered
  <1>6. /\ inflight' \in [BookingPods -> SUBSET Bookings]
        /\ \A q \in BookingPods : inflight'[q] = inflight[q] \ {b}
    BY <1>0, <1>5, SettleMembers
  <1>7. \A q \in BookingPods : \A c \in inflight'[q] :
          /\ request'[c] \in {"none", "reserved"} \/ c \in returning'
          /\ c \in returning' => request'[c] = "done"
    BY <1>0, <1>3, <1>4, <1>6, InFlightMembers DEF RequestTypes, KeptInflight
  <1>8. /\ returning' \subseteq {c \in Bookings : request'[c] \in {"releasing", "released", "done"}}
        /\ stranded' \subseteq {c \in Bookings : request'[c] \in {"releasing", "released", "done"}}
        /\ returning' \cap stranded' = {}
    BY <1>0, <1>3, <1>4 DEF RequestTypes
  <1>9. RequestTypes'
    BY <1>0, <1>6, <1>7, <1>8, FewerInflight
  <1> QED BY <1>1, <1>2, <1>9, TypesNext

LEMMA CreateTypes ==
  ASSUME TypeInv, NEW b \in Bookings, Create(b)
  PROVE  Types'
  <1>0. SeatsTypeOK /\ CacheTypes /\ RequestTypes
    BY TypeInvParts
  <1>1. \E r \in {"asked", "done"} : Becomes(b, r)
    BY DEF Create
  <1>2. SeatsTypeOK'
    BY <1>0, <1>1, AsksTypes DEF Create, Asks, Requests
  <1>3. CacheTypes'
    BY <1>0 DEF Create, CacheTypes, lossVars
  <1>4. request[b] = "reserved" /\ b \notin returning /\ b \notin stranded
    BY <1>0 DEF Create, RequestTypes
  <1>5. request'[b] \in {"asked", "done"} /\ \A c \in Bookings \ {b} : request'[c] = request[c]
    BY <1>0, <1>1 DEF Becomes, SeatsTypeOK
  <1>6. \/ Becomes(b, "asked") /\ Settle(b, TRUE) /\ UNCHANGED <<returning, stranded>>
        \/ /\ Becomes(b, "done") /\ Settle(b, TRUE)
           /\ stranded' = stranded \cup {b} /\ UNCHANGED returning
        \/ /\ Becomes(b, "done") /\ returning' = returning \cup {b}
           /\ UNCHANGED <<stranded, inflight>>
    BY DEF Create
  <1>7. /\ inflight' \in [BookingPods -> SUBSET Bookings]
        /\ \A q \in BookingPods : inflight'[q] \subseteq inflight[q]
        /\ b \in returning' \/ \A q \in BookingPods : b \notin inflight'[q]
    <2>1. CASE Settle(b, TRUE)
      <3>1. \A q \in BookingPods : inflight'[q] = inflight[q] \ {b}
        BY <1>0, <2>1, SettleMembers
      <3>2. inflight' \in [BookingPods -> SUBSET Bookings]
        BY <1>0, <2>1, SettleMembers
      <3> QED BY <3>1, <3>2
    <2>2. CASE returning' = returning \cup {b} /\ UNCHANGED <<stranded, inflight>>
      BY <1>0, <2>2 DEF RequestTypes
    <2> QED BY <1>6, <2>1, <2>2
  <1>8. /\ returning \subseteq returning' /\ returning' \subseteq returning \cup {b}
        /\ stranded \subseteq stranded' /\ stranded' \subseteq stranded \cup {b}
        /\ b \in returning' => b \notin stranded'
        /\ b \in returning' \/ b \in stranded' => request'[b] = "done"
    BY <1>0, <1>4, <1>6 DEF Becomes, SeatsTypeOK
  <1>9. \A q \in BookingPods : \A c \in inflight'[q] :
          /\ request'[c] \in {"none", "reserved"} \/ c \in returning'
          /\ c \in returning' => request'[c] = "done"
    <2> TAKE q \in BookingPods
    <2> TAKE c \in inflight'[q]
    <2>1. CASE c = b
      BY <2>1, <1>7, <1>8
    <2>2. CASE c # b
      BY <2>2, <1>0, <1>5, <1>7, <1>8, InFlightMembers DEF RequestTypes, KeptInflight
    <2> QED BY <2>1, <2>2
  <1>10. /\ returning' \subseteq {c \in Bookings : request'[c] \in {"releasing", "released", "done"}}
         /\ stranded' \subseteq {c \in Bookings : request'[c] \in {"releasing", "released", "done"}}
         /\ returning' \cap stranded' = {}
    BY <1>0, <1>5, <1>8 DEF RequestTypes
  <1>11. RequestTypes'
    BY <1>0, <1>7, <1>9, <1>10, FewerInflight
  <1> QED BY <1>2, <1>3, <1>11, TypesNext

LEMMA BookingCrashTypes ==
  ASSUME TypeInv, NEW q \in BookingPods, BookingCrash(q)
  PROVE  Types'
  <1>0. SeatsTypeOK /\ CacheTypes /\ RequestTypes
    BY TypeInvParts
  <1>1. /\ request' \in [Bookings -> Requests]
        /\ \A b \in Bookings : b \notin inflight[q] => request'[b] = request[b]
        /\ \A b \in inflight[q] :
              request'[b] = IF request[b] = "none" THEN "refused" ELSE "done"
    BY <1>0 DEF BookingCrash, SeatsTypeOK, Requests, RequestTypes
  <1>2. SeatsTypeOK'
    BY <1>0, <1>1 DEF BookingCrash, SeatsTypeOK, rowVars, Taken
  <1>3. CacheTypes'
    BY <1>0 DEF BookingCrash, CacheTypes, lossVars
  <1>4. /\ inflight' \in [BookingPods -> SUBSET Bookings]
        /\ inflight'[q] = {} /\ \A r \in BookingPods \ {q} : inflight'[r] = inflight[r]
    BY <1>0 DEF BookingCrash, RequestTypes
  <1>5. /\ returning' = returning \ inflight[q]
        /\ stranded' = stranded \cup {b \in inflight[q] : request[b] # "none"}
    BY DEF BookingCrash
  <1>6. \A r \in BookingPods : \A b \in inflight'[r] :
          /\ request'[b] \in {"none", "reserved"} \/ b \in returning'
          /\ b \in returning' => request'[b] = "done"
    <2> TAKE r \in BookingPods
    <2> TAKE b \in inflight'[r]
    <2>1. r # q /\ b \in inflight[r] /\ b \in Bookings
      BY <1>4
    <2>2. b \notin inflight[q]
      BY <1>0, <2>1 DEF RequestTypes, KeptInflight
    <2>3. request'[b] = request[b] /\ (b \in returning' <=> b \in returning)
      BY <1>1, <1>5, <2>1, <2>2
    <2> QED BY <1>0, <2>1, <2>3, InFlightMembers DEF RequestTypes, KeptInflight
  <1>7. /\ returning' \subseteq {c \in Bookings : request'[c] \in {"releasing", "released", "done"}}
        /\ stranded' \subseteq {c \in Bookings : request'[c] \in {"releasing", "released", "done"}}
        /\ returning' \cap stranded' = {}
    BY <1>0, <1>1, <1>5 DEF RequestTypes
  <1>8. RequestTypes'
    BY <1>0, <1>4, <1>6, <1>7, FewerInflight
  <1> QED BY <1>2, <1>3, <1>8, TypesNext

\* The requests, after a step that leaves the maps alone and moves some on: those in B
\* have failed and will be put back, those in C will not.
LEMMA MovedTypes ==
  ASSUME RequestTypes, UNCHANGED inflight,
         NEW B \in SUBSET Bookings, NEW C \in SUBSET Bookings, B \cap C = {},
         returning' = returning \cup B, stranded' = stranded \cup C,
         \A b \in B \cup C :
            /\ request[b] \in {"asked", "locked", "lost"}
            /\ request'[b] \in {"releasing", "done"},
         \A b \in Bookings :
            /\ request[b] \in {"none", "reserved"} => request'[b] = request[b]
            /\ request[b] = "done" => request'[b] = "done"
            /\ request[b] \in {"releasing", "released", "done"} =>
                  request'[b] \in {"releasing", "released", "done"}
  PROVE  RequestTypes'
  <1>1. \A b \in B \cup C : b \notin returning /\ b \notin stranded
    BY DEF RequestTypes
  <1>2. \A q \in BookingPods : \A b \in inflight'[q] :
          /\ request'[b] \in {"none", "reserved"} \/ b \in returning'
          /\ b \in returning' => request'[b] = "done"
    <2> TAKE q \in BookingPods
    <2> TAKE b \in inflight'[q]
    <2>1. b \in inflight[q] /\ b \in Bookings /\ b \in InFlight
      BY InFlightMembers DEF RequestTypes
    <2>2. CASE b \in returning
      <3>1. request[b] = "done"
        BY <2>1, <2>2 DEF RequestTypes, KeptInflight
      <3> QED BY <2>1, <2>2, <3>1
    <2>3. CASE b \notin returning
      <3>1. request[b] \in {"none", "reserved"}
        BY <2>1, <2>3 DEF RequestTypes
      <3>2. b \notin returning'
        BY <2>3, <3>1
      <3> QED BY <2>1, <3>1, <3>2
    <2> QED BY <2>2, <2>3
  <1>3. returning' \subseteq {c \in Bookings : request'[c] \in {"releasing", "released", "done"}}
    BY DEF RequestTypes
  <1>4. stranded' \subseteq {c \in Bookings : request'[c] \in {"releasing", "released", "done"}}
    BY DEF RequestTypes
  <1>5. returning' \cap stranded' = {}
    BY <1>1 DEF RequestTypes
  <1> QED BY <1>2, <1>3, <1>4, <1>5, FewerInflight DEF RequestTypes

\* The rows' own steps answer requests in order.
LEMMA AnsweredInOrder ==
  ASSUME SeatsTypeOK, SeatAction, NEW b \in Bookings
  PROVE  /\ request[b] \in {"none", "reserved"} => request'[b] = request[b]
         /\ request[b] = "done" => request'[b] = "done"
         /\ request[b] \in {"releasing", "released", "done"} =>
               request'[b] \in {"releasing", "released", "done"}
  BY RequestMoves

LEMMA CompensateTypes ==
  ASSUME TypeInv, NEW b \in Bookings, Compensate(b)
  PROVE  Types'
  <1>0. SeatsTypeOK /\ CacheTypes /\ RequestTypes
    BY TypeInvParts
  <1>1. CacheTypes'
    BY <1>0 DEF Compensate, CacheTypes, lossVars
  <1>2. CASE GiveUp(b)
    <2>1. SeatAction
      BY <1>2 DEF SeatAction, RowAction
    <2>2. request[b] = "locked" /\ request'[b] = "releasing"
      BY <1>0, <1>2 DEF GiveUp, Notified, Becomes, SeatsTypeOK
    <2>3. returning' = returning \cup {b} /\ UNCHANGED <<inflight, stranded>>
      BY DEF Compensate
    <2>4. \A c \in {b} \cup {} :
            /\ request[c] \in {"asked", "locked", "lost"} /\ request'[c] \in {"releasing", "done"}
      BY <2>2
    <2>5. SeatsTypeOK'
      BY <1>0, <2>1, SeatActionTypes
    <2>6. {b} \in SUBSET Bookings /\ {} \in SUBSET Bookings /\ stranded' = stranded \cup {}
      BY <2>3
    <2>7. RequestTypes'
      BY <1>0, <2>1, <2>3, <2>4, <2>6, AnsweredInOrder, MovedTypes
    <2> QED BY <1>1, <2>5, <2>7, TypesNext
  <1>3. CASE request[b] = "lost" /\ Becomes(b, "done") /\ UNCHANGED <<rowVars, sweep, announce>>
    <2>1. SeatsTypeOK'
      BY <1>0, <1>3, AsksTypes DEF Asks, Requests
    <2>2. /\ request'[b] = "done" /\ \A c \in Bookings \ {b} : request'[c] = request[c]
          /\ returning' = returning \cup {b} /\ UNCHANGED <<inflight, stranded>>
          /\ b \notin stranded /\ b \notin returning /\ \A q \in BookingPods : b \notin inflight[q]
      BY <1>0, <1>3 DEF Compensate, Becomes, SeatsTypeOK, RequestTypes
    <2>3. \A q \in BookingPods : \A c \in inflight'[q] :
            /\ request'[c] \in {"none", "reserved"} \/ c \in returning'
            /\ c \in returning' => request'[c] = "done"
      BY <1>0, <2>2, InFlightMembers DEF RequestTypes, KeptInflight
    <2>4. RequestTypes'
      BY <1>0, <2>2, <2>3, FewerInflight DEF RequestTypes
    <2> QED BY <1>1, <2>1, <2>4, TypesNext
  <1> QED BY <1>2, <1>3 DEF Compensate

LEMMA ReturnTypes ==
  ASSUME TypeInv, NEW b \in returning, Return(b)
  PROVE  Types'
  <1>0. SeatsTypeOK /\ CacheTypes /\ RequestTypes
    BY TypeInvParts
  <1>1. b \in Bookings /\ SeatOf[b] \in Seats
    BY <1>0 DEF RequestTypes
  <1>2. SeatsTypeOK'
    BY <1>0 DEF Return, seatVars, SeatsTypeOK, Taken
  <1>3. CacheTypes'
    BY <1>0, <1>1 DEF Return, Unreserve, CacheTypes, lossVars
  <1>4. /\ UNCHANGED request /\ returning' = returning \ {b}
        /\ stranded \subseteq stranded' /\ stranded' \subseteq stranded \cup {b}
    BY DEF Return, Unreserve, seatVars
  <1>5. Settle(b, FALSE)
    BY DEF Return
  <1>6. inflight' \in [BookingPods -> SUBSET Bookings]
    BY <1>0, <1>5, SettleMembers
  <1>7. \A q \in BookingPods : inflight'[q] = inflight[q] \ {b}
    BY <1>0, <1>5, SettleMembers
  <1>8. \A q \in BookingPods : \A c \in inflight'[q] :
          /\ request'[c] \in {"none", "reserved"} \/ c \in returning'
          /\ c \in returning' => request'[c] = "done"
    BY <1>0, <1>4, <1>7, InFlightMembers DEF RequestTypes, KeptInflight
  <1>9. /\ returning' \subseteq {c \in Bookings : request'[c] \in {"releasing", "released", "done"}}
        /\ stranded' \subseteq {c \in Bookings : request'[c] \in {"releasing", "released", "done"}}
        /\ returning' \cap stranded' = {}
    BY <1>0, <1>4 DEF RequestTypes
  <1>10. RequestTypes'
    BY <1>0, <1>6, <1>7, <1>8, <1>9, FewerInflight
  <1> QED BY <1>2, <1>3, <1>10, TypesNext

\* The requests, after a step that touches no request: reservations may be taken back.
LEMMA SameRequests ==
  ASSUME RequestTypes, UNCHANGED <<request, inflight, returning>>, stranded' \subseteq stranded
  PROVE  RequestTypes'
  <1>1. \A q \in BookingPods : \A c \in inflight'[q] :
          /\ request'[c] \in {"none", "reserved"} \/ c \in returning'
          /\ c \in returning' => request'[c] = "done"
    BY InFlightMembers DEF RequestTypes, KeptInflight
  <1>2. /\ returning' \subseteq {c \in Bookings : request'[c] \in {"releasing", "released", "done"}}
        /\ stranded' \subseteq {c \in Bookings : request'[c] \in {"releasing", "released", "done"}}
        /\ returning' \cap stranded' = {}
    BY DEF RequestTypes
  <1> QED BY <1>1, <1>2, FewerInflight DEF RequestTypes

LEMMA AnnounceTypes ==
  ASSUME TypeInv, NEW a \in announce, Announce(a)
  PROVE  Types'
  <1>0. SeatsTypeOK /\ CacheTypes /\ RequestTypes
    BY TypeInvParts
  <1>1. a.s \in Seats /\ a.available \in BOOLEAN
    BY <1>0 DEF SeatsTypeOK, Announcements
  <1>2. SeatsTypeOK'
    BY <1>0 DEF Announce, SeatsTypeOK, rowVars, Taken
  <1>3. Changed(a.s, a.available) \in Feeds
    BY <1>1, FeedTypes
  <1>4. PICK written \in BOOLEAN, queued \in BOOLEAN :
          /\ IF written THEN Offer(a.s, a.available) ELSE UNCHANGED <<offered, stranded>>
          /\ IF queued
             THEN /\ Publish(Changed(a.s, a.available))
                  /\ unheard' = IF a.available THEN unheard \ {<<a.s, TRUE>>} ELSE unheard
             ELSE UNCHANGED feed /\ Missed({<<a.s, a.available>>})
          /\ IF written /\ queued THEN UNCHANGED troubles ELSE Trouble
          /\ outdated' = IF ~a.available THEN outdated \cup ({a.s} \cap Available)
                         ELSE IF queued THEN outdated \ {a.s} ELSE outdated
    BY DEF Announce
  <1>5. CacheTypes'
    <2>1. feed' \in Seq(Feeds)
      BY <1>0, <1>3, <1>4, PublishTypes DEF CacheTypes
    <2>2. offered' \subseteq Seats
      BY <1>0, <1>1, <1>4 DEF Offer, CacheTypes
    <2>3. unheard' \subseteq Seats \X BOOLEAN
      <3>1. {<<a.s, a.available>>} \in SUBSET (Seats \X BOOLEAN)
        BY <1>1, NewsTypes
      <3>2. CASE queued
        BY <1>0, <1>4, <3>2 DEF CacheTypes
      <3>3. CASE ~queued
        BY <1>0, <1>4, <3>1, <3>3, MissedTypes
      <3> QED BY <3>2, <3>3
    <2>4. troubles' \in 0..MaxTroubles
      BY <1>0, <1>4, TroubleType DEF CacheTypes
    <2>5. outdated' \subseteq Seats
      BY <1>0, <1>1, <1>4 DEF CacheTypes
    <2> QED BY <1>0, <2>1, <2>2, <2>3, <2>4, <2>5 DEF Announce, CacheTypes
  <1>6. RequestTypes'
    <2>1. stranded' \subseteq stranded
      BY <1>4 DEF Offer
    <2> QED BY <1>0, <2>1, SameRequests DEF Announce
  <1> QED BY <1>2, <1>5, <1>6, TypesNext

\* The rows' own steps, the expiry of a lock and what the administrator adds or removes
\* leave the cache alone.
RowStep ==
    /\ RowAction
    /\ troubles' \in 0..MaxTroubles
    /\ UNCHANGED <<offered, inflight, feed, returning, snapshot, snapshots, published, stranded,
                   outdated, unheard>>

LEMMA RowStepTypes ==
  ASSUME TypeInv, RowStep
  PROVE  Types'
  <1>0. SeatsTypeOK /\ CacheTypes /\ RequestTypes
    BY TypeInvParts
  <1>1. SeatAction
    BY DEF RowStep, SeatAction
  <1>2. SeatsTypeOK'
    BY <1>0, <1>1, SeatActionTypes
  <1>3. CacheTypes'
    BY <1>0 DEF RowStep, CacheTypes
  <1>4. /\ {} \in SUBSET Bookings
        /\ returning' = returning \cup {} /\ stranded' = stranded \cup {} /\ UNCHANGED inflight
    BY DEF RowStep
  <1>5. RequestTypes'
    BY <1>0, <1>1, <1>4, AnsweredInOrder, MovedTypes
  <1> QED BY <1>2, <1>3, <1>5, TypesNext

LEMMA SnapshotTypes ==
  ASSUME TypeInv, NEW p \in Pods, ResetFlight(p) \/ ReadRows(p) \/ WriteSnapshot(p)
  PROVE  Types'
  <1>0. SeatsTypeOK /\ CacheTypes /\ RequestTypes
    BY TypeInvParts
  <1> DEFINE Snapshots == [stage : {"none", "reset", "read"}, seats : SUBSET Seats]
  <1>1. snapshot \in [Pods -> Snapshots] /\ snapshots \in 0..MaxSnapshots
    BY <1>0 DEF CacheTypes
  <1>2. CASE ResetFlight(p)
    <2>1. SeatAction
      BY <1>2 DEF ResetFlight, SeatAction
    <2>2. SeatsTypeOK'
      BY <1>0, <2>1, SeatActionTypes
    <2>3. snapshot' \in [Pods -> Snapshots] /\ snapshots' \in 0..MaxSnapshots
      BY <1>1, <1>2 DEF ResetFlight
    <2>4. CacheTypes'
      BY <1>0, <1>2, <2>3 DEF ResetFlight, CacheTypes, lossVars
    <2>5. UNCHANGED <<request, inflight, returning, stranded>>
      BY <1>2 DEF ResetFlight, ResetSeats
    <2>6. RequestTypes'
      BY <1>0, <2>5, SameRequests
    <2> QED BY <2>2, <2>4, <2>6, TypesNext
  <1>3. CASE ReadRows(p)
    <2>1. SeatsTypeOK'
      BY <1>0, <1>3 DEF ReadRows, seatVars, SeatsTypeOK, Taken
    <2>2. Available \in SUBSET Seats
      BY DEF Available
    <2>3. snapshot' \in [Pods -> Snapshots] /\ snapshots' \in 0..MaxSnapshots
      BY <1>1, <1>3, <2>2 DEF ReadRows
    <2>4. CacheTypes'
      BY <1>0, <1>3, <2>3 DEF ReadRows, CacheTypes, lossVars
    <2>5. RequestTypes'
      BY <1>0, <1>3, SameRequests DEF ReadRows, seatVars
    <2> QED BY <2>1, <2>4, <2>5, TypesNext
  <1>4. CASE WriteSnapshot(p)
    <2>1. SeatsTypeOK'
      BY <1>0, <1>4 DEF WriteSnapshot, seatVars, SeatsTypeOK, Taken
    <2>2. snapshot[p].seats \in SUBSET Seats
      BY <1>1
    <2>3. Fresh(snapshot[p].seats) \in Feeds
      BY <2>2, FeedTypes
    <2>4. PICK written \in BOOLEAN, queued \in BOOLEAN :
            /\ IF written THEN Replace(snapshot[p].seats)
               ELSE UNCHANGED <<offered, published, stranded>>
            /\ IF queued
               THEN /\ Publish(Fresh(snapshot[p].seats))
                    /\ unheard' = unheard \ (snapshot[p].seats \X {TRUE})
                    /\ outdated' = outdated \ snapshot[p].seats
               ELSE UNCHANGED <<feed, outdated>> /\ Missed(snapshot[p].seats \X {TRUE})
            /\ IF written /\ queued THEN UNCHANGED troubles ELSE Trouble
      BY <1>4 DEF WriteSnapshot
    <2>5. feed' \in Seq(Feeds)
      BY <1>0, <2>3, <2>4, PublishTypes DEF CacheTypes
    <2>6. snapshot' \in [Pods -> Snapshots]
      <3>1. NoSnapshot \in Snapshots
        BY DEF NoSnapshot
      <3> QED BY <1>1, <1>4, <3>1 DEF WriteSnapshot
    <2>7. CacheTypes'
      <3>1. offered' \subseteq Seats /\ published' \in BOOLEAN
        BY <1>0, <2>2, <2>4 DEF Replace, CacheTypes
      <3>2. unheard' \subseteq Seats \X BOOLEAN /\ outdated' \subseteq Seats
        <4>1. snapshot[p].seats \X {TRUE} \in SUBSET (Seats \X BOOLEAN)
          BY <2>2, NewsTypes
        <4>2. CASE queued
          BY <1>0, <2>4, <4>2 DEF CacheTypes
        <4>3. CASE ~queued
          <5>1. Missed(snapshot[p].seats \X {TRUE}) /\ UNCHANGED outdated
            BY <2>4, <4>3
          <5> QED BY <1>0, <4>1, <5>1, MissedTypes DEF CacheTypes
        <4> QED BY <4>2, <4>3
      <3>3. troubles' \in 0..MaxTroubles
        BY <1>0, <2>4, TroubleType DEF CacheTypes
      <3>4. snapshots' \in 0..MaxSnapshots
        BY <1>1, <1>4 DEF WriteSnapshot
      <3> QED BY <2>5, <2>6, <3>1, <3>2, <3>3, <3>4 DEF CacheTypes
    <2>8. RequestTypes'
      <3>1. stranded' \subseteq stranded
        BY <2>4 DEF Replace
      <3> QED BY <1>0, <1>4, <3>1, SameRequests DEF WriteSnapshot, seatVars
    <2> QED BY <2>1, <2>7, <2>8, TypesNext
  <1> QED BY <1>2, <1>3, <1>4

LEMMA ResetOtherTypes ==
  ASSUME TypeInv, ResetOther
  PROVE  Types'
  <1>0. SeatsTypeOK /\ CacheTypes /\ RequestTypes
    BY TypeInvParts
  <1>1. SeatsTypeOK'
    BY <1>0 DEF ResetOther, seatVars, SeatsTypeOK, Taken
  <1>2. feed' \in Seq(Feeds)
    BY <1>0, FeedTypes, PublishTypes DEF ResetOther, CacheTypes
  <1>3. CacheTypes'
    <2>1. troubles' \in 0..MaxTroubles
      BY <1>0, TroubleType DEF ResetOther, CacheTypes
    <2> QED BY <1>0, <1>2, <2>1 DEF ResetOther, Drop, CacheTypes
  <1>4. RequestTypes'
    BY <1>0, SameRequests DEF ResetOther, Drop, seatVars
  <1> QED BY <1>1, <1>3, <1>4, TypesNext

\* A message about a seat, or a snapshot, is about seats of the flight.
LEMMA MessageTypes ==
  ASSUME CacheTypes, NEW i \in DOMAIN feed
  PROVE  /\ feed[i] \in Feeds
         /\ feed[i].kind = "changed" => feed[i].s \in Seats /\ feed[i].available \in BOOLEAN
         /\ feed[i].kind = "changed" => feed[i] = Changed(feed[i].s, feed[i].available)
         /\ feed[i].kind = "init" => feed[i].seats \in SUBSET Seats
  <1>1. feed[i] \in Feeds
    BY DEF CacheTypes
  <1> QED BY <1>1 DEF Feeds, WithoutFlight, Changed

LEMMA DeliverTypes ==
  ASSUME TypeInv, NEW i \in DOMAIN feed, Deliver(i)
  PROVE  Types'
  <1>0. SeatsTypeOK /\ CacheTypes /\ RequestTypes
    BY TypeInvParts
  <1>1. SeatsTypeOK'
    BY <1>0 DEF Deliver, seatVars, SeatsTypeOK, Taken
  <1>2. feed' \in Seq(Feeds)
    BY <1>0, RemoveAtType DEF Deliver, CacheTypes
  <1>3. offered' \subseteq Seats /\ published' \in BOOLEAN /\ stranded' \subseteq stranded
    <2>1. CASE feed[i].kind = "changed" /\ Offer(feed[i].s, feed[i].available) /\ UNCHANGED published
      BY <1>0, <2>1, MessageTypes DEF Offer, CacheTypes
    <2>2. CASE feed[i].kind = "init" /\ Replace(feed[i].seats)
      BY <1>0, <2>2, MessageTypes DEF Replace, CacheTypes
    <2>3. CASE Drop
      BY <2>3 DEF Drop
    <2> QED BY <2>1, <2>2, <2>3 DEF Deliver
  <1>4. CacheTypes'
    BY <1>0, <1>2, <1>3 DEF Deliver, CacheTypes, lossVars
  <1>5. RequestTypes'
    BY <1>0, <1>3, SameRequests DEF Deliver, seatVars
  <1> QED BY <1>1, <1>4, <1>5, TypesNext

LEMMA SkipTypes ==
  ASSUME TypeInv, NEW i \in DOMAIN feed, Skip(i)
  PROVE  Types'
  <1>0. SeatsTypeOK /\ CacheTypes /\ RequestTypes
    BY TypeInvParts
  <1>1. SeatsTypeOK'
    BY <1>0 DEF Skip, seatVars, SeatsTypeOK, Taken
  <1>2. feed' \in Seq(Feeds)
    BY <1>0, RemoveAtType DEF Skip, CacheTypes
  <1>3. News(feed[i]) \subseteq Seats \X BOOLEAN
    <2>1. feed[i].kind \in {"changed", "init", "other"}
      BY <1>0, MessageTypes DEF Feeds, WithoutFlight
    <2>2. CASE feed[i].kind = "changed"
      <3>1. News(feed[i]) = {<<feed[i].s, feed[i].available>>}
        BY <2>2 DEF News
      <3> QED BY <1>0, <2>2, <3>1, MessageTypes, NewsTypes
    <2>3. CASE feed[i].kind = "init"
      <3>1. News(feed[i]) = feed[i].seats \X {TRUE}
        BY <2>3 DEF News
      <3>2. PICK S \in SUBSET Seats : S = feed[i].seats
        BY <1>0, <2>3, MessageTypes
      <3>3. S \X {TRUE} \subseteq Seats \X BOOLEAN
        BY NewsTypes
      <3> QED BY <3>1, <3>2, <3>3, Zenon
    <2>4. CASE feed[i].kind = "other"
      BY <2>4 DEF News
    <2> QED BY <2>1, <2>2, <2>3, <2>4
  <1>4. CacheTypes'
    <2>1. unheard' \subseteq Seats \X BOOLEAN
      BY <1>0, <1>3 DEF Skip, Missed, CacheTypes
    <2>2. troubles' \in 0..MaxTroubles
      BY <1>0, TroubleType DEF Skip
    <2> QED BY <1>0, <1>2, <2>1, <2>2 DEF Skip, CacheTypes
  <1>5. RequestTypes'
    BY <1>0, SameRequests DEF Skip, seatVars
  <1> QED BY <1>1, <1>4, <1>5, TypesNext

LEMMA ResetFailsTypes ==
  ASSUME TypeInv, NEW p \in Pods, ResetFails(p)
  PROVE  Types'
  <1>0. SeatsTypeOK /\ CacheTypes /\ RequestTypes
    BY TypeInvParts
  <1>1. SeatsTypeOK'
    BY <1>0 DEF ResetFails, seatVars, SeatsTypeOK, Taken
  <1>2. NoSnapshot \in [stage : {"none", "reset", "read"}, seats : SUBSET Seats]
    BY DEF NoSnapshot
  <1>3. /\ snapshot' \in [Pods -> [stage : {"none", "reset", "read"}, seats : SUBSET Seats]]
        /\ unheard' \subseteq Seats \X BOOLEAN
    BY <1>0, <1>2 DEF ResetFails, Missed, CacheTypes
  <1>4. troubles' \in 0..MaxTroubles
    BY <1>0, TroubleType DEF ResetFails
  <1>5. CacheTypes'
    BY <1>0, <1>3, <1>4 DEF ResetFails, CacheTypes
  <1>6. RequestTypes'
    BY <1>0, SameRequests DEF ResetFails, seatVars
  <1> QED BY <1>1, <1>5, <1>6, TypesNext

\* What gets lost in inventory-service. News that was due is lost with it, or still due;
\* a booking that gets no answer is left with its reservation.
LEMMA TroubleTells ==
  ASSUME TypeInv, SeatTrouble
  PROVE  /\ LossAction
         /\ UNCHANGED <<offered, inflight, feed, returning, snapshots, published, outdated>>
         /\ troubles' \in 0..MaxTroubles
         /\ unheard \subseteq unheard' /\ unheard' \subseteq Seats \X BOOLEAN
         /\ snapshot' \in [Pods -> [stage : {"none", "reset", "read"}, seats : SUBSET Seats]]
         /\ \A a \in announce : a \in announce' \/ <<a.s, a.available>> \in unheard'
         /\ \A p \in Pods : \A s \in sweep[p].freed :
               s \in sweep'[p].freed \/ <<s, TRUE>> \in unheard'
         /\ \A s \in Seats :
               status'[s] = "AVAILABLE" => status[s] = "AVAILABLE" \/ <<s, TRUE>> \in unheard'
         /\ \A p \in Pods :
               snapshot'[p] = snapshot[p] \/ \A s \in Untold(p) : <<s, TRUE>> \in unheard'
         /\ \E C \in SUBSET Bookings :
               /\ stranded' = stranded \cup C
               /\ \A b \in C : request[b] \in {"asked", "lost"} /\ request'[b] = "done"
         /\ \A b \in Bookings :
               request[b] \in {"asked", "lost"} => request'[b] = request[b] \/ b \in stranded'
  <1> DEFINE Snapshots == [stage : {"none", "reset", "read"}, seats : SUBSET Seats]
             Stranding ==
               /\ \E C \in SUBSET Bookings :
                     /\ stranded' = stranded \cup C
                     /\ \A b \in C : request[b] \in {"asked", "lost"} /\ request'[b] = "done"
               /\ \A b \in Bookings : request[b] \in {"asked", "lost"} =>
                     request'[b] = request[b] \/ b \in stranded'
             Telling ==
               /\ unheard \subseteq unheard' /\ unheard' \subseteq Seats \X BOOLEAN
               /\ \A a \in announce : a \in announce' \/ <<a.s, a.available>> \in unheard'
               /\ \A p \in Pods : \A s \in sweep[p].freed :
                     s \in sweep'[p].freed \/ <<s, TRUE>> \in unheard'
               /\ \A s \in Seats : status'[s] = "AVAILABLE" =>
                     status[s] = "AVAILABLE" \/ <<s, TRUE>> \in unheard'
             Snapping ==
               /\ snapshot' \in [Pods -> Snapshots]
               /\ \A p \in Pods :
                     snapshot'[p] = snapshot[p] \/ \A s \in Untold(p) : <<s, TRUE>> \in unheard'
  <1>0. SeatsTypeOK /\ CacheTypes /\ RequestTypes /\ Answering
    BY TypeInvParts
  <1>t. /\ announce \subseteq Announcements /\ unheard \subseteq Seats \X BOOLEAN
        /\ request \in [Bookings -> Requests]
        /\ sweep \in [Pods -> [found : SUBSET Seats, freed : SUBSET Seats]]
        /\ snapshot \in [Pods -> Snapshots]
        /\ \A a \in announce : a.s \in Seats /\ a.available \in BOOLEAN
    BY <1>0 DEF SeatsTypeOK, CacheTypes, Announcements
  <1>1. /\ UNCHANGED <<offered, inflight, feed, returning, snapshots, published, outdated>>
        /\ troubles' \in 0..MaxTroubles
    BY <1>0, TroubleType DEF SeatTrouble
  <1>2. LossAction
    BY DEF SeatTrouble, LossAction
  \* Steps that strand nobody.
  <1>3. ASSUME UNCHANGED stranded,
               \A b \in Bookings : request[b] \in {"asked", "lost"} => request'[b] = request[b]
        PROVE  Stranding
    <2>1. {} \in SUBSET Bookings /\ stranded' = stranded \cup {}
      BY <1>3
    <2> QED BY <1>3, <2>1
  <1>4. ASSUME NEW b \in Bookings, MessageLost(b), UNCHANGED <<snapshot, unheard>>,
               stranded' = stranded \cup ({b} \ {c \in Bookings : request[c] = "releasing"})
        PROVE  Telling /\ Snapping /\ Stranding
    <2>1. /\ request[b] \in {"asked", "lost", "releasing"} /\ request'[b] = "done"
          /\ \A c \in Bookings \ {b} : request'[c] = request[c]
          /\ UNCHANGED <<status, sweep, announce>>
      BY <1>t, <1>4 DEF MessageLost, Becomes, rowVars
    <2>2. PICK C \in SUBSET Bookings : C = {b} \ {c \in Bookings : request[c] = "releasing"}
      OBVIOUS
    <2>3. stranded' = stranded \cup C
      BY <1>4, <2>2
    <2>4. \A c \in C : request[c] \in {"asked", "lost"} /\ request'[c] = "done"
      BY <2>1, <2>2
    <2>5. \A c \in Bookings : request[c] \in {"asked", "lost"} =>
            request'[c] = request[c] \/ c \in stranded'
      BY <2>1, <2>2, <2>3
    <2>6. Stranding
      BY <2>3, <2>4, <2>5
    <2> QED BY <1>t, <1>4, <2>1, <2>6
  <1>5. ASSUME NEW b \in Bookings, ReleaseAgain(b), UNCHANGED <<snapshot, unheard, stranded>>
        PROVE  Telling /\ Snapping /\ Stranding
    <2>1. /\ request[b] = "released" /\ \A c \in Bookings \ {b} : request'[c] = request[c]
          /\ UNCHANGED <<status, sweep, announce>>
      BY <1>t, <1>5 DEF ReleaseAgain, Becomes, rowVars
    <2>2. Stranding
      BY <1>3, <1>5, <2>1
    <2> QED BY <1>t, <1>5, <2>1, <2>2
  <1>6. ASSUME NEW a \in announce, AnswerLost(a), Missed({<<a.s, a.available>>}),
               UNCHANGED <<snapshot, stranded>>
        PROVE  Telling /\ Snapping /\ Stranding
    <2>1. /\ announce' = announce \ {a} /\ UNCHANGED <<status, sweep>>
          /\ \A b \in Bookings : request'[b] = IF b = a.b THEN "done" ELSE request[b]
      BY <1>6 DEF AnswerLost, rowVars
    <2>2. unheard' = unheard \cup {<<a.s, a.available>>}
      BY <1>6 DEF Missed
    <2>3. Stranding
      <3>1. \A b \in Bookings : request[b] \in {"asked", "lost"} => request'[b] = request[b]
        BY <1>0, <2>1 DEF Answering
      <3> QED BY <1>3, <1>6, <3>1
    <2>4. <<a.s, a.available>> \in Seats \X BOOLEAN
      BY <1>t, NewsTypes
    <2>5. unheard \subseteq unheard' /\ unheard' \subseteq Seats \X BOOLEAN
      BY <1>t, <2>2, <2>4
    <2>6. \A c \in announce : c \in announce' \/ <<c.s, c.available>> \in unheard'
      <3> TAKE c \in announce
      <3>1. CASE c = a
        BY <2>2, <3>1
      <3>2. CASE c # a
        BY <2>1, <3>2
      <3> QED BY <3>1, <3>2
    <2>7. Telling
      BY <2>1, <2>5, <2>6
    <2> QED BY <1>t, <1>6, <2>3, <2>7
  <1>7. ASSUME NEW p \in Pods, NEW s \in Seats, CronFails(p, s),
               Missed((sweep[p].freed \cup {s}) \X {TRUE}), UNCHANGED <<snapshot, stranded>>
        PROVE  Telling /\ Snapping /\ Stranding
    <2>1. /\ UNCHANGED <<request, announce>>
          /\ \A r \in Pods \ {p} : sweep'[r] = sweep[r]
          /\ \A r \in Seats \ {s} : status'[r] = status[r]
      BY <1>0, <1>7 DEF CronFails, rowVars, FreeSeat, SeatsTypeOK
    <2>2. /\ unheard \subseteq unheard' /\ unheard' \subseteq Seats \X BOOLEAN
          /\ <<s, TRUE>> \in unheard' /\ \A r \in sweep[p].freed : <<r, TRUE>> \in unheard'
      BY <1>t, <1>7 DEF Missed
    <2>3. Stranding
      BY <1>3, <1>7, <2>1
    <2>4. Telling
      BY <1>t, <2>1, <2>2
    <2> QED BY <1>t, <1>7, <2>3, <2>4
  <1>8. ASSUME NEW p \in Pods, PodStops(p), snapshot' = [snapshot EXCEPT ![p] = NoSnapshot],
               Missed({<<a.s, a.available>> : a \in {a \in announce : a.pod = p}}
                         \cup (sweep[p].freed \cup Untold(p)) \X {TRUE}),
               UNCHANGED stranded
        PROVE  Telling /\ Snapping /\ Stranding
    <2>1. /\ announce' = {a \in announce : a.pod # p} /\ UNCHANGED status
          /\ \A r \in Pods \ {p} : sweep'[r] = sweep[r]
          /\ \A b \in Bookings : request'[b] =
                IF \E a \in announce : a.pod = p /\ a.b = b
                THEN IF request[b] = "locked" THEN "asked" ELSE "releasing"
                ELSE request[b]
      BY <1>t, <1>8 DEF PodStops, rowVars
    <2>2. Untold(p) \subseteq Seats
      BY <1>t DEF Untold
    <2>3. unheard' = unheard \cup ({<<a.s, a.available>> : a \in {a \in announce : a.pod = p}}
                                     \cup (sweep[p].freed \cup Untold(p)) \X {TRUE})
      BY <1>8 DEF Missed
    <2>4. /\ unheard \subseteq unheard'
          /\ \A a \in announce : a.pod = p => <<a.s, a.available>> \in unheard'
          /\ \A s \in sweep[p].freed : <<s, TRUE>> \in unheard'
          /\ \A s \in Untold(p) : <<s, TRUE>> \in unheard'
      BY <2>3
    <2>5. unheard' \subseteq Seats \X BOOLEAN
      <3>1. \A a \in announce : <<a.s, a.available>> \in Seats \X BOOLEAN
        BY <1>t, NewsTypes
      <3>2. PICK S \in SUBSET Seats : S = sweep[p].freed \cup Untold(p)
        BY <1>t, <2>2
      <3>3. S \X {TRUE} \subseteq Seats \X BOOLEAN
        BY NewsTypes
      <3>4. {<<a.s, a.available>> : a \in {a \in announce : a.pod = p}} \subseteq Seats \X BOOLEAN
        BY <3>1
      <3>5. unheard' = unheard \cup ({<<a.s, a.available>> : a \in {a \in announce : a.pod = p}}
                                       \cup S \X {TRUE})
        BY <2>3, <3>2, Zenon
      <3> QED BY <1>t, <3>3, <3>4, <3>5
    <2>6. Stranding
      <3>1. \A b \in Bookings : request[b] \in {"asked", "lost"} => request'[b] = request[b]
        BY <1>0, <2>1 DEF Answering
      <3> QED BY <1>3, <1>8, <3>1
    <2>7. Telling
      BY <2>1, <2>4, <2>5
    <2>8. Snapping
      <3>1. NoSnapshot \in Snapshots
        BY DEF NoSnapshot
      <3>2. \A r \in Pods \ {p} : snapshot'[r] = snapshot[r]
        BY <1>t, <1>8
      <3> QED BY <1>t, <1>8, <2>4, <3>1, <3>2
    <2> QED BY <2>6, <2>7, <2>8
  <1>9. Telling /\ Snapping /\ Stranding
    BY <1>4, <1>5, <1>6, <1>7, <1>8 DEF SeatTrouble
  <1> QED BY <1>1, <1>2, <1>9

LEMMA SeatTroubleTypes ==
  ASSUME TypeInv, SeatTrouble
  PROVE  Types'
  <1>0. SeatsTypeOK /\ CacheTypes /\ RequestTypes /\ Answering
    BY TypeInvParts
  <1>1. SeatsTypeOK'
    BY <1>0, TroubleTells, LossTypes
  <1>2. CacheTypes'
    BY <1>0, TroubleTells DEF CacheTypes
  <1>3. PICK C \in SUBSET Bookings :
          /\ stranded' = stranded \cup C
          /\ \A b \in C : request[b] \in {"asked", "lost"} /\ request'[b] = "done"
    BY TroubleTells
  <1>4. \A b \in Bookings :
          /\ request[b] \in {"none", "reserved"} => request'[b] = request[b]
          /\ request[b] = "done" => request'[b] = "done"
          /\ request[b] \in {"releasing", "released", "done"} =>
                request'[b] \in {"releasing", "released", "done"}
    BY <1>0, TroubleTells, LossRequestMoves
  <1>5. {} \in SUBSET Bookings /\ returning' = returning \cup {} /\ UNCHANGED inflight
    BY TroubleTells
  <1>6. RequestTypes'
    BY <1>0, <1>3, <1>4, <1>5, MovedTypes
  <1> QED BY <1>1, <1>2, <1>6, TypesNext

\* The steps of Next, by what they are to the proofs below.
LEMMA NextCases ==
  ASSUME TypeInv, Next
  PROVE  \/ \E q \in BookingPods, b \in Bookings : Request(q, b)
         \/ \E b \in Bookings : TryReserve(b) \/ Create(b) \/ Compensate(b)
         \/ \E b \in Bookings : ReserveUnanswered(b)
         \/ \E b \in Bookings : b \in returning /\ Return(b)
         \/ \E q \in BookingPods : BookingCrash(q)
         \/ \E a \in announce : Announce(a)
         \/ RowStep
         \/ SeatTrouble
         \/ \E p \in Pods : ResetFlight(p) \/ ReadRows(p) \/ WriteSnapshot(p)
         \/ \E p \in Pods : ResetFails(p)
         \/ ResetOther
         \/ \E i \in DOMAIN feed : Deliver(i)
         \/ \E i \in DOMAIN feed : Skip(i)
  <1>0. CacheTypes /\ troubles \in 0..MaxTroubles
    BY TypeInvParts DEF CacheTypes
  <1>1. ASSUME SeatStep PROVE RowStep
    <2>1. RowAction
      BY <1>1 DEF SeatStep, RowAction
    <2> QED BY <1>0, <1>1, <2>1 DEF SeatStep, RowStep, cacheVars
  <1>2. ASSUME NEW s \in Seats, LockExpires(s) PROVE RowStep
    <2>1. RowAction
      BY <1>2 DEF LockExpires, RowAction
    <2> QED BY <1>0, <1>2, <2>1 DEF LockExpires, RowStep, cacheVars
  <1>3. ASSUME AdminStep PROVE RowStep
    <2>1. RowAction
      BY <1>3 DEF AdminStep, RowAction
    <2> QED BY <1>0, <1>3, <2>1, TroubleType DEF AdminStep, RowStep
  <1>4. ASSUME NEW b \in Bookings, Return(b) PROVE b \in returning
    BY <1>4 DEF Return
  <1> QED BY <1>1, <1>2, <1>3, <1>4 DEF Next

\* Bookings that have had their lock.
HadLock == {"locked", "confirmed", "releasing", "released", "done"}

\* Steps of booking-service and of the messages: the rows stay what they are, and so do
\* the bookings that have had their lock.
CacheStep ==
    /\ UNCHANGED <<rowVars, sweep, announce>>
    /\ \A b \in Bookings : request[b] \in HadLock => request'[b] = request[b]

LEMMA BookingSteps ==
  ASSUME TypeInv, NEW b \in Bookings,
         \/ \E q \in BookingPods : Request(q, b)
         \/ TryReserve(b) \/ ReserveUnanswered(b) \/ Create(b) \/ Compensate(b) \/ Return(b)
  PROVE  CacheStep \/ SeatAction
  <1>0. request \in [Bookings -> Requests] /\ RequestTypes
    BY TypeInvParts DEF SeatsTypeOK
  <1>1. CASE \E q \in BookingPods : Request(q, b)
    BY <1>0, <1>1 DEF Request, Becomes, CacheStep, HadLock
  <1>2. CASE TryReserve(b)
    BY <1>0, <1>2 DEF TryReserve, Becomes, CacheStep, HadLock
  <1>3. CASE Create(b)
    BY <1>0, <1>3 DEF Create, Becomes, CacheStep, HadLock
  <1>4. CASE Compensate(b)
    <2>1. CASE GiveUp(b)
      BY <2>1 DEF SeatAction, RowAction
    <2>2. CASE request[b] = "lost" /\ Becomes(b, "done")
                 /\ UNCHANGED <<rowVars, sweep, announce>>
      BY <1>0, <2>2 DEF Becomes, CacheStep, HadLock
    <2> QED BY <1>4, <2>1, <2>2 DEF Compensate
  <1>5. CASE Return(b)
    BY <1>5 DEF Return, seatVars, rowVars, CacheStep
  <1>6. CASE ReserveUnanswered(b)
    BY <1>0, <1>6 DEF ReserveUnanswered, Becomes, CacheStep, HadLock
  <1> QED BY <1>1, <1>2, <1>3, <1>4, <1>5, <1>6

LEMMA CrashStep ==
  ASSUME TypeInv, NEW q \in BookingPods, BookingCrash(q)
  PROVE  CacheStep
  <1>0. RequestTypes
    BY TypeInvParts
  <1>1. ASSUME NEW c \in Bookings, request[c] \in HadLock PROVE request'[c] = request[c]
    <2>1. CASE c \in inflight[q]
      <3>1. c \in returning /\ c \in InFlight
        BY <1>0, <1>1, <2>1, InFlightMembers DEF RequestTypes, HadLock
      <3>2. request[c] = "done"
        BY <1>0, <3>1 DEF RequestTypes, KeptInflight
      <3> QED BY <2>1, <3>2 DEF BookingCrash
    <2>2. CASE c \notin inflight[q]
      BY <2>2 DEF BookingCrash
    <2> QED BY <2>1, <2>2
  <1> QED BY <1>1 DEF BookingCrash, CacheStep

\* Every step is the rows', or a step of the cache, or an announcement, or a loss.
LEMMA Steps ==
  ASSUME TypeInv, [Next]_vars
  PROVE  \/ SeatAction
         \/ CacheStep
         \/ \E a \in announce : Announce(a)
         \/ SeatTrouble
  <1>1. CASE UNCHANGED vars
    BY <1>1 DEF vars, seatVars, rowVars, CacheStep
  <1>2. ASSUME NEW b \in Bookings, \/ TryReserve(b) \/ Create(b) \/ Compensate(b) \/ Return(b)
                                   \/ ReserveUnanswered(b)
        PROVE  CacheStep \/ SeatAction
    BY <1>2, BookingSteps
  <1>3. ASSUME NEW q \in BookingPods, NEW b \in Bookings, Request(q, b)
        PROVE  CacheStep \/ SeatAction
    BY <1>3, BookingSteps
  <1>4. ASSUME NEW q \in BookingPods, BookingCrash(q) PROVE CacheStep \/ SeatAction
    BY <1>4, CrashStep
  <1>5. ASSUME NEW p \in Pods, ResetFlight(p) PROVE SeatAction
    BY <1>5 DEF ResetFlight, SeatAction
  <1>6. ASSUME NEW p \in Pods, ReadRows(p) \/ WriteSnapshot(p) \/ ResetFails(p) PROVE CacheStep
    BY <1>6 DEF ReadRows, WriteSnapshot, ResetFails, seatVars, rowVars, CacheStep
  <1>7. ASSUME ResetOther PROVE CacheStep
    BY <1>7 DEF ResetOther, seatVars, rowVars, CacheStep
  <1>8. ASSUME NEW i \in DOMAIN feed, Deliver(i) \/ Skip(i) PROVE CacheStep
    BY <1>8 DEF Deliver, Skip, seatVars, rowVars, CacheStep
  <1>9. ASSUME RowStep PROVE SeatAction
    BY <1>9 DEF RowStep, SeatAction
  <1>10. CASE Next
    BY <1>2, <1>3, <1>4, <1>5, <1>6, <1>7, <1>8, <1>9, <1>10, NextCases
  <1> QED BY <1>1, <1>10

LEMMA NextAnswering ==
  ASSUME TypeInv, [Next]_vars
  PROVE  Answering'
  <1>0. SeatsTypeOK /\ Answering
    BY TypeInvParts
  <1>1. CASE SeatAction
    BY <1>0, <1>1, AnsweringKept
  <1>2. CASE SeatTrouble
    BY <1>0, <1>2, TroubleTells, AnsweringKept
  <1>3. CASE CacheStep
    <2>1. announce' \subseteq announce
      BY <1>3 DEF CacheStep
    <2>2. \A a \in announce' : a.b \in Bookings => request'[a.b] = request[a.b]
      BY <1>0, <1>3, <2>1 DEF CacheStep, Answering, HadLock
    <2> QED BY <1>0, <2>1, <2>2, AnsweringFewer
  <1>4. CASE \E a \in announce : Announce(a)
    <2>1. announce' \subseteq announce /\ UNCHANGED request
      BY <1>4 DEF Announce
    <2> QED BY <1>0, <2>1, AnsweringFewer
  <1> QED BY <1>1, <1>2, <1>3, <1>4, Steps

LEMMA NextTypes == TypeInv /\ [Next]_vars => TypeInv'
  <1> SUFFICES ASSUME TypeInv, [Next]_vars PROVE TypeInv'
    OBVIOUS
  <1>1. CASE Next
    <2>1. Types'
      BY <1>1, NextCases, RequestStepTypes, TryReserveTypes, ReserveUnansweredTypes, CreateTypes,
         CompensateTypes, ReturnTypes, BookingCrashTypes, AnnounceTypes, RowStepTypes,
         SeatTroubleTypes, SnapshotTypes, ResetFailsTypes, ResetOtherTypes, DeliverTypes,
         SkipTypes
    <2> QED BY <2>1, NextAnswering DEF TypeInv
  <1>2. CASE UNCHANGED vars
    <2>1. SeatsTypeOK /\ CacheTypes /\ RequestTypes
      BY TypeInvParts
    <2>2. SeatsTypeOK' /\ CacheTypes'
      BY <1>2, <2>1 DEF vars, seatVars, cacheVars, SeatsTypeOK, Taken, CacheTypes
    <2>3. RequestTypes'
      BY <1>2, <2>1, SameRequests DEF vars, seatVars, cacheVars
    <2> QED BY <2>2, <2>3, TypeInvPartsNext, NextAnswering
  <1> QED BY <1>1, <1>2

\* The cache, its messages and the maps of the booking pods are always well-formed: no
\* request is handled by two pods, and a reservation is given back once.
THEOREM CacheTypesInvariant == Spec => []TypeOK
  <1>1. TypeInv => TypeOK
    BY DEF TypeInv, Types
  <1> QED BY <1>1, InitTypes, NextTypes, PTL DEF Spec

-----------------------------------------------------------------------------
(* A seat that is taken and offered                                        *)

LEMMA AppendFeed ==
  ASSUME CacheTypes, NEW m \in Feeds, Publish(m)
  PROVE  /\ \A j \in DOMAIN feed : j \in DOMAIN feed' /\ feed'[j] = feed[j]
         /\ Len(feed) + 1 \in DOMAIN feed' /\ feed'[Len(feed) + 1] = m
         /\ \A j \in DOMAIN feed' : j \in DOMAIN feed \/ j = Len(feed) + 1
         /\ \A j \in DOMAIN feed : Len(feed) + 1 > j
  <1>1. feed \in Seq(Feeds) /\ feed' = Append(feed, m)
    BY DEF CacheTypes, Publish
  <1> QED BY <1>1

\* Where the messages are when one of them has been taken out.
LEMMA RemoveFeed ==
  ASSUME CacheTypes, NEW i \in DOMAIN feed, feed' = RemoveAt(feed, i)
  PROVE  /\ \A j \in DOMAIN feed : j < i => j \in DOMAIN feed' /\ feed'[j] = feed[j]
         /\ \A j \in DOMAIN feed : j > i => j - 1 \in DOMAIN feed' /\ feed'[j - 1] = feed[j]
         /\ \A k \in DOMAIN feed' :
              \/ k < i /\ k \in DOMAIN feed /\ feed'[k] = feed[k]
              \/ k >= i /\ k + 1 \in DOMAIN feed /\ feed'[k] = feed[k + 1]
  <1> DEFINE n == Len(feed)
             u == SubSeq(feed, 1, i - 1)
             v == SubSeq(feed, i + 1, n)
  <1>1. feed \in Seq(Feeds) /\ n \in Nat /\ i \in 1 .. n /\ DOMAIN feed = 1 .. n
    BY DEF CacheTypes
  <1>2. /\ u \in Seq(Feeds) /\ Len(u) = i - 1 /\ \A j \in 1 .. i - 1 : u[j] = feed[j]
        /\ v \in Seq(Feeds) /\ Len(v) = n - i /\ \A j \in 1 .. n - i : v[j] = feed[i + j]
    BY <1>1
  <1>3. feed' = u \o v
    BY Zenon DEF RemoveAt
  <1> HIDE DEF u, v
  <1>4. /\ Len(feed') = (i - 1) + (n - i) /\ DOMAIN feed' = 1 .. (i - 1) + (n - i)
        /\ \A k \in 1 .. (i - 1) + (n - i) :
             feed'[k] = IF k <= i - 1 THEN u[k] ELSE v[k - (i - 1)]
    <2>1. \A x, y \in Seq(Feeds) :
            /\ Len(x \o y) = Len(x) + Len(y) /\ DOMAIN (x \o y) = 1 .. Len(x) + Len(y)
            /\ \A k \in 1 .. Len(x) + Len(y) :
                  (x \o y)[k] = IF k <= Len(x) THEN x[k] ELSE y[k - Len(x)]
      OBVIOUS
    <2>2. /\ Len(u \o v) = Len(u) + Len(v) /\ DOMAIN (u \o v) = 1 .. Len(u) + Len(v)
          /\ \A k \in 1 .. Len(u) + Len(v) :
                (u \o v)[k] = IF k <= Len(u) THEN u[k] ELSE v[k - Len(u)]
      BY <1>2, <2>1
    <2> QED BY <1>2, <1>3, <2>2, Zenon
  <1>5. DOMAIN feed' = 1 .. n - 1
    BY <1>1, <1>4
  <1>6. ASSUME NEW k \in 1 .. n - 1
        PROVE  feed'[k] = IF k < i THEN feed[k] ELSE feed[k + 1]
    <2>1. CASE k < i
      BY <1>1, <1>2, <1>4, <2>1
    <2>2. CASE k >= i
      <3>1. k - (i - 1) \in 1 .. n - i /\ i + (k - (i - 1)) = k + 1
        BY <1>1, <2>2
      <3>2. v[k - (i - 1)] = feed[i + (k - (i - 1))]
        BY <1>2, <3>1
      <3> QED BY <1>1, <1>4, <2>2, <3>1, <3>2
    <2> QED BY <1>1, <2>1, <2>2
  <1>7. \A j \in DOMAIN feed : j < i => j \in DOMAIN feed' /\ feed'[j] = feed[j]
    BY <1>1, <1>5, <1>6
  <1>8. \A j \in DOMAIN feed : j > i => j - 1 \in DOMAIN feed' /\ feed'[j - 1] = feed[j]
    <2> SUFFICES ASSUME NEW j \in DOMAIN feed, j > i
                 PROVE  j - 1 \in DOMAIN feed' /\ feed'[j - 1] = feed[j]
      OBVIOUS
    <2>1. j - 1 \in 1 .. n - 1 /\ ~(j - 1 < i) /\ (j - 1) + 1 = j
      BY <1>1
    <2>2. feed'[j - 1] = feed[(j - 1) + 1]
      BY <1>6, <2>1
    <2> QED BY <1>5, <2>1, <2>2
  <1>9. \A k \in DOMAIN feed' :
              \/ k < i /\ k \in DOMAIN feed /\ feed'[k] = feed[k]
              \/ k >= i /\ k + 1 \in DOMAIN feed /\ feed'[k] = feed[k + 1]
    BY <1>1, <1>5, <1>6
  <1> QED BY <1>7, <1>8, <1>9

\* What was never said stays unsaid.
LEMMA UnheardKept ==
  ASSUME TypeInv, [Next]_vars, NEW s, <<s, FALSE>> \in unheard
  PROVE  <<s, FALSE>> \in unheard'
  <1>1. ASSUME NEW a \in announce, Announce(a) PROVE <<s, FALSE>> \in unheard'
    <2>1. \/ unheard' = unheard \/ unheard' = unheard \ {<<a.s, TRUE>>}
          \/ unheard \subseteq unheard'
      BY <1>1 DEF Announce, Missed
    <2> QED BY <2>1
  <1>2. ASSUME NEW p \in Pods, WriteSnapshot(p) PROVE <<s, FALSE>> \in unheard'
    <2>1. PICK S : S = snapshot[p].seats
      OBVIOUS
    <2>2. unheard' = unheard \ (S \X {TRUE}) \/ unheard \subseteq unheard'
      BY <1>2, <2>1 DEF WriteSnapshot, Missed
    <2> QED BY <2>2
  <1>3. ASSUME SeatTrouble PROVE <<s, FALSE>> \in unheard'
    BY <1>3, TroubleTells
  <1>4. ASSUME UNCHANGED unheard PROVE <<s, FALSE>> \in unheard'
    BY <1>4
  <1>5. CASE UNCHANGED vars
    BY <1>4, <1>5 DEF vars, cacheVars
  <1>6. ASSUME \/ \E p \in Pods : ResetFails(p)
               \/ \E i \in DOMAIN feed : Skip(i)
        PROVE  <<s, FALSE>> \in unheard'
    BY <1>6 DEF ResetFails, Skip, Missed
  <1>7. ASSUME \/ \E q \in BookingPods, b \in Bookings : Request(q, b)
               \/ \E b \in Bookings : TryReserve(b) \/ Create(b) \/ Compensate(b)
               \/ \E b \in Bookings : ReserveUnanswered(b) \/ Return(b)
               \/ \E q \in BookingPods : BookingCrash(q)
        PROVE  UNCHANGED unheard
    BY <1>7 DEF Request, TryReserve, Create, Compensate, ReserveUnanswered, Return, BookingCrash,
       lossVars
  <1>8. ASSUME \/ RowStep \/ ResetOther
               \/ \E p \in Pods : ResetFlight(p) \/ ReadRows(p)
               \/ \E i \in DOMAIN feed : Deliver(i)
        PROVE  UNCHANGED unheard
    BY <1>8 DEF RowStep, ResetOther, ResetFlight, ReadRows, Deliver, lossVars
  <1>9. CASE Next
    BY <1>1, <1>2, <1>3, <1>4, <1>6, <1>7, <1>8, <1>9, NextCases
  <1> QED BY <1>5, <1>9

\* The steps that send no message and take none.
LEMMA FeedSteps ==
  ASSUME TypeInv, [Next]_vars
  PROVE  \/ UNCHANGED feed
         \/ \E a \in announce : Announce(a)
         \/ \E p \in Pods : WriteSnapshot(p)
         \/ ResetOther
         \/ \E k \in DOMAIN feed : feed' = RemoveAt(feed, k)
  <1>1. CASE UNCHANGED vars
    BY <1>1 DEF vars, cacheVars
  <1>2. ASSUME \/ \E q \in BookingPods, b \in Bookings : Request(q, b)
               \/ \E b \in Bookings : TryReserve(b) \/ Create(b) \/ Compensate(b)
               \/ \E b \in Bookings : ReserveUnanswered(b) \/ Return(b)
               \/ \E q \in BookingPods : BookingCrash(q)
        PROVE  UNCHANGED feed
    BY <1>2 DEF Request, TryReserve, Create, Compensate, ReserveUnanswered, Return, BookingCrash
  <1>3. ASSUME RowStep \/ SeatTrouble
               \/ \E p \in Pods : ResetFlight(p) \/ ReadRows(p) \/ ResetFails(p)
        PROVE  UNCHANGED feed
    BY <1>3, TroubleTells DEF RowStep, ResetFlight, ReadRows, ResetFails
  <1>4. CASE Next
    BY <1>2, <1>3, <1>4, NextCases DEF Deliver, Skip
  <1> QED BY <1>1, <1>4

\* A message that a seat is free comes from an announcement.
LEMMA FeedMoves ==
  ASSUME TypeInv, [Next]_vars, NEW i \in DOMAIN feed', NEW s,
         feed'[i] = Changed(s, TRUE)
  PROVE  \/ \E j \in DOMAIN feed : feed[j] = Changed(s, TRUE)
         \/ \E a \in announce : a.s = s /\ a.available
  <1> DEFINE Moves ==
         \/ \E j \in DOMAIN feed : feed[j] = Changed(s, TRUE)
         \/ \E a \in announce : a.s = s /\ a.available
  <1>0. CacheTypes /\ SeatsTypeOK
    BY TypeInvParts
  <1>1. ASSUME UNCHANGED feed PROVE Moves
    BY <1>1
  <1>2. ASSUME NEW a \in announce, Announce(a) PROVE Moves
    <2>1. Changed(a.s, a.available) \in Feeds
      BY <1>0, FeedTypes DEF SeatsTypeOK, Announcements
    <2>2. CASE UNCHANGED feed
      BY <1>1, <2>2
    <2>3. CASE Publish(Changed(a.s, a.available))
      <3>1. CASE i \in DOMAIN feed
        BY <1>0, <2>1, <2>3, <3>1, AppendFeed
      <3>2. CASE i = Len(feed) + 1
        <4>1. Changed(s, TRUE) = Changed(a.s, a.available)
          BY <1>0, <2>1, <2>3, <3>2, AppendFeed
        <4>2. s = a.s /\ a.available
          BY <4>1 DEF Changed
        <4> QED BY <4>2
      <3> QED BY <1>0, <2>1, <2>3, <3>1, <3>2, AppendFeed
    <2> QED BY <1>2, <2>2, <2>3 DEF Announce
  <1>3. ASSUME NEW p \in Pods, WriteSnapshot(p) PROVE Moves
    <2>1. Fresh(snapshot[p].seats) \in Feeds
      BY <1>0, FeedTypes DEF CacheTypes
    <2>2. Fresh(snapshot[p].seats) # Changed(s, TRUE)
      BY DEF Fresh, Changed
    <2>3. UNCHANGED feed \/ Publish(Fresh(snapshot[p].seats))
      BY <1>3 DEF WriteSnapshot
    <2> QED BY <1>0, <1>1, <2>1, <2>2, <2>3, AppendFeed
  <1>4. ASSUME ResetOther PROVE Moves
    <2>1. WithoutFlight # Changed(s, TRUE)
      BY DEF WithoutFlight, Changed
    <2>2. UNCHANGED feed \/ Publish(WithoutFlight)
      BY <1>4 DEF ResetOther
    <2> QED BY <1>0, <1>1, <2>1, <2>2, FeedTypes, AppendFeed
  <1>5. ASSUME NEW k \in DOMAIN feed, feed' = RemoveAt(feed, k) PROVE Moves
    <2>2. \E j \in DOMAIN feed : feed[j] = feed'[i]
      BY <1>0, <1>5, RemoveFeed
    <2> QED BY <2>2
  <1>6. Moves
    BY <1>1, <1>2, <1>3, <1>4, <1>5, FeedSteps
  <1> QED BY <1>6

\* Nothing undoes what is past, but a pod that stops, or an answer that is lost, before
\* the lock of the booking is announced.
LEMMA PastKept ==
  ASSUME TypeInv, [Next]_vars, NEW b \in Bookings
  PROVE  /\ request[b] \in HadLock =>
               request'[b] \in HadLock \/ <<SeatOf[b], FALSE>> \in unheard'
         /\ Past(b) => Past(b)' \/ <<SeatOf[b], FALSE>> \in unheard'
  <1> DEFINE Over == {"releasing", "released", "done"}
  <1>0. SeatsTypeOK /\ Answering /\ SeatOf[b] \in Seats
    BY TypeInvParts
  <1>1. CASE SeatAction
    <2>1. request[b] \in HadLock => request'[b] \in HadLock
      BY <1>0, <1>1, RequestMoves DEF HadLock
    <2>2. request[b] \in Over => request'[b] \in Over
      BY <1>0, <1>1, RequestMoves
    <2>3. ASSUME request[b] \in {"locked", "confirmed"}, holder[SeatOf[b]] # b
          PROVE  Past(b)'
      <3>1. request'[b] \in {"locked", "confirmed", "releasing"}
        BY <1>0, <1>1, <2>3, RequestMoves
      <3>2. holder'[SeatOf[b]] # b
        <4>1. CASE RowAction
          BY <1>0, <2>3, <4>1, RowMoves
        <4>2. CASE ResetSeats
          BY <1>0, <4>2 DEF ResetSeats
        <4> QED BY <1>1, <4>1, <4>2 DEF SeatAction
      <3> QED BY <3>1, <3>2 DEF Past
    <2> QED BY <2>1, <2>2, <2>3 DEF Past
  <1>2. CASE CacheStep
    BY <1>2 DEF CacheStep, rowVars, HadLock, Past
  <1>3. CASE \E a \in announce : Announce(a)
    BY <1>3 DEF Announce, rowVars, Past
  <1>4. CASE SeatTrouble
    <2>0. LossAction
      BY <1>4, TroubleTells
    <2>1. ASSUME NEW a \in announce, a \notin announce', a.s = SeatOf[b], ~a.available
          PROVE  <<SeatOf[b], FALSE>> \in unheard'
      <3>1. a.available = FALSE
        BY <1>0, <2>1 DEF SeatsTypeOK, Announcements
      <3> QED BY <1>4, <2>1, <3>1, TroubleTells
    <2>2. request[b] \in HadLock => request'[b] \in HadLock \/ <<SeatOf[b], FALSE>> \in unheard'
      BY <1>0, <2>0, <2>1, LossRequestMoves DEF HadLock
    <2>3. request[b] \in Over => request'[b] \in Over
      BY <1>0, <2>0, LossRequestMoves
    <2>4. ASSUME request[b] \in {"locked", "confirmed"}, holder[SeatOf[b]] # b
          PROVE  Past(b)' \/ <<SeatOf[b], FALSE>> \in unheard'
      <3>1. request'[b] = request[b] \/ request'[b] = "done" \/ <<SeatOf[b], FALSE>> \in unheard'
        BY <1>0, <2>0, <2>1, <2>4, LossRequestMoves
      <3>2. holder'[SeatOf[b]] # b
        BY <1>0, <2>0, <2>4, LossMoves DEF FreeSeat, SeatsTypeOK
      <3> QED BY <2>4, <3>1, <3>2 DEF Past
    <2> QED BY <2>2, <2>3, <2>4 DEF Past
  <1> QED BY <1>1, <1>2, <1>3, <1>4, Steps

\* A booking that wants the seat is past.
Gone(s) == \E b \in Bookings : SeatOf[b] = s /\ Past(b)

\* ... or, one time, nobody was told that the seat was taken.
Lapsed(s) == Gone(s) \/ <<s, FALSE>> \in unheard

LEMMA LapsedKept ==
  ASSUME TypeInv, [Next]_vars, NEW s, Lapsed(s)
  PROVE  Lapsed(s)'
  BY PastKept, UnheardKept DEF Lapsed, Gone

\* The seat will be, or has been, announced as free.
Freed(s) ==
    \/ \E a \in announce : a.s = s /\ a.available
    \/ \E i \in DOMAIN feed : feed[i] = Changed(s, TRUE)
    \/ \E p \in Pods : s \in sweep[p].freed

\* A locked row has the token of a booking that knows.
HolderHadLock ==
    \A s \in Seats : status[s] = "LOCKED" =>
        /\ holder[s] \in Bookings /\ SeatOf[holder[s]] = s
        /\ request[holder[s]] \in HadLock \/ <<s, FALSE>> \in unheard

FoundHadLock ==
    \A p \in Pods : \A s \in sweep[p].found :
        \/ \E b \in Bookings : SeatOf[b] = s /\ request[b] \in HadLock
        \/ <<s, FALSE>> \in unheard

FreedIsGone == \A s \in Seats \ Managed : Freed(s) => Lapsed(s)

PastInv == HolderHadLock /\ FoundHadLock /\ FreedIsGone

LEMMA InitPast == Init => PastInv
  BY DEF Init, SeatsInit, NoSweep, PastInv, HolderHadLock, FoundHadLock, FreedIsGone, Freed

LEMMA NextHolder ==
  ASSUME TypeInv, HolderHadLock, [Next]_vars
  PROVE  HolderHadLock'
  <1>0. SeatsTypeOK
    BY TypeInvParts
  <1> SUFFICES ASSUME NEW s \in Seats, status'[s] = "LOCKED"
               PROVE  /\ holder'[s] \in Bookings /\ SeatOf[holder'[s]] = s
                      /\ request'[holder'[s]] \in HadLock \/ <<s, FALSE>> \in unheard'
    BY DEF HolderHadLock
  <1>1. ASSUME status[s] = "LOCKED", holder'[s] = holder[s]
        PROVE  /\ holder'[s] \in Bookings /\ SeatOf[holder'[s]] = s
               /\ request'[holder'[s]] \in HadLock \/ <<s, FALSE>> \in unheard'
    <2>1. PICK b \in Bookings : b = holder[s]
      BY <1>1 DEF HolderHadLock
    <2>2. SeatOf[b] = s /\ (request[b] \in HadLock \/ <<s, FALSE>> \in unheard)
      BY <1>1, <2>1 DEF HolderHadLock
    <2>3. request'[b] \in HadLock \/ <<s, FALSE>> \in unheard'
      BY <2>2, PastKept, UnheardKept
    <2> QED BY <1>1, <2>1, <2>2, <2>3
  <1>2. CASE RowAction
    <2>1. ASSUME NEW b \in Bookings, holder'[s] = b, SeatOf[b] = s, request'[b] = "locked"
          PROVE  /\ holder'[s] \in Bookings /\ SeatOf[holder'[s]] = s
                 /\ request'[holder'[s]] \in HadLock
      BY <2>1 DEF HadLock
    <2> QED BY <1>0, <1>1, <1>2, <2>1, RowMoves
  <1>3. CASE \E p \in Pods : ResetFlight(p)
    BY <1>0, <1>3 DEF ResetFlight, ResetSeats
  <1>4. CASE CacheStep
    BY <1>1, <1>4 DEF CacheStep, rowVars
  <1>5. CASE \E a \in announce : Announce(a)
    BY <1>1, <1>5 DEF Announce, rowVars
  <1>6. CASE SeatTrouble
    <2>1. LossAction
      BY <1>6, TroubleTells
    <2>2. status[s] = "LOCKED" /\ holder'[s] = holder[s]
      BY <1>0, <2>1, LossMoves DEF FreeSeat, SeatsTypeOK
    <2> QED BY <1>1, <2>2
  <1>7. CASE ResetSeats
    BY <1>0, <1>7 DEF ResetSeats
  <1> QED BY <1>2, <1>3, <1>4, <1>5, <1>6, <1>7, Steps DEF SeatAction

LEMMA NextFound ==
  ASSUME TypeInv, PastInv, [Next]_vars
  PROVE  FoundHadLock'
  <1>0. SeatsTypeOK /\ SeatsTypeOK'
    BY NextTypes, TypeInvParts, TypeInvPartsNext
  <1> SUFFICES ASSUME NEW p \in Pods, NEW s \in sweep'[p].found
               PROVE  \/ \E b \in Bookings : SeatOf[b] = s /\ request'[b] \in HadLock
                      \/ <<s, FALSE>> \in unheard'
    BY DEF FoundHadLock
  <1>1. s \in Seats
    BY <1>0 DEF SeatsTypeOK
  <1>2. s \in sweep[p].found \/ s \in expired
    <2>1. CASE SeatAction
      BY <1>0, <1>1, <2>1, SweepMoves
    <2>2. CASE CacheStep \/ \E a \in announce : Announce(a)
      BY <2>2 DEF CacheStep, Announce
    <2>3. CASE SeatTrouble
      BY <2>3, TroubleTells, LossMoves, <1>0 DEF NoSweep
    <2> QED BY <2>1, <2>2, <2>3, Steps
  <1>3. \/ \E b \in Bookings : SeatOf[b] = s /\ request[b] \in HadLock
        \/ <<s, FALSE>> \in unheard
    <2>1. CASE s \in sweep[p].found
      BY <2>1 DEF PastInv, FoundHadLock
    <2>2. CASE s \in expired
      <3>1. status[s] = "LOCKED"
        BY <1>0, <1>1, <2>2 DEF SeatsTypeOK
      <3> QED BY <1>1, <3>1 DEF PastInv, HolderHadLock
    <2> QED BY <1>2, <2>1, <2>2
  <1> QED BY <1>3, PastKept, UnheardKept

LEMMA NextFreed ==
  ASSUME TypeInv, PastInv, [Next]_vars
  PROVE  FreedIsGone'
  <1>0. SeatsTypeOK
    BY TypeInvParts
  <1> SUFFICES ASSUME NEW s \in Seats \ Managed, Freed(s)' PROVE Lapsed(s)'
    BY DEF FreedIsGone
  <1>1. ASSUME Freed(s) PROVE Lapsed(s)'
    BY <1>1, LapsedKept DEF PastInv, FreedIsGone
  <1>2. ASSUME NEW a \in announce', a.s = s, a.available PROVE Lapsed(s)'
    <2>1. CASE a \in announce
      BY <1>1, <1>2, <2>1 DEF Freed
    <2>2. CASE SeatAction /\ a \notin announce
      <3>1. \/ \E p \in Pods : s \in sweep[p].freed
            \/ \E b \in Bookings : SeatOf[b] = s /\ request'[b] = "released"
        BY <1>0, <1>2, <2>2, AnnounceMoves
      <3>2. ASSUME NEW b \in Bookings, SeatOf[b] = s, request'[b] = "released" PROVE Lapsed(s)'
        BY <3>2 DEF Lapsed, Gone, Past
      <3> QED BY <1>1, <3>1, <3>2 DEF Freed
    <2>3. CASE CacheStep \/ \E c \in announce : Announce(c)
      BY <1>2, <2>1, <2>3 DEF CacheStep, Announce
    <2>4. CASE SeatTrouble
      BY <1>0, <1>2, <2>1, <2>4, TroubleTells, LossMoves
    <2> QED BY <2>1, <2>2, <2>3, <2>4, Steps
  <1>3. ASSUME NEW i \in DOMAIN feed', feed'[i] = Changed(s, TRUE) PROVE Lapsed(s)'
    <2>1. \/ \E j \in DOMAIN feed : feed[j] = Changed(s, TRUE)
          \/ \E a \in announce : a.s = s /\ a.available
      BY <1>3, FeedMoves
    <2> QED BY <1>1, <2>1 DEF Freed
  <1>4. ASSUME NEW p \in Pods, s \in sweep'[p].freed PROVE Lapsed(s)'
    <2>1. CASE s \in sweep[p].freed
      BY <1>1, <2>1 DEF Freed
    <2>2. CASE SeatAction /\ s \notin sweep[p].freed
      <3>1. s \in sweep[p].found /\ holder'[s] = NoBooking
        BY <1>0, <1>4, <2>2, SweepMoves
      <3>2. CASE <<s, FALSE>> \in unheard
        BY <3>2, UnheardKept DEF Lapsed
      <3>3. ASSUME NEW b \in Bookings, SeatOf[b] = s, request[b] \in HadLock PROVE Lapsed(s)'
        <4>1. request'[b] \in HadLock \/ <<s, FALSE>> \in unheard'
          BY <3>3, PastKept
        <4>2. holder'[SeatOf[b]] # b
          BY <3>1, <3>3
        <4> QED BY <3>3, <4>1, <4>2 DEF Lapsed, Gone, Past, HadLock
      <3> QED BY <3>1, <3>2, <3>3 DEF PastInv, FoundHadLock
    <2>3. CASE CacheStep \/ \E c \in announce : Announce(c)
      BY <1>4, <2>1, <2>3 DEF CacheStep, Announce
    <2>4. CASE SeatTrouble
      BY <1>0, <1>4, <2>1, <2>4, TroubleTells, LossMoves DEF NoSweep
    <2> QED BY <2>1, <2>2, <2>3, <2>4, Steps
  <1> QED BY <1>2, <1>3, <1>4 DEF Freed

LEMMA NextPast == TypeInv /\ PastInv /\ [Next]_vars => PastInv'
  BY NextHolder, NextFound, NextFreed DEF PastInv

\* What a step does to the set and to the reservations, besides what the rows do.
LEMMA DeliverCases ==
  ASSUME TypeInv, "lateSnapshot" \notin Disorders, NEW k \in DOMAIN feed, Deliver(k)
  PROVE  /\ feed' = RemoveAt(feed, k)
         /\ UNCHANGED <<seatVars, inflight, returning, snapshot, snapshots, outdated, unheard>>
         /\ \/ /\ feed[k] = Changed(feed[k].s, feed[k].available)
               /\ Offer(feed[k].s, feed[k].available) /\ UNCHANGED published
               /\ k = 1 \/ "overtaking" \in Disorders
            \/ /\ feed[k].kind = "init" /\ Replace(Available) /\ k = 1
            \/ /\ feed[k] = WithoutFlight /\ Drop
  <1>0. CacheTypes
    BY TypeInvParts
  <1>1. CASE /\ feed[k].kind = "changed"
             /\ Offer(feed[k].s, feed[k].available)
             /\ Orderly(k = 1, "overtaking") /\ UNCHANGED published
    BY <1>0, <1>1, MessageTypes DEF Deliver, Orderly, lossVars
  <1>2. CASE /\ feed[k].kind = "init" /\ Replace(feed[k].seats)
             /\ Orderly(k = 1 /\ UpToDate(feed[k].seats), "lateSnapshot")
    BY <1>2 DEF Deliver, Orderly, UpToDate, lossVars
  <1>3. CASE feed[k].kind = "other" /\ Drop
    BY <1>0, <1>3, MessageTypes DEF Deliver, Feeds, WithoutFlight, lossVars
  <1> QED BY <1>1, <1>2, <1>3 DEF Deliver

\* The steps that neither write the set nor send or receive a message.
Quiet == UNCHANGED <<offered, feed, published>>

LEMMA QuietSteps ==
  /\ \A q \in BookingPods, b \in Bookings : Request(q, b) => Quiet
  /\ \A b \in Bookings : Create(b) \/ Compensate(b) => Quiet
  /\ \A q \in BookingPods : BookingCrash(q) => Quiet
  /\ RowStep => Quiet
  /\ \A p \in Pods : ResetFlight(p) \/ ReadRows(p) \/ ResetFails(p) => Quiet
  /\ TypeInv /\ SeatTrouble => Quiet
  <1>1. TypeInv /\ SeatTrouble => Quiet
    BY TroubleTells DEF Quiet
  <1>2. \A q \in BookingPods, b \in Bookings : Request(q, b) => Quiet
    BY DEF Request, Quiet
  <1>3. \A b \in Bookings : Create(b) \/ Compensate(b) => Quiet
    BY DEF Create, Compensate, Quiet
  <1>4. (\A q \in BookingPods : BookingCrash(q) => Quiet) /\ (RowStep => Quiet)
    BY DEF BookingCrash, RowStep, Quiet
  <1>5. \A p \in Pods : ResetFlight(p) \/ ReadRows(p) \/ ResetFails(p) => Quiet
    BY DEF ResetFlight, ReadRows, ResetFails, Quiet
  <1> QED BY <1>1, <1>2, <1>3, <1>4, <1>5

LEMMA CaseSteps ==
  ASSUME TypeInv, [Next]_vars
  PROVE  \/ Quiet
         \/ \E b \in Bookings : TryReserve(b)
         \/ \E b \in Bookings : ReserveUnanswered(b)
         \/ \E b \in Bookings : b \in returning /\ Return(b)
         \/ \E a \in announce : Announce(a)
         \/ \E p \in Pods : WriteSnapshot(p)
         \/ ResetOther
         \/ \E i \in DOMAIN feed : Deliver(i)
         \/ \E i \in DOMAIN feed : Skip(i)
  <1>1. CASE UNCHANGED vars
    BY <1>1 DEF vars, cacheVars, Quiet
  <1>2. CASE Next
    BY <1>2, NextCases, QuietSteps
  <1> QED BY <1>1, <1>2

\* What a handler that rejects does not tell.
LEMMA SkipTells ==
  ASSUME TypeInv, NEW k \in DOMAIN feed, Skip(k)
  PROVE  /\ feed' = RemoveAt(feed, k)
         /\ UNCHANGED <<seatVars, offered, inflight, returning, snapshot, snapshots, published,
                        stranded, outdated>>
         /\ unheard \subseteq unheard'
         /\ \A s : feed[k] = Changed(s, FALSE) => <<s, FALSE>> \in unheard'
         /\ \A s : feed[k] = Changed(s, TRUE) => <<s, TRUE>> \in unheard'
         /\ \A s : feed[k].kind = "init" /\ s \in feed[k].seats => <<s, TRUE>> \in unheard'
  <1>1. PICK N : N = News(feed[k])
    OBVIOUS
  <1>2. /\ feed' = RemoveAt(feed, k)
        /\ UNCHANGED <<seatVars, offered, inflight, returning, snapshot, snapshots, published,
                       stranded, outdated>>
        /\ unheard' = unheard \cup N
    BY <1>1 DEF Skip, Missed
  <1>3. \A s : feed[k] = Changed(s, FALSE) => <<s, FALSE>> \in N
    BY <1>1 DEF News, Changed
  <1>4. \A s : feed[k] = Changed(s, TRUE) => <<s, TRUE>> \in N
    BY <1>1 DEF News, Changed
  <1>5. ASSUME feed[k].kind = "init", NEW s \in feed[k].seats PROVE <<s, TRUE>> \in N
    <2>1. N = feed[k].seats \X {TRUE}
      BY <1>1, <1>5 DEF News
    <2> QED BY <1>5, <2>1
  <1> QED BY <1>2, <1>3, <1>4, <1>5

\* Why the seat is offered although it is taken.
Reason(s) ==
    \/ \E a \in announce : a.s = s /\ ~a.available
    \/ \E i \in DOMAIN feed : feed[i] = Changed(s, FALSE)
    \/ Lapsed(s)

\* The rows: a seat is only taken with an announcement.
LEMMA TakenKept ==
  ASSUME TypeInv, [Next]_vars, NEW s \in Seats, Taken(s)',
         ~\E a \in announce : Announce(a)
  PROVE  /\ \A a \in announce : a.s = s /\ ~a.available =>
               a \in announce' \/ <<s, FALSE>> \in unheard'
         /\ Taken(s) \/ \E a \in announce' : a.s = s /\ ~a.available
  <1>0. SeatsTypeOK
    BY TypeInvParts
  <1>1. CASE SeatAction
    <2>1. announce \subseteq announce'
      BY <1>0, <1>1, AnnounceMoves
    <2>2. RowAction
      BY <1>1 DEF SeatAction, ResetSeats, Taken
    <2>3. Taken(s) \/ \E a \in announce' : a.s = s /\ ~a.available
      BY <1>0, <2>2, RowMoves DEF Taken
    <2> QED BY <2>1, <2>3
  <1>2. CASE CacheStep
    BY <1>2 DEF CacheStep, rowVars, Taken
  <1>3. CASE SeatTrouble
    <2>1. LossAction
      BY <1>3, TroubleTells
    <2>2. Taken(s)
      BY <1>0, <2>1, LossMoves DEF FreeSeat, SeatsTypeOK, Taken
    <2>3. ASSUME NEW a \in announce, a.s = s, ~a.available
          PROVE  a \in announce' \/ <<s, FALSE>> \in unheard'
      <3>1. a.available = FALSE
        BY <1>0, <2>3 DEF SeatsTypeOK, Announcements
      <3> QED BY <1>3, <2>3, <3>1, TroubleTells
    <2> QED BY <2>2, <2>3
  <1> QED BY <1>1, <1>2, <1>3, Steps

LEMMA NextOffered ==
  ASSUME "lateSnapshot" \notin Disorders,
         TypeInv, PastInv, OfferedForAReason, [Next]_vars
  PROVE  OfferedForAReason'
  <1>0. SeatsTypeOK /\ CacheTypes /\ RequestTypes /\ CacheTypes'
    BY TypeInvParts, NextTypes, TypeInvPartsNext
  <1> SUFFICES ASSUME NEW s \in offered' \ Managed, Taken(s)' PROVE Reason(s)'
    BY DEF OfferedForAReason, Reason, Lapsed, Gone
  <1>1. s \in Seats
    BY <1>0 DEF CacheTypes
  <1>2. s \in offered /\ Taken(s) => Reason(s)
    BY DEF OfferedForAReason, Reason, Lapsed, Gone
  <1>3. Lapsed(s) => Lapsed(s)'
    BY LapsedKept
  <1>4. Freed(s) => Lapsed(s)
    BY <1>1 DEF PastInv, FreedIsGone
  \* Steps after which the reason is still there, if the seat was on offer before.
  <1>5. ASSUME s \in offered, ~\E a \in announce : Announce(a),
               \A i \in DOMAIN feed : feed[i] = Changed(s, FALSE) =>
                   \/ \E j \in DOMAIN feed' : feed'[j] = Changed(s, FALSE)
                   \/ <<s, FALSE>> \in unheard'
        PROVE  Reason(s)'
    <2>1. /\ \A a \in announce : a.s = s /\ ~a.available =>
                a \in announce' \/ <<s, FALSE>> \in unheard'
          /\ Taken(s) \/ \E a \in announce' : a.s = s /\ ~a.available
      BY <1>1, <1>5, TakenKept
    <2>2. CASE Taken(s)
      BY <1>2, <1>3, <1>5, <2>1, <2>2 DEF Reason, Lapsed
    <2> QED BY <2>1, <2>2 DEF Reason
  <1>6. ASSUME NEW a \in announce, Announce(a) PROVE Reason(s)'
    <2>1. Changed(a.s, a.available) \in Feeds /\ a.available \in BOOLEAN
      BY <1>0, FeedTypes DEF SeatsTypeOK, Announcements
    <2>2. Taken(s) /\ announce' = announce \ {a}
      BY <1>6 DEF Announce, rowVars, Taken
    <2>3. CASE a.available /\ a.s = s
      BY <1>3, <1>4, <2>3 DEF Freed, Reason
    <2>4. CASE ~a.available /\ a.s = s
      <3>1. CASE Publish(Changed(a.s, a.available))
        <4>1. Changed(a.s, a.available) = Changed(s, FALSE)
          BY <2>1, <2>4
        <4> QED BY <1>0, <2>1, <3>1, <4>1, AppendFeed DEF Reason
      <3>2. CASE Missed({<<a.s, a.available>>})
        BY <2>1, <2>4, <3>2 DEF Missed, Reason, Lapsed
      <3> QED BY <1>6, <3>1, <3>2 DEF Announce
    <2>5. CASE a.s # s
      <3>1. s \in offered
        BY <1>6, <2>5 DEF Announce, Offer
      <3>2. \A i \in DOMAIN feed : i \in DOMAIN feed' /\ feed'[i] = feed[i]
        <4>1. Publish(Changed(a.s, a.available)) \/ UNCHANGED feed
          BY <1>6 DEF Announce
        <4> QED BY <1>0, <2>1, <4>1, AppendFeed
      <3> QED BY <1>2, <1>3, <2>2, <2>5, <3>1, <3>2 DEF Reason
    <2> QED BY <2>3, <2>4, <2>5
  <1>7. CASE Quiet
    BY <1>5, <1>6, <1>7 DEF Quiet
  <1>8. ASSUME NEW b \in Bookings, TryReserve(b) \/ ReserveUnanswered(b) PROVE Reason(s)'
    BY <1>5, <1>6, <1>8 DEF TryReserve, ReserveUnanswered
  <1>9. ASSUME NEW b \in Bookings, b \in returning, Return(b) PROVE Reason(s)'
    <2>1. CASE SeatOf[b] = s
      <3>1. Past(b)
        BY <1>0, <1>9 DEF RequestTypes, Past
      <3> QED BY <1>3, <2>1, <3>1 DEF Gone, Lapsed, Reason
    <2>2. CASE SeatOf[b] # s
      BY <1>5, <1>6, <1>9, <2>2 DEF Return, Unreserve
    <2> QED BY <2>1, <2>2
  <1>10. ASSUME NEW p \in Pods, WriteSnapshot(p) PROVE Reason(s)'
    <2>1. UNCHANGED seatVars
      BY <1>10 DEF WriteSnapshot
    <2>2. ~Replace(snapshot[p].seats)
      BY <1>10, <2>1 DEF WriteSnapshot, Orderly, UpToDate, Replace, Available, seatVars, Taken
    <2>3. s \in offered
      BY <1>10, <2>2 DEF WriteSnapshot
    <2>4. \A i \in DOMAIN feed : i \in DOMAIN feed' /\ feed'[i] = feed[i]
      <3>1. Fresh(snapshot[p].seats) \in Feeds
        BY <1>0, FeedTypes DEF CacheTypes
      <3>2. UNCHANGED feed \/ Publish(Fresh(snapshot[p].seats))
        BY <1>10 DEF WriteSnapshot
      <3> QED BY <1>0, <3>1, <3>2, AppendFeed
    <2> QED BY <1>5, <1>6, <2>3, <2>4
  <1>11. ASSUME ResetOther PROVE FALSE
    BY <1>11 DEF ResetOther, Drop
  \* The message k is gone.
  <1>12. ASSUME NEW k \in DOMAIN feed, feed' = RemoveAt(feed, k), s \in offered,
                feed[k] = Changed(s, FALSE) => <<s, FALSE>> \in unheard'
         PROVE  Reason(s)'
    <2>1. ASSUME NEW i \in DOMAIN feed, feed[i] = Changed(s, FALSE)
          PROVE  \/ \E j \in DOMAIN feed' : feed'[j] = Changed(s, FALSE)
                 \/ <<s, FALSE>> \in unheard'
      <3>1. CASE i = k
        BY <1>12, <2>1, <3>1
      <3>2. CASE i # k
        <4>1. i \in Int /\ k \in Int
          BY <1>0 DEF CacheTypes
        <4>2. i < k \/ i > k
          BY <3>2, <4>1
        <4> QED BY <1>0, <1>12, <2>1, <4>2, RemoveFeed
      <3> QED BY <3>1, <3>2
    <2> QED BY <1>5, <1>6, <1>12, <2>1
  <1>13. ASSUME NEW k \in DOMAIN feed, Deliver(k) PROVE Reason(s)'
    <2>1. feed' = RemoveAt(feed, k) /\ UNCHANGED seatVars
      BY <1>13, DeliverCases
    <2>2. CASE /\ feed[k] = Changed(feed[k].s, feed[k].available)
               /\ Offer(feed[k].s, feed[k].available)
      <3>1. CASE feed[k].s = s
        <4>1. feed[k].available
          BY <2>2, <3>1 DEF Offer
        <4>2. feed[k].available = TRUE
          BY <1>0, <2>2, <4>1, MessageTypes DEF Changed
        <4>3. Freed(s)
          BY <2>2, <3>1, <4>2 DEF Freed
        <4> QED BY <1>3, <1>4, <4>3 DEF Reason
      <3>2. CASE feed[k].s # s
        <4>1. s \in offered
          BY <2>2, <3>2 DEF Offer
        <4>2. feed[k] # Changed(s, FALSE)
          BY <3>2 DEF Changed
        <4> QED BY <1>12, <2>1, <4>1, <4>2
      <3> QED BY <3>1, <3>2
    <2>3. CASE Replace(Available) \/ Drop
      BY <2>1, <2>3 DEF Replace, Drop, Available, seatVars, Taken
    <2> QED BY <1>13, <2>2, <2>3, DeliverCases
  <1>14. ASSUME NEW k \in DOMAIN feed, Skip(k) PROVE Reason(s)'
    BY <1>12, <1>14, SkipTells
  <1> QED BY <1>6, <1>7, <1>8, <1>9, <1>10, <1>11, <1>13, <1>14, CaseSteps

\* A seat that is taken and not the administrator's is offered only until its lock has
\* been announced, or once a booking has failed or lost its lock, or after the news
\* that it was taken got lost, however messages overtake each other, as long as no
\* snapshot is used after the rows have changed.
THEOREM OfferedReasons ==
  ASSUME "lateSnapshot" \notin Disorders
  PROVE  Spec => []OfferedForAReason
  <1>1. Init => OfferedForAReason
    BY DEF Init, OfferedForAReason
  <1>2. TypeInv /\ PastInv /\ OfferedForAReason /\ [Next]_vars => OfferedForAReason'
    BY NextOffered
  <1> QED BY <1>1, <1>2, InitTypes, NextTypes, InitPast, NextPast, PTL DEF Spec

-----------------------------------------------------------------------------
(* A seat that is free and refused                                         *)

\* A message that puts the seat on offer.
Says(m, s) == m = Changed(s, TRUE) \/ (m.kind = "init" /\ s \in m.seats)

\* The same, not sent yet.
Unsent(s) ==
    \/ \E a \in announce : a.s = s /\ a.available
    \/ \E p \in Pods :
          \/ s \in sweep[p].freed
          \/ snapshot[p].stage = "reset"
          \/ s \in snapshot[p].seats

\* After the first i messages comes one that puts the seat on offer.
Word(s, i) == Unsent(s) \/ \E j \in DOMAIN feed : j > i /\ Says(feed[j], s)

\* No message has told booking-service that the seat is free.
Unheard(s) == <<s, TRUE>> \in unheard

\* The seat is out of the set because of a request ...
Claimed(s) ==
    \/ \E b \in returning : SeatOf[b] = s
    \/ \E b \in Bookings : SeatOf[b] = s /\ request[b] \in {"reserved", "asked", "lost"}
    \/ \E b \in stranded : SeatOf[b] = s

\* ... or of an announcement that was late or got lost.
Awaited(s) == Claimed(s) \/ s \in outdated \/ Unheard(s)

\* A free seat that is not offered will be, or there is a reason ...
FreeIsAwaited == published => \A s \in Available \ offered : Word(s, 0) \/ Awaited(s)

\* ... and the message that takes a free seat out of the set is not the last about it.
FreeIsSaidLater ==
    \A i \in DOMAIN feed : \A s \in Available :
        feed[i] = Changed(s, FALSE) => Word(s, i) \/ s \in outdated \/ Unheard(s)

\* The step puts the seat on offer with a message.
NowSaid(s) == Len(feed) + 1 \in DOMAIN feed' /\ Says(feed'[Len(feed) + 1], s)

HiddenInv == FreeIsAwaited /\ FreeIsSaidLater

LEMMA InitHidden == Init => HiddenInv
  BY DEF Init, HiddenInv, FreeIsAwaited, FreeIsSaidLater

\* The announcement that a seat is free is a message at the end of the feed, or is lost.
LEMMA AnnounceSays ==
  ASSUME TypeInv, NEW a \in announce, Announce(a), a.available
  PROVE  NowSaid(a.s) \/ Unheard(a.s)'
  <1>0. SeatsTypeOK /\ CacheTypes
    BY TypeInvParts
  <1>1. a.available = TRUE /\ a.s \in Seats
    BY <1>0 DEF SeatsTypeOK, Announcements
  <1>2. CASE Publish(Changed(a.s, a.available))
    <2>1. Changed(a.s, a.available) \in Feeds /\ Changed(a.s, a.available) = Changed(a.s, TRUE)
      BY <1>0, <1>1, FeedTypes
    <2>2. /\ Len(feed) + 1 \in DOMAIN feed'
          /\ feed'[Len(feed) + 1] = Changed(a.s, a.available)
      BY <1>0, <1>2, <2>1, AppendFeed
    <2> QED BY <2>1, <2>2 DEF NowSaid, Says
  <1>3. CASE Missed({<<a.s, a.available>>})
    BY <1>1, <1>3 DEF Missed, Unheard
  <1> QED BY <1>2, <1>3 DEF Announce

\* So is a snapshot, of the seats in it.
LEMMA SnapshotSays ==
  ASSUME TypeInv, NEW p \in Pods, WriteSnapshot(p), NEW s \in snapshot[p].seats
  PROVE  NowSaid(s) \/ Unheard(s)'
  <1>0. CacheTypes
    BY TypeInvParts
  <1>1. PICK S : S = snapshot[p].seats
    OBVIOUS
  <1>2. CASE Publish(Fresh(S))
    <2>1. Fresh(S) \in Feeds /\ Fresh(S).kind = "init" /\ Fresh(S).seats = S
      BY <1>0, <1>1, FeedTypes DEF CacheTypes, Fresh
    <2>2. Len(feed) + 1 \in DOMAIN feed' /\ feed'[Len(feed) + 1] = Fresh(S)
      BY <1>0, <1>2, <2>1, AppendFeed
    <2> QED BY <1>1, <2>1, <2>2 DEF NowSaid, Says
  <1>3. CASE Missed(S \X {TRUE})
    BY <1>1, <1>3 DEF Missed, Unheard
  <1> QED BY <1>1, <1>2, <1>3 DEF WriteSnapshot

\* What was said late, or never, is made good with a message at the end of the feed.
LEMMA TellingKept ==
  ASSUME TypeInv, [Next]_vars, NEW s, s \in outdated \/ Unheard(s)
  PROVE  s \in outdated' \/ Unheard(s)' \/ NowSaid(s)
  <1> DEFINE Kept == s \in outdated' \/ Unheard(s)' \/ NowSaid(s)
  <1>1. ASSUME NEW a \in announce, Announce(a) PROVE Kept
    <2>1. CASE a.available /\ a.s = s
      BY <1>1, <2>1, AnnounceSays
    <2>2. CASE ~a.available
      BY <1>1, <2>2 DEF Announce, Missed, Unheard
    <2>3. CASE a.s # s
      BY <1>1, <2>3 DEF Announce, Missed, Unheard
    <2> QED BY <2>1, <2>2, <2>3
  <1>2. ASSUME NEW p \in Pods, WriteSnapshot(p) PROVE Kept
    <2>1. CASE s \in snapshot[p].seats
      BY <1>2, <2>1, SnapshotSays
    <2>2. CASE s \notin snapshot[p].seats
      <3>1. PICK S : S = snapshot[p].seats
        OBVIOUS
      <3>2. /\ unheard' = unheard \ (S \X {TRUE}) \/ unheard \subseteq unheard'
            /\ outdated' = outdated \ S \/ outdated' = outdated
        BY <1>2, <3>1 DEF WriteSnapshot, Missed
      <3> QED BY <2>2, <3>1, <3>2 DEF Unheard
    <2> QED BY <2>1, <2>2
  <1>3. ASSUME unheard \subseteq unheard', UNCHANGED outdated PROVE Kept
    BY <1>3 DEF Unheard
  <1>4. CASE UNCHANGED vars
    BY <1>3, <1>4 DEF vars, cacheVars
  <1>5. ASSUME \/ \E q \in BookingPods, b \in Bookings : Request(q, b)
               \/ \E b \in Bookings : TryReserve(b) \/ Create(b) \/ Compensate(b)
               \/ \E b \in Bookings : ReserveUnanswered(b) \/ Return(b)
               \/ \E q \in BookingPods : BookingCrash(q)
        PROVE  UNCHANGED <<unheard, outdated>>
    BY <1>5 DEF Request, TryReserve, Create, Compensate, ReserveUnanswered, Return, BookingCrash,
       lossVars
  <1>6. ASSUME \/ RowStep \/ ResetOther
               \/ \E p \in Pods : ResetFlight(p) \/ ReadRows(p)
               \/ \E i \in DOMAIN feed : Deliver(i)
        PROVE  UNCHANGED <<unheard, outdated>>
    BY <1>6 DEF RowStep, ResetOther, ResetFlight, ReadRows, Deliver, lossVars
  <1>7. ASSUME \/ SeatTrouble \/ \E p \in Pods : ResetFails(p)
               \/ \E i \in DOMAIN feed : Skip(i)
        PROVE  unheard \subseteq unheard' /\ UNCHANGED outdated
    BY <1>7, TroubleTells DEF ResetFails, Skip, Missed
  <1>8. CASE Next
    BY <1>1, <1>2, <1>3, <1>5, <1>6, <1>7, <1>8, NextCases
  <1> QED BY <1>4, <1>8

\* A seat that becomes free is told of, or the news is lost.
LEMMA NewlyFree ==
  ASSUME TypeInv, [Next]_vars, NEW s \in Available', s \notin Available
  PROVE  Unsent(s)' \/ Unheard(s)'
  <1>0. SeatsTypeOK /\ CacheTypes /\ s \in Seats
    BY TypeInvParts DEF Available
  <1>1. status[s] # "AVAILABLE" /\ status'[s] = "AVAILABLE"
    BY DEF Available
  <1>2. CASE RowAction
    <2>1. \/ \E a \in announce' : a.s = s /\ a.available
          \/ \E p \in Pods : s \in sweep'[p].freed
      BY <1>0, <1>1, <1>2, RowMoves
    <2> QED BY <2>1 DEF Unsent
  <1>3. ASSUME NEW p \in Pods, ResetFlight(p) PROVE Unsent(s)'
    <2>1. snapshot'[p].stage = "reset"
      BY <1>0, <1>3 DEF ResetFlight, CacheTypes
    <2> QED BY <2>1 DEF Unsent
  <1>4. CASE UNCHANGED status
    BY <1>1, <1>4
  <1>5. CASE SeatTrouble
    BY <1>0, <1>1, <1>5, TroubleTells DEF Unheard
  <1>6. UNCHANGED status \/ RowAction \/ SeatTrouble \/ \E p \in Pods : ResetFlight(p)
    <2>1. CASE UNCHANGED vars
      BY <2>1 DEF vars, seatVars
    <2>2. ASSUME NEW b \in Bookings, Compensate(b) PROVE UNCHANGED status \/ RowAction
      BY <2>2 DEF Compensate, rowVars, RowAction
    <2>3. ASSUME \/ \E q \in BookingPods, b \in Bookings : Request(q, b)
                 \/ \E b \in Bookings : TryReserve(b) \/ Create(b)
                 \/ \E b \in Bookings : ReserveUnanswered(b) \/ Return(b)
                 \/ \E q \in BookingPods : BookingCrash(q)
                 \/ \E a \in announce : Announce(a)
          PROVE  UNCHANGED status
      BY <2>3 DEF Request, TryReserve, Create, ReserveUnanswered, Return, BookingCrash, Announce,
         seatVars, rowVars
    <2>4. ASSUME \/ \E p \in Pods : ReadRows(p) \/ WriteSnapshot(p) \/ ResetFails(p)
                 \/ ResetOther
                 \/ \E i \in DOMAIN feed : Deliver(i) \/ Skip(i)
          PROVE  UNCHANGED status
      BY <2>4 DEF ReadRows, WriteSnapshot, ResetFails, ResetOther, Deliver, Skip, seatVars
    <2>5. CASE Next
      BY <2>2, <2>3, <2>4, <2>5, NextCases DEF RowStep
    <2> QED BY <2>1, <2>5
  <1> QED BY <1>2, <1>3, <1>4, <1>5, <1>6

\* What is to be told of a free seat is told, or waits in the feed, or is lost.
LEMMA UnsentKept ==
  ASSUME TypeInv, [Next]_vars, NEW s \in Available, Unsent(s)
  PROVE  Unsent(s)' \/ NowSaid(s) \/ Unheard(s)'
  <1> DEFINE Kept == Unsent(s)' \/ NowSaid(s) \/ Unheard(s)'
  <1>0. SeatsTypeOK /\ CacheTypes /\ s \in Seats
    BY TypeInvParts DEF Available
  <1>1. ASSUME SeatAction \/ UNCHANGED <<announce, sweep>>, UNCHANGED snapshot PROVE Kept
    <2>1. CASE SeatAction
      <3>1. announce \subseteq announce'
        BY <1>0, <2>1, AnnounceMoves
      <3>2. \A p \in Pods : s \in sweep[p].freed =>
              s \in sweep'[p].freed \/ \E a \in announce' : a.s = s /\ a.available
        BY <1>0, <2>1, SweepMoves
      <3> QED BY <1>1, <3>1, <3>2 DEF Unsent
    <2>2. CASE UNCHANGED <<announce, sweep>>
      BY <1>1, <2>2 DEF Unsent
    <2> QED BY <1>1, <2>1, <2>2
  <1>2. ASSUME NEW a \in announce, Announce(a) PROVE Kept
    <2>1. CASE a.s = s /\ a.available
      BY <1>2, <2>1, AnnounceSays
    <2>2. CASE ~(a.s = s /\ a.available)
      BY <1>2, <2>2 DEF Announce, Unsent
    <2> QED BY <2>1, <2>2
  <1>3. ASSUME NEW p \in Pods, ResetFlight(p) PROVE Kept
    <2>1. snapshot'[p].stage = "reset"
      BY <1>0, <1>3 DEF ResetFlight, CacheTypes
    <2> QED BY <2>1 DEF Unsent
  <1>4. ASSUME NEW p \in Pods, ReadRows(p) PROVE Kept
    <2>1. s \in snapshot'[p].seats
      BY <1>0, <1>4 DEF ReadRows, CacheTypes
    <2> QED BY <2>1 DEF Unsent
  <1>5. ASSUME NEW p \in Pods, WriteSnapshot(p) PROVE Kept
    <2>1. CASE s \in snapshot[p].seats
      BY <1>5, <2>1, SnapshotSays
    <2>2. CASE s \notin snapshot[p].seats
      <3>1. \A r \in Pods \ {p} : snapshot'[r] = snapshot[r]
        BY <1>0, <1>5 DEF WriteSnapshot, CacheTypes
      <3>2. snapshot[p].stage # "reset" /\ UNCHANGED <<announce, sweep>>
        BY <1>5 DEF WriteSnapshot, seatVars
      <3> QED BY <2>2, <3>1, <3>2 DEF Unsent
    <2> QED BY <2>1, <2>2
  <1>6. CASE UNCHANGED vars
    BY <1>1, <1>6 DEF vars, seatVars, cacheVars
  <1>7. ASSUME NEW b \in Bookings, Compensate(b) PROVE Kept
    BY <1>1, <1>7 DEF Compensate, SeatAction, RowAction
  <1>8. ASSUME SeatTrouble PROVE Kept
    <2>1. ASSUME NEW a \in announce, a.s = s, a.available PROVE Kept
      <3>1. a.available = TRUE
        BY <1>0, <2>1 DEF SeatsTypeOK, Announcements
      <3>2. a \in announce' \/ <<s, TRUE>> \in unheard'
        BY <1>8, <2>1, <3>1, TroubleTells
      <3> QED BY <2>1, <3>2 DEF Unsent, Unheard
    <2>2. ASSUME NEW p \in Pods, s \in sweep[p].freed PROVE Kept
      <3>1. s \in sweep'[p].freed \/ <<s, TRUE>> \in unheard'
        BY <1>8, <2>2, TroubleTells
      <3> QED BY <3>1 DEF Unsent, Unheard
    <2>3. ASSUME NEW p \in Pods, snapshot[p].stage = "reset" \/ s \in snapshot[p].seats
          PROVE  Kept
      <3>1. s \in Untold(p)
        BY <1>0, <2>3 DEF Untold
      <3>2. snapshot'[p] = snapshot[p] \/ <<s, TRUE>> \in unheard'
        BY <1>8, <3>1, TroubleTells
      <3> QED BY <2>3, <3>2 DEF Unsent, Unheard
    <2> QED BY <2>1, <2>2, <2>3 DEF Unsent
  <1>9. ASSUME NEW p \in Pods, ResetFails(p) PROVE Kept
    BY <1>0, <1>9 DEF ResetFails, Missed, Unheard
  <1>10. ASSUME \/ \E q \in BookingPods, b \in Bookings : Request(q, b)
                \/ \E b \in Bookings : TryReserve(b) \/ Create(b)
                \/ \E b \in Bookings : ReserveUnanswered(b) \/ Return(b)
                \/ \E q \in BookingPods : BookingCrash(q)
         PROVE  UNCHANGED <<announce, sweep, snapshot>>
    BY <1>10 DEF Request, TryReserve, Create, ReserveUnanswered, Return, BookingCrash, seatVars
  <1>11. ASSUME ResetOther \/ \E i \in DOMAIN feed : Deliver(i) \/ Skip(i)
         PROVE  UNCHANGED <<announce, sweep, snapshot>>
    BY <1>11 DEF ResetOther, Deliver, Skip, seatVars
  <1>12. ASSUME RowStep PROVE SeatAction /\ UNCHANGED snapshot
    BY <1>12 DEF RowStep, SeatAction
  <1>13. CASE Next
    BY <1>1, <1>2, <1>3, <1>4, <1>5, <1>7, <1>8, <1>9, <1>10, <1>11, <1>12, <1>13, NextCases
  <1> QED BY <1>6, <1>13

\* The messages of the feed, where none is taken out.
LEMMA EntriesKept ==
  ASSUME TypeInv, [Next]_vars, ~\E k \in DOMAIN feed : Deliver(k) \/ Skip(k)
  PROVE  /\ \A j \in DOMAIN feed : j \in DOMAIN feed' /\ feed'[j] = feed[j]
         /\ \A j \in DOMAIN feed' : j \in DOMAIN feed \/ j = Len(feed) + 1
  <1> DEFINE Kept ==
         /\ \A j \in DOMAIN feed : j \in DOMAIN feed' /\ feed'[j] = feed[j]
         /\ \A j \in DOMAIN feed' : j \in DOMAIN feed \/ j = Len(feed) + 1
  <1>0. SeatsTypeOK /\ CacheTypes
    BY TypeInvParts
  <1>1. CASE UNCHANGED feed
    BY <1>1
  <1>2. ASSUME NEW m \in Feeds, Publish(m) PROVE Kept
    BY <1>0, <1>2, AppendFeed
  <1>3. ASSUME NEW a \in announce, Announce(a) PROVE Kept
    <2>1. Changed(a.s, a.available) \in Feeds
      BY <1>0, FeedTypes DEF SeatsTypeOK, Announcements
    <2> QED BY <1>1, <1>2, <1>3, <2>1 DEF Announce
  <1>4. ASSUME NEW p \in Pods, WriteSnapshot(p) PROVE Kept
    <2>1. Fresh(snapshot[p].seats) \in Feeds
      BY <1>0, FeedTypes DEF CacheTypes
    <2> QED BY <1>1, <1>2, <1>4, <2>1 DEF WriteSnapshot
  <1>5. ASSUME ResetOther PROVE Kept
    BY <1>1, <1>2, <1>5, FeedTypes DEF ResetOther
  <1>6. CASE Quiet \/ (\E b \in Bookings : TryReserve(b) \/ ReserveUnanswered(b) \/ Return(b))
    BY <1>1, <1>6 DEF Quiet, TryReserve, ReserveUnanswered, Return
  <1>7. Kept
    BY <1>3, <1>4, <1>5, <1>6, CaseSteps
  <1> QED BY <1>7

\* The word about a free seat is kept, where no message is taken out ...
LEMMA WordKept ==
  ASSUME TypeInv, [Next]_vars, ~\E k \in DOMAIN feed : Deliver(k) \/ Skip(k),
         NEW s \in Available, NEW i \in 0 .. Len(feed), Word(s, i)
  PROVE  Word(s, i)' \/ Unheard(s)'
  <1>0. feed \in Seq(Feeds)
    BY TypeInvParts DEF CacheTypes
  <1>1. CASE Unsent(s)
    <2>1. Len(feed) + 1 > i
      BY <1>0
    <2> QED BY <1>1, <2>1, UnsentKept DEF Word, NowSaid
  <1>2. CASE \E j \in DOMAIN feed : j > i /\ Says(feed[j], s)
    BY <1>2, EntriesKept DEF Word, Says
  <1> QED BY <1>1, <1>2 DEF Word

\* ... and where one is that says nothing of the kind, or came before.
LEMMA WordShift ==
  ASSUME TypeInv, NEW k \in DOMAIN feed,
         feed' = RemoveAt(feed, k), UNCHANGED <<announce, sweep, snapshot>>,
         NEW s \in Available, NEW n \in 0 .. Len(feed), Word(s, n),
         k <= n \/ ~Says(feed[k], s), NEW m \in Nat, m = (IF k <= n THEN n - 1 ELSE n)
  PROVE  Word(s, m)'
  <1>0. CacheTypes /\ feed \in Seq(Feeds)
    BY TypeInvParts DEF CacheTypes
  <1>1. CASE Unsent(s)
    BY <1>1 DEF Word, Unsent
  <1>2. ASSUME NEW j \in DOMAIN feed, j > n, Says(feed[j], s) PROVE Word(s, m)'
    <2>1. j \in Nat /\ k \in Nat /\ n \in Nat
      BY <1>0
    <2>2. j # k
      BY <1>2, <2>1
    <2>3. CASE j < k
      <3>1. j \in DOMAIN feed' /\ feed'[j] = feed[j] /\ j > m
        BY <1>0, <1>2, <2>1, <2>3, RemoveFeed
      <3> QED BY <1>2, <3>1 DEF Word, Says
    <2>4. CASE j > k
      <3>1. j - 1 \in DOMAIN feed' /\ feed'[j - 1] = feed[j] /\ j - 1 > m
        BY <1>0, <1>2, <2>1, <2>4, RemoveFeed
      <3> QED BY <1>2, <3>1 DEF Word, Says
    <2> QED BY <2>1, <2>2, <2>3, <2>4
  <1> QED BY <1>1, <1>2 DEF Word

\* A claim lasts until the seat is taken or offered again.
LEMMA ClaimedKept ==
  ASSUME TypeInv, [Next]_vars, NEW s \in Available', Claimed(s)
  PROVE  Claimed(s)' \/ s \in offered'
  <1> DEFINE Kept == Claimed(s)' \/ s \in offered'
  <1>0. SeatsTypeOK /\ Answering /\ CacheTypes /\ RequestTypes /\ s \in Seats
    BY TypeInvParts DEF Available
  <1>1. status'[s] = "AVAILABLE"
    BY DEF Available
  <1> DEFINE Waits(b) == SeatOf[b] = s /\ request[b] \in {"reserved", "asked", "lost"}
  \* Requests that the rows answer.
  <1>2. ASSUME SeatAction, returning \subseteq returning', UNCHANGED stranded
        PROVE  Kept
    <2>1. ASSUME NEW b \in Bookings, Waits(b) PROVE Waits(b)'
      BY <1>0, <1>1, <1>2, <2>1, RequestMoves
    <2> QED BY <1>2, <2>1 DEF Claimed
  \* Nothing happens to the requests: their reservations are taken back with an offer.
  <1>3. ASSUME UNCHANGED <<request, returning>>,
               \A b \in stranded : b \in stranded' \/ SeatOf[b] # s \/ s \in offered'
        PROVE  Kept
    BY <1>3 DEF Claimed
  <1>4. ASSUME NEW q \in BookingPods, NEW b \in Bookings, Request(q, b) PROVE Kept
    BY <1>0, <1>4 DEF Request, Becomes, SeatsTypeOK, Claimed
  <1>5. ASSUME NEW b \in Bookings, TryReserve(b) PROVE Kept
    BY <1>0, <1>5 DEF TryReserve, Becomes, SeatsTypeOK, Claimed
  <1>6. ASSUME NEW b \in Bookings, Create(b) PROVE Kept
    <2>1. request \in [Bookings -> Requests]
      BY <1>0 DEF SeatsTypeOK
    <2>2. returning \subseteq returning' /\ stranded \subseteq stranded'
      BY <1>6 DEF Create
    <2>3. \A c \in Bookings \ {b} : request'[c] = request[c]
      BY <1>6, <2>1 DEF Create, Becomes
    <2>4. request'[b] = "asked" \/ b \in stranded' \/ b \in returning'
      BY <1>6, <2>1 DEF Create, Becomes
    <2> QED BY <2>1, <2>2, <2>3, <2>4 DEF Claimed
  <1>7. ASSUME NEW b \in Bookings, Compensate(b) PROVE Kept
    <2>1. CASE GiveUp(b)
      <3>1. SeatAction
        BY <2>1 DEF SeatAction, RowAction
      <3> QED BY <1>2, <1>7, <3>1 DEF Compensate
    <2>2. CASE Becomes(b, "done")
      <3>1. /\ returning' = returning \cup {b} /\ UNCHANGED stranded
            /\ \A c \in Bookings \ {b} : request'[c] = request[c]
        BY <1>0, <1>7, <2>2 DEF Compensate, Becomes, SeatsTypeOK
      <3> QED BY <3>1 DEF Claimed
    <2> QED BY <1>7, <2>1, <2>2 DEF Compensate
  <1>8. ASSUME NEW q \in BookingPods, BookingCrash(q) PROVE Kept
    <2>1. /\ stranded' = stranded \cup {b \in inflight[q] : request[b] # "none"}
          /\ returning' = returning \ inflight[q]
          /\ \A b \in Bookings : b \notin inflight[q] => request'[b] = request[b]
      BY <1>8 DEF BookingCrash
    <2>2. ASSUME NEW b \in returning PROVE b \in stranded' \/ b \in returning'
      BY <1>0, <2>1 DEF RequestTypes
    <2>3. ASSUME NEW b \in Bookings, Waits(b) PROVE b \in stranded' \/ Waits(b)'
      BY <2>1, <2>3
    <2> QED BY <2>1, <2>2, <2>3 DEF Claimed
  <1>9. ASSUME NEW b \in Bookings, b \in returning, Return(b) PROVE Kept
    <2>1. /\ UNCHANGED request /\ returning' = returning \ {b}
          /\ stranded \subseteq stranded'
          /\ SeatOf[b] \in offered' \/ b \in stranded'
      BY <1>9 DEF Return, Unreserve, seatVars
    <2> QED BY <2>1 DEF Claimed
  <1>10. ASSUME NEW a \in announce, Announce(a) PROVE Kept
    BY <1>3, <1>10 DEF Announce, Offer
  <1>11. ASSUME RowStep PROVE Kept
    BY <1>2, <1>11 DEF RowStep, SeatAction
  <1>12. ASSUME NEW p \in Pods, ResetFlight(p) PROVE Kept
    BY <1>3, <1>12 DEF ResetFlight, ResetSeats
  <1>13. ASSUME NEW p \in Pods, ReadRows(p) \/ WriteSnapshot(p) PROVE Kept
    <2>1. UNCHANGED <<request, returning>>
      BY <1>13 DEF ReadRows, WriteSnapshot, seatVars
    <2>2. CASE UNCHANGED stranded
      BY <1>3, <2>1, <2>2
    <2>3. CASE Replace(snapshot[p].seats)
      BY <1>0, <1>3, <2>1, <2>3 DEF Replace, RequestTypes
    <2> QED BY <1>13, <2>2, <2>3 DEF ReadRows, WriteSnapshot
  <1>14. ASSUME ResetOther PROVE Kept
    BY <1>3, <1>14 DEF ResetOther, Drop, seatVars
  <1>15. ASSUME NEW k \in DOMAIN feed, Deliver(k) PROVE Kept
    <2>1. UNCHANGED <<request, returning>>
      BY <1>15 DEF Deliver, seatVars
    <2>2. CASE Offer(feed[k].s, feed[k].available)
      BY <1>3, <2>1, <2>2 DEF Offer
    <2>3. CASE Replace(feed[k].seats)
      BY <1>0, <1>3, <2>1, <2>3 DEF Replace, RequestTypes
    <2>4. CASE Drop
      BY <1>3, <2>1, <2>4 DEF Drop
    <2> QED BY <1>15, <2>2, <2>3, <2>4 DEF Deliver
  <1>16. CASE UNCHANGED vars
    BY <1>3, <1>16 DEF vars, seatVars, cacheVars
  <1>17. ASSUME NEW b \in Bookings, ReserveUnanswered(b) PROVE Kept
    <2>1. /\ UNCHANGED returning /\ stranded' = stranded \cup {b}
          /\ \A c \in Bookings \ {b} : request'[c] = request[c]
          /\ request[b] = "none"
      BY <1>0, <1>17 DEF ReserveUnanswered, Becomes, SeatsTypeOK
    <2> QED BY <2>1 DEF Claimed
  <1>18. ASSUME SeatTrouble PROVE Kept
    <2>1. /\ LossAction /\ UNCHANGED returning /\ stranded \subseteq stranded'
          /\ \A b \in Bookings :
                request[b] \in {"asked", "lost"} => request'[b] = request[b] \/ b \in stranded'
      BY <1>18, TroubleTells
    <2>2. ASSUME NEW b \in Bookings, request[b] = "reserved" PROVE request'[b] = request[b]
      BY <1>0, <2>1, <2>2, LossRequestMoves
    <2>3. ASSUME NEW b \in Bookings, Waits(b) PROVE b \in stranded' \/ Waits(b)'
      BY <2>1, <2>2, <2>3
    <2> QED BY <2>1, <2>3 DEF Claimed
  <1>19. ASSUME (\E p \in Pods : ResetFails(p)) \/ \E k \in DOMAIN feed : Skip(k) PROVE Kept
    BY <1>3, <1>19 DEF ResetFails, Skip, seatVars
  <1>20. CASE Next
    BY <1>4, <1>5, <1>6, <1>7, <1>8, <1>9, <1>10, <1>11, <1>12, <1>13, <1>14, <1>15, <1>17,
       <1>18, <1>19, <1>20, NextCases
  <1> QED BY <1>16, <1>20

\* A reason lasts, until a message at the end of the feed offers the seat.
LEMMA AwaitedKept ==
  ASSUME TypeInv, [Next]_vars, NEW s \in Available', Awaited(s)
  PROVE  Awaited(s)' \/ s \in offered' \/ NowSaid(s)
  BY ClaimedKept, TellingKept DEF Awaited


\* What takes a free seat out of the set, where no message is delivered.
LEMMA OfferLost ==
  ASSUME TypeInv, [Next]_vars, ~\E k \in DOMAIN feed : Deliver(k), published',
         NEW s \in Available', s \in offered, s \notin offered',
         \A p \in Pods : WriteSnapshot(p) => offered' = Available' \/ offered' = offered
  PROVE  Awaited(s)'
  <1>0. SeatsTypeOK /\ RequestTypes
    BY TypeInvParts
  <1>1. ASSUME NEW b \in Bookings, TryReserve(b) PROVE Awaited(s)'
    <2>1. Becomes(b, "reserved") /\ SeatOf[b] = s
      BY <1>1 DEF TryReserve
    <2>2. request'[b] = "reserved"
      BY <1>0, <2>1 DEF Becomes, SeatsTypeOK
    <2> QED BY <2>1, <2>2 DEF Awaited, Claimed
  <1>2. ASSUME NEW b \in Bookings, Return(b) PROVE FALSE
    BY <1>2 DEF Return, Unreserve
  <1>3. ASSUME NEW a \in announce, Announce(a) PROVE Awaited(s)'
    <2>1. ~a.available /\ a.s = s
      BY <1>3 DEF Announce, Offer
    <2>2. s \in Available
      BY <1>3 DEF Announce, rowVars, Available
    <2>3. s \in outdated'
      BY <1>3, <2>1, <2>2 DEF Announce
    <2> QED BY <2>3 DEF Awaited, Claimed
  <1>4. ASSUME ResetOther PROVE FALSE
    BY <1>4 DEF ResetOther, Drop
  <1>5. ASSUME NEW b \in Bookings, ReserveUnanswered(b) PROVE Awaited(s)'
    BY <1>5 DEF ReserveUnanswered, Awaited, Claimed
  <1>6. ASSUME NEW k \in DOMAIN feed, Skip(k) PROVE FALSE
    BY <1>6 DEF Skip
  <1> QED BY <1>1, <1>2, <1>3, <1>4, <1>5, <1>6, CaseSteps DEF Quiet

\* A snapshot that is written, in order, is what the rows are.
LEMMA WrittenInOrder ==
  ASSUME "lateSnapshot" \notin Disorders, NEW p \in Pods, WriteSnapshot(p)
  PROVE  offered' = Available' \/ UNCHANGED <<offered, published>>
  BY DEF WriteSnapshot, Orderly, UpToDate, Replace, Available, seatVars

LEMMA NextAwaited ==
  ASSUME Disorders = {}, TypeInv, HiddenInv, [Next]_vars
  PROVE  FreeIsAwaited'
  <1>0. CacheTypes /\ feed \in Seq(Feeds) /\ 0 \in 0 .. Len(feed)
    BY TypeInvParts DEF CacheTypes
  <1> SUFFICES ASSUME published', NEW s \in Available', s \notin offered'
               PROVE  Word(s, 0)' \/ Awaited(s)'
    BY DEF FreeIsAwaited
  <1>1. CASE s \notin Available
    BY <1>1, NewlyFree DEF Word, Awaited
  <1>s. NowSaid(s) => Word(s, 0)'
    <2>1. Len(feed) + 1 > 0
      BY <1>0
    <2> QED BY <2>1 DEF NowSaid, Word, Says
  <1>2. ASSUME s \in Available, ~\E k \in DOMAIN feed : Deliver(k) \/ Skip(k)
        PROVE  Word(s, 0)' \/ Awaited(s)'
    <2>1. CASE s \in offered
      BY <1>2, <2>1, OfferLost, WrittenInOrder
    <2>2. published
      <3>1. ASSUME NEW p \in Pods, WriteSnapshot(p) PROVE published
        BY <3>1, WrittenInOrder
      <3>2. ASSUME \E b \in Bookings : TryReserve(b) \/ ReserveUnanswered(b) \/ Return(b)
            PROVE  published
        BY <3>2 DEF TryReserve, ReserveUnanswered, Return
      <3> QED BY <1>2, <3>1, <3>2, CaseSteps DEF Quiet, Announce, ResetOther, Drop
    <2>3. CASE s \notin offered
      <3>1. Word(s, 0) \/ Awaited(s)
        BY <1>2, <2>2, <2>3 DEF HiddenInv, FreeIsAwaited
      <3>2. Word(s, 0) => Word(s, 0)' \/ Unheard(s)'
        BY <1>0, <1>2, WordKept
      <3>3. Awaited(s) => Awaited(s)' \/ NowSaid(s)
        BY AwaitedKept
      <3> QED BY <1>s, <3>1, <3>2, <3>3 DEF Awaited
    <2> QED BY <2>1, <2>3
  <1>3. ASSUME s \in Available, NEW k \in DOMAIN feed, Deliver(k)
        PROVE  Word(s, 0)' \/ Awaited(s)'
    <2>1. /\ feed' = RemoveAt(feed, k)
          /\ UNCHANGED <<announce, sweep, snapshot, status, outdated, unheard>>
      BY <1>3, DeliverCases DEF seatVars
    <2>2. ASSUME feed[k] = Changed(feed[k].s, feed[k].available), k = 1, UNCHANGED published,
                 Offer(feed[k].s, feed[k].available)
          PROVE  Word(s, 0)' \/ Awaited(s)'
      <3>1. feed[k].available \in BOOLEAN
        BY <1>0, <2>2, MessageTypes DEF Changed
      <3>2. ~(feed[k].s = s /\ feed[k].available)
        BY <2>2 DEF Offer
      <3>3. ~Says(feed[k], s)
        BY <2>2, <3>2 DEF Says, Changed
      <3>4. CASE feed[k].s = s
        <4>1. feed[k] = Changed(s, FALSE)
          BY <2>2, <3>1, <3>2, <3>4
        <4>2. Word(s, 1) \/ s \in outdated \/ Unheard(s)
          BY <1>3, <2>2, <4>1 DEF HiddenInv, FreeIsSaidLater
        <4>3. 1 \in 0 .. Len(feed) /\ 0 \in Nat /\ 0 = (IF k <= 1 THEN 1 - 1 ELSE 1)
          BY <1>0, <2>2
        <4>4. k <= 1 \/ ~Says(feed[k], s)
          BY <3>3
        <4>5. Word(s, 1) => Word(s, 0)'
          BY <1>3, <2>1, <4>3, <4>4, WordShift
        <4> QED BY <2>1, <4>2, <4>5 DEF Awaited, Unheard
      <3>5. CASE feed[k].s # s
        <4>1. s \notin offered
          BY <2>2, <3>5 DEF Offer
        <4>2. Word(s, 0) \/ Awaited(s)
          BY <1>3, <2>2, <4>1 DEF HiddenInv, FreeIsAwaited
        <4>3. 0 \in 0 .. Len(feed) /\ 0 \in Nat /\ 0 = (IF k <= 0 THEN 0 - 1 ELSE 0)
          BY <1>0, <2>2
        <4>4. k <= 0 \/ ~Says(feed[k], s)
          BY <3>3
        <4>5. Word(s, 0) => Word(s, 0)'
          BY <1>3, <2>1, <4>3, <4>4, WordShift
        <4> QED BY <1>s, <4>2, <4>5, AwaitedKept
      <3> QED BY <3>4, <3>5
    <2>3. CASE Replace(Available)
      BY <2>1, <2>3 DEF Replace, Available
    <2>4. CASE Drop
      BY <2>4 DEF Drop
    <2> QED BY <1>3, <2>2, <2>3, <2>4, DeliverCases
  <1>4. ASSUME s \in Available, NEW k \in DOMAIN feed, Skip(k)
        PROVE  Word(s, 0)' \/ Awaited(s)'
    <2>1. /\ feed' = RemoveAt(feed, k)
          /\ UNCHANGED <<announce, sweep, snapshot, offered, published>>
          /\ Says(feed[k], s) => Unheard(s)'
      BY <1>4, SkipTells DEF seatVars, Says, Unheard
    <2>2. Word(s, 0) \/ Awaited(s)
      BY <1>4, <2>1 DEF HiddenInv, FreeIsAwaited
    <2>3. ASSUME ~Says(feed[k], s) PROVE Word(s, 0) => Word(s, 0)'
      <3>1. 0 \in 0 .. Len(feed) /\ 0 \in Nat /\ 0 = (IF k <= 0 THEN 0 - 1 ELSE 0)
        BY <1>0
      <3>2. k <= 0 \/ ~Says(feed[k], s)
        BY <2>3
      <3> QED BY <1>4, <2>1, <3>1, <3>2, WordShift
    <2> QED BY <1>s, <2>1, <2>2, <2>3, AwaitedKept DEF Awaited
  <1> QED BY <1>1, <1>2, <1>3, <1>4

LEMMA NextSaidLater ==
  ASSUME Disorders = {}, TypeInv, HiddenInv, [Next]_vars
  PROVE  FreeIsSaidLater'
  <1>0. SeatsTypeOK /\ CacheTypes /\ feed \in Seq(Feeds) /\ DOMAIN feed = 1 .. Len(feed)
    BY TypeInvParts DEF CacheTypes
  <1> SUFFICES ASSUME NEW i \in DOMAIN feed', NEW s \in Available', feed'[i] = Changed(s, FALSE)
               PROVE  Word(s, i)' \/ s \in outdated' \/ Unheard(s)'
    BY DEF FreeIsSaidLater
  <1>1. CASE s \notin Available
    BY <1>1, NewlyFree DEF Word
  \* Only with an offer at the end of the feed is an announcement no longer outdated.
  <1>2. ASSUME s \in outdated \/ Unheard(s), i \in DOMAIN feed
        PROVE  Word(s, i)' \/ s \in outdated' \/ Unheard(s)'
    <2>1. Len(feed) + 1 > i
      BY <1>0, <1>2
    <2>2. s \in outdated' \/ Unheard(s)' \/ NowSaid(s)
      BY <1>2, TellingKept
    <2> QED BY <2>1, <2>2 DEF Word, NowSaid, Says
  <1>3. ASSUME s \in Available, ~\E k \in DOMAIN feed : Deliver(k) \/ Skip(k), i \in DOMAIN feed
        PROVE  Word(s, i)' \/ s \in outdated' \/ Unheard(s)'
    <2>1. feed[i] = Changed(s, FALSE)
      BY <1>3, EntriesKept
    <2>2. Word(s, i) \/ s \in outdated \/ Unheard(s)
      BY <1>3, <2>1 DEF HiddenInv, FreeIsSaidLater
    <2>3. i \in 0 .. Len(feed)
      BY <1>0, <1>3
    <2>4. Word(s, i) => Word(s, i)' \/ Unheard(s)'
      BY <1>3, <2>3, WordKept
    <2> QED BY <1>2, <1>3, <2>2, <2>4
  <1>4. ASSUME s \in Available, ~\E k \in DOMAIN feed : Deliver(k) \/ Skip(k), i \notin DOMAIN feed
        PROVE  s \in outdated'
    <2>1. i = Len(feed) + 1
      BY <1>3, <1>4, EntriesKept
    <2>2. ASSUME NEW a \in announce, Announce(a) PROVE s \in outdated'
      <3>0. Publish(Changed(a.s, a.available))
        BY <1>4, <2>2 DEF Announce
      <3>1. Changed(a.s, a.available) \in Feeds
        BY <1>0, FeedTypes DEF SeatsTypeOK, Announcements
      <3>2. Changed(a.s, a.available) = Changed(s, FALSE)
        BY <1>0, <2>1, <3>0, <3>1, AppendFeed
      <3>3. a.s = s /\ a.available = FALSE
        BY <3>2 DEF Changed
      <3> QED BY <1>4, <2>2, <3>3 DEF Announce
    <2>3. ASSUME NEW p \in Pods, WriteSnapshot(p) PROVE FALSE
      <3>1. Fresh(snapshot[p].seats) \in Feeds
        BY <1>0, FeedTypes DEF CacheTypes
      <3>2. Fresh(snapshot[p].seats) = Changed(s, FALSE)
        <4>1. Publish(Fresh(snapshot[p].seats))
          BY <1>4, <2>3 DEF WriteSnapshot
        <4> QED BY <1>0, <2>1, <3>1, <4>1, AppendFeed
      <3> QED BY <3>2 DEF Fresh, Changed
    <2>4. ASSUME ResetOther PROVE FALSE
      <3>1. WithoutFlight = Changed(s, FALSE)
        <4>1. Publish(WithoutFlight)
          BY <1>4, <2>4 DEF ResetOther
        <4> QED BY <1>0, <2>1, <4>1, FeedTypes, AppendFeed
      <3> QED BY <3>1 DEF WithoutFlight, Changed
    <2>5. CASE Quiet \/ (\E b \in Bookings : TryReserve(b) \/ ReserveUnanswered(b) \/ Return(b))
      BY <1>4, <2>5 DEF Quiet, TryReserve, ReserveUnanswered, Return
    <2> QED BY <1>4, <2>2, <2>3, <2>4, <2>5, CaseSteps
  <1>5. ASSUME s \in Available, NEW k \in DOMAIN feed, Deliver(k) \/ Skip(k)
        PROVE  Word(s, i)' \/ s \in outdated' \/ Unheard(s)'
    <2>1. /\ feed' = RemoveAt(feed, k)
          /\ UNCHANGED <<announce, sweep, snapshot, status, outdated>>
          /\ unheard \subseteq unheard'
      BY <1>5, DeliverCases, SkipTells DEF seatVars
    <2>2. PICK n \in DOMAIN feed :
            /\ feed[n] = feed'[i] /\ n \in 0 .. Len(feed) /\ i \in Nat /\ k \in Nat
            /\ i = (IF k <= n THEN n - 1 ELSE n)
      <3>1. \/ i < k /\ i \in DOMAIN feed /\ feed'[i] = feed[i]
            \/ i >= k /\ i + 1 \in DOMAIN feed /\ feed'[i] = feed[i + 1]
        BY <1>0, <1>5, <2>1, RemoveFeed
      <3>2. k \in 1 .. Len(feed) /\ Len(feed) \in Nat
        BY <1>0, <1>5
      <3>3. CASE i < k /\ i \in DOMAIN feed /\ feed'[i] = feed[i]
        <4>1. i \in 0 .. Len(feed) /\ i \in Nat /\ ~(k <= i)
          BY <1>0, <3>2, <3>3
        <4>2. k \in Nat /\ i = (IF k <= i THEN i - 1 ELSE i)
          BY <3>2, <4>1
        <4> QED BY <3>3, <4>1, <4>2, Zenon
      <3>4. CASE i >= k /\ i + 1 \in DOMAIN feed /\ feed'[i] = feed[i + 1]
        <4>1. feed' \in Seq(Feeds)
          BY NextTypes, TypeInvPartsNext DEF CacheTypes
        <4>2. i \in Nat
          BY <4>1
        <4>3. i + 1 \in 0 .. Len(feed) /\ k <= i + 1 /\ (i + 1) - 1 = i
          BY <1>0, <3>2, <3>4, <4>2
        <4>4. k \in Nat /\ i = (IF k <= i + 1 THEN (i + 1) - 1 ELSE i + 1)
          BY <3>2, <4>3
        <4> QED BY <3>4, <4>2, <4>3, <4>4, Zenon
      <3> QED BY <3>1, <3>3, <3>4
    <2>3. Word(s, n) \/ s \in outdated \/ Unheard(s)
      BY <1>5, <2>2 DEF HiddenInv, FreeIsSaidLater
    <2>4. k <= n \/ ~Says(feed[k], s) \/ Unheard(s)'
      <3>0. Skip(k) /\ Says(feed[k], s) => Unheard(s)'
        BY SkipTells DEF Says, Unheard
      <3>1. Deliver(k) => k = 1 \/ feed[k] = WithoutFlight
        BY DeliverCases
      <3>2. feed[k] = WithoutFlight => ~Says(feed[k], s)
        BY DEF WithoutFlight, Says, Changed
      <3>3. k = 1 => k <= n
        BY <1>0, <2>2
      <3> QED BY <1>5, <3>0, <3>1, <3>2, <3>3
    <2>5. ASSUME k <= n \/ ~Says(feed[k], s) PROVE Word(s, n) => Word(s, i)'
      BY <1>5, <2>1, <2>2, <2>5, WordShift
    <2> QED BY <2>1, <2>3, <2>4, <2>5 DEF Unheard
  <1> QED BY <1>1, <1>3, <1>4, <1>5

LEMMA HiddenInvImplies ==
  ASSUME TypeInv, HiddenInv
  PROVE  HiddenForAReason
  <1>0. CacheTypes /\ RequestTypes /\ feed \in Seq(Feeds)
    BY TypeInvParts DEF CacheTypes
  <1> DEFINE Excused(s, q) ==
            \/ OnItsWay(s)
            \/ \E b \in Bookings :
                  /\ SeatOf[b] = s
                  /\ \/ request[b] \in {"reserved", "asked", "lost"}
                     \/ request[b] = "none" /\ b \in inflight[q]
            \/ \E b \in stranded : SeatOf[b] = s
            \/ s \in outdated
            \/ <<s, TRUE>> \in unheard
  <1> SUFFICES ASSUME published, NEW s \in Available, NEW q \in BookingPods, Refuses(q, s)
               PROVE  Excused(s, q)
    BY DEF HiddenForAReason
  <1>1. CASE ~Admits(s)
    <2>1. Word(s, 0) \/ Awaited(s)
      BY <1>1 DEF Admits, HiddenInv, FreeIsAwaited
    <2>2. Word(s, 0) => OnItsWay(s)
      BY DEF Word, Unsent, Says, OnItsWay
    <2>3. Awaited(s) => Excused(s, q)
      BY DEF Awaited, Claimed, Unheard, OnItsWay
    <2> QED BY <2>1, <2>2, <2>3
  <1>2. ASSUME NEW b \in inflight[q], SeatOf[b] = s PROVE Excused(s, q)
    <2>1. b \in Bookings /\ (request[b] \in {"none", "reserved"} \/ b \in returning)
      BY <1>0 DEF RequestTypes
    <2> QED BY <1>2, <2>1 DEF OnItsWay
  <1> QED BY <1>1, <1>2 DEF Refuses

\* As long as messages come in order and snapshots are used in time, no booking pod turns
\* customers away from a free seat without one of the reasons: a request for it is being
\* handled; the news that it is free is on its way, or got lost (emit dropped the message,
\* another service of the consumer group took it, its handler rejected, the answer to the
\* statement was lost, an update of the cron job rejected, or the pod stopped before it
\* announced the change); a reservation was lost, or came back to a set that was gone; or
\* the announcement of an earlier lock or removal came late.
THEOREM HiddenReasons ==
  ASSUME Disorders = {}
  PROVE  Spec => []HiddenForAReason
  <1>1. TypeInv /\ HiddenInv /\ [Next]_vars => HiddenInv'
    BY NextAwaited, NextSaidLater DEF HiddenInv
  <1>2. TypeInv /\ HiddenInv => HiddenForAReason
    BY HiddenInvImplies
  <1> QED BY <1>1, <1>2, InitTypes, NextTypes, InitHidden, PTL DEF Spec

-----------------------------------------------------------------------------
=============================================================================
