------------------------ MODULE InventoryFeedProofs -------------------------
(***************************************************************************)
(* Theorems about InventoryFeed, for any seats, bookings, pods, prices and *)
(* queues: types, the two balances, and the price that customers see.      *)
(***************************************************************************)
EXTENDS InventoryFeed, SeatChangesProofs, FiniteSetTheorems, TLAPS

USE SeatOfAssumption, CronPodsAssumption, ManagedAssumption, NoBookingAssumption,
    BasePriceAssumption, SeatsAssumption, PodsAssumption, MaxQueueAssumption,
    MaxTroublesAssumption

-----------------------------------------------------------------------------
(* Types                                                                   *)

\* A count of seats has a multiplier, whatever the count.
LEMMA MultiplierType ==
  ASSUME NEW n \in Int
  PROVE  Multiplier(n) \in Tenths
  BY DEF Multiplier, Tenths

PriceSet == {PriceAt(m) : m \in Tenths}

\* The conjuncts of TypeOK about the counts and prices, the queues and the history.
CountTypes ==
    /\ bookedSeats \in Nat /\ availableSeats \in Nat
    /\ currentPrice \in PriceSet /\ price \in PriceSet /\ updates \in Seq(PriceSet)

QueuesType ==
    /\ toPricing \in [BOOLEAN -> Nat] /\ toSearch \in [BOOLEAN -> Nat]

HistoryTypes ==
    /\ elsewhere \in Nat /\ sharedGroup \in BOOLEAN
    /\ pricingDrift \in Int /\ searchDrift \in Int
    /\ stale \in BOOLEAN
    /\ troubles \in 0..MaxTroubles

LEMMA TypeParts == TypeOK <=> SeatsTypeOK /\ CountTypes /\ QueuesType /\ HistoryTypes
  BY DEF TypeOK, CountTypes, QueuesType, HistoryTypes, PriceSet

LEMMA TypePartsNext ==
  TypeOK' <=> SeatsTypeOK' /\ CountTypes' /\ QueuesType' /\ HistoryTypes'
  BY DEF TypeOK, CountTypes, QueuesType, HistoryTypes, PriceSet

LEMMA InitTypes == Init => TypeOK
  <1> SUFFICES ASSUME Init PROVE TypeOK
    OBVIOUS
  <1>1. SeatsTypeOK
    BY DEF Init, SeatsInit, SeatsTypeOK, NoSweep, Requests, Taken
  <1>2. Elsewhere \in Int /\ totalSeats - Elsewhere \in Nat
    BY FS_CardinalityType
  <1>3. currentPrice \in PriceSet /\ price \in PriceSet
    BY <1>2, MultiplierType DEF Init, PriceSet
  <1>4. CountTypes
    BY <1>2, <1>3 DEF Init, CountTypes
  <1>5. QueuesType
    BY DEF Init, QueuesType
  <1>6. HistoryTypes
    <2>1. elsewhere = Elsewhere /\ pricingDrift = 0 /\ searchDrift = 0 /\ troubles = 0
      BY DEF Init
    <2>2. stale \in BOOLEAN /\ sharedGroup \in BOOLEAN
      BY DEF Init
    <2>3. Elsewhere \in Nat /\ 0 \in Int /\ 0 \in 0..MaxTroubles
      OBVIOUS
    <2> QED BY <2>1, <2>2, <2>3, Zenon DEF HistoryTypes
  <1> QED BY <1>1, <1>4, <1>5, <1>6, TypeParts

\* One message more or less in a queue.
LEMMA QueueTypes ==
  ASSUME NEW queue \in [BOOLEAN -> Nat], NEW available \in BOOLEAN
  PROVE  /\ OneMore(queue, available) \in [BOOLEAN -> Nat]
         /\ queue[available] > 0 => OneLess(queue, available) \in [BOOLEAN -> Nat]
  BY DEF OneMore, OneLess

LEMMA FloorType ==
  ASSUME NEW n \in Int
  PROVE  AtLeastZero(n) \in Nat
  BY DEF AtLeastZero

LEMMA WeightType ==
  ASSUME NEW available \in BOOLEAN
  PROVE  /\ Weight(available) \in Int /\ Delta(available) = -Weight(available)
         /\ PricingFloor(available) \in Nat /\ SearchFloor(available) \in Nat
  BY DEF Weight, Delta, PricingFloor, SearchFloor

\* pricing-service's row after a message.
LEMMA SaveCountTypes ==
  ASSUME bookedSeats \in Nat, NEW available \in BOOLEAN, SaveCount(available)
  PROVE  bookedSeats' \in Nat /\ currentPrice' \in PriceSet
  <1>1. bookedSeats + Weight(available) \in Int
    BY WeightType
  <1>2. bookedSeats' \in Nat
    BY <1>1, FloorType DEF SaveCount
  <1>3. Multiplier(bookedSeats') \in Tenths
    BY <1>2, MultiplierType
  <1>4. currentPrice' = PriceAt(Multiplier(bookedSeats'))
    BY DEF SaveCount
  <1> QED BY <1>2, <1>3, <1>4 DEF PriceSet

\* ... is the sum, but for what is cut off at zero; and search-service's document.
LEMMA SaveCountValue ==
  ASSUME bookedSeats \in Nat, NEW available \in BOOLEAN, SaveCount(available)
  PROVE  bookedSeats' = bookedSeats + Weight(available) + PricingFloor(available)
  BY DEF SaveCount, AtLeastZero, Weight, PricingFloor

LEMMA CountValue ==
  ASSUME availableSeats \in Nat, NEW available \in BOOLEAN, Count(available)
  PROVE  /\ availableSeats' \in Nat
         /\ availableSeats' = availableSeats - Weight(available) + SearchFloor(available)
  BY DEF Count, AtLeastZero, Weight, Delta, SearchFloor

LEMMA TroubleType ==
  ASSUME HistoryTypes, Trouble
  PROVE  troubles' \in 0..MaxTroubles
  BY DEF HistoryTypes, Trouble

-----------------------------------------------------------------------------
(* Counting                                                                *)

TakenSet(st) == {s \in Seats : st[s] \in {"LOCKED", "BOOKED"}}
SaidFree(ann) == {a \in ann : a.available}
SaidTaken(ann) == {a \in ann : ~a.available}
Unsaid(sw) == {x \in Pods \X Seats : x[2] \in sw[x[1]].freed}

\* Seats that are taken, or that a listener cannot know to be free yet.
Seen(st, sw, ann) ==
    Cardinality(TakenSet(st)) + Cardinality(SaidFree(ann)) + Cardinality(Unsaid(sw))
    - Cardinality(SaidTaken(ann))

\* A row that is being swept is announced once: no seat is read and freed, and no
\* announcement of an earlier run is due any more.
SweepsApart ==
    /\ \A p \in Pods : sweep[p].found \cap sweep[p].freed = {}
    /\ \A p \in Pods : \A s \in sweep[p].found \cup sweep[p].freed : Free(p, "cron")
    /\ IsFiniteSet(announce)

LEMMA FiniteCounts ==
  ASSUME IsFiniteSet(announce), NEW st, NEW sw
  PROVE  /\ IsFiniteSet(TakenSet(st)) /\ Cardinality(TakenSet(st)) \in Nat
         /\ IsFiniteSet(SaidFree(announce)) /\ Cardinality(SaidFree(announce)) \in Nat
         /\ IsFiniteSet(SaidTaken(announce)) /\ Cardinality(SaidTaken(announce)) \in Nat
         /\ IsFiniteSet(Unsaid(sw)) /\ Cardinality(Unsaid(sw)) \in Nat
  <1>1. IsFiniteSet(Pods \X Seats)
    BY FS_Product
  <1>2. /\ TakenSet(st) \subseteq Seats /\ SaidFree(announce) \subseteq announce
        /\ SaidTaken(announce) \subseteq announce /\ Unsaid(sw) \subseteq Pods \X Seats
    BY DEF TakenSet, SaidFree, SaidTaken, Unsaid
  <1>3. IsFiniteSet(TakenSet(st)) /\ IsFiniteSet(Unsaid(sw))
    BY <1>1, <1>2, FS_Subset
  <1>4. IsFiniteSet(SaidFree(announce)) /\ IsFiniteSet(SaidTaken(announce))
    BY <1>2, FS_Subset
  <1> QED BY <1>3, <1>4, FS_CardinalityType

\* A seat is taken, a seat is freed.
LEMMA CountTaken ==
  ASSUME NEW st \in [Seats -> {"MISSING", "AVAILABLE", "LOCKED", "BOOKED"}], NEW s \in Seats
  PROVE  /\ st[s] \notin {"LOCKED", "BOOKED"} =>
               Cardinality(TakenSet([st EXCEPT ![s] = "LOCKED"])) = Cardinality(TakenSet(st)) + 1
         /\ st[s] \in {"LOCKED", "BOOKED"} =>
               Cardinality(TakenSet([st EXCEPT ![s] = "AVAILABLE"])) = Cardinality(TakenSet(st)) - 1
         /\ st[s] \in {"LOCKED", "BOOKED"} =>
               TakenSet([st EXCEPT ![s] = "BOOKED"]) = TakenSet(st)
  <1>1. IsFiniteSet(TakenSet(st))
    BY FS_Subset DEF TakenSet
  <1>2. ASSUME st[s] \notin {"LOCKED", "BOOKED"}
        PROVE  /\ TakenSet([st EXCEPT ![s] = "LOCKED"]) = TakenSet(st) \cup {s}
               /\ s \notin TakenSet(st)
    BY <1>2 DEF TakenSet
  <1>3. ASSUME st[s] \in {"LOCKED", "BOOKED"}
        PROVE  /\ TakenSet([st EXCEPT ![s] = "AVAILABLE"]) = TakenSet(st) \ {s}
               /\ s \in TakenSet(st)
               /\ TakenSet([st EXCEPT ![s] = "BOOKED"]) = TakenSet(st)
    BY <1>3 DEF TakenSet
  <1>4. /\ s \notin TakenSet(st) =>
              Cardinality(TakenSet(st) \cup {s}) = Cardinality(TakenSet(st)) + 1
        /\ s \in TakenSet(st) =>
              Cardinality(TakenSet(st) \ {s}) = Cardinality(TakenSet(st)) - 1
    BY <1>1, FS_AddElement, FS_RemoveElement
  <1> QED BY <1>2, <1>3, <1>4

LEMMA CountOneMore ==
  ASSUME NEW S, IsFiniteSet(S), NEW a
  PROVE  /\ a \notin S => Cardinality(S \cup {a}) = Cardinality(S) + 1
         /\ a \in S => Cardinality(S \ {a}) = Cardinality(S) - 1
  BY FS_AddElement, FS_RemoveElement

\* A seat that is free is announced: the announcement becomes due, and is made.
LEMMA CountSaidFree ==
  ASSUME NEW ann, IsFiniteSet(ann), NEW a, a.available
  PROVE  /\ a \notin ann =>
               /\ Cardinality(SaidFree(ann \cup {a})) = Cardinality(SaidFree(ann)) + 1
               /\ SaidTaken(ann \cup {a}) = SaidTaken(ann)
         /\ a \in ann =>
               /\ Cardinality(SaidFree(ann \ {a})) = Cardinality(SaidFree(ann)) - 1
               /\ SaidTaken(ann \ {a}) = SaidTaken(ann)
  <1>1. IsFiniteSet(SaidFree(ann))
    BY FS_Subset DEF SaidFree
  <1>2. /\ SaidFree(ann \cup {a}) = SaidFree(ann) \cup {a}
        /\ SaidTaken(ann \cup {a}) = SaidTaken(ann)
        /\ SaidFree(ann \ {a}) = SaidFree(ann) \ {a}
        /\ SaidTaken(ann \ {a}) = SaidTaken(ann)
        /\ a \in SaidFree(ann) <=> a \in ann
    BY DEF SaidFree, SaidTaken
  <1> QED BY <1>1, <1>2, CountOneMore

\* A seat that is taken is announced.
LEMMA CountSaidTaken ==
  ASSUME NEW ann, IsFiniteSet(ann), NEW a, ~a.available
  PROVE  /\ a \notin ann =>
               /\ SaidFree(ann \cup {a}) = SaidFree(ann)
               /\ Cardinality(SaidTaken(ann \cup {a})) = Cardinality(SaidTaken(ann)) + 1
         /\ a \in ann =>
               /\ SaidFree(ann \ {a}) = SaidFree(ann)
               /\ Cardinality(SaidTaken(ann \ {a})) = Cardinality(SaidTaken(ann)) - 1
  <1>1. IsFiniteSet(SaidTaken(ann))
    BY FS_Subset DEF SaidTaken
  <1>2. /\ SaidTaken(ann \cup {a}) = SaidTaken(ann) \cup {a}
        /\ SaidFree(ann \cup {a}) = SaidFree(ann)
        /\ SaidTaken(ann \ {a}) = SaidTaken(ann) \ {a}
        /\ SaidFree(ann \ {a}) = SaidFree(ann)
        /\ a \in SaidTaken(ann) <=> a \in ann
    BY DEF SaidFree, SaidTaken
  <1> QED BY <1>1, <1>2, CountOneMore

\* A cron run frees one more seat.
LEMMA CountFreed ==
  ASSUME NEW sw \in [Pods -> [found : SUBSET Seats, freed : SUBSET Seats]],
         NEW p \in Pods, NEW s \in Seats, s \notin sw[p].freed, NEW found
  PROVE  Cardinality(Unsaid([sw EXCEPT ![p] = [found |-> found, freed |-> @.freed \cup {s}]]))
            = Cardinality(Unsaid(sw)) + 1
  <1>1. IsFiniteSet(Unsaid(sw))
    BY FS_Product, FS_Subset DEF Unsaid
  <1>2. Unsaid([sw EXCEPT ![p] = [found |-> found, freed |-> @.freed \cup {s}]])
           = Unsaid(sw) \cup {<<p, s>>}
    BY DEF Unsaid
  <1>3. <<p, s>> \notin Unsaid(sw)
    BY DEF Unsaid
  <1> QED BY <1>1, <1>2, <1>3, FS_AddElement

\* What CronAnnounce makes of the sweeps, and what it says.
Swept(sw, p) == [sw EXCEPT ![p] = [@ EXCEPT !.freed = {}]]
CronSays(p, seats) == {Due(p, "cron", s, TRUE) : s \in seats}
NoCron(ann, p) == \A a \in ann : ~(a.pod = p /\ a.by = "cron")

LEMMA CountDisjoint ==
  ASSUME NEW S, NEW T, IsFiniteSet(S), IsFiniteSet(T), S \cap T = {}
  PROVE  Cardinality(S \cup T) = Cardinality(S) + Cardinality(T)
  <1>1. Cardinality(S) \in Nat /\ Cardinality(T) \in Nat /\ Cardinality(S \cap T) = 0
    BY FS_CardinalityType, FS_EmptySet
  <1>2. Cardinality(S \cup T) = Cardinality(S) + Cardinality(T) - Cardinality(S \cap T)
    BY FS_Union
  <1> QED BY <1>1, <1>2

\* The seats that one cron run has freed, as pairs with its pod.
Pairs(p, seats) == {<<p, s>> : s \in seats}

LEMMA CountPairs ==
  ASSUME NEW p, NEW seats, IsFiniteSet(seats)
  PROVE  IsFiniteSet(Pairs(p, seats)) /\ Cardinality(Pairs(p, seats)) = Cardinality(seats)
  <1> DEFINE f == [s \in seats |-> <<p, s>>]
  <1>1. f \in [seats -> Pairs(p, seats)]
    BY DEF Pairs
  <1>2. \A s, r \in seats : f[s] = f[r] => s = r
    OBVIOUS
  <1>3. \A x \in Pairs(p, seats) : \E s \in seats : f[s] = x
    BY DEF Pairs
  <1>4. ExistsBijection(seats, Pairs(p, seats))
    <2> HIDE DEF f
    <2>1. f \in Bijection(seats, Pairs(p, seats))
      BY <1>1, <1>2, <1>3 DEF Bijection, Injection, Surjection, IsInjective
    <2> QED BY <2>1 DEF ExistsBijection
  <1> QED BY <1>4, FS_Bijection

\* A cron run ends: so many seats less of which nothing has been said.
LEMMA CountForgotten ==
  ASSUME NEW sw \in [Pods -> [found : SUBSET Seats, freed : SUBSET Seats]], NEW p \in Pods,
         NEW sw2, sw2 = [sw EXCEPT ![p] = NoSweep]
  PROVE  /\ Unsaid(sw) = Unsaid(sw2) \cup Pairs(p, sw[p].freed)
         /\ Unsaid(sw2) \cap Pairs(p, sw[p].freed) = {}
         /\ IsFiniteSet(sw[p].freed)
         /\ Cardinality(Unsaid(sw)) = Cardinality(Unsaid(sw2)) + Cardinality(sw[p].freed)
  <1>1. sw[p].freed \subseteq Seats /\ \A r \in Pods : sw2[r].freed = IF r = p THEN {} ELSE sw[r].freed
    BY DEF NoSweep
  <1>2. IsFiniteSet(sw[p].freed)
    BY <1>1, FS_Subset
  <1>3. IsFiniteSet(Unsaid(sw2))
    BY FS_Product, FS_Subset DEF Unsaid
  <1>4. /\ Unsaid(sw) = Unsaid(sw2) \cup Pairs(p, sw[p].freed)
        /\ Unsaid(sw2) \cap Pairs(p, sw[p].freed) = {}
    BY <1>1 DEF Unsaid, Pairs
  <1>5. /\ IsFiniteSet(Pairs(p, sw[p].freed))
        /\ Cardinality(Pairs(p, sw[p].freed)) = Cardinality(sw[p].freed)
    BY <1>2, CountPairs
  <1>6. Cardinality(Unsaid(sw2) \cup Pairs(p, sw[p].freed))
           = Cardinality(Unsaid(sw2)) + Cardinality(Pairs(p, sw[p].freed))
    BY <1>3, <1>4, <1>5, CountDisjoint
  <1> QED BY <1>2, <1>4, <1>5, <1>6

\* What is due in one pod, and in the others.
DueFree(ann, p) == {a \in ann : a.pod \in {p} /\ a.available}
DueTaken(ann, p) == {a \in ann : a.pod \in {p} /\ ~a.available}
DueCron(sw, p) == {x \in {p} \X Seats : x[2] \in sw[x[1]].freed}

LEMMA CountPod ==
  ASSUME NEW sw \in [Pods -> [found : SUBSET Seats, freed : SUBSET Seats]], NEW p \in Pods,
         NEW ann, IsFiniteSet(ann),
         NEW sw2, sw2 = [sw EXCEPT ![p] = NoSweep], NEW ann2, ann2 = {a \in ann : a.pod # p}
  PROVE  /\ Cardinality(SaidFree(ann)) = Cardinality(SaidFree(ann2)) + Cardinality(DueFree(ann, p))
         /\ Cardinality(SaidTaken(ann)) = Cardinality(SaidTaken(ann2)) + Cardinality(DueTaken(ann, p))
         /\ Cardinality(Unsaid(sw)) = Cardinality(Unsaid(sw2)) + Cardinality(DueCron(sw, p))
         /\ Cardinality(DueFree(ann, p)) \in Nat /\ Cardinality(DueTaken(ann, p)) \in Nat
         /\ Cardinality(DueCron(sw, p)) \in Nat
  <1>1. /\ IsFiniteSet(SaidFree(ann2)) /\ IsFiniteSet(DueFree(ann, p))
        /\ IsFiniteSet(SaidTaken(ann2)) /\ IsFiniteSet(DueTaken(ann, p))
    <2>1. /\ SaidFree(ann2) \subseteq ann /\ DueFree(ann, p) \subseteq ann
          /\ SaidTaken(ann2) \subseteq ann /\ DueTaken(ann, p) \subseteq ann
      BY DEF SaidFree, SaidTaken, DueFree, DueTaken
    <2> QED BY <2>1, FS_Subset
  <1>2. /\ SaidFree(ann) = SaidFree(ann2) \cup DueFree(ann, p)
        /\ SaidFree(ann2) \cap DueFree(ann, p) = {}
        /\ SaidTaken(ann) = SaidTaken(ann2) \cup DueTaken(ann, p)
        /\ SaidTaken(ann2) \cap DueTaken(ann, p) = {}
    BY DEF SaidFree, SaidTaken, DueFree, DueTaken
  <1>3. /\ Cardinality(SaidFree(ann2) \cup DueFree(ann, p))
              = Cardinality(SaidFree(ann2)) + Cardinality(DueFree(ann, p))
        /\ Cardinality(SaidTaken(ann2) \cup DueTaken(ann, p))
              = Cardinality(SaidTaken(ann2)) + Cardinality(DueTaken(ann, p))
    BY <1>1, <1>2, CountDisjoint
  <1>4. DueCron(sw, p) = Pairs(p, sw[p].freed)
    <2>1. sw[p].freed \subseteq Seats
      OBVIOUS
    <2> QED BY <2>1 DEF DueCron, Pairs
  <1>5. /\ Cardinality(Unsaid(sw)) = Cardinality(Unsaid(sw2)) + Cardinality(sw[p].freed)
        /\ IsFiniteSet(sw[p].freed)
    BY CountForgotten
  <1>6. Cardinality(DueCron(sw, p)) = Cardinality(sw[p].freed)
    BY <1>4, <1>5, CountPairs
  <1>7. /\ Cardinality(DueFree(ann, p)) \in Nat /\ Cardinality(DueTaken(ann, p)) \in Nat
        /\ Cardinality(sw[p].freed) \in Nat
    BY <1>1, <1>5, FS_CardinalityType
  <1> QED BY <1>2, <1>3, <1>5, <1>6, <1>7

\* A cron run announces what it has freed: so many announcements more, so many
\* seats less of which nothing has been said.
LEMMA CountAnnounced ==
  ASSUME NEW sw \in [Pods -> [found : SUBSET Seats, freed : SUBSET Seats]],
         NEW p \in Pods, NEW ann, IsFiniteSet(ann),
         NoCron(ann, p),
         NEW sw2, sw2 = Swept(sw, p), NEW ann2, ann2 = ann \cup CronSays(p, sw[p].freed)
  PROVE  /\ IsFiniteSet(ann2)
         /\ SaidTaken(ann2) = SaidTaken(ann)
         /\ Cardinality(SaidFree(ann2)) + Cardinality(Unsaid(sw2))
               = Cardinality(SaidFree(ann)) + Cardinality(Unsaid(sw))
  <1> DEFINE freed == sw[p].freed
             said == {Due(p, "cron", s, TRUE) : s \in freed}
             pairs == {<<p, s>> : s \in freed}
             f == [x \in pairs |-> Due(p, "cron", x[2], TRUE)]
  <1>1. freed \subseteq Seats
    OBVIOUS
  <1>said. ann2 = ann \cup said /\ \A a \in ann : ~(a.pod = p /\ a.by = "cron")
    BY DEF CronSays, NoCron
  <1>2. pairs \subseteq Pods \X Seats
    BY <1>1
  <1>3. IsFiniteSet(pairs) /\ IsFiniteSet(Unsaid(sw2)) /\ IsFiniteSet(SaidFree(ann))
    BY <1>2, FS_Product, FS_Subset DEF Unsaid, SaidFree
  <1>4. \A x \in pairs : x[2] \in freed /\ x = <<p, x[2]>> /\ f[x] = Due(p, "cron", x[2], TRUE)
    <2>1. TAKE x \in pairs
    <2>2. PICK s \in freed : x = <<p, s>>
      OBVIOUS
    <2>3. x[2] = s
      BY <2>2
    <2>4. f[x] = Due(p, "cron", x[2], TRUE)
      OBVIOUS
    <2> QED BY <2>2, <2>3, <2>4
  <1>5. ASSUME NEW s, NEW t, Due(p, "cron", s, TRUE) = Due(p, "cron", t, TRUE) PROVE s = t
    BY <1>5 DEF Due
  <1>6. f \in [pairs -> said]
    <2>1. \A x \in pairs : Due(p, "cron", x[2], TRUE) \in said
      BY <1>4
    <2> QED BY <2>1
  <1>7. \A x, y \in pairs : f[x] = f[y] => x = y
    BY <1>4, <1>5
  <1>8. \A a \in said : \E x \in pairs : f[x] = a
    <2>1. TAKE a \in said
    <2>2. PICK s \in freed : a = Due(p, "cron", s, TRUE)
      OBVIOUS
    <2>3. <<p, s>> \in pairs /\ f[<<p, s>>] = a
      BY <2>2
    <2> QED BY <2>3
  <1>9. ExistsBijection(pairs, said)
    <2> HIDE DEF f, said, pairs
    <2>1. f \in Bijection(pairs, said)
      BY <1>6, <1>7, <1>8 DEF Bijection, Injection, Surjection, IsInjective
    <2> QED BY <2>1 DEF ExistsBijection
  <1>10. IsFiniteSet(said) /\ Cardinality(said) = Cardinality(pairs)
    BY <1>3, <1>9, FS_Bijection
  <1>11. \A a \in said : a.pod = p /\ a.by = "cron" /\ a.available
    BY DEF Due
  <1>12. said \cap ann = {}
    BY <1>11, <1>said
  <1>13. /\ SaidFree(ann2) = SaidFree(ann) \cup said /\ SaidFree(ann) \cap said = {}
         /\ SaidTaken(ann2) = SaidTaken(ann)
    BY <1>said, <1>11, <1>12 DEF SaidFree, SaidTaken
  <1>14. /\ \A r \in Pods : sw2[r].freed = IF r = p THEN {} ELSE sw[r].freed
    BY DEF Swept
  <1>15. Unsaid(sw) = Unsaid(sw2) \cup pairs /\ Unsaid(sw2) \cap pairs = {}
    BY <1>1, <1>14 DEF Unsaid
  <1>16. /\ Cardinality(SaidFree(ann2)) = Cardinality(SaidFree(ann)) + Cardinality(said)
         /\ Cardinality(Unsaid(sw)) = Cardinality(Unsaid(sw2)) + Cardinality(pairs)
    <2> HIDE DEF said, pairs
    <2>1. /\ Cardinality(SaidFree(ann) \cup said) = Cardinality(SaidFree(ann)) + Cardinality(said)
          /\ Cardinality(Unsaid(sw2) \cup pairs) = Cardinality(Unsaid(sw2)) + Cardinality(pairs)
      BY <1>3, <1>10, <1>13, <1>15, CountDisjoint
    <2> QED BY <1>13, <1>15, <2>1
  <1>17. IsFiniteSet(ann2)
    <2> HIDE DEF said
    <2>1. IsFiniteSet(ann \cup said)
      BY <1>10, FS_Union
    <2> QED BY <1>said, <2>1
  <1>18. /\ Cardinality(SaidFree(ann)) \in Nat /\ Cardinality(Unsaid(sw2)) \in Nat
         /\ Cardinality(pairs) \in Nat
    BY <1>3, FS_CardinalityType
  <1> HIDE DEF said, pairs
  <1> QED BY <1>10, <1>13, <1>16, <1>17, <1>18

-----------------------------------------------------------------------------
(* What inventory-service does to the counts                               *)

LEMMA InitSweeps == Init => SweepsApart
  BY FS_EmptySet DEF Init, SeatsInit, SweepsApart, NoSweep

\* What happens in inventory-service, with or without a listener's knowing.
RowEvent == SeatStep \/ AdminStep \/ SeatTrouble

\* Only the cron job reads, frees and announces rows as "cron".
LEMMA RowEventSweeps ==
  ASSUME TypeOK, SweepsApart, RowEvent
  PROVE  SweepsApart'
  <1>0. /\ sweep \in [Pods -> [found : SUBSET Seats, freed : SUBSET Seats]]
        /\ expired \subseteq Seats
    BY DEF TypeOK, SeatsTypeOK
  <1>1. ASSUME sweep' = sweep, announce' = announce PROVE SweepsApart'
    BY <1>1 DEF SweepsApart, Free
  <1>2. ASSUME sweep' = sweep, NEW d, d.by # "cron", announce' = announce \cup {d}
        PROVE  SweepsApart'
    <2>1. IsFiniteSet(announce')
      BY <1>2, FS_AddElement DEF SweepsApart
    <2>3. \A r \in Pods : Free(r, "cron") => Free(r, "cron")'
      BY <1>2 DEF Free
    <2> QED BY <1>2, <2>1, <2>3 DEF SweepsApart
  <1>d. \A p, s, available : \A b :
          /\ DueFor(b, p, s, available).by # "cron" /\ Due(p, "admin", s, available).by # "cron"
    BY DEF DueFor, Due
  <1>3. ASSUME NEW p \in Pods, CronRead(p) PROVE SweepsApart'
    <2>1. sweep' = [sweep EXCEPT ![p] = [@ EXCEPT !.found = expired]] /\ announce' = announce
      BY <1>3 DEF CronRead
    <2>2. \A r \in Pods : Free(r, "cron") <=> Free(r, "cron")'
      BY <2>1 DEF Free
    <2>3. sweep[p].freed = {} /\ Free(p, "cron")
      BY <1>3 DEF CronRead, NoSweep
    <2>4. sweep'[p].freed = {} /\ \A r \in Pods : r # p => sweep'[r] = sweep[r]
      BY <1>0, <2>1, <2>3
    <2> QED BY <2>1, <2>2, <2>3, <2>4 DEF SweepsApart
  <1>4. ASSUME NEW p \in Pods, NEW s \in Seats, CronFree(p, s) PROVE SweepsApart'
    <2>1. /\ sweep' = [sweep EXCEPT ![p] = [found |-> @.found \ {s}, freed |-> @.freed \cup {s}]]
          /\ announce' = announce /\ s \in sweep[p].found
      BY <1>4 DEF CronFree
    <2>2. \A r \in Pods : Free(r, "cron") <=> Free(r, "cron")'
      BY <2>1 DEF Free
    <2>3. /\ sweep'[p].found = sweep[p].found \ {s} /\ sweep'[p].freed = sweep[p].freed \cup {s}
          /\ \A r \in Pods : r # p => sweep'[r] = sweep[r]
      BY <1>0, <2>1
    <2> QED BY <2>1, <2>2, <2>3 DEF SweepsApart
  <1>5. ASSUME NEW p \in Pods, CronAnnounce(p) PROVE SweepsApart'
    <2>1. /\ sweep' = [sweep EXCEPT ![p] = [@ EXCEPT !.freed = {}]]
          /\ announce' = announce \cup {Due(p, "cron", s, TRUE) : s \in sweep[p].freed}
          /\ sweep[p].found = {} /\ sweep[p].freed # {}
      BY <1>5 DEF CronAnnounce
    <2>2. Free(p, "cron")
      BY <2>1 DEF SweepsApart
    <2>3. IsFiniteSet(announce')
      BY <1>0, <2>1, <2>2, CountAnnounced DEF SweepsApart, Free, NoCron, Swept, CronSays
    <2>4. \A r \in Pods : r # p /\ Free(r, "cron") => Free(r, "cron")'
      BY <2>1 DEF Free, Due
    <2>5. /\ sweep'[p].found = {} /\ sweep'[p].freed = {}
          /\ \A r \in Pods : r # p => sweep'[r] = sweep[r]
      BY <1>0, <2>1
    <2> QED BY <2>3, <2>4, <2>5 DEF SweepsApart
  <1>6. ASSUME NEW b \in Bookings,
               Request(b) \/ LockLoses(b) \/ Confirm(b) \/ GiveUp(b)
        PROVE  SweepsApart'
    BY <1>1, <1>6 DEF Request, LockLoses, Confirm, GiveUp
  <1>7. ASSUME NEW p \in Pods, NEW b \in Bookings, LockWins(p, b) \/ Release(p, b)
        PROVE  SweepsApart'
    BY <1>2, <1>7, <1>d DEF LockWins, Release
  <1>8. ASSUME NEW s \in Seats, Expire(s) PROVE SweepsApart'
    BY <1>1, <1>8 DEF Expire
  <1>9. ASSUME NEW p \in Pods, NEW s \in Seats, AddSeat(p, s) \/ RemoveSeat(p, s)
        PROVE  SweepsApart'
    BY <1>2, <1>9, <1>d DEF AddSeat, RemoveSeat
  <1>10. ASSUME ResetSeats PROVE SweepsApart'
    BY <1>1, <1>10 DEF ResetSeats
  <1>11. ASSUME LossAction PROVE SweepsApart'
    <2>1. announce' \subseteq announce /\ IsFiniteSet(announce')
      BY <1>11, LossMoves, FS_Subset DEF TypeOK, SweepsApart
    <2>2. \A r \in Pods : sweep'[r] = sweep[r] \/ sweep'[r] = NoSweep
      BY <1>11, LossMoves DEF TypeOK
    <2>3. \A r \in Pods : Free(r, "cron") => Free(r, "cron")'
      BY <2>1 DEF Free
    <2> QED BY <2>1, <2>2, <2>3 DEF SweepsApart, NoSweep
  <1>12. CASE SeatStep
    BY <1>3, <1>4, <1>5, <1>6, <1>7, <1>8, <1>12 DEF SeatStep
  <1>13. CASE AdminStep
    BY <1>9, <1>10, <1>13 DEF AdminStep
  <1>14. CASE SeatTrouble
    BY <1>11, <1>14 DEF SeatTrouble, LossAction
  <1> QED BY <1>12, <1>13, <1>14 DEF RowEvent

\* Every other step leaves inventory-service alone, but for the announcement it makes.
LEMMA NextCases ==
  ASSUME [Next]_vars
  PROVE  \/ RowEvent
         \/ \E a \in announce : Announce(a)
         \/ UNCHANGED <<seatVars, elsewhere>>
  <1>1. ASSUME NEW available \in BOOLEAN,
               \/ PricingHandles(available) \/ PricingSkips(available)
               \/ PricingUnanswered(available) \/ PricingStops(available)
               \/ SearchCounts(available) \/ SearchSkips(available) \/ SearchStops(available)
        PROVE  UNCHANGED <<seatVars, elsewhere>>
    BY <1>1 DEF PricingHandles, PricingSkips, PricingUnanswered, PricingStops, SearchCounts,
                SearchSkips, SearchStops
  <1>2. ASSUME NEW i \in DOMAIN updates, SearchPrices(i) \/ SearchPriceFails(i)
        PROVE  UNCHANGED <<seatVars, elsewhere>>
    BY <1>2 DEF SearchPrices, SearchPriceFails
  <1>3. CASE UNCHANGED vars
    BY <1>3 DEF vars
  <1> QED BY <1>1, <1>2, <1>3 DEF Next, RowEvent

LEMMA NextSweeps == TypeOK /\ SweepsApart /\ [Next]_vars => SweepsApart'
  <1> SUFFICES ASSUME TypeOK, SweepsApart, [Next]_vars PROVE SweepsApart'
    OBVIOUS
  <1>1. ASSUME NEW a \in announce, Announce(a) PROVE SweepsApart'
    <2>1. announce' = announce \ {a} /\ sweep' = sweep
      BY <1>1 DEF Announce
    <2>2. IsFiniteSet(announce')
      BY <2>1, FS_RemoveElement DEF SweepsApart
    <2>3. \A r \in Pods : Free(r, "cron") => Free(r, "cron")'
      BY <2>1 DEF Free
    <2> QED BY <2>1, <2>2, <2>3 DEF SweepsApart
  <1>2. CASE UNCHANGED seatVars
    BY <1>2 DEF seatVars, SweepsApart, Free
  <1> QED BY <1>1, <1>2, RowEventSweeps, NextCases

\* The seats that are taken, or that no listener can know to be free, become n less.
Accounted(n) == Seen(status', sweep', announce') = Seen(status, sweep, announce) - n

\* Steps that change a row and are due to be announced, or do neither.
MatchedStep ==
    \/ \E b \in Bookings :
          \/ Request(b) \/ LockLoses(b) \/ Confirm(b) \/ GiveUp(b)
          \/ MessageLost(b) \/ ReleaseAgain(b)
    \/ \E p \in Pods, b \in Bookings : LockWins(p, b) \/ (Release(p, b) /\ HasLock(b))
    \/ \E p \in Pods, s \in Seats : CronFree(p, s) /\ Taken(s)
    \/ \E p \in Pods : CronRead(p) \/ CronAnnounce(p)
    \/ \E s \in Seats : Expire(s)

LEMMA MatchedAccounts ==
  ASSUME TypeOK, SweepsApart, MatchedStep
  PROVE  Accounted(0)
  <1>0. /\ sweep \in [Pods -> [found : SUBSET Seats, freed : SUBSET Seats]]
        /\ status \in [Seats -> {"MISSING", "AVAILABLE", "LOCKED", "BOOKED"}]
        /\ IsFiniteSet(announce)
    BY DEF TypeOK, SeatsTypeOK, SweepsApart
  <1>t. /\ Cardinality(TakenSet(status)) \in Nat /\ Cardinality(SaidFree(announce)) \in Nat
        /\ Cardinality(SaidTaken(announce)) \in Nat /\ Cardinality(Unsaid(sweep)) \in Nat
        /\ Cardinality(TakenSet(status')) \in Nat /\ Cardinality(Unsaid(sweep')) \in Nat
    BY <1>0, FiniteCounts
  <1>s. Seen(status, sweep, announce) \in Int
    BY <1>t DEF Seen
  <1> USE DEF Accounted
  <1>1. ASSUME status' = status, sweep' = sweep, announce' = announce
        PROVE  Accounted(0)
    BY <1>s, <1>1
  <1>2. ASSUME NEW b \in Bookings,
               \/ Request(b) \/ LockLoses(b) \/ GiveUp(b)
               \/ MessageLost(b) \/ ReleaseAgain(b)
        PROVE  Accounted(0)
    BY <1>1, <1>2 DEF Request, LockLoses, GiveUp, MessageLost, ReleaseAgain, rowVars
  <1>3. ASSUME NEW b \in Bookings, Confirm(b)
        PROVE  Accounted(0)
    <2>1. /\ status' = [status EXCEPT ![SeatOf[b]] = "BOOKED"] /\ status[SeatOf[b]] = "LOCKED"
          /\ sweep' = sweep /\ announce' = announce /\ SeatOf[b] \in Seats
      BY <1>3 DEF Confirm, HasLock
    <2>2. TakenSet(status') = TakenSet(status)
      BY <1>0, <2>1, CountTaken
    <2> QED BY <1>s, <2>1, <2>2 DEF Seen
  <1>4. ASSUME NEW p \in Pods, NEW b \in Bookings, LockWins(p, b)
        PROVE  Accounted(0)
    <2> DEFINE due == DueFor(b, p, SeatOf[b], FALSE)
    <2>1. /\ status' = [status EXCEPT ![SeatOf[b]] = "LOCKED"]
          /\ status[SeatOf[b]] \notin {"LOCKED", "BOOKED"}
          /\ sweep' = sweep /\ announce' = announce \cup {due} /\ SeatOf[b] \in Seats
      BY <1>4 DEF LockWins, Taken
    <2>2. due \notin announce /\ ~due.available
      BY <1>4 DEF LockWins, Free, DueFor
    <2>3. Cardinality(TakenSet(status')) = Cardinality(TakenSet(status)) + 1
      BY <1>0, <2>1, CountTaken
    <2> HIDE DEF due
    <2>4. /\ SaidFree(announce \cup {due}) = SaidFree(announce)
          /\ Cardinality(SaidTaken(announce \cup {due})) = Cardinality(SaidTaken(announce)) + 1
      BY <1>0, <2>2, CountSaidTaken
    <2> QED BY <1>t, <2>1, <2>3, <2>4 DEF Seen
  <1>5. ASSUME NEW p \in Pods, NEW b \in Bookings, Release(p, b), HasLock(b)
        PROVE  Accounted(0)
    <2> DEFINE due == DueFor(b, p, SeatOf[b], TRUE)
    <2>1. /\ status' = [status EXCEPT ![SeatOf[b]] = "AVAILABLE"] /\ status[SeatOf[b]] = "LOCKED"
          /\ sweep' = sweep /\ announce' = announce \cup {due} /\ SeatOf[b] \in Seats
      BY <1>5 DEF Release, HasLock, FreeSeat
    <2>2. due \notin announce /\ due.available
      BY <1>5 DEF Release, Free, DueFor
    <2>3. Cardinality(TakenSet(status')) = Cardinality(TakenSet(status)) - 1
      BY <1>0, <2>1, CountTaken
    <2> HIDE DEF due
    <2>4. /\ SaidTaken(announce \cup {due}) = SaidTaken(announce)
          /\ Cardinality(SaidFree(announce \cup {due})) = Cardinality(SaidFree(announce)) + 1
      BY <1>0, <2>2, CountSaidFree
    <2> QED BY <1>t, <2>1, <2>3, <2>4 DEF Seen
  <1>6. ASSUME NEW p \in Pods, NEW s \in Seats, CronFree(p, s), Taken(s)
        PROVE  Accounted(0)
    <2>1. /\ status' = [status EXCEPT ![s] = "AVAILABLE"] /\ status[s] \in {"LOCKED", "BOOKED"}
          /\ sweep' = [sweep EXCEPT ![p] = [found |-> sweep[p].found \ {s},
                                            freed |-> @.freed \cup {s}]]
          /\ announce' = announce /\ s \in sweep[p].found
      BY <1>6 DEF CronFree, Taken, FreeSeat
    <2>2. s \notin sweep[p].freed
      BY <2>1 DEF SweepsApart
    <2>3. Cardinality(TakenSet(status')) = Cardinality(TakenSet(status)) - 1
      BY <1>0, <2>1, CountTaken
    <2>4. Cardinality(Unsaid(sweep')) = Cardinality(Unsaid(sweep)) + 1
      BY <1>0, <2>1, <2>2, CountFreed
    <2> QED BY <1>t, <2>1, <2>3, <2>4 DEF Seen
  <1>7. ASSUME NEW p \in Pods, CronAnnounce(p)
        PROVE  Accounted(0)
    <2>1. /\ sweep' = [sweep EXCEPT ![p] = [@ EXCEPT !.freed = {}]]
          /\ announce' = announce \cup {Due(p, "cron", s, TRUE) : s \in sweep[p].freed}
          /\ sweep[p].found = {} /\ sweep[p].freed # {} /\ status' = status
      BY <1>7 DEF CronAnnounce, rowVars
    <2>2. NoCron(announce, p)
      BY <2>1 DEF SweepsApart, Free, NoCron
    <2>3. PICK ann2, sw2 : ann2 = announce' /\ sw2 = sweep'
      OBVIOUS
    <2>4. sw2 = Swept(sweep, p) /\ ann2 = announce \cup CronSays(p, sweep[p].freed)
      BY <2>1, <2>3 DEF Swept, CronSays
    <2>5. /\ IsFiniteSet(ann2)
          /\ SaidTaken(ann2) = SaidTaken(announce)
          /\ Cardinality(SaidFree(ann2)) + Cardinality(Unsaid(sw2))
                = Cardinality(SaidFree(announce)) + Cardinality(Unsaid(sweep))
      BY <1>0, <2>2, <2>4, CountAnnounced
    <2>6. Cardinality(SaidFree(ann2)) \in Nat
      BY <2>5, FS_CardinalityType, FS_Subset DEF SaidFree
    <2> QED BY <1>t, <2>1, <2>3, <2>5, <2>6 DEF Seen
  <1>8. ASSUME NEW p \in Pods, CronRead(p)
        PROVE  Accounted(0)
    <2>1. /\ sweep' = [sweep EXCEPT ![p] = [@ EXCEPT !.found = expired]]
          /\ status' = status /\ announce' = announce
      BY <1>8 DEF CronRead, rowVars
    <2>2. Unsaid(sweep') = Unsaid(sweep)
      BY <1>0, <2>1 DEF Unsaid
    <2> QED BY <1>s, <2>1, <2>2 DEF Seen
  <1>9. ASSUME NEW s \in Seats, Expire(s)
        PROVE  Accounted(0)
    BY <1>1, <1>9 DEF Expire
  <1> QED BY <1>2, <1>3, <1>4, <1>5, <1>6, <1>7, <1>8, <1>9 DEF MatchedStep

\* An announcement that is due is none any more.
LEMMA LessDue ==
  ASSUME TypeOK, SweepsApart, NEW a \in announce,
         status' = status, sweep' = sweep, announce' = announce \ {a}
  PROVE  Accounted(-Weight(a.available))
  <1>1. /\ Cardinality(TakenSet(status)) \in Nat /\ Cardinality(SaidFree(announce)) \in Nat
        /\ Cardinality(SaidTaken(announce)) \in Nat /\ Cardinality(Unsaid(sweep)) \in Nat
        /\ IsFiniteSet(announce)
    BY FiniteCounts DEF SweepsApart
  <1>2. CASE a.available
    <2>1. /\ Cardinality(SaidFree(announce \ {a})) = Cardinality(SaidFree(announce)) - 1
          /\ SaidTaken(announce \ {a}) = SaidTaken(announce)
      BY <1>1, <1>2, CountSaidFree
    <2> QED BY <1>1, <1>2, <2>1 DEF Seen, Accounted, Weight
  <1>3. CASE ~a.available
    <2>1. /\ SaidFree(announce \ {a}) = SaidFree(announce)
          /\ Cardinality(SaidTaken(announce \ {a})) = Cardinality(SaidTaken(announce)) - 1
      BY <1>1, <1>3, CountSaidTaken
    <2> QED BY <1>1, <1>3, <2>1 DEF Seen, Accounted, Weight
  <1> QED BY <1>2, <1>3

\* An announcement becomes due although the seats that are taken stay the same.
LEMMA MoreDue ==
  ASSUME TypeOK, SweepsApart, NEW d, d \notin announce, d.available \in BOOLEAN,
         TakenSet(status') = TakenSet(status), sweep' = sweep, announce' = announce \cup {d}
  PROVE  Accounted(Weight(d.available))
  <1>1. /\ Cardinality(TakenSet(status)) \in Nat /\ Cardinality(SaidFree(announce)) \in Nat
        /\ Cardinality(SaidTaken(announce)) \in Nat /\ Cardinality(Unsaid(sweep)) \in Nat
        /\ IsFiniteSet(announce)
    BY FiniteCounts DEF SweepsApart
  <1>2. CASE d.available
    <2>1. /\ Cardinality(SaidFree(announce \cup {d})) = Cardinality(SaidFree(announce)) + 1
          /\ SaidTaken(announce \cup {d}) = SaidTaken(announce)
      BY <1>1, <1>2, CountSaidFree
    <2> QED BY <1>1, <1>2, <2>1 DEF Seen, Accounted, Weight
  <1>3. CASE ~d.available
    <2>1. /\ SaidFree(announce \cup {d}) = SaidFree(announce)
          /\ Cardinality(SaidTaken(announce \cup {d})) = Cardinality(SaidTaken(announce)) + 1
      BY <1>1, <1>3, CountSaidTaken
    <2> QED BY <1>1, <1>3, <2>1 DEF Seen, Accounted, Weight
  <1> QED BY <1>2, <1>3

\* Announcements of what has not happened, ...
LEMMA UnmatchedAccounts ==
  ASSUME TypeOK, SweepsApart
  PROVE  /\ \A p \in Pods : \A b \in Bookings :
              Release(p, b) /\ ~HasLock(b) => Accounted(-1)
         /\ \A p \in Pods : \A s \in Seats : CronFree(p, s) /\ ~Taken(s) => Accounted(-1)
         /\ \A p \in Pods : \A s \in Seats : AddSeat(p, s) => Accounted(-1)
         /\ \A p \in Pods : \A s \in Seats : RemoveSeat(p, s) => Accounted(1)
  <1>0. /\ sweep \in [Pods -> [found : SUBSET Seats, freed : SUBSET Seats]]
        /\ status \in [Seats -> {"MISSING", "AVAILABLE", "LOCKED", "BOOKED"}]
        /\ IsFiniteSet(announce)
    BY DEF TypeOK, SeatsTypeOK, SweepsApart
  <1>1. ASSUME NEW p \in Pods, NEW b \in Bookings, Release(p, b), ~HasLock(b)
        PROVE  Accounted(-1)
    <2> DEFINE due == DueFor(b, p, SeatOf[b], TRUE)
    <2>1. status' = status /\ sweep' = sweep /\ announce' = announce \cup {due}
      BY <1>1 DEF Release, rowVars
    <2>2. due \notin announce /\ due.available = TRUE
      BY <1>1 DEF Release, Free, DueFor
    <2> HIDE DEF due
    <2>3. Accounted(Weight(due.available))
      BY <2>1, <2>2, MoreDue
    <2> QED BY <2>2, <2>3 DEF Weight
  <1>2. ASSUME NEW p \in Pods, NEW s \in Seats, CronFree(p, s), ~Taken(s)
        PROVE  Accounted(-1)
    <2>1. /\ status' = status
          /\ sweep' = [sweep EXCEPT ![p] = [found |-> sweep[p].found \ {s},
                                            freed |-> @.freed \cup {s}]]
          /\ announce' = announce /\ s \in sweep[p].found
      BY <1>0, <1>2 DEF CronFree, Taken, FreeSeat, rowVars
    <2>2. s \notin sweep[p].freed
      BY <2>1 DEF SweepsApart
    <2>3. Cardinality(Unsaid(sweep')) = Cardinality(Unsaid(sweep)) + 1
      BY <1>0, <2>1, <2>2, CountFreed
    <2>4. /\ Cardinality(TakenSet(status)) \in Nat /\ Cardinality(SaidFree(announce)) \in Nat
          /\ Cardinality(SaidTaken(announce)) \in Nat /\ Cardinality(Unsaid(sweep)) \in Nat
      BY <1>0, FiniteCounts
    <2> QED BY <2>1, <2>3, <2>4 DEF Seen, Accounted
  <1>3. ASSUME NEW p \in Pods, NEW s \in Seats, AddSeat(p, s)
        PROVE  Accounted(-1)
    <2> DEFINE due == Due(p, "admin", s, TRUE)
    <2>1. /\ TakenSet(status') = TakenSet(status) /\ sweep' = sweep
          /\ announce' = announce \cup {due}
      BY <1>0, <1>3 DEF AddSeat, FreeSeat, TakenSet, Taken
    <2>2. due \notin announce /\ due.available = TRUE
      BY <1>3 DEF AddSeat, AdminFree, Due
    <2> HIDE DEF due
    <2>3. Accounted(Weight(due.available))
      BY <2>1, <2>2, MoreDue
    <2> QED BY <2>2, <2>3 DEF Weight
  <1>4. ASSUME NEW p \in Pods, NEW s \in Seats, RemoveSeat(p, s)
        PROVE  Accounted(1)
    <2> DEFINE due == Due(p, "admin", s, FALSE)
    <2>1. /\ TakenSet(status') = TakenSet(status) /\ sweep' = sweep
          /\ announce' = announce \cup {due}
      BY <1>0, <1>4 DEF RemoveSeat, TakenSet
    <2>2. due \notin announce /\ due.available = FALSE
      BY <1>4 DEF RemoveSeat, AdminFree, Due
    <2> HIDE DEF due
    <2>3. Accounted(Weight(due.available))
      BY <2>1, <2>2, MoreDue
    <2> QED BY <2>2, <2>3 DEF Weight
  <1> QED BY <1>1, <1>2, <1>3, <1>4

\* ... and what has happened and is announced by nobody.
LEMMA ForgottenAccounts ==
  ASSUME TypeOK, SweepsApart
  PROVE  /\ ResetSeats => Accounted(Cardinality(TakenSet(status)))
         /\ \A a \in announce : AnswerLost(a) => Accounted(-Weight(a.available))
         /\ \A p \in Pods : PodStops(p) => Accounted(-DueIn({p})) /\ DueIn({p}) \in Int
         /\ \A p \in Pods : \A s \in Seats : CronFails(p, s) =>
              /\ Accounted(Cardinality(sweep[p].freed)
                            + (IF Taken(s) /\ status'[s] = "AVAILABLE" THEN 1 ELSE 0))
              /\ Cardinality(sweep[p].freed) \in Nat
  <1>0. /\ sweep \in [Pods -> [found : SUBSET Seats, freed : SUBSET Seats]]
        /\ status \in [Seats -> {"MISSING", "AVAILABLE", "LOCKED", "BOOKED"}]
        /\ IsFiniteSet(announce)
    BY DEF TypeOK, SeatsTypeOK, SweepsApart
  <1>t. /\ Cardinality(TakenSet(status)) \in Nat /\ Cardinality(SaidFree(announce)) \in Nat
        /\ Cardinality(SaidTaken(announce)) \in Nat /\ Cardinality(Unsaid(sweep)) \in Nat
        /\ Cardinality(TakenSet(status')) \in Nat /\ Cardinality(Unsaid(sweep')) \in Nat
    BY <1>0, FiniteCounts
  <1>1. ASSUME ResetSeats PROVE Accounted(Cardinality(TakenSet(status)))
    <2>1. TakenSet(status') = {} /\ sweep' = sweep /\ announce' = announce
      BY <1>1 DEF ResetSeats, TakenSet
    <2>2. Cardinality(TakenSet(status')) = 0
      BY <2>1, FS_EmptySet
    <2> QED BY <1>t, <2>1, <2>2 DEF Seen, Accounted
  <1>2. ASSUME NEW a \in announce, AnswerLost(a) PROVE Accounted(-Weight(a.available))
    <2>1. status' = status /\ sweep' = sweep /\ announce' = announce \ {a}
      BY <1>2 DEF AnswerLost, rowVars
    <2> QED BY <2>1, LessDue
  <1>3. ASSUME NEW p \in Pods, PodStops(p)
        PROVE  Accounted(-DueIn({p})) /\ DueIn({p}) \in Int
    <2>1. /\ status' = status /\ sweep' = [sweep EXCEPT ![p] = NoSweep]
          /\ announce' = {a \in announce : a.pod # p}
      BY <1>3 DEF PodStops, rowVars
    <2>2. PICK sw2, ann2 : sw2 = sweep' /\ ann2 = announce'
      OBVIOUS
    <2>3. sw2 = [sweep EXCEPT ![p] = NoSweep] /\ ann2 = {a \in announce : a.pod # p}
      BY <2>1, <2>2
    <2>4. /\ Cardinality(SaidFree(announce))
                = Cardinality(SaidFree(ann2)) + Cardinality(DueFree(announce, p))
          /\ Cardinality(SaidTaken(announce))
                = Cardinality(SaidTaken(ann2)) + Cardinality(DueTaken(announce, p))
          /\ Cardinality(Unsaid(sweep)) = Cardinality(Unsaid(sw2)) + Cardinality(DueCron(sweep, p))
          /\ Cardinality(DueFree(announce, p)) \in Nat
          /\ Cardinality(DueTaken(announce, p)) \in Nat
          /\ Cardinality(DueCron(sweep, p)) \in Nat
      BY <1>0, <2>3, CountPod
    <2>5. DueIn({p}) = Cardinality(DueTaken(announce, p)) - Cardinality(DueFree(announce, p))
                        - Cardinality(DueCron(sweep, p))
      BY Zenon DEF DueIn, DueTaken, DueFree, DueCron
    <2>6. IsFiniteSet(ann2)
      BY <1>0, <2>3, FS_Subset
    <2>7. /\ Cardinality(SaidFree(ann2)) \in Nat /\ Cardinality(SaidTaken(ann2)) \in Nat
          /\ Cardinality(Unsaid(sw2)) \in Nat
      <3>1. SaidFree(ann2) \subseteq ann2 /\ SaidTaken(ann2) \subseteq ann2
        BY DEF SaidFree, SaidTaken
      <3> QED BY <1>0, <2>6, <3>1, FS_Subset, FS_CardinalityType, FiniteCounts
    <2>8. Seen(status', sweep', announce')
             = Cardinality(TakenSet(status)) + Cardinality(SaidFree(ann2)) + Cardinality(Unsaid(sw2))
               - Cardinality(SaidTaken(ann2))
      BY <2>1, <2>2, Zenon DEF Seen
    <2>9. Seen(status, sweep, announce)
             = Cardinality(TakenSet(status)) + Cardinality(SaidFree(announce))
               + Cardinality(Unsaid(sweep)) - Cardinality(SaidTaken(announce))
      BY Zenon DEF Seen
    <2> QED BY <1>t, <2>4, <2>5, <2>7, <2>8, <2>9 DEF Accounted
  <1>4. ASSUME NEW p \in Pods, NEW s \in Seats, CronFails(p, s)
        PROVE  /\ Accounted(Cardinality(sweep[p].freed)
                             + (IF Taken(s) /\ status'[s] = "AVAILABLE" THEN 1 ELSE 0))
               /\ Cardinality(sweep[p].freed) \in Nat
    <2>1. /\ sweep' = [sweep EXCEPT ![p] = NoSweep] /\ announce' = announce
          /\ status' = status \/ status' = [status EXCEPT ![s] = "AVAILABLE"]
      BY <1>4 DEF CronFails, rowVars, FreeSeat
    <2>2. PICK sw2 : sw2 = sweep'
      OBVIOUS
    <2>3. /\ Cardinality(Unsaid(sweep)) = Cardinality(Unsaid(sw2)) + Cardinality(sweep[p].freed)
          /\ IsFiniteSet(sweep[p].freed)
      BY <1>0, <2>1, <2>2, CountForgotten
    <2>4. Cardinality(sweep[p].freed) \in Nat
      BY <2>3, FS_CardinalityType
    <2>5. Cardinality(TakenSet(status'))
             = Cardinality(TakenSet(status))
               - (IF Taken(s) /\ status'[s] = "AVAILABLE" THEN 1 ELSE 0)
      <3>1. CASE Taken(s) /\ status'[s] = "AVAILABLE"
        <4>1. status' = [status EXCEPT ![s] = "AVAILABLE"] /\ status[s] \in {"LOCKED", "BOOKED"}
          BY <2>1, <3>1 DEF Taken
        <4> QED BY <1>0, <3>1, <4>1, CountTaken
      <3>2. CASE ~(Taken(s) /\ status'[s] = "AVAILABLE")
        <4>1. TakenSet(status') = TakenSet(status)
          BY <1>0, <2>1, <3>2 DEF TakenSet, Taken
        <4> QED BY <1>t, <3>2, <4>1
      <3> QED BY <3>1, <3>2
    <2>6. PICK n : n = (IF Taken(s) /\ status'[s] = "AVAILABLE" THEN 1 ELSE 0)
      OBVIOUS
    <2>7. n \in Nat
      BY <2>6
    <2>8. Accounted(Cardinality(sweep[p].freed) + n)
      BY <1>t, <2>1, <2>2, <2>3, <2>4, <2>5, <2>6, <2>7 DEF Seen, Accounted
    <2> QED BY <2>4, <2>6, <2>8
  <1> QED BY <1>1, <1>2, <1>3, <1>4

-----------------------------------------------------------------------------
(* The balances                                                            *)

Waiting(queue) == queue[FALSE] - queue[TRUE]

LEMMA QueueCounts ==
  ASSUME NEW queue \in [BOOLEAN -> Nat], NEW available \in BOOLEAN
  PROVE  /\ Waiting(queue) \in Int
         /\ available => /\ Waiting(OneMore(queue, available)) = Waiting(queue) - 1
                         /\ Waiting(OneLess(queue, available)) = Waiting(queue) + 1
         /\ ~available => /\ Waiting(OneMore(queue, available)) = Waiting(queue) + 1
                          /\ Waiting(OneLess(queue, available)) = Waiting(queue) - 1
  <1>1. PICK t \in Nat, f \in Nat : t = queue[TRUE] /\ f = queue[FALSE]
    OBVIOUS
  <1>0. t \in Nat /\ f \in Nat
    BY <1>1
  <1>2. \A x \in BOOLEAN : \A n : /\ [queue EXCEPT ![x] = n][x] = n
                             /\ \A y \in BOOLEAN : y # x => [queue EXCEPT ![x] = n][y] = queue[y]
    OBVIOUS
  <1>3. CASE available
    <2>1. available = TRUE /\ TRUE # FALSE
      BY <1>3
    <2>2. /\ OneMore(queue, available) = [queue EXCEPT ![TRUE] = queue[TRUE] + 1]
          /\ OneLess(queue, available) = [queue EXCEPT ![TRUE] = queue[TRUE] - 1]
      BY <2>1 DEF OneMore, OneLess
    <2>3. /\ OneMore(queue, available)[TRUE] = queue[TRUE] + 1
          /\ OneMore(queue, available)[FALSE] = queue[FALSE]
          /\ OneLess(queue, available)[TRUE] = queue[TRUE] - 1
          /\ OneLess(queue, available)[FALSE] = queue[FALSE]
      BY <1>2, <2>1, <2>2, Zenon
    <2>4. /\ Waiting(queue) = f - t /\ Waiting(OneMore(queue, available)) = f - (t + 1)
          /\ Waiting(OneLess(queue, available)) = f - (t - 1)
      BY <1>1, <2>3, Zenon DEF Waiting
    <2>5. f - (t + 1) = (f - t) - 1 /\ f - (t - 1) = (f - t) + 1 /\ f - t \in Int
      BY <1>0
    <2> QED BY <1>3, <2>4, <2>5, Zenon
  <1>4. CASE ~available
    <2>1. available = FALSE /\ TRUE # FALSE
      BY <1>4
    <2>2. /\ OneMore(queue, available) = [queue EXCEPT ![FALSE] = queue[FALSE] + 1]
          /\ OneLess(queue, available) = [queue EXCEPT ![FALSE] = queue[FALSE] - 1]
      BY <2>1 DEF OneMore, OneLess
    <2>3. /\ OneMore(queue, available)[FALSE] = queue[FALSE] + 1
          /\ OneMore(queue, available)[TRUE] = queue[TRUE]
          /\ OneLess(queue, available)[FALSE] = queue[FALSE] - 1
          /\ OneLess(queue, available)[TRUE] = queue[TRUE]
      BY <1>2, <2>1, <2>2, Zenon
    <2>4. /\ Waiting(queue) = f - t /\ Waiting(OneMore(queue, available)) = (f + 1) - t
          /\ Waiting(OneLess(queue, available)) = (f - 1) - t
      BY <1>1, <2>3, Zenon DEF Waiting
    <2>5. (f + 1) - t = (f - t) + 1 /\ (f - 1) - t = (f - t) - 1 /\ f - t \in Int
      BY <1>0
    <2> QED BY <1>4, <2>4, <2>5, Zenon
  <1> QED BY <1>3, <1>4

\* A message is one more, or one less, to handle.
LEMMA QueueWeights ==
  ASSUME NEW queue \in [BOOLEAN -> Nat], NEW available \in BOOLEAN
  PROVE  /\ Waiting(queue) \in Int
         /\ Waiting(OneMore(queue, available)) = Waiting(queue) + Weight(available)
         /\ Waiting(OneLess(queue, available)) = Waiting(queue) - Weight(available)
  <1>1. CASE available
    <2>1. Weight(available) = -1
      BY <1>1 DEF Weight
    <2>2. /\ Waiting(queue) \in Int
          /\ Waiting(OneMore(queue, available)) = Waiting(queue) - 1
          /\ Waiting(OneLess(queue, available)) = Waiting(queue) + 1
      BY <1>1, QueueCounts
    <2>3. \A w \in Int : w - 1 = w + (-1) /\ w + 1 = w - (-1)
      OBVIOUS
    <2> QED BY <2>1, <2>2, <2>3, Zenon
  <1>2. CASE ~available
    <2>1. Weight(available) = 1
      BY <1>2 DEF Weight
    <2>2. /\ Waiting(queue) \in Int
          /\ Waiting(OneMore(queue, available)) = Waiting(queue) + 1
          /\ Waiting(OneLess(queue, available)) = Waiting(queue) - 1
      BY <1>2, QueueCounts
    <2> QED BY <2>1, <2>2, Zenon
  <1> QED BY <1>1, <1>2

LEMMA SeenType ==
  ASSUME SweepsApart
  PROVE  Seen(status, sweep, announce) \in Int
  BY FiniteCounts DEF SweepsApart, Seen

LEMMA SeenTypeNext ==
  ASSUME SweepsApart'
  PROVE  Seen(status', sweep', announce') \in Int
  <1>1. PICK st, sw, ann : st = status' /\ sw = sweep' /\ ann = announce'
    OBVIOUS
  <1>2. IsFiniteSet(ann)
    BY <1>1 DEF SweepsApart
  <1>3. /\ IsFiniteSet(TakenSet(st)) /\ IsFiniteSet(Unsaid(sw))
        /\ IsFiniteSet(SaidFree(ann)) /\ IsFiniteSet(SaidTaken(ann))
    <2>1. IsFiniteSet(Pods \X Seats)
      BY FS_Product
    <2>2. /\ TakenSet(st) \subseteq Seats /\ Unsaid(sw) \subseteq Pods \X Seats
          /\ SaidFree(ann) \subseteq ann /\ SaidTaken(ann) \subseteq ann
      BY DEF TakenSet, Unsaid, SaidFree, SaidTaken
    <2> QED BY <1>2, <2>1, <2>2, FS_Subset
  <1>4. Seen(st, sw, ann) \in Int
    BY <1>3, FS_CardinalityType DEF Seen
  <1> QED BY <1>1, <1>4

\* The two balances, with what has been seen on one side.
PricingInBalance ==
    bookedSeats + Waiting(toPricing) = elsewhere + Seen(status, sweep, announce) + pricingDrift

SearchInBalance ==
    totalSeats - availableSeats + Waiting(toSearch)
        = elsewhere + Seen(status, sweep, announce) + searchDrift

\* Whatever happens in inventory-service, both drifts account for what is not due.
LEMMA RowEventAccounts ==
  ASSUME TypeOK, SweepsApart, RowEvent
  PROVE  /\ UNCHANGED <<sharedGroup, countVars, priceVars, queueVars>>
         /\ troubles' \in 0..MaxTroubles
         /\ elsewhere' \in Nat
         /\ \E n \in Int :
              /\ pricingDrift' = pricingDrift + n /\ searchDrift' = searchDrift + n
              /\ elsewhere' + Seen(status', sweep', announce')
                    = elsewhere + Seen(status, sweep, announce) - n
  <1> DEFINE Drifts(n) ==
              /\ pricingDrift' = pricingDrift + n /\ searchDrift' = searchDrift + n
              /\ elsewhere' + Seen(status', sweep', announce')
                    = elsewhere + Seen(status, sweep, announce) - n
  <1>0. /\ Seen(status, sweep, announce) \in Int /\ elsewhere \in Nat
        /\ pricingDrift \in Int /\ searchDrift \in Int /\ HistoryTypes /\ SeatsTypeOK
    BY SeenType, TypeParts DEF TypeOK
  <1>1. ASSUME NEW n \in Int, BothDrift(n), Accounted(n), UNCHANGED elsewhere
        PROVE  Drifts(n)
    BY <1>0, <1>1 DEF BothDrift, Accounted
  <1>2. ASSUME UNCHANGED driftVars, MatchedStep, UNCHANGED elsewhere PROVE Drifts(0)
    <2>1. BothDrift(0)
      BY <1>0, <1>2 DEF BothDrift, driftVars
    <2> QED BY <1>1, <1>2, <2>1, MatchedAccounts
  <1>3. ASSUME BothDrift(0), MatchedStep, UNCHANGED elsewhere PROVE Drifts(0)
    BY <1>1, <1>3, MatchedAccounts
  <1>4. CASE SeatStep
    <2>1. UNCHANGED <<elsewhere, sharedGroup, countVars, priceVars, queueVars, troubles>>
      BY <1>4 DEF SeatStep
    <2>2. ASSUME NEW p \in Pods, NEW b \in Bookings, Release(p, b),
                 BothDrift(IF HasLock(b) THEN 0 ELSE -1)
          PROVE  \E n \in Int : Drifts(n)
      <3>1. CASE HasLock(b)
        <4>1. BothDrift(0) /\ MatchedStep
          BY <2>2, <3>1 DEF MatchedStep
        <4>2. Drifts(0)
          BY <1>3, <2>1, <4>1
        <4> QED BY <4>2
      <3>2. CASE ~HasLock(b)
        <4>1. BothDrift(-1) /\ Accounted(-1)
          BY <2>2, <3>2, UnmatchedAccounts
        <4>2. Drifts(-1)
          BY <1>1, <2>1, <4>1
        <4> QED BY <4>2
      <3> QED BY <3>1, <3>2
    <2>3. ASSUME NEW p \in Pods, NEW s \in Seats, CronFree(p, s),
                 BothDrift(IF Taken(s) THEN 0 ELSE -1)
          PROVE  \E n \in Int : Drifts(n)
      <3>1. CASE Taken(s)
        <4>1. BothDrift(0) /\ MatchedStep
          BY <2>3, <3>1 DEF MatchedStep
        <4>2. Drifts(0)
          BY <1>3, <2>1, <4>1
        <4> QED BY <4>2
      <3>2. CASE ~Taken(s)
        <4>1. BothDrift(-1) /\ Accounted(-1)
          BY <2>3, <3>2, UnmatchedAccounts
        <4>2. Drifts(-1)
          BY <1>1, <2>1, <4>1
        <4> QED BY <4>2
      <3> QED BY <3>1, <3>2
    <2>4. ASSUME UNCHANGED driftVars, MatchedStep PROVE \E n \in Int : Drifts(n)
      <3>1. Drifts(0)
        BY <1>2, <2>1, <2>4
      <3> QED BY <3>1
    <2>5. \/ UNCHANGED driftVars /\ MatchedStep
          \/ \E p \in Pods, b \in Bookings :
                Release(p, b) /\ BothDrift(IF HasLock(b) THEN 0 ELSE -1)
          \/ \E p \in Pods, s \in Seats :
                CronFree(p, s) /\ BothDrift(IF Taken(s) THEN 0 ELSE -1)
      BY <1>4 DEF SeatStep, MatchedStep
    <2>6. \E n \in Int : Drifts(n)
      BY <2>2, <2>3, <2>4, <2>5
    <2> QED BY <1>0, <2>1, <2>6 DEF HistoryTypes
  <1>5. CASE AdminStep
    <2>1. /\ UNCHANGED <<sharedGroup, countVars, priceVars, queueVars>>
          /\ troubles' \in 0..MaxTroubles
      BY <1>0, <1>5, TroubleType DEF AdminStep
    <2>2. ASSUME NEW p \in Pods, NEW s \in Seats, AddSeat(p, s), BothDrift(-1),
                 UNCHANGED elsewhere
          PROVE  elsewhere' \in Nat /\ \E n \in Int : Drifts(n)
      <3>1. Drifts(-1)
        BY <1>1, <2>2, UnmatchedAccounts
      <3> QED BY <1>0, <2>2, <3>1
    <2>3. ASSUME NEW p \in Pods, NEW s \in Seats, RemoveSeat(p, s), BothDrift(1),
                 UNCHANGED elsewhere
          PROVE  elsewhere' \in Nat /\ \E n \in Int : Drifts(n)
      <3>1. Drifts(1)
        BY <1>1, <2>3, UnmatchedAccounts
      <3> QED BY <1>0, <2>3, <3>1
    <2>4. ASSUME ResetSeats, elsewhere' = 0, BothDrift(TakenSeats)
          PROVE  elsewhere' \in Nat /\ \E n \in Int : Drifts(n)
      <3>1. TakenSeats = elsewhere + Cardinality(TakenSet(status))
        BY Zenon DEF TakenSeats, TakenSet, Taken
      <3>2. Cardinality(TakenSet(status)) \in Nat
        BY FiniteCounts DEF SweepsApart
      <3>3. Accounted(Cardinality(TakenSet(status)))
        BY <2>4, ForgottenAccounts
      <3>4. PICK n \in Int : n = TakenSeats
        BY <1>0, <3>1, <3>2
      <3>5. BothDrift(n)
        BY <2>4, <3>4
      <3>6. Drifts(n)
        BY <1>0, <2>4, <3>1, <3>2, <3>3, <3>4, <3>5 DEF BothDrift, Accounted
      <3> QED BY <2>4, <3>6
    <2>5. elsewhere' \in Nat /\ \E n \in Int : Drifts(n)
      BY <1>5, <2>2, <2>3, <2>4 DEF AdminStep
    <2> QED BY <2>1, <2>5
  <1>6. CASE SeatTrouble
    <2>1. /\ UNCHANGED <<elsewhere, sharedGroup, countVars, priceVars, queueVars>>
          /\ troubles' \in 0..MaxTroubles
      BY <1>0, <1>6, TroubleType DEF SeatTrouble
    <2>2. ASSUME NEW b \in Bookings, MessageLost(b) \/ ReleaseAgain(b), UNCHANGED driftVars
          PROVE  \E n \in Int : Drifts(n)
      <3>1. MatchedStep
        BY <2>2 DEF MatchedStep
      <3>2. Drifts(0)
        BY <1>2, <2>1, <2>2, <3>1
      <3> QED BY <3>2
    <2>3. ASSUME NEW a \in announce, AnswerLost(a), BothDrift(-Weight(a.available))
          PROVE  \E n \in Int : Drifts(n)
      <3>1. a.available \in BOOLEAN
        BY <1>0 DEF SeatsTypeOK, Announcements
      <3>2. -Weight(a.available) \in Int
        BY <3>1, WeightType
      <3>3. Drifts(-Weight(a.available))
        BY <1>1, <2>1, <2>3, <3>2, ForgottenAccounts
      <3> QED BY <3>2, <3>3
    <2>4. ASSUME NEW p \in Pods, PodStops(p), BothDrift(-DueIn({p}))
          PROVE  \E n \in Int : Drifts(n)
      <3>1. DueIn({p}) \in Int /\ Accounted(-DueIn({p}))
        BY <2>4, ForgottenAccounts
      <3>2. Drifts(-DueIn({p}))
        BY <1>1, <2>1, <2>4, <3>1
      <3> QED BY <3>1, <3>2
    <2>5. ASSUME NEW p \in Pods, NEW s \in Seats, CronFails(p, s),
                 BothDrift(Cardinality(sweep[p].freed)
                           + (IF Taken(s) /\ status'[s] = "AVAILABLE" THEN 1 ELSE 0))
          PROVE  \E n \in Int : Drifts(n)
      <3>1. PICK n : n = Cardinality(sweep[p].freed)
                          + (IF Taken(s) /\ status'[s] = "AVAILABLE" THEN 1 ELSE 0)
        OBVIOUS
      <3>2. Accounted(n) /\ n \in Int
        BY <2>5, <3>1, ForgottenAccounts
      <3>3. BothDrift(n)
        BY <2>5, <3>1
      <3>4. Drifts(n)
        BY <1>1, <2>1, <3>2, <3>3
      <3> QED BY <3>2, <3>4
    <2>6. \E n \in Int : Drifts(n)
      BY <1>6, <2>2, <2>3, <2>4, <2>5 DEF SeatTrouble
    <2> QED BY <1>0, <2>1, <2>6
  <1> QED BY <1>4, <1>5, <1>6 DEF RowEvent

\* An announcement that is made reaches a service's queue, or its drift.
LEMMA AnnounceReaches ==
  ASSUME TypeOK, SweepsApart, NEW a \in announce, Announce(a)
  PROVE  /\ UNCHANGED <<elsewhere, sharedGroup, countVars, priceVars, status, holder, expired,
                        request, sweep>>
         /\ announce' = announce \ {a}
         /\ Accounted(-Weight(a.available)) /\ a.available \in BOOLEAN
         /\ troubles' \in 0..MaxTroubles
         /\ \/ toPricing' = OneMore(toPricing, a.available) /\ pricingDrift' = pricingDrift
            \/ toPricing' = toPricing /\ pricingDrift' = pricingDrift - Weight(a.available)
         /\ \/ toSearch' = OneMore(toSearch, a.available) /\ searchDrift' = searchDrift
            \/ toSearch' = toSearch /\ searchDrift' = searchDrift - Weight(a.available)
  <1>1. /\ announce' = announce \ {a}
        /\ UNCHANGED <<elsewhere, sharedGroup, countVars, priceVars, status, holder, expired,
                       request, sweep>>
    BY DEF Announce, rowVars
  <1>2. Accounted(-Weight(a.available))
    BY <1>1, LessDue
  <1>3. a.available \in BOOLEAN /\ HistoryTypes
    BY TypeParts DEF SeatsTypeOK, Announcements
  <1>4. PICK pricingToo \in BOOLEAN, searchToo \in BOOLEAN :
          /\ Reaches(pricingToo, searchToo)
          /\ IF pricingToo
             THEN toPricing' = OneMore(toPricing, a.available) /\ UNCHANGED pricingDrift
             ELSE UNCHANGED toPricing /\ pricingDrift' = pricingDrift - Weight(a.available)
          /\ IF searchToo
             THEN toSearch' = OneMore(toSearch, a.available) /\ UNCHANGED searchDrift
             ELSE UNCHANGED toSearch /\ searchDrift' = searchDrift - Weight(a.available)
    BY DEF Announce
  <1>5. troubles' \in 0..MaxTroubles
    BY <1>3, <1>4, TroubleType DEF Reaches, HistoryTypes
  <1> QED BY <1>1, <1>2, <1>3, <1>4, <1>5

\* What a message does to pricing-service's side of the balance, and to the rest.
LEMMA PricingAccounts ==
  ASSUME TypeOK, NEW available \in BOOLEAN,
         \/ PricingHandles(available) \/ PricingSkips(available)
         \/ PricingUnanswered(available) \/ PricingStops(available)
  PROVE  /\ UNCHANGED <<seatVars, elsewhere, sharedGroup, availableSeats, price, toSearch,
                        searchDrift>>
         /\ bookedSeats' \in Nat /\ currentPrice' \in PriceSet /\ toPricing' \in [BOOLEAN -> Nat]
         /\ pricingDrift' \in Int /\ troubles' \in 0..MaxTroubles
         /\ bookedSeats' + Waiting(toPricing') - pricingDrift'
               = bookedSeats + Waiting(toPricing) - pricingDrift
  <1>0. /\ CountTypes /\ QueuesType /\ HistoryTypes /\ bookedSeats \in Nat /\ pricingDrift \in Int
        /\ toPricing \in [BOOLEAN -> Nat] /\ currentPrice \in PriceSet
        /\ troubles \in 0..MaxTroubles
    BY TypeParts DEF CountTypes, QueuesType, HistoryTypes
  <1>1. PICK w \in Int, f \in Int, q \in Int :
              w = Weight(available) /\ f = PricingFloor(available) /\ q = Waiting(toPricing)
    BY <1>0, WeightType, QueueWeights
  <1>2. OneLess(toPricing, available) \in [BOOLEAN -> Nat] \/ ~(toPricing[available] > 0)
    BY <1>0, QueueTypes
  <1>3. Waiting(OneLess(toPricing, available)) = q - w
    BY <1>0, <1>1, QueueWeights
  <1>4. ASSUME SaveCount(available)
        PROVE  /\ bookedSeats' \in Nat /\ currentPrice' \in PriceSet
               /\ bookedSeats' = bookedSeats + w + f
    BY <1>0, <1>1, <1>4, SaveCountTypes, SaveCountValue
  <1>5. CASE PricingHandles(available)
    <2>1. /\ UNCHANGED <<seatVars, elsewhere, sharedGroup, availableSeats, price, toSearch,
                         searchDrift>>
          /\ toPricing' = OneLess(toPricing, available) /\ toPricing[available] > 0
          /\ SaveCount(available) /\ pricingDrift' = pricingDrift + f
      BY <1>1, <1>5 DEF PricingHandles
    <2>2. troubles' \in 0..MaxTroubles
      BY <1>0, <1>5, TroubleType DEF PricingHandles, Tell
    <2> QED BY <1>0, <1>1, <1>2, <1>3, <1>4, <2>1, <2>2
  <1>6. CASE PricingSkips(available)
    <2>1. /\ UNCHANGED <<seatVars, elsewhere, sharedGroup, availableSeats, price, toSearch,
                         searchDrift, bookedSeats, currentPrice>>
          /\ toPricing' = OneLess(toPricing, available) /\ toPricing[available] > 0
          /\ pricingDrift' = pricingDrift - w
      BY <1>1, <1>6 DEF PricingSkips, countVars, priceVars
    <2>2. troubles' \in 0..MaxTroubles
      BY <1>0, <1>6, TroubleType DEF PricingSkips
    <2> QED BY <1>0, <1>1, <1>2, <1>3, <2>1, <2>2
  <1>7. CASE PricingUnanswered(available)
    <2>1. /\ UNCHANGED <<seatVars, elsewhere, sharedGroup, availableSeats, price, toSearch,
                         searchDrift>>
          /\ toPricing' = OneLess(toPricing, available) /\ toPricing[available] > 0
          /\ SaveCount(available) /\ pricingDrift' = pricingDrift + f
      BY <1>1, <1>7 DEF PricingUnanswered
    <2>2. troubles' \in 0..MaxTroubles
      BY <1>0, <1>7, TroubleType DEF PricingUnanswered
    <2> QED BY <1>0, <1>1, <1>2, <1>3, <1>4, <2>1, <2>2
  <1>8. CASE PricingStops(available)
    <2>1. /\ UNCHANGED <<seatVars, elsewhere, sharedGroup, availableSeats, price, toSearch,
                         searchDrift, toPricing>>
          /\ SaveCount(available) /\ pricingDrift' = pricingDrift + w + f
      BY <1>1, <1>8 DEF PricingStops, queueVars
    <2>2. troubles' \in 0..MaxTroubles
      BY <1>0, <1>8, TroubleType DEF PricingStops
    <2> QED BY <1>0, <1>1, <1>4, <2>1, <2>2
  <1> QED BY <1>5, <1>6, <1>7, <1>8

\* The same of search-service.
LEMMA SearchAccounts ==
  ASSUME TypeOK, NEW available \in BOOLEAN,
         SearchCounts(available) \/ SearchSkips(available) \/ SearchStops(available)
  PROVE  /\ UNCHANGED <<seatVars, elsewhere, sharedGroup, bookedSeats, priceVars, toPricing,
                        pricingDrift>>
         /\ availableSeats' \in Nat /\ toSearch' \in [BOOLEAN -> Nat]
         /\ searchDrift' \in Int /\ troubles' \in 0..MaxTroubles
         /\ Waiting(toSearch') - availableSeats' - searchDrift'
               = Waiting(toSearch) - availableSeats - searchDrift
  <1>0. /\ HistoryTypes /\ availableSeats \in Nat /\ searchDrift \in Int
        /\ toSearch \in [BOOLEAN -> Nat] /\ troubles \in 0..MaxTroubles
    BY TypeParts DEF CountTypes, QueuesType, HistoryTypes
  <1>1. PICK w \in Int, f \in Int, q \in Int :
              w = Weight(available) /\ f = SearchFloor(available) /\ q = Waiting(toSearch)
    BY <1>0, WeightType, QueueWeights
  <1>2. OneLess(toSearch, available) \in [BOOLEAN -> Nat] \/ ~(toSearch[available] > 0)
    BY <1>0, QueueTypes
  <1>3. Waiting(OneLess(toSearch, available)) = q - w
    BY <1>0, <1>1, QueueWeights
  <1>4. ASSUME Count(available)
        PROVE  availableSeats' \in Nat /\ availableSeats' = availableSeats - w + f
    BY <1>0, <1>1, <1>4, CountValue
  <1>5. CASE SearchCounts(available)
    <2>1. /\ UNCHANGED <<seatVars, elsewhere, sharedGroup, bookedSeats, priceVars, toPricing,
                         pricingDrift, troubles>>
          /\ toSearch' = OneLess(toSearch, available) /\ toSearch[available] > 0
          /\ Count(available) /\ searchDrift' = searchDrift - f
      BY <1>1, <1>5 DEF SearchCounts
    <2> QED BY <1>0, <1>1, <1>2, <1>3, <1>4, <2>1
  <1>6. CASE SearchSkips(available)
    <2>1. /\ UNCHANGED <<seatVars, elsewhere, sharedGroup, bookedSeats, priceVars, toPricing,
                         pricingDrift, availableSeats>>
          /\ toSearch' = OneLess(toSearch, available) /\ toSearch[available] > 0
          /\ searchDrift' = searchDrift - w /\ Trouble
      BY <1>1, <1>6 DEF SearchSkips, countVars
    <2> QED BY <1>0, <1>1, <1>2, <1>3, <2>1, TroubleType
  <1>7. CASE SearchStops(available)
    <2>1. /\ UNCHANGED <<seatVars, elsewhere, sharedGroup, bookedSeats, priceVars, toPricing,
                         pricingDrift, toSearch>>
          /\ Count(available) /\ searchDrift' = searchDrift + w - f /\ Trouble
      BY <1>1, <1>7 DEF SearchStops, queueVars
    <2> QED BY <1>0, <1>1, <1>4, <2>1, TroubleType
  <1> QED BY <1>5, <1>6, <1>7

\* The prices on their way are handled, or not.
LEMMA SearchPriceTypes ==
  ASSUME TypeOK, NEW i \in DOMAIN updates, SearchPrices(i) \/ SearchPriceFails(i)
  PROVE  /\ UNCHANGED <<seatVars, elsewhere, sharedGroup, countVars, currentPrice, queueVars,
                        driftVars>>
         /\ price' \in PriceSet /\ updates' \in Seq(PriceSet) /\ troubles' \in 0..MaxTroubles
         /\ stale' \in BOOLEAN
  <1>0. /\ updates \in Seq(PriceSet) /\ price \in PriceSet /\ stale \in BOOLEAN
        /\ HistoryTypes /\ troubles \in 0..MaxTroubles /\ updates[i] \in PriceSet
    BY TypeParts DEF CountTypes, HistoryTypes
  <1>1. RemoveAt(updates, i) \in Seq(PriceSet)
    BY <1>0, RemoveAtType
  <1>2. CASE SearchPrices(i)
    BY <1>0, <1>1, <1>2 DEF SearchPrices
  <1>3. CASE SearchPriceFails(i)
    <2>1. troubles' \in 0..MaxTroubles
      BY <1>0, <1>3, TroubleType DEF SearchPriceFails
    <2> QED BY <1>0, <1>1, <1>3, <2>1 DEF SearchPriceFails
  <1> QED BY <1>2, <1>3

\* The prices after a message of inventory.changed.
LEMMA TellTypes ==
  ASSUME TypeOK, NEW available \in BOOLEAN,
         \/ PricingHandles(available) \/ PricingSkips(available)
         \/ PricingUnanswered(available) \/ PricingStops(available)
  PROVE  updates' \in Seq(PriceSet) /\ stale' \in BOOLEAN
  <1>0. updates \in Seq(PriceSet) /\ stale \in BOOLEAN
    BY TypeParts DEF CountTypes, HistoryTypes
  <1>1. currentPrice' \in PriceSet
    BY PricingAccounts
  <1>2. CASE PricingHandles(available)
    <2>1. Tell(currentPrice')
      BY <1>2 DEF PricingHandles
    <2>2. \/ updates' = updates /\ (stale' = stale \/ stale' = TRUE)
          \/ updates' = Append(updates, currentPrice') /\ stale' = FALSE
      BY <2>1 DEF Tell
    <2>3. CASE updates' = Append(updates, currentPrice') /\ stale' = FALSE
      <3>1. PICK c \in PriceSet : c = currentPrice'
        BY <1>1
      <3>2. updates' = Append(updates, c)
        BY <2>3, <3>1, Zenon
      <3>3. Append(updates, c) \in Seq(PriceSet)
        BY <1>0
      <3> QED BY <2>3, <3>2, <3>3
    <2> QED BY <1>0, <2>2, <2>3
  <1>3. CASE PricingSkips(available)
    BY <1>0, <1>3 DEF PricingSkips, priceVars
  <1>4. CASE PricingUnanswered(available) \/ PricingStops(available)
    <2>1. updates' = updates /\ stale' = (stale \/ currentPrice' # currentPrice)
      BY <1>4 DEF PricingUnanswered, PricingStops, Untold
    <2> QED BY <1>0, <2>1
  <1> QED BY <1>2, <1>3, <1>4

LEMMA RowEventTypes ==
  ASSUME SeatsTypeOK, RowEvent
  PROVE  SeatsTypeOK'
  <1>1. ASSUME NEW b \in Bookings, Request(b) PROVE SeatsTypeOK'
    BY <1>1, AsksTypes DEF Request, Asks, Requests
  <1>2. SeatAction \/ LossAction \/ \E b \in Bookings : Request(b)
    BY DEF RowEvent, SeatStep, AdminStep, SeatTrouble, SeatAction, RowAction, LossAction
  <1> QED BY <1>1, <1>2, SeatActionTypes, LossTypes

LEMMA NextTypes == TypeOK /\ SweepsApart /\ [Next]_vars => TypeOK'
  <1> SUFFICES ASSUME TypeOK, SweepsApart, [Next]_vars PROVE TypeOK'
    OBVIOUS
  <1>0. SeatsTypeOK /\ CountTypes /\ QueuesType /\ HistoryTypes
    BY TypeParts
  <1>1. CASE RowEvent
    <2>1. SeatsTypeOK'
      BY <1>0, <1>1, RowEventTypes
    <2>2. CountTypes' /\ QueuesType'
      BY <1>0, <1>1, RowEventAccounts DEF countVars, priceVars, queueVars, CountTypes, QueuesType
    <2>3. PICK n \in Int : pricingDrift' = pricingDrift + n /\ searchDrift' = searchDrift + n
      BY <1>1, RowEventAccounts
    <2>4. /\ elsewhere' \in Nat /\ troubles' \in 0..MaxTroubles
          /\ sharedGroup' = sharedGroup /\ stale' = stale
      BY <1>1, RowEventAccounts DEF priceVars
    <2>5. HistoryTypes'
      BY <1>0, <2>3, <2>4 DEF HistoryTypes
    <2> QED BY <2>1, <2>2, <2>5, TypePartsNext
  <1>2. ASSUME NEW a \in announce, Announce(a) PROVE TypeOK'
    <2>1. SeatsTypeOK'
      BY <1>0, <1>2 DEF Announce, SeatsTypeOK, rowVars, Taken
    <2>2. CountTypes'
      BY <1>0, <1>2, AnnounceReaches DEF countVars, priceVars, CountTypes
    <2>3. a.available \in BOOLEAN
      BY <1>2, AnnounceReaches
    <2>4. toPricing' = OneMore(toPricing, a.available) \/ toPricing' = toPricing
      BY <1>2, AnnounceReaches
    <2>5. toSearch' = OneMore(toSearch, a.available) \/ toSearch' = toSearch
      BY <1>2, AnnounceReaches
    <2>6. QueuesType'
      BY <1>0, <2>3, <2>4, <2>5, QueueTypes DEF QueuesType
    <2>7. /\ pricingDrift' \in {pricingDrift, pricingDrift - Weight(a.available)}
          /\ searchDrift' \in {searchDrift, searchDrift - Weight(a.available)}
          /\ troubles' \in 0..MaxTroubles
          /\ UNCHANGED <<elsewhere, sharedGroup, stale>>
      BY <1>2, AnnounceReaches DEF priceVars
    <2>8. HistoryTypes'
      BY <1>0, <2>3, <2>7, WeightType DEF HistoryTypes
    <2> QED BY <2>1, <2>2, <2>6, <2>8, TypePartsNext
  <1>3. ASSUME UNCHANGED seatVars PROVE SeatsTypeOK'
    BY <1>0, <1>3 DEF seatVars, SeatsTypeOK, Taken
  <1>4. ASSUME NEW available \in BOOLEAN,
               \/ PricingHandles(available) \/ PricingSkips(available)
               \/ PricingUnanswered(available) \/ PricingStops(available)
        PROVE  TypeOK'
    <2>1. CountTypes'
      BY <1>0, <1>4, PricingAccounts, TellTypes DEF CountTypes
    <2>2. QueuesType' /\ UNCHANGED seatVars
      BY <1>0, <1>4, PricingAccounts DEF QueuesType
    <2>3. HistoryTypes'
      BY <1>0, <1>4, PricingAccounts, TellTypes DEF HistoryTypes
    <2> QED BY <1>3, <2>1, <2>2, <2>3, TypePartsNext
  <1>5. ASSUME NEW available \in BOOLEAN,
               SearchCounts(available) \/ SearchSkips(available) \/ SearchStops(available)
        PROVE  TypeOK'
    <2>1. CountTypes'
      BY <1>0, <1>5, SearchAccounts DEF priceVars, CountTypes
    <2>2. QueuesType' /\ UNCHANGED seatVars
      BY <1>0, <1>5, SearchAccounts DEF QueuesType
    <2>3. HistoryTypes'
      BY <1>0, <1>5, SearchAccounts DEF priceVars, HistoryTypes
    <2> QED BY <1>3, <2>1, <2>2, <2>3, TypePartsNext
  <1>6. ASSUME NEW i \in DOMAIN updates, SearchPrices(i) \/ SearchPriceFails(i)
        PROVE  TypeOK'
    <2>1. CountTypes'
      BY <1>0, <1>6, SearchPriceTypes DEF countVars, CountTypes
    <2>2. QueuesType' /\ UNCHANGED seatVars
      BY <1>0, <1>6, SearchPriceTypes DEF queueVars, QueuesType
    <2>3. HistoryTypes'
      BY <1>0, <1>6, SearchPriceTypes DEF driftVars, HistoryTypes
    <2> QED BY <1>3, <2>1, <2>2, <2>3, TypePartsNext
  <1>7. CASE UNCHANGED vars
    <2>1. CountTypes' /\ QueuesType' /\ HistoryTypes'
      BY <1>0, <1>7 DEF vars, countVars, priceVars, queueVars, driftVars, CountTypes, QueuesType,
                        HistoryTypes
    <2> QED BY <1>3, <1>7, <2>1, TypePartsNext DEF vars
  <1> QED BY <1>1, <1>2, <1>4, <1>5, <1>6, <1>7 DEF Next, RowEvent

\* No step makes a service's count drift but by what it adds to its drift.
LEMMA NextPricing == TypeOK /\ SweepsApart /\ PricingInBalance /\ [Next]_vars => PricingInBalance'
  <1> SUFFICES ASSUME TypeOK, SweepsApart, PricingInBalance, [Next]_vars PROVE PricingInBalance'
    OBVIOUS
  <1> DEFINE seen == Seen(status, sweep, announce)
             seen2 == Seen(status', sweep', announce')
  <1>0. /\ bookedSeats \in Nat /\ pricingDrift \in Int /\ elsewhere \in Nat /\ seen \in Int
        /\ toPricing \in [BOOLEAN -> Nat] /\ Waiting(toPricing) \in Int
    BY SeenType, QueueWeights DEF TypeOK
  <1>1. ASSUME bookedSeats' + Waiting(toPricing') = elsewhere' + seen2 + pricingDrift'
        PROVE  PricingInBalance'
    BY <1>1 DEF PricingInBalance
  <1>2. bookedSeats + Waiting(toPricing) = elsewhere + seen + pricingDrift
    BY DEF PricingInBalance
  <1> HIDE DEF seen, seen2
  <1>3. CASE RowEvent
    <2>1. PICK n \in Int : /\ pricingDrift' = pricingDrift + n
                           /\ elsewhere' + seen2 = elsewhere + seen - n
      BY <1>3, RowEventAccounts DEF seen, seen2
    <2>2. SweepsApart' /\ elsewhere' \in Nat /\ UNCHANGED <<bookedSeats, toPricing>>
      BY <1>3, RowEventSweeps, RowEventAccounts DEF countVars, queueVars
    <2>3. seen2 \in Int
      BY <2>2, SeenTypeNext DEF seen2
    <2>4. bookedSeats' = bookedSeats /\ toPricing' = toPricing
      BY <2>2
    <2>5. Waiting(toPricing') = Waiting(toPricing)
      BY <2>4, Zenon
    <2>6. PICK l \in Int, e \in Int, e2 \in Int, x \in Int, x2 \in Int, d \in Int, d2 \in Int :
             /\ l = bookedSeats + Waiting(toPricing) /\ e = elsewhere /\ e2 = elsewhere'
             /\ x = seen /\ x2 = seen2 /\ d = pricingDrift /\ d2 = pricingDrift'
      BY <1>0, <2>1, <2>2, <2>3
    <2>7. l = e + x + d /\ d2 = d + n /\ e2 + x2 = e + x - n
      BY <1>2, <2>1, <2>6, Zenon
    <2>8. l = e2 + x2 + d2
      BY <2>7
    <2>9. bookedSeats + Waiting(toPricing) = elsewhere' + seen2 + pricingDrift'
      BY <2>6, <2>8, Zenon
    <2> QED BY <1>1, <2>4, <2>5, <2>9
  <1>4. ASSUME NEW a \in announce, Announce(a) PROVE PricingInBalance'
    <2>1. PICK w \in Int : w = Weight(a.available)
      BY <1>4, AnnounceReaches, WeightType
    <2>2. seen2 = seen + w
      BY <1>0, <1>4, <2>1, AnnounceReaches DEF Accounted, seen, seen2
    <2>3. UNCHANGED <<elsewhere, bookedSeats>> /\ a.available \in BOOLEAN
      BY <1>4, AnnounceReaches DEF countVars
    <2>4. CASE toPricing' = OneMore(toPricing, a.available) /\ pricingDrift' = pricingDrift
      <3>1. Waiting(toPricing') = Waiting(toPricing) + w
        BY <1>0, <2>1, <2>3, <2>4, QueueWeights
      <3> QED BY <1>0, <1>1, <1>2, <2>2, <2>3, <2>4, <3>1
    <2>5. CASE toPricing' = toPricing /\ pricingDrift' = pricingDrift - w
      BY <1>0, <1>1, <1>2, <2>2, <2>3, <2>5
    <2> QED BY <1>4, <2>1, <2>4, <2>5, AnnounceReaches
  <1>5. ASSUME NEW available \in BOOLEAN,
               \/ PricingHandles(available) \/ PricingSkips(available)
               \/ PricingUnanswered(available) \/ PricingStops(available)
        PROVE  PricingInBalance'
    <2>1. /\ bookedSeats' \in Nat /\ toPricing' \in [BOOLEAN -> Nat] /\ pricingDrift' \in Int
          /\ bookedSeats' + Waiting(toPricing') - pricingDrift'
                = bookedSeats + Waiting(toPricing) - pricingDrift
          /\ UNCHANGED <<seatVars, elsewhere>>
      BY <1>5, PricingAccounts
    <2>2. PICK q : q = toPricing'
      OBVIOUS
    <2>3. Waiting(toPricing') \in Int
      BY <2>1, <2>2, QueueWeights
    <2>4. seen2 = seen
      BY <2>1 DEF seen, seen2, seatVars
    <2> QED BY <1>0, <1>1, <1>2, <2>1, <2>3, <2>4
  <1>6. ASSUME UNCHANGED <<seatVars, elsewhere, bookedSeats, toPricing, pricingDrift>>
        PROVE  PricingInBalance'
    <2>1. seen2 = seen
      BY <1>6 DEF seen, seen2, seatVars
    <2> QED BY <1>1, <1>2, <1>6, <2>1
  <1>7. ASSUME NEW available \in BOOLEAN,
               SearchCounts(available) \/ SearchSkips(available) \/ SearchStops(available)
        PROVE  PricingInBalance'
    BY <1>6, <1>7, SearchAccounts
  <1>8. ASSUME NEW i \in DOMAIN updates, SearchPrices(i) \/ SearchPriceFails(i)
        PROVE  PricingInBalance'
    BY <1>6, <1>8, SearchPriceTypes DEF countVars, queueVars, driftVars
  <1>9. CASE UNCHANGED vars
    BY <1>6, <1>9 DEF vars, countVars, queueVars, driftVars
  <1> QED BY <1>3, <1>4, <1>5, <1>7, <1>8, <1>9 DEF Next, RowEvent

LEMMA NextSearch == TypeOK /\ SweepsApart /\ SearchInBalance /\ [Next]_vars => SearchInBalance'
  <1> SUFFICES ASSUME TypeOK, SweepsApart, SearchInBalance, [Next]_vars PROVE SearchInBalance'
    OBVIOUS
  <1> DEFINE seen == Seen(status, sweep, announce)
             seen2 == Seen(status', sweep', announce')
  <1>0. /\ availableSeats \in Nat /\ searchDrift \in Int /\ elsewhere \in Nat /\ seen \in Int
        /\ toSearch \in [BOOLEAN -> Nat] /\ Waiting(toSearch) \in Int /\ totalSeats \in Nat
    BY SeenType, QueueWeights DEF TypeOK
  <1>1. ASSUME totalSeats - availableSeats' + Waiting(toSearch') = elsewhere' + seen2 + searchDrift'
        PROVE  SearchInBalance'
    BY <1>1 DEF SearchInBalance
  <1>2. totalSeats - availableSeats + Waiting(toSearch) = elsewhere + seen + searchDrift
    BY DEF SearchInBalance
  <1> HIDE DEF seen, seen2
  <1>3. CASE RowEvent
    <2>1. PICK n \in Int : /\ searchDrift' = searchDrift + n
                           /\ elsewhere' + seen2 = elsewhere + seen - n
      BY <1>3, RowEventAccounts DEF seen, seen2
    <2>2. SweepsApart' /\ elsewhere' \in Nat /\ UNCHANGED <<availableSeats, toSearch>>
      BY <1>3, RowEventSweeps, RowEventAccounts DEF countVars, queueVars
    <2>3. seen2 \in Int
      BY <2>2, SeenTypeNext DEF seen2
    <2>4. availableSeats' = availableSeats /\ toSearch' = toSearch
      BY <2>2
    <2>5. Waiting(toSearch') = Waiting(toSearch)
      BY <2>4, Zenon
    <2>6. PICK l \in Int, e \in Int, e2 \in Int, x \in Int, x2 \in Int, d \in Int, d2 \in Int :
             /\ l = totalSeats - availableSeats + Waiting(toSearch) /\ e = elsewhere /\ e2 = elsewhere'
             /\ x = seen /\ x2 = seen2 /\ d = searchDrift /\ d2 = searchDrift'
      BY <1>0, <2>1, <2>2, <2>3
    <2>7. l = e + x + d /\ d2 = d + n /\ e2 + x2 = e + x - n
      BY <1>2, <2>1, <2>6, Zenon
    <2>8. l = e2 + x2 + d2
      BY <2>7
    <2>9. totalSeats - availableSeats + Waiting(toSearch) = elsewhere' + seen2 + searchDrift'
      BY <2>6, <2>8, Zenon
    <2> QED BY <1>1, <2>4, <2>5, <2>9
  <1>4. ASSUME NEW a \in announce, Announce(a) PROVE SearchInBalance'
    <2>1. PICK w \in Int : w = Weight(a.available)
      BY <1>4, AnnounceReaches, WeightType
    <2>2. seen2 = seen + w
      BY <1>0, <1>4, <2>1, AnnounceReaches DEF Accounted, seen, seen2
    <2>3. UNCHANGED <<elsewhere, availableSeats>> /\ a.available \in BOOLEAN
      BY <1>4, AnnounceReaches DEF countVars
    <2>4. CASE toSearch' = OneMore(toSearch, a.available) /\ searchDrift' = searchDrift
      <3>1. Waiting(toSearch') = Waiting(toSearch) + w
        BY <1>0, <2>1, <2>3, <2>4, QueueWeights
      <3> QED BY <1>0, <1>1, <1>2, <2>2, <2>3, <2>4, <3>1
    <2>5. CASE toSearch' = toSearch /\ searchDrift' = searchDrift - w
      BY <1>0, <1>1, <1>2, <2>2, <2>3, <2>5
    <2> QED BY <1>4, <2>1, <2>4, <2>5, AnnounceReaches
  <1>5. ASSUME NEW available \in BOOLEAN,
               SearchCounts(available) \/ SearchSkips(available) \/ SearchStops(available)
        PROVE  SearchInBalance'
    <2>1. /\ availableSeats' \in Nat /\ toSearch' \in [BOOLEAN -> Nat] /\ searchDrift' \in Int
          /\ Waiting(toSearch') - availableSeats' - searchDrift'
                = Waiting(toSearch) - availableSeats - searchDrift
          /\ UNCHANGED <<seatVars, elsewhere>>
      BY <1>5, SearchAccounts
    <2>2. PICK q : q = toSearch'
      OBVIOUS
    <2>3. Waiting(toSearch') \in Int
      BY <2>1, <2>2, QueueWeights
    <2>4. seen2 = seen
      BY <2>1 DEF seen, seen2, seatVars
    <2> QED BY <1>0, <1>1, <1>2, <2>1, <2>3, <2>4
  <1>6. ASSUME UNCHANGED <<seatVars, elsewhere, availableSeats, toSearch, searchDrift>>
        PROVE  SearchInBalance'
    <2>1. seen2 = seen
      BY <1>6 DEF seen, seen2, seatVars
    <2> QED BY <1>1, <1>2, <1>6, <2>1
  <1>7. ASSUME NEW available \in BOOLEAN,
               \/ PricingHandles(available) \/ PricingSkips(available)
               \/ PricingUnanswered(available) \/ PricingStops(available)
        PROVE  SearchInBalance'
    BY <1>6, <1>7, PricingAccounts
  <1>8. ASSUME NEW i \in DOMAIN updates, SearchPrices(i) \/ SearchPriceFails(i)
        PROVE  SearchInBalance'
    BY <1>6, <1>8, SearchPriceTypes DEF countVars, queueVars, driftVars
  <1>9. CASE UNCHANGED vars
    BY <1>6, <1>9 DEF vars, countVars, queueVars, driftVars
  <1> QED BY <1>3, <1>4, <1>5, <1>7, <1>8, <1>9 DEF Next, RowEvent

-----------------------------------------------------------------------------
(* The price that customers see                                            *)

\* A price that is not the last of a queue leaves the last one there.
LEMMA RemoveBeforeLast ==
  ASSUME NEW S, NEW s \in Seq(S), NEW i \in DOMAIN s, i # Len(s)
  PROVE  /\ RemoveAt(s, i) # <<>>
         /\ RemoveAt(s, i)[Len(RemoveAt(s, i))] = s[Len(s)]
  <1> DEFINE n == Len(s)
             u == SubSeq(s, 1, i - 1)
             v == SubSeq(s, i + 1, n)
  <1>1. n \in Nat /\ i \in 1 .. n - 1
    OBVIOUS
  <1>2. /\ u \in Seq(S) /\ Len(u) = i - 1
        /\ v \in Seq(S) /\ Len(v) = n - i /\ v[n - i] = s[n]
    <2>1. u \in Seq(S) /\ Len(u) = i - 1
      BY <1>1
    <2>2. v \in Seq(S) /\ Len(v) = n - i
      BY <1>1
    <2>3. v[n - i] = s[n]
      <3>1. \A k \in 1 .. n - i : v[k] = s[i + k]
        BY <1>1
      <3>2. n - i \in 1 .. n - i /\ i + (n - i) = n
        BY <1>1
      <3> HIDE DEF u, v, n
      <3> QED BY <3>1, <3>2
    <2> QED BY <2>1, <2>2, <2>3
  <1>3. RemoveAt(s, i) = u \o v
    BY Zenon DEF RemoveAt
  <1> HIDE DEF u, v, n
  <1>4. \A x, y \in Seq(S) : Len(y) > 0 =>
          Len(x \o y) = Len(x) + Len(y) /\ (x \o y)[Len(x) + Len(y)] = y[Len(y)]
    OBVIOUS
  <1>5. Len(u \o v) = (i - 1) + (n - i) /\ (u \o v)[Len(u \o v)] = s[n]
    <2>1. Len(v) > 0
      BY <1>1, <1>2
    <2>2. Len(u \o v) = Len(u) + Len(v) /\ (u \o v)[Len(u) + Len(v)] = v[Len(v)]
      BY <1>2, <1>4, <2>1
    <2> QED BY <1>2, <2>2
  <1>6. Len(RemoveAt(s, i)) # 0 /\ Len(<<>>) = 0
    BY <1>1, <1>3, <1>5
  <1>7. RemoveAt(s, i) # <<>>
    BY <1>6, Zenon
  <1> QED BY <1>3, <1>5, <1>7 DEF n

\* pricing-service's price is that of its count, and unless the latest price was lost,
\* the last one that is on its way, or else the one shown, is the current one.
PriceFollows ==
    /\ currentPrice = PriceAt(Multiplier(bookedSeats))
    /\ ~stale =>
          IF updates = <<>> THEN price = currentPrice ELSE updates[Len(updates)] = currentPrice

LEMMA NextPrice == TypeOK /\ SweepsApart /\ PriceFollows /\ [Next]_vars => PriceFollows'
  <1> SUFFICES ASSUME TypeOK, SweepsApart, PriceFollows, [Next]_vars PROVE PriceFollows'
    OBVIOUS
  <1>0. /\ updates \in Seq(PriceSet) /\ currentPrice \in PriceSet /\ price \in PriceSet
        /\ stale \in BOOLEAN
    BY DEF TypeOK, PriceSet
  <1>1. ASSUME UNCHANGED bookedSeats, UNCHANGED priceVars PROVE PriceFollows'
    BY <1>1 DEF priceVars, PriceFollows, PriceAt, Multiplier
  <1>2. ASSUME NEW available \in BOOLEAN, PricingHandles(available) PROVE PriceFollows'
    <2>1. currentPrice' = PriceAt(Multiplier(bookedSeats')) /\ price' = price /\ Tell(currentPrice')
      BY <1>2 DEF PricingHandles, SaveCount
    <2>2. currentPrice' \in PriceSet
      BY <1>2, PricingAccounts
    <2>3. CASE currentPrice' = currentPrice
      BY <2>1, <2>3 DEF Tell, PriceFollows
    <2>4. CASE updates' = Append(updates, currentPrice')
      <3>1. updates' # <<>> /\ updates'[Len(updates')] = currentPrice'
        BY <1>0, <2>2, <2>4
      <3> QED BY <2>1, <3>1 DEF PriceFollows
    <2>5. CASE stale'
      BY <2>1, <2>5 DEF PriceFollows
    <2> QED BY <2>1, <2>3, <2>4, <2>5 DEF Tell
  <1>3. ASSUME NEW available \in BOOLEAN, PricingUnanswered(available) \/ PricingStops(available)
        PROVE  PriceFollows'
    <2>1. /\ currentPrice' = PriceAt(Multiplier(bookedSeats')) /\ price' = price
          /\ stale' = (stale \/ currentPrice' # currentPrice) /\ UNCHANGED updates
      BY <1>3 DEF PricingUnanswered, PricingStops, SaveCount, Untold
    <2> QED BY <1>0, <2>1 DEF PriceFollows
  <1>4. ASSUME NEW available \in BOOLEAN, PricingSkips(available) PROVE PriceFollows'
    BY <1>1, <1>4 DEF PricingSkips, countVars
  <1>5. ASSUME NEW i \in DOMAIN updates, SearchPrices(i) \/ SearchPriceFails(i)
        PROVE  PriceFollows'
    <2>1. UNCHANGED <<bookedSeats, currentPrice>>
      BY <1>5, SearchPriceTypes DEF countVars
    <2>2. currentPrice' = PriceAt(Multiplier(bookedSeats'))
      BY <2>1 DEF PriceFollows
    <2>3. /\ Len(updates) \in Nat \ {0} /\ i \in 1 .. Len(updates) /\ updates # <<>>
      BY <1>0
    <2>4. ASSUME ~stale'
          PROVE  IF updates' = <<>> THEN price' = currentPrice'
                                    ELSE updates'[Len(updates')] = currentPrice'
      <3>1. ~stale
        BY <1>0, <1>5, <2>4 DEF SearchPrices, SearchPriceFails
      <3>2. updates[Len(updates)] = currentPrice
        BY <2>3, <3>1 DEF PriceFollows
      <3>3. CASE updates' = updates
        BY <2>1, <2>3, <3>2, <3>3
      <3>4. CASE updates' = RemoveAt(updates, i) /\ i # Len(updates)
        <4>1. updates' # <<>> /\ updates'[Len(updates')] = updates[Len(updates)]
          BY <1>0, <3>4, RemoveBeforeLast
        <4> QED BY <2>1, <3>2, <4>1
      <3>5. CASE /\ updates' = RemoveAt(updates, i) /\ price' = updates[i]
                 /\ i = Len(updates) /\ Len(updates) = 1
        <4>1. updates' \in Seq(PriceSet) /\ Len(updates') = 0
          BY <1>0, <2>3, <3>5, RemoveAtType
        <4>2. updates' = <<>>
          BY <4>1
        <4> QED BY <2>1, <3>2, <3>5, <4>2
      <3>6. \/ updates' = updates
            \/ updates' = RemoveAt(updates, i) /\ i # Len(updates)
            \/ /\ updates' = RemoveAt(updates, i) /\ price' = updates[i]
               /\ i = Len(updates) /\ Len(updates) = 1
        <4>1. CASE SearchPrices(i)
          <5>1. updates' = RemoveAt(updates, i) /\ price' = updates[i]
                /\ stale' = (stale \/ (i = Len(updates) /\ i > 1))
            BY <4>1 DEF SearchPrices
          <5>2. ~(i = Len(updates) /\ i > 1)
            BY <2>4, <5>1
          <5>3. CASE i = Len(updates)
            <6>1. Len(updates) = 1
              BY <2>3, <5>2, <5>3
            <6> QED BY <5>1, <5>3, <6>1
          <5> QED BY <5>1, <5>3
        <4>2. CASE SearchPriceFails(i)
          <5>1. \/ updates' = RemoveAt(updates, i) /\ stale' = (stale \/ i = Len(updates))
                \/ updates' = updates
            BY <4>2 DEF SearchPriceFails
          <5> QED BY <2>4, <5>1
        <4> QED BY <1>5, <4>1, <4>2
      <3> QED BY <3>3, <3>4, <3>5, <3>6
    <2> QED BY <2>2, <2>4 DEF PriceFollows
  <1>6. ASSUME RowEvent PROVE PriceFollows'
    BY <1>1, <1>6, RowEventAccounts DEF countVars
  <1>7. ASSUME NEW a \in announce, Announce(a) PROVE PriceFollows'
    BY <1>1, <1>7 DEF Announce, countVars
  <1>8. ASSUME NEW available \in BOOLEAN,
               SearchCounts(available) \/ SearchSkips(available) \/ SearchStops(available)
        PROVE  PriceFollows'
    BY <1>1, <1>8, SearchAccounts
  <1>9. CASE UNCHANGED vars
    BY <1>1, <1>9 DEF vars, countVars
  <1> QED BY <1>2, <1>3, <1>4, <1>5, <1>6, <1>7, <1>8, <1>9 DEF Next, RowEvent

\* Whole percents, rounded down, reach a tier's lower bound exactly when the seats do.
LEMMA PercentBound ==
  ASSUME NEW taken \in Nat, NEW n \in Nat \ {0}, NEW bound \in Nat
  PROVE  (taken * 100) \div n >= bound <=> taken * 100 >= n * bound
  <1> DEFINE x == taken * 100
             d == x \div n
  <1>1. x \in Nat /\ d \in Int /\ n * d <= x /\ x < n * (d + 1)
    OBVIOUS
  <1> HIDE DEF d, x
  <1>2. \A a, b \in Int : a <= b => n * a <= n * b
    <2>1. TAKE a \in Int, b \in Int
    <2>2. HAVE a <= b
    <2>3. n * (b - a) >= 0
      BY <2>2
    <2>4. n * (b - a) = n * b - n * a
      OBVIOUS
    <2> QED BY <2>3, <2>4
  <1>3. ASSUME d >= bound PROVE x >= n * bound
    BY <1>1, <1>2, <1>3
  <1>4. ASSUME d < bound PROVE x < n * bound
    <2>1. d + 1 <= bound
      BY <1>1, <1>4
    <2>2. n * (d + 1) <= n * bound /\ n * (d + 1) \in Int /\ n * bound \in Int
      BY <1>1, <1>2, <2>1
    <2> QED BY <1>1, <2>2
  <1>5. x \in Int /\ n * bound \in Int
    BY <1>1
  <1>6. d >= bound <=> x >= n * bound
    BY <1>1, <1>3, <1>4, <1>5
  <1> QED BY <1>6 DEF d, x

\* The comparison of the code, in whole percents.
LEMMA TiersAgree ==
  ASSUME NEW taken \in Nat, NEW percent, percent = (taken * 100) \div totalSeats
  PROVE  Multiplier(taken) = (CASE percent < 30 -> 10
                                [] percent \in 30..59 -> 12
                                [] percent \in 60..79 -> 15
                                [] percent >= 80 -> 20)
  <1>1. percent \in Int
    BY SeatsAssumption
  <1>2. /\ percent >= 30 <=> taken * 100 >= totalSeats * 30
        /\ percent >= 60 <=> taken * 100 >= totalSeats * 60
        /\ percent >= 80 <=> taken * 100 >= totalSeats * 80
    BY PercentBound, SeatsAssumption
  <1>3. /\ percent >= 30 <=> taken * 10 >= totalSeats * 3
        /\ percent >= 60 <=> taken * 10 >= totalSeats * 6
        /\ percent >= 80 <=> taken * 10 >= totalSeats * 8
    BY <1>2, SeatsAssumption
  <1>4. CASE percent < 30
    BY <1>1, <1>3, <1>4, SeatsAssumption DEF Multiplier
  <1>5. CASE percent \in 30 .. 59
    BY <1>1, <1>3, <1>5, SeatsAssumption DEF Multiplier
  <1>6. CASE percent \in 60 .. 79
    BY <1>1, <1>3, <1>6, SeatsAssumption DEF Multiplier
  <1>7. CASE percent >= 80
    BY <1>1, <1>3, <1>7, SeatsAssumption DEF Multiplier
  <1> QED BY <1>1, <1>4, <1>5, <1>6, <1>7

-----------------------------------------------------------------------------
(* The theorems                                                            *)

IInv == TypeOK /\ SweepsApart /\ PricingInBalance /\ SearchInBalance /\ PriceFollows

LEMMA InitIInv == Init => IInv
  <1> SUFFICES ASSUME Init PROVE IInv
    OBVIOUS
  <1>1. TypeOK /\ SweepsApart
    BY InitTypes, InitSweeps
  <1>2. /\ TakenSet(status) = {} /\ Unsaid(sweep) = {}
        /\ SaidFree(announce) = {} /\ SaidTaken(announce) = {}
    BY DEF Init, SeatsInit, TakenSet, SaidFree, SaidTaken, Unsaid, NoSweep
  <1>3. Seen(status, sweep, announce) = 0
    BY <1>2, FS_EmptySet DEF Seen
  <1>4. Waiting(toPricing) = 0 /\ Waiting(toSearch) = 0
    BY DEF Init, Waiting
  <1>5. PricingInBalance /\ SearchInBalance
    BY <1>3, <1>4, FS_CardinalityType DEF Init, PricingInBalance, SearchInBalance
  <1>6. PriceFollows
    BY DEF Init, PriceFollows
  <1> QED BY <1>1, <1>5, <1>6 DEF IInv

LEMMA NextIInv == IInv /\ [Next]_vars => IInv'
  BY NextTypes, NextSweeps, NextPricing, NextSearch, NextPrice DEF IInv

LEMMA Invariant == Spec => []IInv
  BY InitIInv, NextIInv, PTL DEF Spec

\* Rows, requests, announcements, queues, counts and drifts are of their types, and a
\* row has a holder exactly while it is LOCKED or BOOKED.
THEOREM FeedTyping == Spec => []TypeOK
  <1>1. IInv => TypeOK
    BY DEF IInv
  <1> QED BY <1>1, Invariant, PTL

\* Every announcement is due in a pod.
AllDue == \A a \in announce : a.pod \in Pods

LEMMA DueInPods == TypeOK => AllDue
  BY DEF TypeOK, SeatsTypeOK, Announcements, AllDue

\* What a service has still to hear, and the seats that are taken.
LEMMA OwedIsSeen ==
  ASSUME SweepsApart, AllDue, elsewhere \in Nat, NEW queue \in [BOOLEAN -> Nat]
  PROVE  /\ Owed(queue) - Waiting(queue) = TakenSeats - elsewhere - Seen(status, sweep, announce)
         /\ Owed(queue) \in Int /\ TakenSeats \in Nat
  <1>1. /\ Cardinality(TakenSet(status)) \in Nat /\ Cardinality(SaidFree(announce)) \in Nat
        /\ Cardinality(SaidTaken(announce)) \in Nat /\ Cardinality(Unsaid(sweep)) \in Nat
    BY FiniteCounts DEF SweepsApart
  <1>2. PICK t \in Nat, f \in Nat : t = queue[TRUE] /\ f = queue[FALSE]
    OBVIOUS
  <1>a. \A a \in announce : a.pod \in Pods
    BY DEF AllDue
  <1>3. DueIn(Pods) = Cardinality(SaidTaken(announce)) - Cardinality(SaidFree(announce))
                        - Cardinality(Unsaid(sweep))
    <2>1. /\ {a \in announce : a.pod \in Pods /\ ~a.available} = SaidTaken(announce)
          /\ {a \in announce : a.pod \in Pods /\ a.available} = SaidFree(announce)
      BY <1>a DEF SaidTaken, SaidFree
    <2> QED BY <2>1, Zenon DEF DueIn, Unsaid
  <1>4. TakenSeats = elsewhere + Cardinality(TakenSet(status))
    BY Zenon DEF TakenSeats, TakenSet, Taken
  <1>5. t \in Nat /\ f \in Nat
    BY <1>2
  <1>6. PICK o, w, d : o = Owed(queue) /\ w = Waiting(queue) /\ d = DueIn(Pods)
    OBVIOUS
  <1>7. o = f - t + d /\ w = f - t
    BY <1>2, <1>6, Zenon DEF Owed, Waiting
  <1>8. /\ o - w = TakenSeats - elsewhere - Seen(status, sweep, announce)
        /\ o \in Int /\ TakenSeats \in Nat
    BY <1>1, <1>3, <1>4, <1>5, <1>6, <1>7 DEF Seen
  <1> QED BY <1>6, <1>8, Zenon

\* pricing-service's count of taken seats is right but for what has still to reach it
\* and for its drift, to which only an announcement that matches no change, one that gets
\* lost, is taken by another service or is handled twice, and the floor at zero add; any
\* number of seats, pods, messages and losses, and one group or one for each service.
THEOREM PricingIsRight == Spec => []PricingBalances
  <1>1. IInv => PricingBalances
    <2> SUFFICES ASSUME IInv PROVE bookedSeats + Owed(toPricing) = TakenSeats + pricingDrift
      BY DEF PricingBalances
    <2>1. /\ bookedSeats \in Nat /\ toPricing \in [BOOLEAN -> Nat] /\ SweepsApart
          /\ elsewhere \in Nat /\ pricingDrift \in Int /\ AllDue
          /\ bookedSeats + Waiting(toPricing)
                = elsewhere + Seen(status, sweep, announce) + pricingDrift
      BY DueInPods DEF IInv, TypeOK, PricingInBalance
    <2>2. Waiting(toPricing) \in Int /\ Seen(status, sweep, announce) \in Int
      BY <2>1, QueueWeights, SeenType
    <2> QED BY <2>1, <2>2, OwedIsSeen
  <1> QED BY <1>1, Invariant, PTL

\* The same of search-service's count of free seats.
THEOREM SearchIsRight == Spec => []SearchBalances
  <1>1. IInv => SearchBalances
    <2> SUFFICES ASSUME IInv
                 PROVE  totalSeats - availableSeats + Owed(toSearch) = TakenSeats + searchDrift
      BY DEF SearchBalances
    <2>1. /\ availableSeats \in Nat /\ toSearch \in [BOOLEAN -> Nat] /\ SweepsApart
          /\ elsewhere \in Nat /\ searchDrift \in Int /\ AllDue
          /\ totalSeats - availableSeats + Waiting(toSearch)
                = elsewhere + Seen(status, sweep, announce) + searchDrift
      BY DueInPods DEF IInv, TypeOK, SearchInBalance
    <2>2. Waiting(toSearch) \in Int /\ Seen(status, sweep, announce) \in Int
      BY <2>1, QueueWeights, SeenType
    <2> QED BY <2>1, <2>2, OwedIsSeen
  <1> QED BY <1>1, Invariant, PTL

\* When all is handled and the latest price was neither lost nor replaced by an older one,
\* the price shown is that of the occupancy but for pricing-service's drift, a tier
\* starting at its lower bound; for any size of flight and whatever else went wrong.
THEOREM PriceIsRight == Spec => []PriceShownFollowsDemand
  <1>1. IInv => PriceShownFollowsDemand
    <2> SUFFICES ASSUME IInv, ~stale, SeatsQuiet,
                        \A available \in BOOLEAN : toPricing[available] = 0, updates = <<>>
                 PROVE  LET percent == ((TakenSeats + pricingDrift) * 100) \div totalSeats
                        IN price = PriceAt(CASE percent < 30 -> 10
                                             [] percent \in 30..59 -> 12
                                             [] percent \in 60..79 -> 15
                                             [] percent >= 80 -> 20)
      BY DEF PriceShownFollowsDemand
    <2>1. /\ bookedSeats \in Nat /\ toPricing \in [BOOLEAN -> Nat] /\ SweepsApart
          /\ elsewhere \in Nat /\ pricingDrift \in Int
          /\ bookedSeats + Waiting(toPricing)
                = elsewhere + Seen(status, sweep, announce) + pricingDrift
      BY DEF IInv, TypeOK, PricingInBalance
    <2>2. Waiting(toPricing) = 0
      <3>1. Waiting(toPricing) = 0 - 0
        BY Zenon DEF Waiting
      <3> QED BY <3>1
    <2>3. Cardinality(TakenSet(status)) \in Nat
      BY <2>1, FiniteCounts DEF SweepsApart
    <2>4. Seen(status, sweep, announce) = Cardinality(TakenSet(status))
      <3>1. SaidFree(announce) = {} /\ SaidTaken(announce) = {} /\ Unsaid(sweep) = {}
        BY DEF SeatsQuiet, SaidFree, SaidTaken, Unsaid, NoSweep
      <3> QED BY <2>3, <3>1, FS_EmptySet DEF Seen
    <2>5. TakenSeats = elsewhere + Cardinality(TakenSet(status))
      BY Zenon DEF TakenSeats, TakenSet, Taken
    <2>6. bookedSeats = TakenSeats + pricingDrift
      BY <2>1, <2>2, <2>3, <2>4, <2>5
    <2>7. price = PriceAt(Multiplier(TakenSeats + pricingDrift))
      BY <2>6 DEF IInv, PriceFollows
    <2>8. PICK percent : percent = ((TakenSeats + pricingDrift) * 100) \div totalSeats
      OBVIOUS
    <2>9. Multiplier(TakenSeats + pricingDrift) = (CASE percent < 30 -> 10
                                                     [] percent \in 30..59 -> 12
                                                     [] percent \in 60..79 -> 15
                                                     [] percent >= 80 -> 20)
      BY <2>1, <2>6, <2>8, TiersAgree
    <2> QED BY <2>7, <2>8, <2>9
  <1> QED BY <1>1, Invariant, PTL

=============================================================================
