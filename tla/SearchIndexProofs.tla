------------------------- MODULE SearchIndexProofs --------------------------
(***************************************************************************)
(* Theorems about SearchIndex, for any flights, pods, prices and page      *)
(* size: types, and that the seeded flights are found.                     *)
(***************************************************************************)
EXTENDS SearchIndex, FiniteSetTheorems, TLAPS

USE SearchAssumption

-----------------------------------------------------------------------------
(* Pages                                                                   *)

\* The page of the flight with so many before it.
LEMMA PageOf ==
  ASSUME NEW L \in Nat \ {0}, NEW rank \in Nat, NEW n \in Nat, rank < n
  PROVE  \E k \in 1 .. (n + L - 1) \div L : (k - 1) * L <= rank /\ rank < k * L
  <1> DEFINE q == rank \div L
             t == (n + L - 1) \div L
  <1>1. q \in Nat /\ q * L <= rank /\ rank < q * L + L
    OBVIOUS
  <1>2. t \in Nat /\ n + L - 1 < t * L + L
    OBVIOUS
  <1> HIDE DEF q, t
  <1>3. (q + 1) * L = q * L + L /\ ((q + 1) - 1) * L = q * L
    BY <1>1
  <1>4. q + 1 \in 1 .. t
    <2>1. \A a, b, c \in Nat : a <= b => a * c <= b * c
      OBVIOUS
    <2>2. t <= q => t * L <= q * L
      BY <1>1, <1>2, <2>1
    <2>3. q * L \in Nat /\ t * L \in Nat
      BY <1>1, <1>2
    <2>4. ~(t <= q)
      BY <1>1, <1>2, <2>2, <2>3
    <2> QED BY <1>1, <1>2, <2>4
  <1>5. ((q + 1) - 1) * L <= rank /\ rank < (q + 1) * L
    BY <1>1, <1>3
  <1> QED BY <1>4, <1>5 DEF t

\* A flight that matches is on a page of its search.
LEMMA MatchIsListed ==
  ASSUME IndexTypeOK, NEW r, NEW passengers, NEW f \in Matches(r, passengers),
         doc[f].price \in Nat
  PROVE  \E n \in 1 .. TotalPages(r, passengers) : f \in Page(r, passengers, n)
  <1> DEFINE found == Matches(r, passengers)
             ahead == {g \in found : Before(g, f)}
  <1>1. IsFiniteSet(found)
    BY FS_Subset DEF Matches
  <1>2. f \in Flights
    BY DEF Matches
  <1>3. ~Before(f, f)
    BY <1>2 DEF Before
  <1>4. ahead \in SUBSET found /\ ahead # found
    BY <1>3
  <1>5. /\ Cardinality(ahead) <= Cardinality(found)
        /\ Cardinality(ahead) # Cardinality(found) /\ IsFiniteSet(ahead)
    BY <1>1, <1>4, FS_Subset
  <1>6. Cardinality(ahead) \in Nat /\ Cardinality(found) \in Nat
    BY <1>1, <1>5, FS_CardinalityType
  <1>7. \E n \in 1 .. (Cardinality(found) + Limit - 1) \div Limit :
           (n - 1) * Limit <= Cardinality(ahead) /\ Cardinality(ahead) < n * Limit
    <2> DEFINE n == Cardinality(found)
               rank == Cardinality(ahead)
    <2>1. rank \in Nat /\ n \in Nat /\ rank < n /\ Limit \in Nat \ {0}
      BY <1>5, <1>6
    <2> HIDE DEF n, rank
    <2>2. \E k \in 1 .. (n + Limit - 1) \div Limit :
            (k - 1) * Limit <= rank /\ rank < k * Limit
      BY <2>1, PageOf
    <2> QED BY <2>2 DEF n, rank
  <1>8. PICK n \in 1 .. (Cardinality(found) + Limit - 1) \div Limit :
           (n - 1) * Limit <= Cardinality(ahead) /\ Cardinality(ahead) < n * Limit
    BY <1>7
  <1>9. n \in 1 .. TotalPages(r, passengers)
    BY <1>8 DEF TotalPages
  <1>10. f \in Page(r, passengers, n)
    BY <1>8 DEF Page
  <1> QED BY <1>9, <1>10

-----------------------------------------------------------------------------
(* The index                                                               *)

\* Only a service that writes between DELETE and PUT, or before there is an index, makes
\* Elasticsearch guess, or the script whose PUT had no effect; otherwise the script keeps
\* the index and fills it.
IndexKept ==
    /\ ~intruded /\ ~unwritten => index # "guessed"
    /\ script \in {"inserting", "done"} /\ ~unwritten => index # "absent"
    /\ script \in {"idle", "deleted"} => left = Flights
    /\ script = "done" => left = {}

\* A document that is full has its numbers, and the inserted ones are full.
DocsKept ==
    /\ \A f \in Flights : doc[f].full => doc[f].seats \in Nat /\ doc[f].price \in Nat
    /\ ~unwritten => \A f \in Flights \ left : doc[f].full

IndexInv == IndexTypeOK /\ IndexKept /\ DocsKept

LEMMA InitIndex == IndexInit => IndexInv
  <1> SUFFICES ASSUME IndexInit PROVE IndexInv
    OBVIOUS
  <1>1. NoDoc \in Docs /\ ~NoDoc.full
    BY DEF NoDoc, Docs
  <1>2. IndexKept
    BY DEF IndexInit, IndexKept
  <1>3. doc \in [Flights -> Docs] /\ updates \in 0 .. MaxUpdates
    BY <1>1 DEF IndexInit
  <1>4. boot \in [SearchPods -> {"down", "creating", "up"}]
    BY DEF IndexInit
  <1>5. IndexTypeOK
    BY <1>3, <1>4 DEF IndexInit, IndexTypeOK
  <1>6. DocsKept
    BY <1>1 DEF IndexInit, DocsKept
  <1> QED BY <1>2, <1>5, <1>6 DEF IndexInv

LEMMA FullType ==
  ASSUME NEW f \in Flights
  PROVE  /\ Full(f) \in Docs /\ Full(f).full
         /\ Full(f).seats \in Nat /\ Full(f).price \in Nat
  BY DEF Full, Docs

\* A write that keeps a full document full keeps the invariant.
LEMMA WriteKeeps ==
  ASSUME IndexInv, NEW f \in Flights, NEW d \in Docs, Write(f, d),
         doc[f].full => d.full,
         d.full => d.seats \in Nat /\ d.price \in Nat
  PROVE  IndexInv'
  <1> USE DEF IndexInv
  <1>1. doc' = [doc EXCEPT ![f] = d] /\ doc \in [Flights -> Docs]
    BY DEF Write, IndexTypeOK
  <1>2. index' # "absent" /\ index' \in {"absent", "mapped", "guessed"}
    BY DEF Write, IndexTypeOK
  <1>3. updates' \in 0 .. MaxUpdates
    BY DEF Write, IndexTypeOK
  <1>4. IndexTypeOK'
    BY <1>1, <1>2, <1>3 DEF Write, IndexTypeOK
  <1>5. IndexKept'
    BY <1>2 DEF Write, IndexTypeOK, IndexKept
  <1>6. DocsKept'
    BY <1>1 DEF Write, DocsKept
  <1> QED BY <1>4, <1>5, <1>6

LEMMA PodKeeps ==
  ASSUME IndexInv, NEW p \in SearchPods, CheckIndex(p) \/ CreateIndex(p)
  PROVE  IndexInv'
  <1> USE DEF IndexInv
  <1>1. UNCHANGED <<doc, script, left, updates, intruded, unwritten>>
    BY DEF CheckIndex, CreateIndex
  <1>2. /\ index' = index \/ (index = "absent" /\ index' = "mapped")
        /\ boot' \in [SearchPods -> {"down", "creating", "up"}]
    BY DEF CheckIndex, CreateIndex, IndexTypeOK
  <1> QED BY <1>1, <1>2 DEF IndexTypeOK, IndexKept, DocsKept

LEMMA ScriptKeeps ==
  ASSUME IndexInv, ScriptStep
  PROVE  IndexInv'
  <1> USE DEF IndexInv
  <1>1. CASE DeleteIndex
    <2>1. NoDoc \in Docs /\ ~NoDoc.full
      BY DEF NoDoc, Docs
    <2>2. CASE index' = "absent" /\ doc' = [f \in Flights |-> NoDoc]
      <3>1. IndexTypeOK'
        BY <1>1, <2>1, <2>2 DEF DeleteIndex, IndexTypeOK
      <3>2. left = Flights
        BY <1>1 DEF DeleteIndex, IndexKept
      <3> QED BY <1>1, <2>1, <2>2, <3>1, <3>2 DEF DeleteIndex, IndexKept, DocsKept
    <2>3. CASE UNCHANGED <<index, doc>>
      <3>1. IndexTypeOK'
        BY <1>1, <2>3 DEF DeleteIndex, IndexTypeOK
      <3> QED BY <1>1, <2>3, <3>1 DEF DeleteIndex, IndexKept, DocsKept
    <2> QED BY <1>1, <2>2, <2>3 DEF DeleteIndex
  <1>2. CASE PutIndex
    <2>1. UNCHANGED <<doc, boot, left, updates, intruded>> /\ script' = "inserting"
      BY <1>2 DEF PutIndex
    <2>2. \/ index' = (IF index = "absent" THEN "mapped" ELSE index) /\ unwritten' = unwritten
          \/ unwritten' = TRUE /\ index' = index
      BY <1>2 DEF PutIndex
    <2>3. IndexTypeOK'
      BY <2>1, <2>2 DEF IndexTypeOK
    <2> QED BY <2>1, <2>2, <2>3 DEF IndexTypeOK, IndexKept, DocsKept
  <1>3. ASSUME NEW f \in Flights, BulkInsert(f) PROVE IndexInv'
    <2>1. /\ doc \in [Flights -> Docs]
          /\ script' \in {"inserting", "done"} /\ left' = left \ {f}
          /\ script' = "done" => left' = {}
          /\ UNCHANGED <<boot, updates, intruded>> /\ script = "inserting"
      BY <1>3 DEF BulkInsert, IndexTypeOK
    <2>2. CASE /\ doc' = [doc EXCEPT ![f] = Full(f)] /\ UNCHANGED unwritten
               /\ index' = IF index = "absent" THEN "guessed" ELSE index
      <3>1. IndexTypeOK'
        BY <2>1, <2>2, FullType DEF IndexTypeOK
      <3>2. IndexKept'
        BY <2>1, <2>2 DEF IndexKept
      <3>3. DocsKept'
        BY <2>1, <2>2, FullType DEF DocsKept
      <3> QED BY <3>1, <3>2, <3>3
    <2>3. CASE unwritten' = TRUE /\ UNCHANGED <<doc, index>>
      <3>1. IndexTypeOK'
        BY <2>1, <2>3 DEF IndexTypeOK
      <3> QED BY <2>1, <2>3, <3>1 DEF IndexKept, DocsKept
    <2> QED BY <1>3, <2>2, <2>3 DEF BulkInsert
  <1> QED BY <1>1, <1>2, <1>3 DEF ScriptStep

LEMMA NextIndex == IndexInv /\ [IndexNext]_indexVars => IndexInv'
  <1> SUFFICES ASSUME IndexInv, [IndexNext]_indexVars PROVE IndexInv'
    OBVIOUS
  <1>0. doc \in [Flights -> Docs]
    BY DEF IndexInv, IndexTypeOK
  <1>1. ASSUME NEW p \in SearchPods, PodStarts(p) PROVE IndexInv'
    BY <1>1, PodKeeps DEF PodStarts
  <1>2. CASE ScriptStep
    BY <1>2, ScriptKeeps
  <1>3. ASSUME NEW f \in Flights, UpsertFlight(f) PROVE IndexInv'
    BY <1>3, FullType, WriteKeeps DEF UpsertFlight
  <1>4. ASSUME NEW f \in Flights, NEW delta \in {1, -1}, UpdateAvailableSeats(f, delta)
        PROVE  IndexInv'
    <2> DEFINE Floor(n) == IF n < 0 THEN 0 ELSE n
               seats == IF doc[f] = NoDoc THEN Floor(delta)
                        ELSE IF doc[f].seats = NoValue THEN NoValue
                        ELSE Floor(doc[f].seats + delta)
               d == [doc[f] EXCEPT !.seats = seats]
    <2>1. doc[f] \in Docs /\ Write(f, d)
      BY <1>0, <1>4 DEF UpdateAvailableSeats
    <2>2. doc[f].seats \in Nat \cup {NoValue} /\ (doc[f].full => doc[f].seats \in Nat)
      BY <2>1 DEF Docs, IndexInv, DocsKept
    <2>3. doc[f].full => doc[f] # NoDoc
      BY DEF NoDoc
    <2>4. seats \in Nat \cup {NoValue} /\ (doc[f].full => seats \in Nat)
      BY <2>2, <2>3
    <2> HIDE DEF seats
    <2>5. d \in Docs /\ d.full = doc[f].full /\ d.seats = seats /\ d.price = doc[f].price
      BY <2>1, <2>4 DEF Docs
    <2> QED BY <2>1, <2>4, <2>5, WriteKeeps DEF IndexInv, DocsKept
  <1>5. ASSUME NEW f \in Flights, NEW price \in Prices, UpdatePrice(f, price) PROVE IndexInv'
    <2> DEFINE d == [doc[f] EXCEPT !.price = price]
    <2>1. doc[f] \in Docs /\ Write(f, d) /\ price \in Nat
      BY <1>0, <1>5 DEF UpdatePrice
    <2>2. d \in Docs /\ d.full = doc[f].full /\ d.seats = doc[f].seats /\ d.price = price
      BY <2>1 DEF Docs
    <2> QED BY <2>1, <2>2, WriteKeeps DEF IndexInv, DocsKept
  <1>6. CASE UNCHANGED indexVars
    BY <1>6 DEF indexVars, IndexInv, IndexTypeOK, IndexKept, DocsKept
  <1> QED BY <1>1, <1>2, <1>3, <1>4, <1>5, <1>6 DEF IndexNext

LEMMA IndexInvImplies == IndexInv => SeededIsFound
  <1> SUFFICES ASSUME IndexInv, script = "done", ~intruded, ~unwritten, NEW f \in Flights, doc[f].seats # 0
               PROVE  \E n \in 1 .. TotalPages(RouteOf[f], 1) : f \in Page(RouteOf[f], 1, n)
    BY DEF SeededIsFound
  <1>1. index = "mapped" /\ left = {}
    BY DEF IndexInv, IndexTypeOK, IndexKept
  <1>2. doc[f].full /\ doc[f].seats \in Nat /\ doc[f].price \in Nat
    BY <1>1 DEF IndexInv, DocsKept
  <1>3. f \in Matches(RouteOf[f], 1)
    BY <1>1, <1>2 DEF Matches
  <1> QED BY <1>2, <1>3, MatchIsListed DEF IndexInv

\* Whatever starting pods, messages and the script do to the index, after the script every
\* flight that has a free seat is on a page of the search for its route, unless a service
\* wrote while there was no index, or a request of the script had no effect.
THEOREM SeededFlightsAreFound == IndexInit /\ [][IndexNext]_indexVars => []SeededIsFound
  BY InitIndex, NextIndex, IndexInvImplies, PTL

=============================================================================
