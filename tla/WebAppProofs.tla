---------------------------- MODULE WebAppProofs ----------------------------
(***************************************************************************)
(* Theorems about WebApp, for any flights, seats, slots and bounds: types, *)
(* the number above the list, one booking per visit of BookPage, and that  *)
(* the last screen of BookPage tells the truth.                            *)
(***************************************************************************)
EXTENDS WebApp, SearchIndexProofs

USE SearchAssumption, WebAssumption

-----------------------------------------------------------------------------
(* The inductive invariant                                                 *)

\* The records of the pages ...
Statuses == InProgress \cup Settled \cup {"NONE"}
SearchStates ==
    [page : Nat, shown : Nat, pages : Nat, list : SUBSET Flights, loading : BOOLEAN, error : BOOLEAN]
BookStates ==
    [step : {"form", "seats", "confirm", "done", "error"}, seat : Seats \cup {<<>>},
     free : SUBSET Seats, loading : BOOLEAN, id : Ids]
Records == [status : Statuses, label : Labels \cup {<<>>}, queued : BOOLEAN]
TrackStates ==
    [id : Ids, shown : {<<>>} \cup (Ids \X Statuses), loading : BOOLEAN, error : BOOLEAN]

\* ... and of the requests: sent, failed or answered.
Pending == {<<"sent">>, Failed}
SearchRequests ==
    [kind : {"search"}, arg : Nat, ans : Pending \cup ({"page"} \X (SUBSET Flights) \X Nat)]
SeatsRequests ==
    [kind : {"seats"}, arg : {0}, ans : Pending \cup ({"rows"} \X [Labels -> RowStatuses])]
CreateRequests ==
    [kind : {"create"}, arg : Labels, ans : Pending \cup ({"booking"} \X Made)]
GetRequests ==
    [kind : {"get"}, arg : Ids, ans : Pending \cup (Ids \X Statuses)]
Requests == {None} \cup SearchRequests \cup SeatsRequests \cup CreateRequests \cup GetRequests

PageTypes ==
    /\ route \in {"/", "/book", "/track"}
    /\ search \in SearchStates /\ book \in BookStates /\ track \in TrackStates
    /\ book.step = "confirm" => book.seat \in Seats
    /\ book.step = "done" => book.id \in Made

RequestTypes == req \in [Slots -> Requests] /\ crossed \subseteq {"search", "seats", "get"}

WorldTypes ==
    /\ row \in [Labels -> RowStatuses]
    /\ booking \in [Ids -> Records]
    /\ \A i \in Bookings : booking[i].label \in Labels
    /\ lost \in Nat /\ rivals \in Nat

\* A page that has one search in flight shows that it loads, and which page.
OneSearch ==
    "search" \notin crossed =>
        /\ \A j, k \in InFlight("search") : j = k
        /\ route = "/" =>
              \A k \in InFlight("search") : search.loading /\ req[k].arg = search.page

\* The seats are loaded before anything is booked.
SeatsFirst ==
    "seats" \notin crossed =>
        /\ \A j, k \in InFlight("seats") : j = k
        /\ InFlight("seats") # {} => route = "/book" /\ book.step = "form"

\* The visit has not booked anything yet.
Unbooked ==
    \/ route = "/"
    \/ /\ route = "/book"
       /\ book.step = "form" \/ (book.step \in {"seats", "confirm"} /\ ~book.loading)

OneCreate ==
    "seats" \notin crossed =>
        /\ Unbooked => Bookings = {} /\ InFlight("create") = {}
        /\ \A j, k \in InFlight("create") : j = k
        /\ \A k \in InFlight("create") : req[k].ans = <<"sent">> => Bookings = {}
        /\ \A i, j \in Bookings : i = j

\* What the page has been told.
ToldOfBooking ==
    /\ \A k \in InFlight("create") : req[k].ans \notin Pending => req[k].ans[2] \in Bookings
    /\ book.step = "done" => book.id \in Bookings

ToldOfFailure ==
    "seats" \notin crossed /\ lost = 0 =>
        /\ book.step = "error" => Bookings = {} /\ InFlight("create") = {}
        /\ \A k \in InFlight("create") : req[k].ans = Failed => Bookings = {}
        /\ \A k \in InFlight("seats") : req[k].ans # Failed

TypeInv == IndexInv /\ PageTypes /\ RequestTypes /\ WorldTypes

SearchInv == OneSearch /\ PageListedIsPageNamed

BookInv == SeatsFirst /\ OneCreate /\ ToldOfBooking /\ ToldOfFailure

-----------------------------------------------------------------------------
(* Requests                                                                *)

\* What a request in flight may become in a step: requests of a kind are not more
\* than before, or are as before.
Fewer(kind) ==
    \A k \in Slots : req'[k].kind = kind => req[k].kind = kind /\ req'[k].arg = req[k].arg

Kept(kind) ==
    \A k \in Slots : req'[k].kind = kind => req[k].kind = kind /\ req'[k] = req[k]

LEMMA KeptIsFewer ==
  ASSUME NEW kind, Kept(kind)
  PROVE  Fewer(kind)
  BY DEF Kept, Fewer

\* The kind of a request says what it is.
LEMMA OfKind ==
  ASSUME RequestTypes, NEW k \in Slots
  PROVE  /\ req[k].kind = "search" => req[k] \in SearchRequests
         /\ req[k].kind = "seats" => req[k] \in SeatsRequests
         /\ req[k].kind = "create" => req[k] \in CreateRequests
         /\ req[k].kind = "get" => req[k] \in GetRequests
         /\ req[k] = None <=> req[k].kind = "none"
  <1>1. req[k] \in Requests
    BY DEF RequestTypes
  <1> QED BY <1>1 DEF Requests, SearchRequests, SeatsRequests, CreateRequests, GetRequests, None

\* Send: one slot more is taken, the others are left alone.
LEMMA SendTakes ==
  ASSUME RequestTypes, NEW kind, NEW arg, kind # "none", Send(kind, arg)
  PROVE  \E k \in Slots :
            /\ req[k].kind = "none" /\ req'[k] = Sent(kind, arg)
            /\ \A j \in Slots : j # k => req'[j] = req[j]
            /\ req' = [req EXCEPT ![k] = Sent(kind, arg)]
  <1>1. PICK k \in Free : req' = [req EXCEPT ![k] = Sent(kind, arg)]
    BY DEF Send
  <1>2. k \in Slots /\ req[k].kind = "none"
    BY <1>1, OfKind DEF Free
  <1>3. req'[k] = Sent(kind, arg) /\ \A j \in Slots : j # k => req'[j] = req[j]
    BY <1>1, <1>2 DEF RequestTypes
  <1> QED BY <1>1, <1>2, <1>3

LEMMA SendKeeps ==
  ASSUME RequestTypes, NEW kind, NEW arg, kind # "none", Send(kind, arg), NEW other, other # kind
  PROVE  Kept(other) /\ Fewer(other) /\ crossed \subseteq crossed'
  <1>1. PICK k \in Slots :
            /\ req'[k] = Sent(kind, arg)
            /\ \A j \in Slots : j # k => req'[j] = req[j]
    BY SendTakes
  <1>2. req'[k].kind = kind
    BY <1>1 DEF Sent
  <1>3. Kept(other)
    BY <1>1, <1>2 DEF Kept
  <1>4. crossed \subseteq crossed'
    BY DEF Send
  <1> QED BY <1>3, <1>4, KeptIsFewer

LEMMA SendTypes ==
  ASSUME RequestTypes, NEW kind \in {"search", "seats", "create", "get"}, NEW arg,
         Sent(kind, arg) \in Requests, Send(kind, arg)
  PROVE  /\ RequestTypes' /\ crossed \subseteq crossed'
         /\ crossed' = IF kind # "create" /\ InFlight(kind) # {} THEN crossed \cup {kind} ELSE crossed
  <1>1. PICK k \in Slots : req' = [req EXCEPT ![k] = Sent(kind, arg)]
    BY SendTakes
  <1>2. crossed' = IF kind # "create" /\ InFlight(kind) # {} THEN crossed \cup {kind} ELSE crossed
    BY DEF Send
  <1>3. crossed' \subseteq {"search", "seats", "get"} /\ crossed \subseteq crossed'
    BY <1>2 DEF RequestTypes
  <1> QED BY <1>1, <1>2, <1>3 DEF RequestTypes

\* Answer: one request gets its answer.
LEMMA AnswerTypes ==
  ASSUME RequestTypes, NEW k \in Slots, NEW a, [req[k] EXCEPT !.ans = a] \in Requests,
         Answer(k, a), UNCHANGED crossed
  PROVE  /\ RequestTypes'
         /\ req'[k] = [req[k] EXCEPT !.ans = a]
         /\ \A j \in Slots : j # k => req'[j] = req[j]
  BY DEF Answer, RequestTypes

LEMMA AnswerKeeps ==
  ASSUME RequestTypes, NEW k \in Slots, NEW a, Answer(k, a), req[k] # None
  PROVE  /\ \A kind : Fewer(kind)
         /\ \A kind : kind # req[k].kind => Kept(kind)
         /\ req'[k].kind = req[k].kind /\ req'[k].ans = a
  <1>1. /\ req'[k] = [req[k] EXCEPT !.ans = a]
        /\ \A j \in Slots : j # k => req'[j] = req[j]
    BY DEF Answer, RequestTypes
  <1>2. req[k] \in SearchRequests \cup SeatsRequests \cup CreateRequests \cup GetRequests
    BY DEF RequestTypes, Requests
  <1>3. req'[k].kind = req[k].kind /\ req'[k].arg = req[k].arg /\ req'[k].ans = a
    BY <1>1, <1>2 DEF SearchRequests, SeatsRequests, CreateRequests, GetRequests
  <1> QED BY <1>1, <1>3 DEF Fewer, Kept

\* An answer that arrives frees its slot.
LEMMA ArrivalFrees ==
  ASSUME RequestTypes, NEW k \in Slots, NEW kind, Arrives(k, kind)
  PROVE  /\ RequestTypes' /\ crossed' = crossed
         /\ req[k].kind = kind /\ req[k].ans # <<"sent">>
         /\ req'[k] = None /\ \A j \in Slots : j # k => req'[j] = req[j]
         /\ \A other : other # "none" => Kept(other) /\ Fewer(other)
  <1>1. req' = [req EXCEPT ![k] = None] /\ crossed' = crossed
    BY DEF Arrives
  <1>2. req'[k] = None /\ \A j \in Slots : j # k => req'[j] = req[j]
    BY <1>1 DEF RequestTypes
  <1>3. None.kind = "none"
    BY DEF None
  <1>4. RequestTypes'
    BY <1>1 DEF RequestTypes, Requests
  <1> QED BY <1>1, <1>2, <1>3, <1>4 DEF Arrives, Kept, Fewer
-----------------------------------------------------------------------------
(* Types                                                                   *)

LEMMA InitTypes == Init => TypeInv
  <1> SUFFICES ASSUME Init PROVE TypeInv
    OBVIOUS
  <1>1. IndexInv
    BY InitIndex DEF Init
  <1>2. Old \in Ids /\ "CONFIRMED" \in Statuses /\ "NONE" \in Statuses
    BY DEF Ids, Statuses, Settled
  <1>3. search \in SearchStates
    BY DEF Init, SearchPage, SearchStates
  <1>4. book \in BookStates /\ book.step = "form"
    BY <1>2 DEF Init, BookPage, BookStates
  <1>5. track \in TrackStates
    BY <1>2 DEF Init, TrackPage, TrackStates
  <1>6. PageTypes
    BY <1>3, <1>4, <1>5 DEF Init, PageTypes
  <1>7. req \in [Slots -> Requests] /\ crossed = {}
    BY DEF Init, Requests
  <1>8. row \in [Labels -> RowStatuses]
    BY DEF Init, RowStatuses
  <1>9. booking \in [Ids -> Records]
    BY <1>2 DEF Init, Records
  <1>10. Bookings = {}
    BY DEF Init, Bookings, Ids, Made, Old
  <1>11. WorldTypes
    BY <1>8, <1>9, <1>10 DEF Init, WorldTypes
  <1> QED BY <1>1, <1>6, <1>7, <1>11 DEF TypeInv, RequestTypes

\* A page of a search, and the number of its pages.
LEMMA PageType ==
  ASSUME IndexInv, NEW r, NEW n
  PROVE  Page(r, 1, n) \in SUBSET Flights /\ TotalPages(r, 1) \in Nat
  <1>1. Matches(r, 1) \in SUBSET Flights
    BY DEF Matches
  <1>2. IsFiniteSet(Matches(r, 1))
    BY <1>1, FS_Subset
  <1>3. Cardinality(Matches(r, 1)) \in Nat
    BY <1>2, FS_CardinalityType
  <1>4. ASSUME NEW c \in Nat PROVE (c + Limit - 1) \div Limit \in Nat
    OBVIOUS
  <1>5. TotalPages(r, 1) \in Nat
    BY <1>3, <1>4 DEF TotalPages
  <1> QED BY <1>1, <1>5 DEF Page

\* What the pages of the application leave alone.
LEMMA WorldKept ==
  ASSUME WorldTypes, UNCHANGED <<row, booking, lost, rivals>>
  PROVE  WorldTypes' /\ Bookings' = Bookings
  BY DEF WorldTypes, Bookings

LEMMA IndexKeptAsIs ==
  ASSUME IndexInv, UNCHANGED indexVars
  PROVE  IndexInv'
  BY NextIndex

LEMMA AskPageTypes ==
  ASSUME TypeInv, NEW n \in Nat, AskPage(n)
  PROVE  TypeInv'
  <1> USE DEF TypeInv
  <1>1. Sent("search", n) \in Requests
    BY DEF Sent, Requests, SearchRequests, Pending
  <1>2. RequestTypes'
    BY <1>1, SendTypes DEF AskPage
  <1>3. search' \in SearchStates
    BY DEF AskPage, PageTypes, SearchStates
  <1>4. PageTypes'
    BY <1>3 DEF AskPage, PageTypes
  <1> QED BY <1>2, <1>4, WorldKept, IndexKeptAsIs DEF AskPage, world

LEMMA SearchStepTypes ==
  ASSUME TypeInv, SearchStep
  PROVE  TypeInv'
  <1>1. search.page \in Nat
    BY DEF TypeInv, PageTypes, SearchStates
  <1>2. CASE HandleSearch
    BY <1>2, AskPageTypes DEF HandleSearch
  <1>3. CASE PrevPage
    <2>1. search.page - 1 \in Nat
      BY <1>1, <1>3 DEF PrevPage
    <2> QED BY <1>3, <2>1, AskPageTypes DEF PrevPage
  <1>4. CASE NextPage
    <2>1. search.page + 1 \in Nat
      BY <1>1
    <2> QED BY <1>4, <2>1, AskPageTypes DEF NextPage
  <1>5. CASE RefuseSameAirport \/ SelectFlight
    <2>1. search' \in SearchStates /\ route' \in {"/", "/book", "/track"}
      <3>1. search \in SearchStates /\ route \in {"/", "/book", "/track"}
        BY DEF TypeInv, PageTypes
      <3>2. [search EXCEPT !.error = TRUE] \in SearchStates /\ SearchPage \in SearchStates
        BY <3>1 DEF SearchStates, SearchPage
      <3> QED BY <1>5, <3>1, <3>2 DEF RefuseSameAirport, SelectFlight
    <2>2. UNCHANGED <<indexVars, book, track, req, world, crossed>>
      BY <1>5 DEF RefuseSameAirport, SelectFlight
    <2>3. PageTypes'
      BY <2>1, <2>2 DEF TypeInv, PageTypes
    <2>4. RequestTypes'
      BY <2>2 DEF TypeInv, RequestTypes
    <2> QED BY <2>2, <2>3, <2>4, WorldKept, IndexKeptAsIs DEF TypeInv, world
  <1> QED BY <1>2, <1>3, <1>4, <1>5 DEF SearchStep

LEMMA BookStepTypes ==
  ASSUME TypeInv, BookStep
  PROVE  TypeInv'
  <1> USE DEF TypeInv
  <1>1. UNCHANGED <<indexVars, route, search, track, world>>
    BY DEF BookStep, LoadSeats, PickSeat, BackToSeats, HandleBook
  <1> DEFINE BookIsTyped == /\ book' \in BookStates /\ book'.step # "done"
                            /\ (book'.step = "confirm" => book'.seat \in Seats)
  <1>2. BookIsTyped
    <2>1. book \in BookStates /\ (book.step = "confirm" => book.seat \in Seats)
      BY DEF PageTypes
    <2>2. ASSUME NEW s \in Seats, PickSeat(s) PROVE BookIsTyped
      BY <2>1, <2>2 DEF PickSeat, BookStates
    <2>3. ASSUME LoadSeats \/ BackToSeats \/ HandleBook PROVE BookIsTyped
      BY <2>1, <2>3 DEF LoadSeats, BackToSeats, HandleBook, BookStates
    <2> QED BY <2>2, <2>3 DEF BookStep
  <1>3. PageTypes'
    BY <1>1, <1>2 DEF PageTypes
  <1>4. CASE LoadSeats
    <2>1. Sent("seats", 0) \in Requests
      BY DEF Sent, Requests, SeatsRequests, Pending
    <2>2. RequestTypes'
      BY <1>4, <2>1, SendTypes DEF LoadSeats
    <2> QED BY <1>1, <1>3, <2>2, WorldKept, IndexKeptAsIs DEF world
  <1>5. CASE HandleBook
    <2>1. PageLabel(book.seat) \in Labels
      BY <1>5 DEF HandleBook, PageTypes, PageLabel, SeedLabel, Labels
    <2>2. Sent("create", PageLabel(book.seat)) \in Requests
      BY <2>1 DEF Sent, Requests, CreateRequests, Pending
    <2>3. RequestTypes'
      BY <1>5, <2>2, SendTypes DEF HandleBook
    <2> QED BY <1>1, <1>3, <2>3, WorldKept, IndexKeptAsIs DEF world
  <1>6. CASE BackToSeats \/ \E s \in Seats : PickSeat(s)
    <2>1. UNCHANGED <<req, crossed>>
      BY <1>6 DEF BackToSeats, PickSeat
    <2>2. RequestTypes'
      BY <2>1 DEF RequestTypes
    <2> QED BY <1>1, <1>3, <2>2, WorldKept, IndexKeptAsIs DEF world
  <1> QED BY <1>4, <1>5, <1>6 DEF BookStep

\* A request that is answered, or whose connection breaks, is still a request.
LEMMA AnsweredIsRequest ==
  ASSUME TypeInv, NEW k \in Slots
  PROVE  /\ req[k] # None => [req[k] EXCEPT !.ans = Failed] \in Requests
         /\ req[k].kind = "search" =>
               \A a \in {"page"} \X (SUBSET Flights) \X Nat : [req[k] EXCEPT !.ans = a] \in Requests
         /\ req[k].kind = "seats" =>
               \A a \in {"rows"} \X [Labels -> RowStatuses] : [req[k] EXCEPT !.ans = a] \in Requests
         /\ req[k].kind = "create" =>
               \A a \in {"booking"} \X Made : [req[k] EXCEPT !.ans = a] \in Requests
         /\ req[k].kind = "get" =>
               \A a \in Ids \X Statuses : [req[k] EXCEPT !.ans = a] \in Requests
  <1>1. RequestTypes
    BY DEF TypeInv
  <1>2. Failed \in Pending
    BY DEF Pending
  <1>3. ASSUME req[k] \in SearchRequests, NEW a \in Pending \cup ({"page"} \X (SUBSET Flights) \X Nat)
        PROVE  [req[k] EXCEPT !.ans = a] \in Requests
    BY <1>3 DEF SearchRequests, Requests
  <1>4. ASSUME req[k] \in SeatsRequests, NEW a \in Pending \cup ({"rows"} \X [Labels -> RowStatuses])
        PROVE  [req[k] EXCEPT !.ans = a] \in Requests
    BY <1>4 DEF SeatsRequests, Requests
  <1>5. ASSUME req[k] \in CreateRequests, NEW a \in Pending \cup ({"booking"} \X Made)
        PROVE  [req[k] EXCEPT !.ans = a] \in Requests
    BY <1>5 DEF CreateRequests, Requests
  <1>6. ASSUME req[k] \in GetRequests, NEW a \in Pending \cup (Ids \X Statuses)
        PROVE  [req[k] EXCEPT !.ans = a] \in Requests
    BY <1>6 DEF GetRequests, Requests
  <1>7. req[k] # None => [req[k] EXCEPT !.ans = Failed] \in Requests
    <2>1. req[k] \in {None} \cup SearchRequests \cup SeatsRequests \cup CreateRequests \cup GetRequests
      BY <1>1 DEF RequestTypes, Requests
    <2> QED BY <2>1, <1>2, <1>3, <1>4, <1>5, <1>6
  <1> QED BY <1>1, <1>3, <1>4, <1>5, <1>6, <1>7, OfKind

\* A server answers with what its answers are made of; a booking is made at most.
LEMMA ServerTypes ==
  ASSUME TypeInv, NEW k \in Slots, Server(k)
  PROVE  TypeInv'
  <1> USE DEF TypeInv
  <1>1. UNCHANGED <<indexVars, route, search, book, track, row, rivals, crossed>> /\ req[k] # None
    <2>1. req[k] = None <=> req[k].kind = "none"
      BY OfKind
    <2> QED BY <2>1 DEF Server, AnswerSearch, AnswerSeats, AnswerCreate, AnswerGet, Asked, pages, world
  <1>2. PageTypes'
    BY <1>1 DEF PageTypes
  <1>3. IndexInv'
    BY <1>1, IndexKeptAsIs
  <1> DEFINE RestTyped == RequestTypes' /\ WorldTypes'
  <1>4. ASSUME NEW a, [req[k] EXCEPT !.ans = a] \in Requests, Answer(k, a) PROVE RequestTypes'
    BY <1>1, <1>4, AnswerTypes
  <1>5. req[k] # None => [req[k] EXCEPT !.ans = Failed] \in Requests
    BY AnsweredIsRequest
  <1>6. ASSUME AnswerSearch(k) PROVE RestTyped
    <2> DEFINE page == <<"page", Page(OneRoute, 1, req[k].arg), TotalPages(OneRoute, 1)>>
    <2>1. page \in {"page"} \X (SUBSET Flights) \X Nat
      BY PageType
    <2> HIDE DEF page
    <2>2. [req[k] EXCEPT !.ans = page] \in Requests
      BY <1>6, <2>1, AnsweredIsRequest DEF AnswerSearch, Asked
    <2>3. Answer(k, page) \/ Answer(k, Failed)
      BY <1>6 DEF AnswerSearch, page
    <2>4. UNCHANGED <<row, booking, lost, rivals>>
      BY <1>6 DEF AnswerSearch, world
    <2> QED BY <1>1, <1>4, <1>5, <2>2, <2>3, <2>4, WorldKept
  <1>7. ASSUME AnswerSeats(k) PROVE RestTyped
    <2>1. <<"rows", row>> \in {"rows"} \X [Labels -> RowStatuses]
      BY DEF WorldTypes
    <2>2. [req[k] EXCEPT !.ans = <<"rows", row>>] \in Requests
      BY <1>7, <2>1, AnsweredIsRequest DEF AnswerSeats, Asked
    <2>3. Answer(k, <<"rows", row>>) /\ UNCHANGED <<row, booking, lost, rivals>>
      BY <1>7 DEF AnswerSeats, world
    <2> QED BY <1>4, <2>2, <2>3, WorldKept
  <1>8. ASSUME AnswerGet(k) PROVE RestTyped
    <2>1. req[k].arg \in Ids
      BY <1>8, OfKind DEF AnswerGet, Asked, GetRequests
    <2>2. <<req[k].arg, booking[req[k].arg].status>> \in Ids \X Statuses
      BY <2>1 DEF WorldTypes, Records
    <2>3. [req[k] EXCEPT !.ans = <<req[k].arg, booking[req[k].arg].status>>] \in Requests
      BY <1>8, <2>2, AnsweredIsRequest DEF AnswerGet, Asked
    <2>4. /\ Answer(k, <<req[k].arg, booking[req[k].arg].status>>)
          /\ UNCHANGED <<row, booking, lost, rivals>>
      BY <1>8 DEF AnswerGet, world
    <2> QED BY <1>4, <2>3, <2>4, WorldKept
  <1>9. ASSUME AnswerCreate(k) PROVE RestTyped
    <2>1. CASE Answer(k, Failed) /\ UNCHANGED <<booking, lost>>
      BY <1>1, <1>4, <1>5, <2>1, WorldKept
    <2>2. ASSUME NEW i \in Made, NEW queued \in BOOLEAN, Inserts(i, req[k].arg, queued),
                 lost' \in Nat
          PROVE  WorldTypes'
      <3>1. booking' = [booking EXCEPT ![i] = [status |-> "INITIATED", label |-> req[k].arg,
                                               queued |-> queued]]
        BY <2>2 DEF Inserts
      <3>2. req[k].arg \in Labels
        BY <1>9, OfKind DEF AnswerCreate, Asked, CreateRequests
      <3>3. booking' \in [Ids -> Records]
        BY <3>1, <3>2 DEF WorldTypes, Records, Statuses, InProgress
      <3>4. \A j \in Made : j # i => booking'[j] = booking[j]
        BY <3>1 DEF WorldTypes, Ids
      <3>5. booking'[i].label = req[k].arg
        BY <3>1 DEF WorldTypes, Ids
      <3> QED BY <1>1, <2>2, <3>2, <3>3, <3>4, <3>5 DEF WorldTypes, Bookings
    <2>3. ASSUME NEW i \in Made, NEW queued \in BOOLEAN, Inserts(i, req[k].arg, queued),
                 Answer(k, <<"booking", i>>), UNCHANGED lost
          PROVE  RestTyped
      <3>1. [req[k] EXCEPT !.ans = <<"booking", i>>] \in Requests
        BY <1>9, AnsweredIsRequest DEF AnswerCreate, Asked
      <3>2. lost' \in Nat
        BY <2>3 DEF WorldTypes
      <3> QED BY <1>4, <2>2, <2>3, <3>1, <3>2
    <2>4. ASSUME NEW i \in Made, Inserts(i, req[k].arg, FALSE), Answer(k, Failed),
                 lost' = lost + 1
          PROVE  RestTyped
      <3>1. lost' \in Nat
        BY <2>4 DEF WorldTypes
      <3>2. WorldTypes'
        BY <2>2, <2>4, <3>1
      <3> QED BY <1>1, <1>4, <1>5, <2>4, <3>2
    <2> QED BY <1>9, <2>1, <2>3, <2>4 DEF AnswerCreate
  <1>10. RestTyped
    BY <1>6, <1>7, <1>8, <1>9 DEF Server
  <1> QED BY <1>2, <1>3, <1>10

LEMMA LoseTypes ==
  ASSUME TypeInv, NEW k \in Slots, Lose(k)
  PROVE  TypeInv'
  <1> USE DEF TypeInv
  <1>1. [req[k] EXCEPT !.ans = Failed] \in Requests
    BY AnsweredIsRequest DEF Lose
  <1>2. RequestTypes'
    BY <1>1, AnswerTypes DEF Lose
  <1>3. lost' \in Nat
    BY DEF Lose, WorldTypes
  <1>4. WorldTypes'
    BY <1>3 DEF Lose, WorldTypes, Bookings
  <1>5. PageTypes'
    BY DEF Lose, pages, PageTypes
  <1> QED BY <1>2, <1>4, <1>5, IndexKeptAsIs DEF Lose

\* What the pages make of an answer.
LEMMA ShowsTypes ==
  ASSUME TypeInv, NEW k \in Slots, Shows(k)
  PROVE  TypeInv'
  <1> USE DEF TypeInv
  <1>1. UNCHANGED <<indexVars, route, row, booking, lost, rivals>>
    BY DEF Shows, ShowPage, ShowSeats, ShowBooking, ShowStatus, world
  <1>2. PICK kind \in {"search", "seats", "create", "get"} : Arrives(k, kind)
    BY DEF Shows, ShowPage, ShowSeats, ShowBooking, ShowStatus
  <1>3. RequestTypes' /\ req[k].ans # <<"sent">> /\ req[k].kind = kind
    BY <1>2, ArrivalFrees
  <1> DEFINE PagesTyped == PageTypes'
  <1>4. ASSUME ShowPage(k) PROVE PagesTyped
    <2>1. req[k] \in SearchRequests
      BY <1>4, OfKind DEF ShowPage, Arrives
    <2>2. Ok(k) => req[k].ans \in {"page"} \X (SUBSET Flights) \X Nat
      BY <1>3, <2>1 DEF SearchRequests, Pending, Ok
    <2>3. req[k].arg \in Nat /\ (Ok(k) => req[k].ans[2] \in SUBSET Flights /\ req[k].ans[3] \in Nat)
      BY <2>1, <2>2 DEF SearchRequests
    <2>4. search \in SearchStates
      BY DEF PageTypes
    <2>5. SearchAfter(k) \in SearchStates
      BY <2>3, <2>4 DEF SearchAfter, SearchStates
    <2> QED BY <1>1, <1>4, <2>4, <2>5 DEF ShowPage, PageTypes
  <1>5. ASSUME ShowSeats(k) PROVE PagesTyped
    <2>1. book \in BookStates
      BY DEF PageTypes
    <2>2. Selectable(req[k].ans[2]) \in SUBSET Seats
      BY DEF Selectable
    <2>3. /\ [book EXCEPT !.step = "seats", !.loading = FALSE, !.free = Selectable(req[k].ans[2])]
                \in BookStates
          /\ [book EXCEPT !.step = "error", !.loading = FALSE] \in BookStates
      BY <2>1, <2>2 DEF BookStates
    <2> QED BY <1>1, <1>5, <2>1, <2>3 DEF ShowSeats, PageTypes
  <1>6. ASSUME ShowBooking(k) PROVE PagesTyped
    <2>1. req[k] \in CreateRequests
      BY <1>6, OfKind DEF ShowBooking, Arrives
    <2>2. Ok(k) => req[k].ans \in {"booking"} \X Made
      BY <1>3, <2>1 DEF CreateRequests, Pending, Ok
    <2>3. Ok(k) => req[k].ans[2] \in Made
      BY <2>2
    <2>4. book \in BookStates
      BY DEF PageTypes
    <2>5. /\ BookAfter(k) \in BookStates /\ BookAfter(k).step \in {"done", "error"}
          /\ BookAfter(k).step = "done" => BookAfter(k).id \in Made
      BY <2>3, <2>4 DEF BookAfter, BookStates, Ids
    <2> QED BY <1>1, <1>6, <2>4, <2>5 DEF ShowBooking, PageTypes
  <1>7. ASSUME ShowStatus(k) PROVE PagesTyped
    <2>1. req[k] \in GetRequests
      BY <1>7, OfKind DEF ShowStatus, Arrives
    <2>2. Ok(k) => req[k].ans \in Ids \X Statuses
      BY <1>3, <2>1 DEF GetRequests, Pending, Ok
    <2>3. track \in TrackStates
      BY DEF PageTypes
    <2>4. track' \in TrackStates
      BY <1>7, <2>2, <2>3 DEF ShowStatus, TrackStates
    <2> QED BY <1>1, <1>7, <2>4 DEF ShowStatus, PageTypes
  <1>8. PagesTyped
    BY <1>4, <1>5, <1>6, <1>7 DEF Shows
  <1> QED BY <1>1, <1>3, <1>8, WorldKept, IndexKeptAsIs

LEMMA TrackTypes ==
  ASSUME TypeInv, NEW id \in Ids, FetchBooking(id), route' = "/track",
         book' = book \/ book' = BookPage
  PROVE  TypeInv'
  <1> USE DEF TypeInv
  <1>1. Sent("get", id) \in Requests
    BY DEF Sent, Requests, GetRequests, Pending
  <1>2. RequestTypes'
    BY <1>1, SendTypes DEF FetchBooking
  <1>3. /\ book' \in BookStates
        /\ book'.step = "confirm" => book'.seat \in Seats
        /\ book'.step = "done" => book'.id \in Made
    <2>1. BookPage \in BookStates /\ BookPage.step = "form"
      BY DEF BookPage, BookStates, Ids
    <2> QED BY <2>1 DEF PageTypes
  <1>4. track \in TrackStates
    BY DEF PageTypes
  <1>5. track' \in TrackStates
    BY <1>4 DEF FetchBooking, TrackStates
  <1>6. UNCHANGED <<indexVars, search, row, booking, lost, rivals>>
    BY DEF FetchBooking, world
  <1>7. search \in SearchStates
    BY DEF PageTypes
  <1>8. PageTypes'
    BY <1>3, <1>5, <1>6, <1>7 DEF PageTypes
  <1> QED BY <1>2, <1>6, <1>8, WorldKept, IndexKeptAsIs

\* The steps of TrackPage ask for a booking, and TrackStatus leaves BookPage.
LEMMA TrackStepAsks ==
  ASSUME TypeInv, TrackStatus \/ TypeOldId \/ Tick \/ Refresh
  PROVE  /\ \E id \in Ids : FetchBooking(id)
         /\ route' = "/track"
         /\ \/ book' = BookPage /\ route = "/book" /\ book.step = "done"
            \/ book' = book /\ route = "/track"
  <1>1. track.id \in Ids /\ book.id \in Ids /\ Old \in Ids
    BY DEF TypeInv, PageTypes, TrackStates, BookStates, Ids
  <1>2. CASE TrackStatus
    BY <1>1, <1>2 DEF TrackStatus
  <1>3. CASE TypeOldId
    BY <1>1, <1>3 DEF TypeOldId
  <1>4. CASE Tick \/ Refresh
    BY <1>1, <1>4 DEF Tick, Refresh
  <1> QED BY <1>2, <1>3, <1>4

\* The saga moves bookings there are, and no booking comes or goes.
LEMMA SagaTypes ==
  ASSUME TypeInv, NEW i \in Made, SagaStep(i)
  PROVE  TypeInv' /\ Bookings' = Bookings
  <1> USE DEF TypeInv
  <1>1. /\ UNCHANGED <<indexVars, route, search, book, track, req, lost, rivals, crossed>>
        /\ booking[i].status # "NONE"
        /\ \E status \in InProgress \cup Settled : Becomes(i, status)
        /\ row' = row \/ \E status \in RowStatuses : row' = [row EXCEPT ![booking[i].label] = status]
    BY DEF SagaStep, InProgress, Settled, RowStatuses, pages
  <1>2. PICK status \in InProgress \cup Settled :
           booking' = [booking EXCEPT ![i] = [@ EXCEPT !.status = status]]
    BY <1>1 DEF Becomes
  <1>3. i \in Ids /\ booking \in [Ids -> Records]
    BY DEF Ids, WorldTypes
  <1>4. status \in Statuses /\ status # "NONE"
    BY DEF Statuses, InProgress, Settled
  <1>5. /\ booking'[i] = [booking[i] EXCEPT !.status = status]
        /\ \A j \in Ids : j # i => booking'[j] = booking[j]
    BY <1>2, <1>3
  <1>6. /\ booking'[i].status = status /\ booking'[i].label = booking[i].label
        /\ booking'[i] \in Records
    BY <1>3, <1>4, <1>5 DEF Records
  <1>7. Bookings' = Bookings
    BY <1>1, <1>3, <1>4, <1>5, <1>6 DEF Bookings, Ids
  <1>8. booking' \in [Ids -> Records]
    BY <1>2, <1>3, <1>5, <1>6
  <1>9. \A j \in Bookings' : booking'[j].label \in Labels
    BY <1>5, <1>6, <1>7 DEF WorldTypes, Bookings, Ids
  <1>10. row' \in [Labels -> RowStatuses]
    BY <1>1 DEF WorldTypes
  <1>11. WorldTypes'
    BY <1>1, <1>8, <1>9, <1>10 DEF WorldTypes
  <1>12. PageTypes' /\ RequestTypes'
    BY <1>1 DEF PageTypes, RequestTypes
  <1> QED BY <1>1, <1>7, <1>11, <1>12, IndexKeptAsIs

LEMMA RivalTypes ==
  ASSUME TypeInv, NEW l \in Labels, Rival(l)
  PROVE  TypeInv'
  <1> USE DEF TypeInv
  <1>1. UNCHANGED <<indexVars, route, search, book, track, req, booking, lost, crossed>>
    BY DEF Rival, pages
  <1>2. row' \in [Labels -> RowStatuses] /\ rivals' \in Nat
    BY DEF Rival, WorldTypes, RowStatuses
  <1>3. WorldTypes'
    BY <1>1, <1>2 DEF WorldTypes, Bookings
  <1>4. PageTypes' /\ RequestTypes'
    BY <1>1 DEF PageTypes, RequestTypes
  <1> QED BY <1>1, <1>3, <1>4, IndexKeptAsIs

LEMMA NextTypes == TypeInv /\ [Next]_vars => TypeInv'
  <1> SUFFICES ASSUME TypeInv, [Next]_vars PROVE TypeInv'
    OBVIOUS
  <1>1. CASE (IndexNext /\ UNCHANGED webVars) \/ UNCHANGED vars
    <2>1. UNCHANGED webVars /\ [IndexNext]_indexVars
      BY <1>1 DEF vars
    <2>2. PageTypes' /\ RequestTypes' /\ WorldTypes'
      BY <2>1 DEF TypeInv, webVars, pages, world, PageTypes, RequestTypes, WorldTypes, Bookings
    <2> QED BY <2>1, <2>2, NextIndex DEF TypeInv
  <1>2. CASE SearchStep
    BY <1>2, SearchStepTypes
  <1>3. CASE BookStep
    BY <1>3, BookStepTypes
  <1>4. CASE TrackStatus \/ TypeOldId \/ Tick \/ Refresh
    BY <1>4, TrackStepAsks, TrackTypes
  <1>5. ASSUME NEW k \in Slots, Server(k) \/ Shows(k) \/ Lose(k) PROVE TypeInv'
    BY <1>5, ServerTypes, ShowsTypes, LoseTypes
  <1>6. ASSUME NEW i \in Made, SagaStep(i) PROVE TypeInv'
    BY <1>6, SagaTypes
  <1>7. ASSUME NEW l \in Labels, Rival(l) PROVE TypeInv'
    BY <1>7, RivalTypes
  <1> QED BY <1>1, <1>2, <1>3, <1>4, <1>5, <1>6, <1>7 DEF Next

LEMMA TypeInvImplies == TypeInv => TypeOK
  <1> SUFFICES ASSUME TypeInv PROVE TypeOK
    OBVIOUS
  <1>1. \A i \in Ids : booking[i].status \in InProgress \cup Settled \cup {"NONE"}
    BY DEF TypeInv, WorldTypes, Statuses, Records
  <1>2. \A k \in Slots : req[k] = None \/ req[k].kind \in {"search", "seats", "create", "get"}
    BY DEF TypeInv, RequestTypes, Requests, SearchRequests, SeatsRequests, CreateRequests, GetRequests
  <1>3. /\ search.page \in Nat /\ search.pages \in Nat /\ search.list \subseteq Flights
        /\ search.shown \in Nat
    BY DEF TypeInv, PageTypes, SearchStates
  <1>4. /\ book.step \in {"form", "seats", "confirm", "done", "error"}
        /\ book.seat \in Seats \cup {<<>>} /\ book.free \subseteq Seats
    BY DEF TypeInv, PageTypes, BookStates
  <1> QED BY <1>1, <1>2, <1>3, <1>4 DEF TypeInv, IndexInv, PageTypes, RequestTypes, WorldTypes, TypeOK

\* Types: whatever order answers arrive in and whatever gets lost, the pages hold what
\* their code expects, and "Booking Submitted" has a booking to track.
THEOREM WebTypesInvariant == Spec => []TypeOK
  <1>1. Spec => []TypeInv
    BY InitTypes, NextTypes, PTL DEF Spec
  <1> QED BY <1>1, TypeInvImplies, PTL

\* The search goes on finding the seeded flights while a customer's pages ask, too.
THEOREM CustomersFindSeededFlights == Spec => []SeededIsFound
  <1>1. Spec => []TypeInv
    BY InitTypes, NextTypes, PTL DEF Spec
  <1>2. TypeInv => SeededIsFound
    BY IndexInvImplies DEF TypeInv
  <1> QED BY <1>1, <1>2, PTL

-----------------------------------------------------------------------------
(* The number above the list                                               *)

\* A step that starts no search and leaves SearchPage alone.
LEMMA OtherSearches ==
  ASSUME RequestTypes, SearchInv, Fewer("search"), crossed \subseteq crossed', UNCHANGED search,
         route' = "/" => route = "/"
  PROVE  SearchInv'
  <1> USE DEF SearchInv
  <1>1. PageListedIsPageNamed'
    BY DEF PageListedIsPageNamed
  <1>2. \A k \in Slots : k \in InFlight("search")' => k \in InFlight("search") /\ req'[k].arg = req[k].arg
    BY DEF InFlight, Fewer
  <1>3. OneSearch'
    BY <1>2 DEF OneSearch, InFlight
  <1> QED BY <1>1, <1>3

LEMMA AskPageSearch ==
  ASSUME TypeInv, SearchInv, NEW n, AskPage(n)
  PROVE  SearchInv'
  <1> USE DEF SearchInv
  <1>1. RequestTypes /\ Send("search", n) /\ route' = route
    BY DEF TypeInv, AskPage
  <1>2. search'.loading /\ search'.page = n
    BY DEF AskPage, TypeInv, PageTypes, SearchStates
  <1>3. PICK k \in Slots : /\ req'[k] = Sent("search", n)
                           /\ \A j \in Slots : j # k => req'[j] = req[j]
    BY <1>1, SendTakes
  <1>4. InFlight("search") # {} => "search" \in crossed'
    BY <1>1 DEF Send
  <1>5. InFlight("search") = {} => \A j \in InFlight("search")' : j = k /\ req'[j].arg = n
    BY <1>3 DEF InFlight, Sent
  <1>6. OneSearch'
    BY <1>2, <1>4, <1>5 DEF OneSearch
  <1> QED BY <1>2, <1>6 DEF PageListedIsPageNamed

LEMMA ShowPageSearch ==
  ASSUME TypeInv, SearchInv, NEW k \in Slots, ShowPage(k)
  PROVE  SearchInv'
  <1> USE DEF SearchInv
  <1>1. RequestTypes /\ Arrives(k, "search") /\ route' = route
    BY DEF TypeInv, ShowPage
  <1>2. crossed' = crossed /\ Fewer("search") /\ req[k].kind = "search" /\ req'[k] = None
    BY <1>1, ArrivalFrees
  <1>3. CASE route # "/"
    BY <1>1, <1>2, <1>3, OtherSearches DEF ShowPage
  <1>4. CASE "search" \in crossed
    BY <1>2, <1>4 DEF OneSearch, PageListedIsPageNamed
  <1>5. CASE route = "/" /\ "search" \notin crossed
    <2>1. k \in InFlight("search")
      BY <1>2 DEF InFlight
    <2>2. InFlight("search")' = {}
      <3>1. \A j \in InFlight("search") : j = k
        BY <1>5, <2>1 DEF OneSearch
      <3>2. \A j \in Slots : req'[j].kind = "search" => j \in InFlight("search")
        BY <1>2 DEF Fewer, InFlight
      <3>3. req'[k].kind = "none"
        BY <1>2 DEF None
      <3> QED BY <3>1, <3>2, <3>3 DEF InFlight
    <2>3. req[k].arg = search.page
      BY <1>5, <2>1 DEF OneSearch
    <2>4. search \in SearchStates /\ search' = SearchAfter(k)
      BY <1>5 DEF ShowPage, TypeInv, PageTypes
    <2>5. search'.error \/ search'.shown = search'.page
      BY <2>3, <2>4 DEF SearchAfter, SearchStates
    <2> QED BY <2>2, <2>5 DEF OneSearch, PageListedIsPageNamed
  <1> QED BY <1>3, <1>4, <1>5

LEMMA NextSearch == TypeInv /\ SearchInv /\ [Next]_vars => SearchInv'
  <1> SUFFICES ASSUME TypeInv, SearchInv, [Next]_vars PROVE SearchInv'
    OBVIOUS
  <1>0. RequestTypes
    BY DEF TypeInv
  <1>1. ASSUME UNCHANGED req PROVE Fewer("search")
    BY <1>1 DEF Fewer
  <1>2. CASE (IndexNext /\ UNCHANGED webVars) \/ UNCHANGED vars
    <2>1. UNCHANGED <<req, crossed, search, route>>
      BY <1>2 DEF vars, webVars, pages
    <2> QED BY <1>0, <1>1, <2>1, OtherSearches
  <1>3. ASSUME NEW n, AskPage(n) PROVE SearchInv'
    BY <1>3, AskPageSearch
  <1>4. CASE HandleSearch \/ PrevPage \/ NextPage
    BY <1>3, <1>4 DEF HandleSearch, PrevPage, NextPage
  <1>5. CASE RefuseSameAirport
    <2>1. /\ search \in SearchStates /\ search' = [search EXCEPT !.error = TRUE]
          /\ UNCHANGED <<route, req, crossed>>
      BY <1>5 DEF RefuseSameAirport, TypeInv, PageTypes
    <2>2. search'.error /\ search'.page = search.page /\ search'.loading = search.loading
      BY <2>1 DEF SearchStates
    <2>3. InFlight("search")' = InFlight("search")
      BY <2>1 DEF InFlight
    <2> QED BY <2>1, <2>2, <2>3 DEF SearchInv, OneSearch, PageListedIsPageNamed
  <1>6. CASE SelectFlight
    <2>1. search'.shown = 0 /\ route' = "/book" /\ UNCHANGED <<req, crossed>>
      BY <1>6 DEF SelectFlight, SearchPage
    <2>2. InFlight("search")' = InFlight("search")
      BY <2>1 DEF InFlight
    <2> QED BY <2>1, <2>2 DEF SearchInv, OneSearch, PageListedIsPageNamed
  <1>7. CASE BookStep
    <2>1. UNCHANGED <<search, route>>
      BY <1>7 DEF BookStep, LoadSeats, PickSeat, BackToSeats, HandleBook
    <2>2. CASE LoadSeats
      <3>1. Send("seats", 0)
        BY <2>2 DEF LoadSeats
      <3>2. Fewer("search") /\ crossed \subseteq crossed'
        BY <1>0, <3>1, SendKeeps
      <3> QED BY <1>0, <2>1, <3>2, OtherSearches
    <2>3. CASE HandleBook
      <3>1. PICK label : Send("create", label)
        BY <2>3 DEF HandleBook
      <3>2. Fewer("search") /\ crossed \subseteq crossed'
        BY <1>0, <3>1, SendKeeps
      <3> QED BY <1>0, <2>1, <3>2, OtherSearches
    <2>4. CASE BackToSeats \/ \E s \in Seats : PickSeat(s)
      <3>1. UNCHANGED <<req, crossed>>
        BY <2>4 DEF BackToSeats, PickSeat
      <3> QED BY <1>0, <1>1, <2>1, <3>1, OtherSearches
    <2> QED BY <1>7, <2>2, <2>3, <2>4 DEF BookStep
  <1>8. CASE TrackStatus \/ TypeOldId \/ Tick \/ Refresh
    <2>1. PICK id \in Ids : FetchBooking(id)
      BY <1>8, TrackStepAsks
    <2>2. Send("get", id) /\ UNCHANGED search /\ route' = "/track"
      BY <1>8, <2>1, TrackStepAsks DEF FetchBooking
    <2>3. Fewer("search") /\ crossed \subseteq crossed'
      BY <1>0, <2>2, SendKeeps
    <2> QED BY <1>0, <2>2, <2>3, OtherSearches
  <1>9. ASSUME NEW k \in Slots, Server(k) \/ Lose(k) PROVE SearchInv'
    <2>1. UNCHANGED <<search, route, crossed>> /\ (\E a : Answer(k, a)) /\ req[k] # None
      BY <1>0, <1>9, OfKind DEF Server, AnswerSearch, AnswerSeats, AnswerCreate, AnswerGet, Asked, Lose, pages, world
    <2>2. Fewer("search")
      BY <1>0, <2>1, AnswerKeeps
    <2> QED BY <1>0, <2>1, <2>2, OtherSearches
  <1>10. ASSUME NEW k \in Slots, ShowSeats(k) \/ ShowBooking(k) \/ ShowStatus(k) PROVE SearchInv'
    <2>1. UNCHANGED <<search, route>> /\ \E kind : Arrives(k, kind)
      BY <1>10 DEF ShowSeats, ShowBooking, ShowStatus
    <2>2. Fewer("search") /\ crossed' = crossed
      BY <1>0, <2>1, ArrivalFrees
    <2> QED BY <1>0, <2>1, <2>2, OtherSearches
  <1>11. CASE (\E i \in Made : SagaStep(i)) \/ (\E l \in Labels : Rival(l))
    <2>1. UNCHANGED <<search, route, req, crossed>>
      BY <1>11 DEF SagaStep, Rival, pages
    <2> QED BY <1>0, <1>1, <2>1, OtherSearches
  <1> QED BY <1>2, <1>4, <1>5, <1>6, <1>7, <1>8, <1>9, <1>10, <1>11, ShowPageSearch
          DEF Next, SearchStep, Shows

LEMMA InitSearch == Init => SearchInv
  <1> SUFFICES ASSUME Init PROVE SearchInv
    OBVIOUS
  <1>1. InFlight("search") = {}
    BY DEF Init, InFlight, None
  <1>2. search.shown = 0
    BY DEF Init, SearchPage
  <1> QED BY <1>1, <1>2 DEF SearchInv, OneSearch, PageListedIsPageNamed

\* The number above the list: although answers may come in any order, get lost or come
\* after the page was left, only pressing a pagination button while a search runs shows
\* a list under the number of another page.
THEOREM ListedPageIsNamed == Spec => []PageListedIsPageNamed
  <1>1. Init => TypeInv /\ SearchInv
    BY InitTypes, InitSearch
  <1>2. (TypeInv /\ SearchInv) /\ [Next]_vars => (TypeInv /\ SearchInv)'
    BY NextTypes, NextSearch
  <1>3. Spec => [](TypeInv /\ SearchInv)
    BY <1>1, <1>2, PTL DEF Spec
  <1>4. SearchInv => PageListedIsPageNamed
    BY DEF SearchInv
  <1> QED BY <1>3, <1>4, PTL

-----------------------------------------------------------------------------
(* One booking per visit, and what the visit ends with                     *)

\* Each part of the invariant in a step that leaves alone what the part is about.
LEMMA KeepsSeatsFirst ==
  ASSUME SeatsFirst, Fewer("seats"), crossed \subseteq crossed',
         \/ "seats" \in crossed' \/ InFlight("seats") = {}
         \/ route' = route /\ book'.step = book.step
  PROVE  SeatsFirst'
  <1>1. \A k \in InFlight("seats")' : k \in InFlight("seats")
    BY DEF InFlight, Fewer
  <1> QED BY <1>1 DEF SeatsFirst

LEMMA KeepsOneCreate ==
  ASSUME OneCreate, Kept("create"), crossed \subseteq crossed', Bookings' = Bookings,
         "seats" \in crossed' \/ ~Unbooked' \/ Unbooked
  PROVE  OneCreate'
  <1>1. \A k \in InFlight("create")' : k \in InFlight("create") /\ req'[k] = req[k]
    BY DEF InFlight, Kept
  <1> QED BY <1>1 DEF OneCreate

LEMMA KeepsToldOfBooking ==
  ASSUME ToldOfBooking, Kept("create"), Bookings \subseteq Bookings',
         book'.step = "done" => book.step = "done" /\ book'.id = book.id
  PROVE  ToldOfBooking'
  <1>1. \A k \in InFlight("create")' : k \in InFlight("create") /\ req'[k] = req[k]
    BY DEF InFlight, Kept
  <1> QED BY <1>1 DEF ToldOfBooking, Pending

LEMMA KeepsToldOfFailure ==
  ASSUME ToldOfFailure, Kept("create"), crossed \subseteq crossed', Bookings' = Bookings,
         lost' = 0 => lost = 0,
         "seats" \notin crossed' /\ lost' = 0 =>
            /\ book'.step = "error" => book.step = "error"
            /\ \A k \in InFlight("seats")' :
                  req'[k].ans = Failed => k \in InFlight("seats") /\ req[k].ans = Failed
  PROVE  ToldOfFailure'
  <1>1. \A k \in InFlight("create")' : k \in InFlight("create") /\ req'[k] = req[k]
    BY DEF InFlight, Kept
  <1> QED BY <1>1 DEF ToldOfFailure

\* A step that BookPage has no part in.
LEMMA KeepsBook ==
  ASSUME BookInv, UNCHANGED <<route, book, lost>>, Bookings' = Bookings,
         Kept("create"), Kept("seats"), crossed \subseteq crossed'
  PROVE  BookInv'
  <1>1. Unbooked' <=> Unbooked
    BY DEF Unbooked
  <1>2. \A k \in InFlight("seats")' : k \in InFlight("seats") /\ req'[k] = req[k]
    BY DEF InFlight, Kept
  <1> QED BY <1>1, <1>2, KeptIsFewer, KeepsSeatsFirst, KeepsOneCreate, KeepsToldOfBooking,
             KeepsToldOfFailure DEF BookInv

\* The slot of a kind that has no second request in flight.
LEMMA SentAlone ==
  ASSUME RequestTypes, NEW kind, NEW arg, kind # "none", Send(kind, arg), InFlight(kind) = {}
  PROVE  \E k \in Slots : InFlight(kind)' = {k} /\ req'[k] = Sent(kind, arg)
  <1>1. PICK k \in Slots : /\ req'[k] = Sent(kind, arg)
                           /\ \A j \in Slots : j # k => req'[j] = req[j]
    BY SendTakes
  <1>2. req'[k].kind = kind
    BY <1>1 DEF Sent
  <1>3. \A j \in Slots : req[j].kind # kind
    BY DEF InFlight
  <1>4. InFlight(kind)' = {k}
    BY <1>1, <1>2, <1>3 DEF InFlight
  <1> QED BY <1>1, <1>4

\* An answer that arrives is no longer in flight, and nothing takes its place.
LEMMA ArrivedAlone ==
  ASSUME RequestTypes, NEW k \in Slots, NEW kind, kind # "none", Arrives(k, kind),
         \A i, j \in InFlight(kind) : i = j
  PROVE  InFlight(kind) = {k} /\ InFlight(kind)' = {}
  <1>1. /\ req[k].kind = kind /\ req'[k] = None
        /\ \A j \in Slots : j # k => req'[j] = req[j]
    BY ArrivalFrees
  <1>2. req'[k].kind = "none"
    BY <1>1 DEF None
  <1>3. InFlight(kind) = {k}
    BY <1>1 DEF InFlight
  <1>4. InFlight(kind)' = {}
    BY <1>1, <1>2, <1>3 DEF InFlight
  <1> QED BY <1>3, <1>4

LEMMA LoadSeatsBook ==
  ASSUME TypeInv, BookInv, LoadSeats
  PROVE  BookInv'
  <1> USE DEF BookInv
  <1>1. /\ RequestTypes /\ Send("seats", 0) /\ UNCHANGED <<route, lost>> /\ Bookings' = Bookings
        /\ route = "/book" /\ book.step = "form" /\ book'.step = "form"
    BY DEF TypeInv, PageTypes, BookStates, LoadSeats, world, Bookings
  <1>2. Kept("create") /\ crossed \subseteq crossed'
    BY <1>1, SendKeeps
  <1>3. PICK k \in Slots :
            /\ req[k].kind = "none" /\ req'[k] = Sent("seats", 0)
            /\ \A j \in Slots : j # k => req'[j] = req[j]
            /\ req' = [req EXCEPT ![k] = Sent("seats", 0)]
    BY <1>1, SendTakes, ZenonT(30)
  <1>4. SeatsFirst'
    <2>1. InFlight("seats") # {} => "seats" \in crossed'
      BY <1>1 DEF Send
    <2>2. InFlight("seats") = {} => \A i, j \in InFlight("seats")' : i = j
      BY <1>1, SentAlone
    <2> QED BY <1>1, <2>1, <2>2 DEF SeatsFirst
  <1>5. OneCreate'
    BY <1>1, <1>2, KeepsOneCreate DEF Unbooked
  <1>6. ToldOfBooking'
    BY <1>1, <1>2, KeepsToldOfBooking
  <1>7. \A j \in InFlight("seats")' :
           req'[j].ans = Failed => j \in InFlight("seats") /\ req[j].ans = Failed
    <2>1. req'[k].ans # Failed
      BY <1>3 DEF Sent, Failed
    <2> QED BY <1>3, <2>1 DEF InFlight
  <1>8. ToldOfFailure'
    BY <1>1, <1>2, <1>7, KeepsToldOfFailure
  <1> QED BY <1>4, <1>5, <1>6, <1>8

\* Picking a seat, Back, Select and Track Status.
LEMMA ClickBook ==
  ASSUME TypeInv, BookInv,
         (\E s \in Seats : PickSeat(s)) \/ BackToSeats \/ SelectFlight
  PROVE  BookInv'
  <1> USE DEF BookInv
  <1>1. UNCHANGED <<req, crossed, lost>> /\ Bookings' = Bookings
    BY DEF PickSeat, BackToSeats, SelectFlight, world, Bookings
  <1>2. Kept("create") /\ Kept("seats") /\ InFlight("seats")' = InFlight("seats")
    BY <1>1 DEF Kept, InFlight
  <1>3. book \in BookStates
    BY DEF TypeInv, PageTypes
  <1>4. CASE (\E s \in Seats : PickSeat(s)) \/ BackToSeats
    <2>1. /\ route' = route /\ book.step \in {"seats", "confirm"}
          /\ book'.step \in {"seats", "confirm"} /\ book'.loading = book.loading
      BY <1>3, <1>4 DEF PickSeat, BackToSeats, BookStates
    <2>2. "seats" \in crossed' \/ InFlight("seats") = {}
      BY <1>1, <2>1 DEF SeatsFirst
    <2>3. Unbooked' => Unbooked
      BY <2>1 DEF Unbooked
    <2> QED BY <1>1, <1>2, <2>1, <2>2, <2>3, KeptIsFewer, KeepsSeatsFirst, KeepsOneCreate,
               KeepsToldOfBooking, KeepsToldOfFailure
  <1>5. CASE SelectFlight
    <2>1. route = "/" /\ book' = book
      BY <1>5 DEF SelectFlight
    <2>2. "seats" \in crossed' \/ InFlight("seats") = {}
      BY <1>1, <2>1 DEF SeatsFirst
    <2>3. Unbooked
      BY <2>1 DEF Unbooked
    <2> QED BY <1>1, <1>2, <2>1, <2>2, <2>3, KeptIsFewer, KeepsSeatsFirst, KeepsOneCreate,
               KeepsToldOfBooking, KeepsToldOfFailure
  <1> QED BY <1>4, <1>5

LEMMA TrackBook ==
  ASSUME TypeInv, BookInv, TrackStatus \/ TypeOldId \/ Tick \/ Refresh
  PROVE  BookInv'
  <1> USE DEF BookInv
  <1>1. PICK id \in Ids : FetchBooking(id)
    BY TrackStepAsks
  <1>2. RequestTypes /\ Send("get", id) /\ UNCHANGED lost /\ Bookings' = Bookings
    BY <1>1 DEF FetchBooking, TypeInv, world, Bookings
  <1>3. Kept("create") /\ Kept("seats") /\ crossed \subseteq crossed'
    BY <1>2, SendKeeps
  <1>4. CASE book' = book /\ route = "/track"
    <2>1. route' = route
      BY <1>4, TrackStepAsks
    <2> QED BY <1>2, <1>3, <1>4, <2>1, KeepsBook
  <1>5. CASE book' = BookPage /\ route = "/book" /\ book.step = "done"
    <2>1. book'.step = "form" /\ route' = "/track"
      BY <1>5, TrackStepAsks DEF BookPage
    <2>2. "seats" \in crossed' \/ InFlight("seats") = {}
      BY <1>3, <1>5 DEF SeatsFirst
    <2>3. ~Unbooked'
      BY <2>1 DEF Unbooked
    <2>4. \A k \in InFlight("seats")' : k \in InFlight("seats") /\ req'[k] = req[k]
      BY <1>3 DEF InFlight, Kept
    <2> QED BY <1>2, <1>3, <2>1, <2>2, <2>3, <2>4, KeptIsFewer, KeepsSeatsFirst, KeepsOneCreate,
               KeepsToldOfBooking, KeepsToldOfFailure
  <1> QED BY <1>4, <1>5, TrackStepAsks

\* Confirm: only a visit that has booked nothing yet gets that far.
LEMMA HandleBookBook ==
  ASSUME TypeInv, BookInv, HandleBook
  PROVE  BookInv'
  <1> USE DEF BookInv
  <1>1. /\ RequestTypes /\ UNCHANGED <<route, lost>> /\ Bookings' = Bookings
        /\ route = "/book" /\ book.step = "confirm" /\ ~book.loading
    BY DEF TypeInv, HandleBook, world, Bookings
  <1>2. book'.step = "confirm" /\ book'.loading
    BY DEF TypeInv, PageTypes, BookStates, HandleBook
  <1>3. PICK label : Send("create", label)
    BY DEF HandleBook
  <1>4. Kept("seats") /\ Fewer("seats") /\ crossed \subseteq crossed'
    BY <1>1, <1>3, SendKeeps
  <1>5. SeatsFirst'
    BY <1>1, <1>2, <1>4, KeepsSeatsFirst
  <1>6. CASE "seats" \in crossed'
    <2>1. OneCreate' /\ ToldOfFailure'
      BY <1>6 DEF OneCreate, ToldOfFailure
    <2>2. PICK k \in Slots : /\ req'[k] = Sent("create", label)
                             /\ \A j \in Slots : j # k => req'[j] = req[j]
      BY <1>1, <1>3, SendTakes
    <2>3. req'[k].ans \in Pending
      BY <2>2 DEF Sent, Pending
    <2>4. ToldOfBooking'
      BY <1>1, <1>2, <2>2, <2>3 DEF ToldOfBooking, InFlight, Pending
    <2> QED BY <1>5, <2>1, <2>4
  <1>7. CASE "seats" \notin crossed'
    <2>1. Bookings = {} /\ InFlight("create") = {}
      BY <1>1, <1>4, <1>7 DEF OneCreate, Unbooked
    <2>2. PICK k \in Slots : InFlight("create")' = {k} /\ req'[k] = Sent("create", label)
      BY <1>1, <1>3, <2>1, SentAlone
    <2>3. req'[k].ans = <<"sent">> /\ <<"sent">> \in Pending /\ <<"sent">> # Failed
      BY <2>2 DEF Sent, Pending, Failed
    <2>4. ~Unbooked'
      BY <1>1, <1>2 DEF Unbooked
    <2>5. OneCreate'
      BY <1>1, <2>1, <2>2, <2>4 DEF OneCreate
    <2>6. ToldOfBooking'
      BY <1>2, <2>2, <2>3 DEF ToldOfBooking, Pending
    <2>7. \A j \in InFlight("seats")' : j \in InFlight("seats") /\ req'[j] = req[j]
      BY <1>4 DEF InFlight, Kept
    <2>8. ToldOfFailure'
      BY <1>1, <1>2, <1>4, <2>2, <2>3, <2>7 DEF ToldOfFailure
    <2> QED BY <1>5, <2>5, <2>6, <2>8
  <1> QED BY <1>6, <1>7

\* The server's answer to a create: while one is asked for, there is no booking.
LEMMA AnswerCreateBook ==
  ASSUME TypeInv, BookInv, NEW k \in Slots, AnswerCreate(k)
  PROVE  BookInv'
  <1> USE DEF BookInv
  <1>1. /\ RequestTypes /\ UNCHANGED <<route, book, crossed>>
        /\ req[k].kind = "create" /\ req[k].ans = <<"sent">> /\ req[k] # None
    BY OfKind DEF TypeInv, AnswerCreate, Asked, pages
  <1>2. PICK a : /\ Answer(k, a)
                 /\ \/ a = Failed /\ UNCHANGED <<booking, lost>>
                    \/ \E i \in Made : \E queued \in BOOLEAN :
                          /\ Inserts(i, req[k].arg, queued)
                          /\ \/ a = <<"booking", i>> /\ UNCHANGED lost
                             \/ a = Failed /\ lost' = lost + 1
    BY DEF AnswerCreate
  <1>3. /\ Fewer("seats") /\ Fewer("create") /\ Kept("seats")
        /\ req'[k].kind = "create" /\ req'[k].ans = a
    BY <1>1, <1>2, AnswerKeeps
  <1>4. \A j \in Slots : j # k => req'[j] = req[j]
    BY <1>1, <1>2 DEF Answer, RequestTypes
  <1>5. InFlight("create")' = InFlight("create") /\ k \in InFlight("create")
    BY <1>1, <1>3, <1>4 DEF InFlight
  <1>6. Unbooked' <=> Unbooked
    BY <1>1 DEF Unbooked
  <1>7. SeatsFirst'
    BY <1>1, <1>3, KeepsSeatsFirst
  <1>8. \A j \in InFlight("seats")' : j \in InFlight("seats") /\ req'[j] = req[j]
    BY <1>3 DEF InFlight, Kept
  <1>9. CASE a = Failed /\ UNCHANGED <<booking, lost>>
    <2>1. Bookings' = Bookings
      <3>1. booking' = booking
        BY <1>9
      <3> QED BY <3>1 DEF Bookings
    <2>2. Failed # <<"sent">> /\ Failed \in Pending
      BY DEF Failed, Pending
    <2>3. OneCreate'
      BY <1>1, <1>3, <1>4, <1>5, <1>6, <1>9, <2>1, <2>2 DEF OneCreate
    <2>4. ToldOfBooking'
      <3>1. \A j \in InFlight("create") : req'[j].ans \notin Pending => req'[j] = req[j]
        BY <1>3, <1>4, <1>9, <2>2 DEF InFlight
      <3> QED BY <1>1, <1>5, <2>1, <3>1 DEF ToldOfBooking, Pending
    <2>5. ToldOfFailure'
      BY <1>1, <1>4, <1>5, <1>8, <1>9, <2>1 DEF ToldOfFailure, OneCreate
    <2> QED BY <1>7, <2>3, <2>4, <2>5
  <1>10. ASSUME NEW i \in Made, NEW queued \in BOOLEAN, Inserts(i, req[k].arg, queued),
                \/ a = <<"booking", i>> /\ UNCHANGED lost
                \/ a = Failed /\ lost' = lost + 1
         PROVE  BookInv'
    <2>1. Bookings' = Bookings \cup {i}
      <3>1. booking \in [Ids -> Records] /\ Made \subseteq Ids
        BY DEF TypeInv, WorldTypes, Ids
      <3>2. booking'[i].status = "INITIATED" /\ \A j \in Made : j # i => booking'[j] = booking[j]
        BY <1>10, <3>1 DEF Inserts
      <3>3. \A j \in Made : j \in Bookings' <=> j \in Bookings \/ j = i
        BY <3>2 DEF Bookings
      <3> QED BY <3>3 DEF Bookings
    <2>2. a # <<"sent">> /\ (a # Failed => a[2] = i /\ UNCHANGED lost) /\ Failed \in Pending
      BY <1>10 DEF Failed, Pending
    <2>3. "seats" \notin crossed => Bookings = {} /\ ~Unbooked /\ InFlight("create") = {k}
      BY <1>1, <1>5 DEF OneCreate
    <2>4. OneCreate'
      BY <1>1, <1>3, <1>5, <1>6, <2>1, <2>2, <2>3 DEF OneCreate
    <2>5. ToldOfBooking'
      <3>1. \A j \in InFlight("create") :
               req'[j] = req[j] \/ req'[j].ans = Failed \/ req'[j].ans[2] = i
        BY <1>3, <1>4, <2>2 DEF InFlight
      <3>2. \A j \in InFlight("create") : req'[j].ans \notin Pending => req'[j].ans[2] \in Bookings'
        BY <2>1, <2>2, <3>1 DEF ToldOfBooking
      <3>3. book'.step = "done" => book'.id \in Bookings'
        BY <1>1, <2>1 DEF ToldOfBooking
      <3> QED BY <1>5, <3>2, <3>3 DEF ToldOfBooking, Pending
    <2>6. CASE a = Failed
      <3>1. lost \in Nat
        BY DEF TypeInv, WorldTypes
      <3>2. a # <<"booking", i>>
        BY <2>6 DEF Failed
      <3>3. lost' = lost + 1
        BY <1>10, <3>2
      <3>4. lost' # 0
        BY <3>1, <3>3
      <3>5. ToldOfFailure'
        BY <3>4 DEF ToldOfFailure
      <3> QED BY <1>7, <2>4, <2>5, <3>5
    <2>7. CASE a # Failed
      <3>1. ASSUME "seats" \notin crossed, lost = 0
            PROVE  /\ book'.step # "error"
                   /\ \A j \in InFlight("create")' : req'[j].ans # Failed
                   /\ \A j \in InFlight("seats")' : req'[j].ans # Failed
        <4>1. book'.step # "error"
          BY <1>1, <1>5, <3>1 DEF ToldOfFailure
        <4>2. \A j \in InFlight("create")' : req'[j].ans # Failed
          BY <1>3, <1>5, <2>3, <2>7, <3>1
        <4>3. \A j \in InFlight("seats")' : req'[j].ans # Failed
          BY <1>8, <3>1 DEF ToldOfFailure
        <4> QED BY <4>1, <4>2, <4>3
      <3>2. ToldOfFailure'
        BY <1>1, <2>2, <2>7, <3>1 DEF ToldOfFailure
      <3> QED BY <1>7, <2>4, <2>5, <3>2
    <2> QED BY <2>6, <2>7
  <1> QED BY <1>2, <1>9, <1>10

\* The connection breaks: what is said of failures is said of calm connections only.
LEMMA LoseBook ==
  ASSUME TypeInv, BookInv, NEW k \in Slots, Lose(k)
  PROVE  BookInv'
  <1> USE DEF BookInv
  <1>1. /\ RequestTypes /\ UNCHANGED <<route, book, crossed>> /\ Bookings' = Bookings
        /\ req[k] # None /\ Answer(k, Failed) /\ lost' # 0
    BY DEF TypeInv, WorldTypes, Lose, pages, Bookings
  <1>2. /\ Fewer("seats") /\ req'[k].kind = req[k].kind /\ req'[k].ans = Failed
        /\ \A j \in Slots : j # k => req'[j] = req[j]
    BY <1>1, AnswerKeeps DEF Answer, RequestTypes
  <1>3. InFlight("create")' = InFlight("create")
    BY <1>2 DEF InFlight
  <1>4. Failed # <<"sent">> /\ Failed \in Pending
    BY DEF Failed, Pending
  <1>5. SeatsFirst'
    BY <1>1, <1>2, KeepsSeatsFirst
  <1>6. Unbooked' <=> Unbooked
    BY <1>1 DEF Unbooked
  <1>7. \A j \in InFlight("create") :
           /\ req'[j].ans = <<"sent">> => req[j].ans = <<"sent">>
           /\ req'[j].ans \notin Pending => req'[j] = req[j]
    BY <1>2, <1>4 DEF InFlight
  <1>8. OneCreate'
    BY <1>1, <1>3, <1>6, <1>7 DEF OneCreate
  <1>9. ToldOfBooking'
    BY <1>1, <1>3, <1>7 DEF ToldOfBooking, Pending
  <1>10. ToldOfFailure'
    BY <1>1 DEF ToldOfFailure
  <1> QED BY <1>5, <1>8, <1>9, <1>10

LEMMA ShowSeatsBook ==
  ASSUME TypeInv, BookInv, NEW k \in Slots, ShowSeats(k)
  PROVE  BookInv'
  <1> USE DEF BookInv
  <1>1. /\ RequestTypes /\ Arrives(k, "seats") /\ UNCHANGED <<route, lost>> /\ Bookings' = Bookings
        /\ book \in BookStates
    BY DEF TypeInv, PageTypes, ShowSeats, world, Bookings
  <1>2. /\ crossed' = crossed /\ Fewer("seats") /\ Kept("create") /\ Kept("seats")
        /\ req[k].kind = "seats"
    BY <1>1, ArrivalFrees
  <1>3. \/ book' = book
        \/ book'.step \in {"seats", "error"} /\ (Ok(k) => book'.step = "seats")
    BY <1>1 DEF ShowSeats, BookStates
  <1>4. \A j \in InFlight("seats")' : j \in InFlight("seats") /\ req'[j] = req[j]
    BY <1>2 DEF InFlight, Kept
  <1>5. CASE "seats" \in crossed
    BY <1>1, <1>2, <1>3, <1>5, KeepsToldOfBooking DEF SeatsFirst, OneCreate, ToldOfFailure
  <1>6. CASE "seats" \notin crossed
    <2>1. k \in InFlight("seats") /\ route = "/book" /\ book.step = "form"
      BY <1>2, <1>6 DEF SeatsFirst, InFlight
    <2>2. InFlight("seats")' = {}
      BY <1>1, <1>6, ArrivedAlone DEF SeatsFirst
    <2>3. SeatsFirst'
      BY <2>2 DEF SeatsFirst
    <2>4. OneCreate'
      BY <1>1, <1>2, <2>1, KeepsOneCreate DEF Unbooked
    <2>5. ToldOfBooking'
      BY <1>1, <1>2, <1>3, KeepsToldOfBooking
    <2>6. lost = 0 => Ok(k)
      BY <1>6, <2>1 DEF ToldOfFailure, Ok
    <2>7. ToldOfFailure'
      BY <1>1, <1>2, <1>3, <1>4, <2>6, KeepsToldOfFailure
    <2> QED BY <2>3, <2>4, <2>5, <2>7
  <1> QED BY <1>5, <1>6

LEMMA ShowBookingBook ==
  ASSUME TypeInv, BookInv, NEW k \in Slots, ShowBooking(k)
  PROVE  BookInv'
  <1> USE DEF BookInv
  <1>1. /\ RequestTypes /\ Arrives(k, "create") /\ UNCHANGED <<route, lost>> /\ Bookings' = Bookings
        /\ book \in BookStates
    BY DEF TypeInv, PageTypes, ShowBooking, world, Bookings
  <1>2. /\ crossed' = crossed /\ Fewer("seats") /\ Kept("create") /\ Kept("seats")
        /\ req[k].kind = "create" /\ req[k].ans # <<"sent">>
    BY <1>1, ArrivalFrees
  <1>3. k \in InFlight("create")
    BY <1>2 DEF InFlight
  <1>4. \/ book' = book /\ route # "/book"
        \/ route = "/book" /\ ~Ok(k) /\ book'.step = "error"
        \/ route = "/book" /\ Ok(k) /\ book'.step = "done" /\ book'.id = req[k].ans[2]
    BY <1>1 DEF ShowBooking, BookAfter, BookStates
  <1>5. \A j \in InFlight("seats")' : j \in InFlight("seats") /\ req'[j] = req[j]
    BY <1>2 DEF InFlight, Kept
  <1>6. Ok(k) => req[k].ans[2] \in Bookings
    BY <1>2, <1>3 DEF Ok, ToldOfBooking, Pending
  <1>7. ToldOfBooking'
    <2>1. \A j \in InFlight("create")' : j \in InFlight("create") /\ req'[j] = req[j]
      BY <1>2 DEF InFlight, Kept
    <2>2. book'.step = "done" => book'.id \in Bookings
      BY <1>4, <1>6 DEF ToldOfBooking
    <2> QED BY <1>1, <2>1, <2>2 DEF ToldOfBooking, Pending
  <1>8. CASE "seats" \in crossed
    BY <1>2, <1>7, <1>8 DEF SeatsFirst, OneCreate, ToldOfFailure
  <1>9. CASE "seats" \notin crossed
    <2>1. ~Unbooked /\ \A i, j \in InFlight("create") : i = j
      BY <1>3, <1>9 DEF OneCreate
    <2>2. InFlight("create")' = {}
      BY <1>1, <2>1, ArrivedAlone
    <2>3. InFlight("seats") = {}
      BY <1>9, <2>1 DEF SeatsFirst, Unbooked
    <2>4. SeatsFirst'
      BY <1>2, <2>3, KeepsSeatsFirst
    <2>5. ~Unbooked'
      BY <1>1, <1>4, <2>1 DEF Unbooked
    <2>6. OneCreate'
      BY <1>1, <1>2, <2>5, KeepsOneCreate
    <2>7. lost = 0 /\ ~Ok(k) => Bookings = {}
      BY <1>3, <1>9 DEF ToldOfFailure, Ok
    <2>8. lost = 0 => book.step # "error"
      BY <1>3, <1>9 DEF ToldOfFailure
    <2>9. lost = 0 /\ book'.step = "error" => Bookings = {}
      BY <1>4, <2>7, <2>8
    <2>10. ToldOfFailure'
      BY <1>1, <1>2, <1>5, <2>2, <2>3, <2>9 DEF ToldOfFailure
    <2> QED BY <1>7, <2>4, <2>6, <2>10
  <1> QED BY <1>8, <1>9

\* A step of the rest: the index, SearchPage, TrackPage's answers, the saga, others.
LEMMA RestBook ==
  ASSUME TypeInv, BookInv,
         \/ (IndexNext /\ UNCHANGED webVars) \/ UNCHANGED vars
         \/ HandleSearch \/ PrevPage \/ NextPage \/ RefuseSameAirport
         \/ \E k \in Slots : AnswerSearch(k) \/ AnswerGet(k) \/ ShowPage(k) \/ ShowStatus(k)
         \/ \E i \in Made : SagaStep(i)
         \/ \E l \in Labels : Rival(l)
  PROVE  BookInv'
  <1> DEFINE Quiet == /\ UNCHANGED <<route, book, lost>> /\ Bookings' = Bookings
                      /\ Kept("create") /\ Kept("seats") /\ crossed \subseteq crossed'
  <1>0. RequestTypes
    BY DEF TypeInv
  <1>1. ASSUME UNCHANGED req PROVE Kept("create") /\ Kept("seats")
    BY <1>1 DEF Kept
  <1>2. ASSUME UNCHANGED booking PROVE Bookings' = Bookings
    BY <1>2 DEF Bookings
  <1>3. ASSUME (IndexNext /\ UNCHANGED webVars) \/ UNCHANGED vars PROVE Quiet
    <2>1. UNCHANGED <<route, book, lost, booking, req, crossed>>
      BY <1>3 DEF vars, webVars, pages, world
    <2> QED BY <1>1, <1>2, <2>1
  <1>4. ASSUME HandleSearch \/ PrevPage \/ NextPage PROVE Quiet
    <2>1. PICK n : AskPage(n)
      BY <1>4 DEF HandleSearch, PrevPage, NextPage
    <2>2. Send("search", n) /\ UNCHANGED <<route, book, lost, booking>>
      BY <2>1 DEF AskPage, world
    <2>3. Kept("create") /\ Kept("seats") /\ crossed \subseteq crossed'
      BY <1>0, <2>2, SendKeeps
    <2> QED BY <1>2, <2>2, <2>3
  <1>5. ASSUME RefuseSameAirport PROVE Quiet
    <2>1. UNCHANGED <<route, book, lost, booking, req, crossed>>
      BY <1>5 DEF RefuseSameAirport, world
    <2> QED BY <1>1, <1>2, <2>1
  <1>6. ASSUME NEW k \in Slots, AnswerSearch(k) \/ AnswerGet(k) PROVE Quiet
    <2>1. /\ UNCHANGED <<route, book, lost, booking, crossed>> /\ (\E a : Answer(k, a))
          /\ req[k].kind \in {"search", "get"} /\ req[k] # None
      BY <1>0, <1>6, OfKind DEF AnswerSearch, AnswerGet, Asked, pages, world
    <2>2. Kept("create") /\ Kept("seats")
      BY <1>0, <2>1, AnswerKeeps
    <2> QED BY <1>2, <2>1, <2>2
  <1>7. ASSUME NEW k \in Slots, ShowPage(k) \/ ShowStatus(k) PROVE Quiet
    <2>1. /\ UNCHANGED <<route, book, lost, booking>> /\ \E kind : Arrives(k, kind)
      BY <1>7 DEF ShowPage, ShowStatus, world
    <2>2. Kept("create") /\ Kept("seats") /\ crossed' = crossed
      BY <1>0, <2>1, ArrivalFrees
    <2> QED BY <1>2, <2>1, <2>2
  <1>8. ASSUME NEW i \in Made, SagaStep(i) PROVE Quiet
    <2>1. UNCHANGED <<route, book, lost, req, crossed>>
      BY <1>8 DEF SagaStep, pages
    <2> QED BY <1>1, <1>8, <2>1, SagaTypes
  <1>9. ASSUME NEW l \in Labels, Rival(l) PROVE Quiet
    <2>1. UNCHANGED <<route, book, lost, booking, req, crossed>>
      BY <1>9 DEF Rival, pages
    <2> QED BY <1>1, <1>2, <2>1
  <1>10. Quiet
    BY <1>3, <1>4, <1>5, <1>6, <1>7, <1>8, <1>9
  <1> QED BY <1>10, KeepsBook

LEMMA AnswerSeatsBook ==
  ASSUME TypeInv, BookInv, NEW k \in Slots, AnswerSeats(k)
  PROVE  BookInv'
  <1> USE DEF BookInv
  <1>1. /\ RequestTypes /\ UNCHANGED <<route, book, lost, booking, crossed>>
        /\ req[k].kind = "seats" /\ req[k] # None /\ Answer(k, <<"rows", row>>)
    BY OfKind DEF TypeInv, AnswerSeats, Asked, pages, world
  <1>2. /\ Fewer("seats") /\ Kept("create") /\ req'[k].kind = "seats"
        /\ req'[k].ans = <<"rows", row>>
    BY <1>1, AnswerKeeps
  <1>3. \A j \in Slots : j # k => req'[j] = req[j]
    BY <1>1 DEF Answer, RequestTypes
  <1>4. req'[k].ans # Failed
    BY <1>2 DEF Failed
  <1>5. \A j \in InFlight("seats")' :
           req'[j].ans = Failed => j \in InFlight("seats") /\ req[j].ans = Failed
    BY <1>2, <1>3, <1>4 DEF InFlight
  <1>6. Bookings' = Bookings /\ (Unbooked' <=> Unbooked)
    BY <1>1 DEF Bookings, Unbooked
  <1> QED BY <1>1, <1>2, <1>5, <1>6, KeepsSeatsFirst, KeepsOneCreate, KeepsToldOfBooking,
             KeepsToldOfFailure

LEMMA NextBook == TypeInv /\ BookInv /\ [Next]_vars => BookInv'
  <1> SUFFICES ASSUME TypeInv, BookInv, [Next]_vars PROVE BookInv'
    OBVIOUS
  <1>1. CASE BookStep
    BY <1>1, LoadSeatsBook, ClickBook, HandleBookBook DEF BookStep
  <1>2. CASE SelectFlight
    BY <1>2, ClickBook
  <1>3. CASE TrackStatus \/ TypeOldId \/ Tick \/ Refresh
    BY <1>3, TrackBook
  <1>4. ASSUME NEW k \in Slots,
               AnswerSeats(k) \/ AnswerCreate(k) \/ ShowSeats(k) \/ ShowBooking(k) \/ Lose(k)
        PROVE  BookInv'
    BY <1>4, AnswerSeatsBook, AnswerCreateBook, ShowSeatsBook, ShowBookingBook, LoseBook
  <1>5. CASE \/ (IndexNext /\ UNCHANGED webVars) \/ UNCHANGED vars
             \/ HandleSearch \/ PrevPage \/ NextPage \/ RefuseSameAirport
             \/ \E k \in Slots : AnswerSearch(k) \/ AnswerGet(k) \/ ShowPage(k) \/ ShowStatus(k)
             \/ \E i \in Made : SagaStep(i)
             \/ \E l \in Labels : Rival(l)
    BY <1>5, RestBook
  <1> QED BY <1>1, <1>2, <1>3, <1>4, <1>5 DEF Next, SearchStep, Server, Shows

LEMMA InitBook == Init => BookInv
  <1> SUFFICES ASSUME Init PROVE BookInv
    OBVIOUS
  <1>1. \A kind : kind # "none" => InFlight(kind) = {}
    BY DEF Init, InFlight, None
  <1>2. InFlight("seats") = {} /\ InFlight("create") = {}
    BY <1>1
  <1>3. Bookings = {}
    BY DEF Init, Bookings, Ids, Made, Old
  <1>4. book.step = "form"
    BY DEF Init, BookPage
  <1> QED BY <1>2, <1>3, <1>4 DEF BookInv, SeatsFirst, OneCreate, ToldOfBooking, ToldOfFailure

LEMMA BookInvariant == Spec => [](TypeInv /\ BookInv)
  <1>1. Init => TypeInv /\ BookInv
    BY InitTypes, InitBook
  <1>2. (TypeInv /\ BookInv) /\ [Next]_vars => (TypeInv /\ BookInv)'
    BY NextTypes, NextBook
  <1> QED BY <1>1, <1>2, PTL DEF Spec

\* One visit of BookPage makes one booking at most: whatever the order of answers, Back
\* and Confirm again, or lost connections, unless the seats were loaded twice at once.
THEOREM VisitBooksOnce == Spec => []OneBookingPerVisit
  <1>1. BookInv => OneBookingPerVisit
    <2> SUFFICES ASSUME BookInv, "seats" \notin crossed PROVE Cardinality(Bookings) <= 1
      BY DEF OneBookingPerVisit
    <2>1. \A i, j \in Bookings : i = j
      BY DEF BookInv, OneCreate
    <2>2. CASE Bookings = {}
      BY <2>2, FS_EmptySet
    <2>3. ASSUME NEW i \in Bookings PROVE Cardinality(Bookings) <= 1
      <3>1. Bookings = {i}
        BY <2>1
      <3>2. Cardinality({i}) = 1
        BY FS_Singleton
      <3>3. Cardinality(Bookings) = 1
        BY <3>1, <3>2
      <3> QED BY <3>3
    <2> QED BY <2>2, <2>3
  <1> QED BY <1>1, BookInvariant, PTL

\* The last screen of BookPage: "Booking Submitted" is about a booking that exists, and
\* after "Booking Failed" there is none, unless a message was lost.
THEOREM LastScreenIsTrue == Spec => []PageTellsTheTruth
  <1>1. TypeInv /\ BookInv => PageTellsTheTruth
    BY DEF TypeInv, WorldTypes, BookInv, ToldOfBooking, ToldOfFailure, PageTellsTheTruth
  <1> QED BY <1>1, BookInvariant, PTL

-----------------------------------------------------------------------------
=============================================================================
