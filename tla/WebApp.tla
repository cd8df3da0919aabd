------------------------------- MODULE WebApp -------------------------------
(***************************************************************************)
(* One browser tab of the customer's web application: SearchPage, BookPage *)
(* and TrackPage over the API of search-, inventory- and booking-service.  *)
(*                                                                         *)
(* A request takes four steps that other steps come between: the page      *)
(* sends it, the server answers it, the answer arrives, the page's         *)
(* continuation (after `await`) runs. Answers may overtake one another,    *)
(* requests and answers may get lost; the continuation of a page that was  *)
(* left changes nothing on the screen, what the server did stays done.     *)
(*                                                                         *)
(* Search-service is the module SearchIndex. The saga is reduced to the    *)
(* rows and statuses the pages can see: whether the cache admits a request *)
(* is open (SeatCache decides), what becomes of it is in BookingSystem.    *)
(*                                                                         *)
(* A seat has a label in the seeded rows and a label on BookPage: they are *)
(* "1A" and "01A" in rows 1 to 9, and the same from row 10.                *)
(***************************************************************************)
EXTENDS SearchIndex, Sequences

CONSTANTS
    Seats,         \* seats of the flight that is booked
    LowSeats,      \* those in rows 1 to 9
    Slots,         \* bound: requests in flight
    MaxBookings,   \* bound: bookings this tab makes
    MaxLost,       \* bound: requests and answers that get lost, of Postgres as well
    MaxRivals      \* bound: seats that other customers book

ASSUME WebAssumption ==
    /\ LowSeats \subseteq Seats /\ Slots \subseteq Nat
    /\ {MaxBookings, MaxLost, MaxRivals} \subseteq Nat

VARIABLES
    route,     \* the page: "/", "/book", "/track"
    search,    \* state of SearchPage
    book,      \* state of BookPage
    track,     \* state of TrackPage
    req,       \* requests in flight
    row,       \* Postgres: status of each row, by label
    booking,   \* Postgres: status and seat label of each booking, and whether its
               \* seat.lock was queued
    lost,      \* requests and answers lost so far
    rivals,    \* seats booked by others so far
    crossed    \* history: kinds of requests that had two in flight, whose answers may cross

pages == <<route, search, book, track>>
world == <<row, booking, lost, rivals>>
webVars == <<pages, req, world, crossed>>
vars == <<indexVars, webVars>>

Old == 0                    \* a booking made before, CONFIRMED
Made == 1 .. MaxBookings
Ids == {Old} \cup Made

SeedLabel(s) == <<s, "seed">>                                        \* "1A", "12A"
PageLabel(s) == IF s \in LowSeats THEN <<s, "page">> ELSE SeedLabel(s)   \* "01A", "12A"
Labels == Seats \X {"seed", "page"}

RowStatuses == {"MISSING", "AVAILABLE", "LOCKED", "BOOKED"}
InProgress == {"INITIATED", "SEAT_LOCKED", "PAYMENT_PROCESSING"}
Settled == {"CONFIRMED", "FAILED"}

None == [kind |-> "none"]
Sent(kind, arg) == [kind |-> kind, arg |-> arg, ans |-> <<"sent">>]
Failed == <<"failed">>
Answer(k, a) == req' = [req EXCEPT ![k] = [@ EXCEPT !.ans = a]]
Asked(k, kind) == req[k].kind = kind /\ req[k].ans = <<"sent">>

TypeOK ==
    /\ IndexTypeOK
    /\ route \in {"/", "/book", "/track"}
    /\ search.page \in Nat /\ search.pages \in Nat /\ search.list \subseteq Flights
    /\ search.shown \in Nat
    /\ book.step \in {"form", "seats", "confirm", "done", "error"}
    /\ book.seat \in Seats \cup {<<>>}
    /\ book.free \subseteq Seats
    /\ book.step = "confirm" => book.seat \in Seats
    /\ book.step = "done" => book.id \in Made
    /\ row \in [Labels -> RowStatuses]
    /\ \A i \in Ids : booking[i].status \in InProgress \cup Settled \cup {"NONE"}
    /\ \A k \in Slots : req[k] = None \/ req[k].kind \in {"search", "seats", "create", "get"}
    /\ crossed \subseteq {"search", "seats", "get"}

\* What useState makes of a page that is opened; the state goes with the page.
SearchPage == [page |-> 1, shown |-> 0, pages |-> 0, list |-> {}, loading |-> FALSE, error |-> FALSE]
BookPage == [step |-> "form", seat |-> <<>>, free |-> {}, loading |-> FALSE, id |-> Old]
TrackPage == [id |-> Old, shown |-> <<>>, loading |-> FALSE, error |-> FALSE]

Init ==
    /\ IndexInit
    /\ route = "/" /\ search = SearchPage /\ book = BookPage /\ track = TrackPage
    /\ req = [k \in Slots |-> None]
    /\ row = [l \in Labels |-> IF l[2] = "seed" THEN "AVAILABLE" ELSE "MISSING"]
    /\ booking = [i \in Ids |->
          [status |-> IF i = Old THEN "CONFIRMED" ELSE "NONE", label |-> <<>>, queued |-> i = Old]]
    /\ lost = 0 /\ rivals = 0 /\ crossed = {}

-----------------------------------------------------------------------------
(* api.ts                                                                  *)

Free == {k \in Slots : req[k] = None}
InFlight(kind) == {k \in Slots : req[k].kind = kind}

\* fetch: into a free slot. A page that has a request of the same kind in flight
\* already may get the answers in the other order.
Send(kind, arg) ==
    /\ \E k \in Free : /\ \A i \in Free : k <= i
                      /\ req' = [req EXCEPT ![k] = Sent(kind, arg)]
    /\ crossed' = IF kind # "create" /\ InFlight(kind) # {} THEN crossed \cup {kind} ELSE crossed

\* The connection breaks before or after the server has done its work.
Lose(k) ==
    /\ lost < MaxLost /\ lost' = lost + 1
    /\ req[k] # None /\ req[k].ans # Failed
    /\ Answer(k, Failed)
    /\ UNCHANGED <<indexVars, pages, row, booking, rivals, crossed>>

Arrives(k, kind) ==
    /\ req[k].kind = kind /\ req[k].ans # <<"sent">>
    /\ req' = [req EXCEPT ![k] = None]
    /\ UNCHANGED crossed
Ok(k) == req[k].ans # Failed

-----------------------------------------------------------------------------
(* SearchPage: SGN to HAN or, mistyped, SGN to SGN                         *)

OneRoute == CHOOSE r \in Routes : TRUE

\* doSearch up to the request
AskPage(n) ==
    /\ route = "/"
    /\ search' = [search EXCEPT !.page = n, !.loading = TRUE, !.error = FALSE]
    /\ Send("search", n)
    /\ UNCHANGED <<indexVars, route, book, track, world>>

\* The Search button is disabled while it loads, the pagination is not.
RefuseSameAirport ==
    /\ route = "/" /\ (~search.loading \/ search.pages > 1)
    /\ search' = [search EXCEPT !.error = TRUE]
    /\ UNCHANGED <<indexVars, route, book, track, req, world, crossed>>

HandleSearch == ~search.loading /\ AskPage(1)
PrevPage == search.pages > 1 /\ search.page > 1 /\ AskPage(search.page - 1)
NextPage == search.pages > 1 /\ search.page < search.pages /\ AskPage(search.page + 1)

AnswerSearch(k) ==
    /\ Asked(k, "search")
    /\ Answer(k, IF Searchable
                 THEN <<"page", Page(OneRoute, 1, req[k].arg), TotalPages(OneRoute, 1)>>
                 ELSE Failed)
    /\ UNCHANGED <<indexVars, pages, world, crossed>>

SearchAfter_NoCatch(k) ==   \* mistake: the catch is empty
    IF Ok(k) THEN [search EXCEPT !.shown = req[k].arg, !.list = req[k].ans[2],
                                 !.pages = req[k].ans[3], !.loading = FALSE]
             ELSE [search EXCEPT !.loading = FALSE]

SearchAfter(k) ==
    IF Ok(k) THEN [search EXCEPT !.shown = req[k].arg, !.list = req[k].ans[2],
                                 !.pages = req[k].ans[3], !.loading = FALSE]
             ELSE [search EXCEPT !.error = TRUE, !.loading = FALSE]

\* The rest of doSearch
ShowPage(k) ==
    /\ Arrives(k, "search")
    /\ search' = IF route = "/" THEN SearchAfter(k) ELSE search
    /\ UNCHANGED <<indexVars, route, book, track, world>>

\* Nothing after Select depends on the index, which is as the script wrote it (bound).
IndexAtRest ==
    /\ script = "done" /\ ~unwritten /\ updates = 0
    /\ \A p \in SearchPods : boot[p] = "up"

\* Select
SelectFlight ==
    /\ route = "/" /\ search.list # {} /\ IndexAtRest
    /\ route' = "/book" /\ search' = SearchPage
    /\ UNCHANGED <<indexVars, book, track, req, world, crossed>>

-----------------------------------------------------------------------------
(* BookPage                                                                *)

\* The Enter key asks again while the button is disabled.
LoadSeats ==
    /\ route = "/book" /\ book.step = "form"
    /\ book' = [book EXCEPT !.loading = TRUE]
    /\ Send("seats", 0)
    /\ UNCHANGED <<indexVars, route, search, track, world>>

AnswerSeats(k) ==
    /\ Asked(k, "seats")
    /\ Answer(k, <<"rows", row>>)
    /\ UNCHANGED <<indexVars, pages, world, crossed>>

\* seatMap.get(seatNo) ?? 'AVAILABLE'
Selectable(rows) == {s \in Seats : rows[PageLabel(s)] \in {"MISSING", "AVAILABLE"}}

\* The rest of loadSeats
ShowSeats(k) ==
    /\ Arrives(k, "seats")
    /\ book' = IF route # "/book" THEN book
               ELSE IF Ok(k) THEN [book EXCEPT !.step = "seats", !.loading = FALSE,
                                               !.free = Selectable(req[k].ans[2])]
               ELSE [book EXCEPT !.step = "error", !.loading = FALSE]
    /\ UNCHANGED <<indexVars, route, search, track, world>>

\* Picking a seat, "Confirm Seat" and, from there, "Back".
PickSeat(s) ==
    /\ route = "/book" /\ book.step = "seats" /\ s \in book.free
    /\ book' = [book EXCEPT !.seat = s, !.step = "confirm"]
    /\ UNCHANGED <<indexVars, route, search, track, req, world, crossed>>

BackToSeats ==
    /\ route = "/book" /\ book.step = "confirm"
    /\ book' = [book EXCEPT !.step = "seats"]
    /\ UNCHANGED <<indexVars, route, search, track, req, world, crossed>>

HandleBook_Enabled ==   \* mistake: the button is not disabled while a request runs
    /\ route = "/book" /\ book.step = "confirm"
    /\ book' = [book EXCEPT !.loading = TRUE]
    /\ Send("create", PageLabel(book.seat))
    /\ UNCHANGED <<indexVars, route, search, track, world>>

HandleBook ==
    /\ route = "/book" /\ book.step = "confirm" /\ ~book.loading
    /\ book' = [book EXCEPT !.loading = TRUE]
    /\ Send("create", PageLabel(book.seat))
    /\ UNCHANGED <<indexVars, route, search, track, world>>

\* The INSERT of a booking with the next id.
Inserts(i, label, queued) ==
    /\ \A j \in Made : booking[j].status = "NONE" <=> j >= i
    /\ booking' = [booking EXCEPT
                      ![i] = [status |-> "INITIATED", label |-> label, queued |-> queued]]

AnswerCreate_EmitThrows(k) ==   \* mistake: a failing emit is the client's error, too
    /\ Asked(k, "create")
    /\ \/ Answer(k, Failed) /\ UNCHANGED booking
       \/ \E i \in Made : \E queued \in BOOLEAN :
             /\ Inserts(i, req[k].arg, queued)
             /\ Answer(k, IF queued THEN <<"booking", i>> ELSE Failed)
    /\ UNCHANGED <<indexVars, pages, row, lost, rivals, crossed>>

\* BookingService.create: refused; inserted and answered, whether emit queues seat.lock
\* or drops it; or inserted while the answer of Postgres got lost, which is the client's
\* error, too.
AnswerCreate(k) ==
    /\ Asked(k, "create")
    /\ \/ Answer(k, Failed) /\ UNCHANGED <<booking, lost>>
       \/ \E i \in Made : \E queued \in BOOLEAN :
             /\ Inserts(i, req[k].arg, queued)
             /\ Answer(k, <<"booking", i>>) /\ UNCHANGED lost
       \/ \E i \in Made :
             /\ Inserts(i, req[k].arg, FALSE)
             /\ Answer(k, Failed)
             /\ lost < MaxLost /\ lost' = lost + 1
    /\ UNCHANGED <<indexVars, pages, row, rivals, crossed>>

BookAfter_ForgetsId(k) ==   \* mistake: setBooking is missing
    [book EXCEPT !.step = IF Ok(k) THEN "done" ELSE "error", !.loading = FALSE]

BookAfter(k) ==
    IF Ok(k) THEN [book EXCEPT !.step = "done", !.id = req[k].ans[2], !.loading = FALSE]
             ELSE [book EXCEPT !.step = "error", !.loading = FALSE]

\* The rest of handleBook
ShowBooking(k) ==
    /\ Arrives(k, "create")
    /\ book' = IF route = "/book" THEN BookAfter(k) ELSE book
    /\ UNCHANGED <<indexVars, route, search, track, world>>

-----------------------------------------------------------------------------
(* TrackPage                                                               *)

\* fetchBooking up to the request
FetchBooking(id) ==
    /\ track' = [track EXCEPT !.id = id, !.loading = TRUE, !.error = FALSE]
    /\ Send("get", id)
    /\ UNCHANGED <<indexVars, search, world>>

\* "Track Status": the page opens with the id and asks at once.
TrackStatus ==
    /\ route = "/book" /\ book.step = "done"
    /\ route' = "/track" /\ book' = BookPage
    /\ FetchBooking(book.id)

\* setBookingId, and the effect of the new id
TypeOldId ==
    /\ route = "/track" /\ track.id # Old
    /\ FetchBooking(Old)
    /\ UNCHANGED <<route, book>>

\* The effect on `booking`: a timer as long as the booking shown is in progress.
Polling_FirstOnly ==   \* mistake: refreshes while the booking is INITIATED only
    track.shown # <<>> /\ track.shown[2] = "INITIATED"

Polling == track.shown # <<>> /\ track.shown[2] \in InProgress

Tick == route = "/track" /\ Polling /\ FetchBooking(track.id) /\ UNCHANGED <<route, book>>

Refresh ==
    /\ route = "/track" /\ track.shown # <<>> /\ ~track.loading
    /\ FetchBooking(track.id) /\ UNCHANGED <<route, book>>

AnswerGet(k) ==
    /\ Asked(k, "get")
    /\ Answer(k, <<req[k].arg, booking[req[k].arg].status>>)
    /\ UNCHANGED <<indexVars, pages, world, crossed>>

\* The rest of fetchBooking: whichever id was asked for
ShowStatus(k) ==
    /\ Arrives(k, "get")
    /\ track' = IF Ok(k)
                THEN [track EXCEPT !.shown = req[k].ans, !.loading = FALSE]
                ELSE [track EXCEPT !.error = TRUE, !.loading = FALSE]
    /\ UNCHANGED <<indexVars, route, search, book, world>>

-----------------------------------------------------------------------------
(* The rows and the saga                                                   *)

Becomes(i, status) == booking' = [booking EXCEPT ![i] = [@ EXCEPT !.status = status]]

SagaStep(i) ==
    LET l == booking[i].label
    IN /\ booking[i].queued
       /\ \/ /\ booking[i].status = "INITIATED" /\ row[l] \in {"MISSING", "AVAILABLE"}
             /\ Becomes(i, "SEAT_LOCKED") /\ row' = [row EXCEPT ![l] = "LOCKED"]
          \/ /\ booking[i].status = "INITIATED" /\ row[l] \in {"LOCKED", "BOOKED"}
             /\ Becomes(i, "FAILED") /\ UNCHANGED row
          \/ /\ booking[i].status = "SEAT_LOCKED"
             /\ Becomes(i, "PAYMENT_PROCESSING") /\ UNCHANGED row
          \/ /\ booking[i].status = "PAYMENT_PROCESSING"
             /\ Becomes(i, "CONFIRMED") /\ row' = [row EXCEPT ![l] = "BOOKED"]
       /\ UNCHANGED <<indexVars, pages, req, lost, rivals, crossed>>

\* Another customer books a seat, or had booked it in the seeds.
Rival(l) ==
    /\ rivals < MaxRivals /\ rivals' = rivals + 1
    /\ route # "/" /\ row[l] = "AVAILABLE"
    /\ row' = [row EXCEPT ![l] = "BOOKED"]
    /\ UNCHANGED <<indexVars, pages, req, booking, lost, crossed>>

-----------------------------------------------------------------------------
SearchStep ==
    HandleSearch \/ RefuseSameAirport \/ PrevPage \/ NextPage \/ SelectFlight

BookStep == LoadSeats \/ (\E s \in Seats : PickSeat(s)) \/ BackToSeats \/ HandleBook

Server(k) == AnswerSearch(k) \/ AnswerSeats(k) \/ AnswerCreate(k) \/ AnswerGet(k)

Shows(k) == ShowPage(k) \/ ShowSeats(k) \/ ShowBooking(k) \/ ShowStatus(k)

Next ==
    \/ route = "/" /\ IndexNext /\ UNCHANGED webVars
    \/ SearchStep \/ BookStep \/ TrackStatus \/ TypeOldId \/ Tick \/ Refresh
    \/ \E k \in Slots : Server(k) \/ Shows(k) \/ Lose(k)
    \/ \E i \in Made : SagaStep(i)
    \/ \E l \in Labels : Rival(l)

Spec == Init /\ [][Next]_vars

\* Servers answer, answers arrive, timers tick, sagas and starts go on; nobody has
\* to press a button.
Fairness ==
    /\ \A k \in Slots : WF_vars(Server(k)) /\ WF_vars(Shows(k))
    /\ \A i \in Made : WF_vars(SagaStep(i))
    /\ \A p \in SearchPods : WF_vars(route = "/" /\ PodStarts(p) /\ UNCHANGED webVars)
    /\ WF_vars(Tick)

FairSpec == Spec /\ Fairness

-----------------------------------------------------------------------------
(* Properties                                                              *)

\* The number above the list is the number of the page that is listed, unless a
\* pagination button was pressed while a search was running.
PageListedIsPageNamed ==
    "search" \in crossed \/ search.loading \/ search.error \/ search.shown \in {0, search.page}

Bookings == {i \in Made : booking[i].status # "NONE"}

\* One visit of BookPage makes one booking at most, Back and answers in any order
\* notwithstanding; unless Enter was pressed twice and the seats loaded twice.
OneBookingPerVisit == "seats" \in crossed \/ Cardinality(Bookings) <= 1

\* "Booking Failed" is shown for a booking that does not exist, and "Booking
\* Submitted" for one that does; unless the answer of the server was lost, or that of
\* its database.
PageTellsTheTruth ==
    /\ book.step = "error" /\ Bookings # {} => lost > 0 \/ "seats" \in crossed
    /\ book.step = "done" => book.id \in Bookings

\* "Auto-refresh every 5s while in-progress" (TrackPage.tsx:51): the page ends up
\* showing how the booking it was asked for ended, in whatever order answers arrive.
\* Excused: nothing was ever shown, or the last word was an error, and nothing
\* refreshes; another id was typed while an answer was on its way.
OutcomeIsShown ==
    <>[](route = "/track" =>
            \/ track.shown = <<track.id, booking[track.id].status>>
            \/ track.error /\ ~Polling
            \/ "get" \in crossed /\ track.shown # <<>> /\ track.shown[1] # track.id)

\* A seat is taken or free, whatever it is called (01-inventory-seats.sql:12, "so
\* seats are: 1A, 1B ... 25F"): it is not booked under two labels.
OneCustomerPerSeat ==
    \A s \in Seats : row[<<s, "seed">>] # "BOOKED" \/ row[<<s, "page">>] # "BOOKED"

=============================================================================
