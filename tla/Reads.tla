------------------------------- MODULE Reads -------------------------------
(***************************************************************************)
(* The handlers that only read: the lists of events, seats and bookings    *)
(* and the analytics of an event.  Each reads with one statement (the list *)
(* of events of a date with two, of a table nobody changes), while the     *)
(* handlers and workers of the other modules change seats and bookings     *)
(* between one request and the next.  A client walks through the pages of  *)
(* a list until it gets an empty one.                                      *)
(***************************************************************************)
EXTENDS Access, FiniteSets

CONSTANTS
    EventRows,       \* events_archive: id, title, words (of title and description), date
    SeatRows,        \* seats: id, event_id, row, price
    BookingRows,     \* bookings that can exist: id, user, event_id
    DefaultPageSize, \* 10 in the code
    MaxPageSize,     \* 20 in the code
    RequestSet,      \* the requests that are sent
    WalkSet          \* the lists that are walked: handler and query

(* Keys are numbers and unique, and a list takes the page sizes that are   *)
(* not above its maximum.                                                  *)
ASSUME RowsAssumption ==
    /\ IsFiniteSet(EventRows) /\ IsFiniteSet(SeatRows)
    /\ \A e \in EventRows : e.id \in Nat
    /\ \A s \in SeatRows : s.id \in Nat
    /\ \A d, e \in EventRows : d.id = e.id => d = e
    /\ \A r, s \in SeatRows : r.id = s.id => r = s
    /\ \A b, c \in BookingRows : b.id = c.id => b = c
    /\ DefaultPageSize \in Nat \ {0} /\ MaxPageSize \in Nat /\ DefaultPageSize <= MaxPageSize

(* Numbers of pages and rows parse or do not.  A list of seats is walked   *)
(* without a filter by their status, which changes on the way.             *)
ASSUME RequestsAssumption ==
    /\ \A r \in RequestSet :
         /\ DOMAIN r.query = QueryNames
         /\ {r.query.page, r.query.pageSize} \subseteq Int \cup {None, Invalid}
    /\ None \notin RequestSet \cup WalkSet
    /\ \A w \in WalkSet :
         /\ DOMAIN w.query = QueryNames
         /\ {w.query.pageSize, w.query.row} \subseteq Int \cup {None}
         /\ w.handler \in {"ListEvents", "ListSeats"} /\ w.query.status = None

SeatStatus == {"FREE", "RESERVED", "SOLD"}
SeatIds == {s.id : s \in SeatRows}

VARIABLES
    status,   \* seats.status
    created,  \* the bookings that exist
    holder,   \* booking_seats: the booking that has the seat, or None
    request,  \* the request answered last, or None
    response, \* its answer
    walk      \* a walk through a list: what is walked and what it has seen

tables == <<status, created, holder>>
vars == <<tables, request, response, walk>>

-----------------------------------------------------------------------------
(* LIMIT and OFFSET, and the page a client gets: an absent number or one   *)
(* that is out of range is replaced by the default.                        *)
Window(seq, offset, limit) ==
    SubSeq(seq, offset + 1, IF offset + limit < Len(seq) THEN offset + limit ELSE Len(seq))

(* Mutant: any positive size is accepted.                                  *)
PageSizeUnbounded(query) ==
    IF query.pageSize # None /\ query.pageSize > 0
    THEN query.pageSize ELSE DefaultPageSize

PageSize(query) ==
    IF query.pageSize # None /\ query.pageSize > 0 /\ query.pageSize <= MaxPageSize
    THEN query.pageSize ELSE DefaultPageSize

(* Mutant: the pages are counted from zero.                                *)
OffsetFromZero(query) ==
    LET page == IF query.page # None /\ query.page > 0 THEN query.page ELSE 1
    IN page * PageSize(query)

Offset(query) ==
    LET page == IF query.page # None /\ query.page > 0 THEN query.page ELSE 1
    IN (page - 1) * PageSize(query)

(* The rows in the order of their ids.  No statement asks for an order: it *)
(* is the one of the plan that SQLite chooses, and an assumption here.     *)
InOrder(rows) ==
    CHOOSE seq \in [1..Cardinality(rows) -> rows] :
      \A i, j \in DOMAIN seq : i < j => seq[i].id < seq[j].id

-----------------------------------------------------------------------------
(* Events                                                                  *)
EventsCount(query) == Cardinality({e \in EventRows : e.date = query.date})

(* The full text search, joined with the rows of the date.  When no event  *)
(* has the date the list is not queried at all.                            *)
GetEventsList(query) ==
    IF query.date # None /\ EventsCount(query) = 0
    THEN << >>
    ELSE Window(InOrder({e \in EventRows : /\ query.query # None => query.query \in e.words
                                           /\ query.date # None => e.date = query.date}),
                Offset(query), PageSize(query))

ListEvents(query) ==
    LET events == GetEventsList(query)
    IN [i \in DOMAIN events |->
          [id |-> events[i].id,
           title |-> IF events[i].title = None THEN "" ELSE events[i].title]]

-----------------------------------------------------------------------------
(* Seats                                                                   *)
GetSeats(query) ==
    Window(InOrder({s \in SeatRows : /\ s.event_id = query.event_id
                                     /\ query.row # None => s.row = query.row
                                     /\ query.status # None => status[s.id] = query.status}),
           Offset(query), PageSize(query))

(* A row filter that is not positive is no filter.                         *)
ListSeats(query) ==
    LET row == IF query.row # None /\ query.row > 0 THEN query.row ELSE None
        seats == GetSeats([query EXCEPT !.row = row])
    IN [i \in DOMAIN seats |->
          [id |-> seats[i].id, row |-> seats[i].row,
           price |-> seats[i].price, status |-> status[seats[i].id]]]

-----------------------------------------------------------------------------
(* Bookings                                                                *)

(* bookings LEFT JOIN booking_seats: a booking without a seat is one row   *)
(* whose seat is NULL.                                                     *)
JoinSeats(user) ==
    {[booking |-> b, seat |-> s] :
       b \in {c \in created : c.user = user}, s \in SeatIds \cup {None}}

Aggregate(rows) ==
    {[id |-> r.booking.id, event_id |-> r.booking.event_id,
      seats |-> {[id |-> q.seat] : q \in {p \in rows : p.booking = r.booking /\ p.seat # None}}] :
       r \in rows}

(* Mutant: an inner join.                                                  *)
GetBookingsInner(user) ==
    Aggregate({r \in JoinSeats(user) : r.seat # None /\ holder[r.seat] = r.booking.id})

(* GROUP BY booking: the seats as JSON objects, no object for NULL.        *)
GetBookings(user) ==
    Aggregate({r \in JoinSeats(user) :
                 IF r.seat = None THEN \A s \in SeatIds : holder[s] # r.booking.id
                                  ELSE holder[r.seat] = r.booking.id})

(* The handler reads the JSON again.                                       *)
ListBookings(session) ==
    {[b EXCEPT !.seats = {object.id : object \in @}] : b \in GetBookings(session)}

-----------------------------------------------------------------------------
(* Analytics                                                               *)
SumPrices(rows) == MapThenSumSet(LAMBDA s : s.price, rows)

WithStatus(event, value) == {s \in SeatRows : s.event_id = event /\ status[s.id] = value}

(* A sum over no row at all is NULL.                                       *)
SumOf(event, rows) ==
    IF \E s \in SeatRows : s.event_id = event THEN Cardinality(rows) ELSE None

(* Mutant: the seats of all events are counted.                            *)
GetEventAnalyticsOfAll(event) ==
    [total |-> Cardinality(SeatRows),
     sold |-> SumOf(event, WithStatus(event, "SOLD")),
     reserved |-> SumOf(event, WithStatus(event, "RESERVED")),
     free |-> SumOf(event, WithStatus(event, "FREE")),
     revenue |-> SumPrices(WithStatus(event, "SOLD")),
     bookings |-> Cardinality({b \in created : b.event_id = event})]

GetEventAnalytics(event) ==
    [total |-> Cardinality({s \in SeatRows : s.event_id = event}),
     sold |-> SumOf(event, WithStatus(event, "SOLD")),
     reserved |-> SumOf(event, WithStatus(event, "RESERVED")),
     free |-> SumOf(event, WithStatus(event, "FREE")),
     revenue |-> SumPrices(WithStatus(event, "SOLD")),
     bookings |-> Cardinality({b \in created : b.event_id = event})]

(* The handler's response: NULL becomes 0.                                 *)
AnalyticsResponse(event) ==
    LET a == GetEventAnalytics(event)
        Count(n) == IF n = None THEN 0 ELSE n
    IN [event_id |-> event, total |-> a.total, sold |-> Count(a.sold),
        reserved |-> Count(a.reserved), free |-> Count(a.free),
        revenue |-> a.revenue, bookings |-> a.bookings]

-----------------------------------------------------------------------------
WithoutSession(handler) ==
    IF handler \in {"ReleaseSeat", "SelectSeat"} THEN Unauthorized ELSE InternalServerError

(* The answer of a handler.  0: the handlers of the other modules answer.  *)
Answer(handler, session, query) ==
    CASE handler \in SessionHandlers /\ session = None ->
           [status |-> WithoutSession(handler), body |-> None]
      [] handler = "ListBookings" -> [status |-> OK, body |-> ListBookings(session)]
      [] handler = "ListEvents" -> [status |-> OK, body |-> ListEvents(query)]
      [] handler = "ListSeats" -> [status |-> OK, body |-> ListSeats(query)]
      [] handler = "GetEventAnalytics" ->
           IF query.id = 0 THEN [status |-> BadRequest, body |-> None]
           ELSE [status |-> OK, body |-> AnalyticsResponse(query.id)]
      [] OTHER -> [status |-> 0, body |-> None]

Serve(req) ==
    LET admitted == Dispatch(req) IN
    IF admitted.status # 0 THEN [status |-> admitted.status, body |-> None]
    ELSE Answer(admitted.handler, admitted.session, req.query)

-----------------------------------------------------------------------------
NoResponse == [status |-> 0, body |-> None]
NotWalking == [on |-> None, page |-> 0, seen |-> << >>, done |-> FALSE]

TypeOK ==
    /\ status \in [SeatIds -> SeatStatus]
    /\ created \subseteq BookingRows
    /\ holder \in [SeatIds -> {b.id : b \in created} \cup {None}]
    /\ request \in RequestSet \cup {None}
    /\ response.status \in {0, OK, BadRequest, Unauthorized, Forbidden, NotFound,
                            MethodNotAllowed, InternalServerError}
    /\ (/\ response.status = OK /\ request.method = "GET"
        /\ request.path \in {<<"api", "seats">>, <<"api", "events">>}) =>
          Len(response.body) <= MaxPageSize
    /\ walk \in [on : WalkSet \cup {None}, page : Nat, seen : Seq(Nat), done : BOOLEAN]

Init ==
    /\ status = [s \in SeatIds |-> "FREE"]
    /\ created = {} /\ holder = [s \in SeatIds |-> None]
    /\ request = None /\ response = NoResponse
    /\ walk = NotWalking

(* What the other handlers and the workers do to the tables these read.    *)
Writers ==
    /\ \/ \E b \in BookingRows \ created :
            created' = created \cup {b} /\ UNCHANGED <<status, holder>>
       \/ \E s \in SeatIds, b \in created :
            /\ holder[s] = None /\ status[s] = "FREE"
            /\ holder' = [holder EXCEPT ![s] = b.id]
            /\ status' = [status EXCEPT ![s] = "RESERVED"]
            /\ UNCHANGED created
       \/ \E s \in SeatIds :
            /\ holder[s] # None
            /\ \/ status[s] = "RESERVED" /\ status' = [status EXCEPT ![s] = "SOLD"]
                  /\ UNCHANGED holder
               \/ status' = [status EXCEPT ![s] = "FREE"] /\ holder' = [holder EXCEPT ![s] = None]
            /\ UNCHANGED created
    /\ request = None
    /\ UNCHANGED <<request, response, walk>>

Ask ==
    /\ request = None /\ walk.on = None
    /\ \E req \in RequestSet : request' = req /\ response' = Serve(req)
    /\ UNCHANGED <<tables, walk>>

(* A statement fails: GetUser of the middleware, or the query of a handler.*)
AskInVain ==
    /\ request = None /\ walk.on = None
    /\ \E req \in RequestSet :
         /\ Dispatch(req).status \in {0, Unauthorized}
         /\ request' = req
    /\ response' = [status |-> InternalServerError, body |-> None]
    /\ UNCHANGED <<tables, walk>>

(* The client has its answer.                                              *)
Answered ==
    /\ request # None
    /\ request' = None /\ response' = NoResponse
    /\ UNCHANGED <<tables, walk>>

StartWalk ==
    /\ request = None /\ walk.on = None
    /\ \E w \in WalkSet : walk' = [NotWalking EXCEPT !.on = w, !.page = 1]
    /\ UNCHANGED <<tables, request, response>>

(* The client asks for the next page, and stops at an empty one.           *)
WalkOn ==
    /\ walk.on # None /\ ~walk.done
    /\ LET query == [walk.on.query EXCEPT !.page = walk.page]
           answer == Answer(walk.on.handler, None, query).body
       IN walk' = IF answer = << >> THEN [walk EXCEPT !.done = TRUE]
                  ELSE [walk EXCEPT !.page = @ + 1,
                          !.seen = @ \o [i \in DOMAIN answer |-> answer[i].id]]
    /\ UNCHANGED <<tables, request, response>>

EndWalk == walk.done /\ walk' = NotWalking /\ UNCHANGED <<tables, request, response>>

Next == Writers \/ Ask \/ AskInVain \/ Answered \/ StartWalk \/ WalkOn \/ EndWalk

Spec == Init /\ [][Next]_vars

-----------------------------------------------------------------------------
(* The rows a client is to see on the pages of a list.                     *)
Listed(w) ==
    LET q == w.query
    IN IF w.handler = "ListSeats"
       THEN {s \in SeatRows : s.event_id = q.event_id /\ (q.row \in {None, s.row} \/ q.row <= 0)}
       ELSE {e \in EventRows : (q.query = None \/ q.query \in e.words) /\ q.date \in {None, e.date}}

(* A client that walks through all pages of a list that is not filtered by *)
(* status sees every row of the event (or of the row of seats, or every    *)
(* event that matches) exactly once, whatever happens to the seats between *)
(* two pages and whatever page size it asks for: the pages cover the rows, *)
(* given the order of InOrder.                                             *)
WalkIsComplete ==
    walk.done => LET ids == {r.id : r \in Listed(walk.on)}
                 IN ToSet(walk.seen) = ids /\ Len(walk.seen) = Cardinality(ids)

(* After some pages a client has seen as many of the first rows as fit     *)
(* into them.                                                              *)
WalkOK ==
    IF walk.on = None THEN walk = NotWalking
    ELSE LET rows == InOrder(Listed(walk.on))
             room == (walk.page - 1) * PageSize(walk.on.query)
         IN /\ walk.page >= 1
            /\ walk.seen = [i \in 1..(IF room < Len(rows) THEN room ELSE Len(rows)) |-> rows[i].id]
            /\ walk.done => Len(rows) <= room

(* The inductive strengthening of TypeOK; WalkIsComplete follows from it.  *)
Inductive == TypeOK /\ IsFiniteSet(created) /\ WalkOK

(* No request reaches a handler that needs a session without having one:   *)
(* every route of such a handler lies outside the prefixes that main.go    *)
(* exempts, and the middleware lets nobody through without a session.      *)
SessionWhereNeeded ==
    [][Ask => LET reached == Dispatch(request')
              IN reached.handler \in SessionHandlers => reached.session # None]_vars

(* Somebody who gives an active user's credentials for GET /api/bookings   *)
(* gets every booking of that user once, also the ones without seats, with *)
(* the seats each has at that moment, and no other user's.                 *)
OwnBookings ==
    [][Ask /\ request'.path = <<"api", "bookings">> /\ request'.method = "GET"
           /\ response'.status = OK =>
         \E u \in UserRows :
           /\ u.is_active /\ u.email = request'.header.token.email
           /\ {b.id : b \in response'.body} = {b.id : b \in {c \in created : c.user = u.id}}
           /\ Cardinality(response'.body) = Cardinality({c \in created : c.user = u.id})
           /\ \A s \in SeatIds :
                \A b \in response'.body : s \in b.seats <=> holder[s] = b.id]_vars

(* The counts of GET /api/analytics are of one moment: they add up for     *)
(* every event, also for one without seats.                                *)
AnalyticsAddUp ==
    [][Ask /\ request'.path = <<"api", "analytics">> /\ request'.method = "GET"
           /\ response'.status = OK =>
         LET a == response'.body
         IN a.sold + a.reserved + a.free = a.total]_vars
=============================================================================
