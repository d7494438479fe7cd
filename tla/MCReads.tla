------------------------------ MODULE MCReads ------------------------------
(***************************************************************************)
(* Reads for model checking: an active user with a plain password, one     *)
(* with only a hash, an inactive one; three seats of one event and none of *)
(* the others, pages of two seats by default and of at most three.         *)
(***************************************************************************)
EXTENDS Reads

User(id, email, plain, password, active) ==
    [id |-> id, email |-> email, password_plain |-> plain,
     password_hash |-> Hash(password), is_active |-> active]
SomeUsers ==
    {User(1, "u1@x", "p1", "p1", TRUE), User(2, "u2@x", None, "p2", TRUE),
     User(3, "u3@x", "p3", "p3", FALSE)}

Event(id, title, words, date) == [id |-> id, title |-> title, words |-> words, date |-> date]
SomeEvents ==
    {Event(1, "opera", {"opera", "stage"}, "d1"), Event(2, None, {"stage"}, "d2"),
     Event(3, "film", {"film", "stage"}, "d1"), Event(4, "play", {"play", "stage"}, "d2")}

Seat(id, event, row, price) == [id |-> id, event_id |-> event, row |-> row, price |-> price]
SomeSeats == {Seat(1, 1, 1, 4), Seat(2, 1, 1, 8), Seat(3, 1, 2, 12)}

Booking(id, user, event) == [id |-> id, user |-> user, event_id |-> event]
SomeBookings == {Booking(1, 1, 1), Booking(2, 2, 1)}

Absent == [n \in QueryNames |-> None]

Token(form, email, password) == [form |-> form, email |-> email, password |-> password]
Header(scheme, form) == [scheme |-> scheme, token |-> Token(form, "", "")]
NoHeader == Header("", "empty")
Credentials(email, password) == [scheme |-> "Basic", token |-> Token("pair", email, password)]

SomeHeaders ==
    {NoHeader, Header("Bearer", "garbled"), Header("Basic", "empty"), Header("Basic", "garbled"),
     Credentials("u1@x", "p1"), Credentials("u2@x", "p2"), Credentials("u2@x", "p1"),
     Credentials("u3@x", "p3"), Credentials("nobody@x", "p1")}

(* What a preflight asks for: the method and the headers to follow.        *)
NoPreflight == [method |-> None, headers |-> {}]
Preflights ==
    {NoPreflight, [method |-> "TRACE", headers |-> {}], [method |-> "PATCH", headers |-> {"X-Other"}],
     [method |-> "PATCH", headers |-> {"Authorization"}]}

Request(method, path, header, query) ==
    [method |-> method, path |-> path, origin |-> None, asks |-> NoPreflight,
     header |-> header, query |-> query]

(* Every route with every header; each reading handler with parameters     *)
(* that are missing, malformed and right; and what no route matches.       *)
SomeRequests ==
    {Request(route.method, route.path, header, Absent) :
       route \in Routes, header \in SomeHeaders}
    \cup {Request("GET", <<"api", "analytics">>, Credentials("u1@x", "p1"), [Absent EXCEPT !.id = id]) :
            id \in {Invalid, 0, 1, 2}}
    \cup {Request("GET", <<"api", "seats">>, Credentials("u1@x", "p1"),
                  [Absent EXCEPT !.event_id = 1, !.status = status_]) :
            status_ \in SeatStatus}
    \cup {Request("GET", <<"api", "events">>, NoHeader, [Absent EXCEPT !.pageSize = n]) : n \in {3, 4}}
    \cup {Request("GET", <<"api", "events">>, NoHeader, [Absent EXCEPT !.date = Invalid]),
          Request("GET", <<"api", "payments", "fail">>, NoHeader, [Absent EXCEPT !.orderId = 7]),
          Request("DELETE", <<"api", "reset">>, NoHeader, Absent),
          Request("GET", <<"api", "users">>, NoHeader, Absent),
          Request("OPTIONS", <<"api", "seats">>, NoHeader, Absent)}
    \cup {[Request("OPTIONS", <<"api", "seats">>, NoHeader, Absent)
              EXCEPT !.origin = "site", !.asks = asks] : asks \in Preflights}

PageSizes == {None, 1, 3, 4}
SomeWalks ==
    {[handler |-> "ListSeats", query |-> [Absent EXCEPT !.event_id = 1, !.pageSize = n, !.row = row]] :
       n \in PageSizes, row \in {None, 1}}
    \cup {[handler |-> "ListEvents", query |-> [Absent EXCEPT !.query = word, !.date = date, !.pageSize = n]] :
            n \in {0, 1}, word \in {None, "stage", "film"}, date \in {None, "d1", "d3"}}
=============================================================================
