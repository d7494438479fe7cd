------------------------------- MODULE Access -------------------------------
(***************************************************************************)
(* From a request to its handler: the CORS handler, the router of          *)
(* transport_http.gen.go, the authentication that main.go puts in front of *)
(* every route but three prefixes, and the wrappers that bind the query    *)
(* parameters.  None of it keeps state: a request either gets a status     *)
(* here or reaches one handler, with a session or without.                 *)
(***************************************************************************)
EXTENDS Integers, SequencesExt

CONSTANTS
    UserRows, \* rows of the table users: id, email, plain and hashed password
    None,     \* NULL, an absent parameter, no session
    Invalid   \* a parameter that does not parse as the type it should have

ASSUME UsersAssumption ==
    /\ \A u \in UserRows : u.id \in Nat
    /\ \A u, v \in UserRows : u.email = v.email \/ u.id = v.id => u = v

OK == 200
BadRequest == 400
Unauthorized == 401
Forbidden == 403
NotFound == 404
MethodNotAllowed == 405
InternalServerError == 500

-----------------------------------------------------------------------------
(* The router                                                              *)

Routes == {
    [method |-> "GET",   path |-> <<"api", "analytics">>, handler |-> "GetEventAnalytics"],
    [method |-> "GET",   path |-> <<"api", "bookings">>, handler |-> "ListBookings"],
    [method |-> "POST",  path |-> <<"api", "bookings">>, handler |-> "CreateBooking"],
    [method |-> "PATCH", path |-> <<"api", "bookings", "cancel">>, handler |-> "CancelBooking"],
    [method |-> "PATCH", path |-> <<"api", "bookings", "initiatePayment">>,
     handler |-> "InitiatePayment"],
    [method |-> "GET",   path |-> <<"api", "events">>, handler |-> "ListEvents"],
    [method |-> "GET",   path |-> <<"api", "payments", "fail">>, handler |-> "NotifyPaymentFailed"],
    [method |-> "POST",  path |-> <<"api", "payments", "notifications">>,
     handler |-> "OnPaymentUpdates"],
    [method |-> "GET",   path |-> <<"api", "payments", "success">>,
     handler |-> "NotifyPaymentCompleted"],
    [method |-> "POST",  path |-> <<"api", "reset">>, handler |-> "ResetDatabase"],
    [method |-> "GET",   path |-> <<"api", "seats">>, handler |-> "ListSeats"],
    [method |-> "PATCH", path |-> <<"api", "seats", "release">>, handler |-> "ReleaseSeat"],
    [method |-> "PATCH", path |-> <<"api", "seats", "select">>, handler |-> "SelectSeat"]}

Handlers == {route.handler : route \in Routes}

ASSUME NoneAssumption == None \notin Int \cup Handlers

(* The handlers that ask the context for the session.                      *)
SessionHandlers ==
    {"ListBookings", "CreateBooking", "CancelBooking", "InitiatePayment",
     "ReleaseSeat", "SelectSeat"}

RoutesTo(path) == {route \in Routes : route.path = path}
Match(method, path) == {route \in RoutesTo(path) : route.method = method}

(* No OPTIONS request gets through the CORS handler around the router.  A  *)
(* preflight names the method, and the headers, that are to follow it.     *)
AllowedMethods == {"GET", "HEAD", "POST", "PUT", "OPTIONS", "PATCH", "DELETE"}
AllowedHeaders ==
    {"Authorization", "Content-Type", "X-Requested-With", "Accept", "Origin",
     "Accept-Language", "Content-Language"}

PreflightStatus(request) ==
    IF request.origin = None THEN OK
    ELSE IF request.asks.method = None THEN BadRequest
    ELSE IF request.asks.method \notin AllowedMethods THEN MethodNotAllowed
    ELSE IF request.asks.headers \subseteq AllowedHeaders THEN OK ELSE Forbidden

-----------------------------------------------------------------------------
(* Authentication                                                          *)

Hash(password) == <<"sha256", password>>

(* getUser: the row with the email, or none.                               *)
GetUser(email) == {u \in UserRows : u.email = email}

PasswordMatches(user, password) ==
    \/ user.password_plain # None /\ user.password_plain = password
    \/ user.password_hash = Hash(password)

(* The token is base64 of an email, a colon and a password ("pair"), or    *)
(* something else.                                                         *)
GetSession(token) ==
    {u.id : u \in {v \in GetUser(token.email) :
                     token.form = "pair" /\ v.is_active /\ PasswordMatches(v, token.password)}}

(* AuthenticationMiddleware: the session, or none (the answer is 401).     *)
Authenticate(header) ==
    IF header.scheme = "Basic" /\ header.token.form # "empty"
    THEN GetSession(header.token) ELSE {}

(* Mutant: every path under /api/bookings is exempt.                       *)
IsExemptToo(path) ==
    \/ \E prefix \in {<<"api", "payments">>, <<"api", "events">>, <<"api", "reset">>} :
         IsPrefix(prefix, path)
    \/ IsPrefix(<<"api", "bookings">>, path)

(* The prefixes that need no authentication.                               *)
IsExempt(path) ==
    \E prefix \in {<<"api", "payments">>, <<"api", "events">>, <<"api", "reset">>} :
      IsPrefix(prefix, path)

-----------------------------------------------------------------------------
(* Query parameters.  The value of a parameter is None when it is absent   *)
(* or empty, and Invalid when it does not parse as the type of the         *)
(* parameter.                                                              *)
QueryNames == {"id", "event_id", "orderId", "query", "date", "page", "pageSize", "row", "status"}

Required(query, names) == \A n \in names : query[n] \notin {None, Invalid}
Optional(query, names) == \A n \in names : query[n] # Invalid

AnalyticsBinds(query) == Required(query, {"id"})
EventsBind(query) == Optional(query, {"query", "date", "page", "pageSize"})
FailedBinds(query) == Required(query, {"orderId"})
CompletedBinds(query) == Required(query, {"orderId"})
SeatsBind(query) ==
    /\ Required(query, {"event_id"})
    /\ Optional(query, {"page", "pageSize", "row", "status"})

(* The wrappers of the other handlers have no parameters to bind.          *)
Binds(handler, query) ==
    CASE handler = "GetEventAnalytics" -> AnalyticsBinds(query)
      [] handler = "ListEvents" -> EventsBind(query)
      [] handler = "NotifyPaymentFailed" -> FailedBinds(query)
      [] handler = "NotifyPaymentCompleted" -> CompletedBinds(query)
      [] handler = "ListSeats" -> SeatsBind(query)
      [] OTHER -> TRUE

-----------------------------------------------------------------------------
(* What becomes of a request before a handler runs: a status, or (0) the   *)
(* handler it reaches and the session it has there.                        *)
Rejected(status) == [status |-> status, handler |-> None, session |-> None]

(* The route has matched; the middleware and the wrapper run.              *)
Admit(route, request) ==
    LET sessions == IF IsExempt(request.path) THEN {None} ELSE Authenticate(request.header)
    IN IF sessions = {} THEN Rejected(Unauthorized)
       ELSE IF ~Binds(route.handler, request.query) THEN Rejected(BadRequest)
       ELSE [status |-> 0, handler |-> route.handler, session |-> CHOOSE s \in sessions : TRUE]

Dispatch(request) ==
    IF request.method = "OPTIONS" THEN Rejected(PreflightStatus(request))
    ELSE IF RoutesTo(request.path) = {} THEN Rejected(NotFound)
    ELSE IF Match(request.method, request.path) = {} THEN Rejected(MethodNotAllowed)
    ELSE Admit(CHOOSE route \in Match(request.method, request.path) : TRUE, request)
=============================================================================
