---------------------------- MODULE ReadsProofs ----------------------------
(***************************************************************************)
(* The lists and the analytics, for tables of any size and any requests.   *)
(***************************************************************************)
EXTENDS Reads, FiniteSetTheorems, SequenceTheorems, TLAPS

-----------------------------------------------------------------------------
(* Access: nobody gets past the middleware without a session.              *)

(* Routes with a handler that needs a session have none of the prefixes    *)
(* that are exempt.                                                        *)
LEMMA SessionRoutesAreGuarded ==
    ASSUME NEW route \in Routes, route.handler \in SessionHandlers
    PROVE  ~IsExempt(route.path)
<1> DEFINE Free == {<<"api", "payments">>, <<"api", "events">>, <<"api", "reset">>}
<1>1. ASSUME NEW path, NEW prefix \in Free,
             Len(path) >= 2, path[2] \in {"bookings", "seats"}
      PROVE  ~IsPrefix(prefix, path)
  <2>1. Len(prefix) = 2 /\ prefix[2] \notin {"bookings", "seats"}
    OBVIOUS
  <2>2. SubSeq(prefix, 1, 2)[2] = prefix[2] /\ SubSeq(path, 1, 2)[2] = path[2]
    BY <1>1
  <2> QED BY <1>1, <2>1, <2>2 DEF IsPrefix
<1>2. Len(route.path) >= 2 /\ route.path[2] \in {"bookings", "seats"}
  BY DEF Routes, SessionHandlers
<1> QED BY <1>1, <1>2 DEF IsExempt

(* A route that matches a request has its path and its method.             *)
LEMMA MatchedRoute ==
    ASSUME NEW method, NEW path, Match(method, path) # {}
    PROVE  LET route == CHOOSE route \in Match(method, path) : TRUE
           IN route \in Routes /\ route.path = path /\ route.method = method
<1> DEFINE route == CHOOSE route \in Match(method, path) : TRUE
<1>1. route \in Match(method, path)
  OBVIOUS
<1> QED BY <1>1 DEF Match, RoutesTo

(* Whoever is let through on a guarded path has the session of an active   *)
(* user with the email of the request.                                     *)
LEMMA SessionOfUser ==
    ASSUME NEW req, Authenticate(req.header) # {}
    PROVE  \E u \in UserRows :
             /\ u.is_active /\ u.email = req.header.token.email
             /\ u.id = CHOOSE s \in Authenticate(req.header) : TRUE
<1> DEFINE session == CHOOSE s \in Authenticate(req.header) : TRUE
<1>1. session \in Authenticate(req.header)
  OBVIOUS
<1>2. session \in GetSession(req.header.token)
  BY <1>1 DEF Authenticate
<1> HIDE DEF session
<1>3. PICK v \in GetUser(req.header.token.email) : v.is_active /\ v.id = session
  BY <1>2 DEF GetSession
<1>4. v \in UserRows /\ v.email = req.header.token.email
  BY <1>3 DEF GetUser
<1> QED BY <1>3, <1>4 DEF session

(* What becomes of a request that reaches a handler.                       *)
LEMMA Reached ==
    ASSUME NEW req, Dispatch(req).status = 0
    PROVE  \E route \in Routes :
             /\ route.path = req.path /\ route.method = req.method
             /\ Dispatch(req) = Admit(route, req)
             /\ Binds(route.handler, req.query)
             /\ Dispatch(req).handler = route.handler
             /\ ~IsExempt(req.path) =>
                  /\ Authenticate(req.header) # {}
                  /\ Dispatch(req).session = CHOOSE s \in Authenticate(req.header) : TRUE
             /\ IsExempt(req.path) => Dispatch(req).session = None
<1> DEFINE route == CHOOSE route \in Match(req.method, req.path) : TRUE
<1>1. req.method # "OPTIONS" /\ RoutesTo(req.path) # {} /\ Match(req.method, req.path) # {}
  BY DEF Dispatch, Rejected, PreflightStatus, OK, BadRequest, Forbidden, NotFound, MethodNotAllowed
<1>2. Dispatch(req) = Admit(route, req)
  BY <1>1 DEF Dispatch
<1>3. route \in Routes /\ route.path = req.path /\ route.method = req.method
  BY <1>1, MatchedRoute
<1> HIDE DEF route
<1> DEFINE sessions == IF IsExempt(req.path) THEN {None} ELSE Authenticate(req.header)
<1>4. Admit(route, req) =
        IF sessions = {} THEN Rejected(Unauthorized)
        ELSE IF ~Binds(route.handler, req.query) THEN Rejected(BadRequest)
        ELSE [status |-> 0, handler |-> route.handler, session |-> CHOOSE s \in sessions : TRUE]
  BY DEF Admit
<1> HIDE DEF sessions
<1>5. sessions # {} /\ Binds(route.handler, req.query)
      /\ Dispatch(req) = [status |-> 0, handler |-> route.handler,
                          session |-> CHOOSE s \in sessions : TRUE]
  BY <1>2, <1>4 DEF Rejected, Unauthorized, BadRequest
<1>6. (CHOOSE s \in {None} : TRUE) = None
  OBVIOUS
<1>7. /\ ~IsExempt(req.path) => sessions = Authenticate(req.header)
      /\ IsExempt(req.path) => sessions = {None}
  BY DEF sessions
<1>8. Dispatch(req).handler = route.handler
      /\ Dispatch(req).session = CHOOSE s \in sessions : TRUE
  BY <1>5
<1>9. IsExempt(req.path) => Dispatch(req).session = None
  BY <1>6, <1>7, <1>8
<1>10. ~IsExempt(req.path) =>
         /\ Authenticate(req.header) # {}
         /\ Dispatch(req).session = CHOOSE s \in Authenticate(req.header) : TRUE
  BY <1>5, <1>7, <1>8
<1> QED BY <1>2, <1>3, <1>5, <1>8, <1>9, <1>10, Zenon

(* The status of an answer that no handler gives.                          *)
LEMMA RejectedStatus ==
    ASSUME NEW req, Dispatch(req).status # 0
    PROVE  /\ Dispatch(req).status \in
                {OK, BadRequest, Unauthorized, Forbidden, NotFound, MethodNotAllowed}
           /\ Dispatch(req).status = OK => req.method = "OPTIONS"
           /\ Dispatch(req).handler = None
<1> DEFINE route == CHOOSE route \in Match(req.method, req.path) : TRUE
           sessions == IF IsExempt(req.path) THEN {None} ELSE Authenticate(req.header)
           admitted == Admit(route, req)
<1>1. admitted =
        IF sessions = {} THEN Rejected(Unauthorized)
        ELSE IF ~Binds(route.handler, req.query) THEN Rejected(BadRequest)
        ELSE [status |-> 0, handler |-> route.handler, session |-> CHOOSE s \in sessions : TRUE]
  BY DEF Admit
<1>2. admitted.status = 0 \/ admitted = Rejected(Unauthorized) \/ admitted = Rejected(BadRequest)
  <2> HIDE DEF sessions, route, admitted
  <2> QED BY <1>1
<1>3. \/ Dispatch(req) = Rejected(PreflightStatus(req)) /\ req.method = "OPTIONS"
      \/ Dispatch(req) = Rejected(NotFound) \/ Dispatch(req) = Rejected(MethodNotAllowed)
      \/ Dispatch(req) = admitted
  BY DEF Dispatch
<1>4. PreflightStatus(req) \in {OK, BadRequest, MethodNotAllowed, Forbidden}
  BY DEF PreflightStatus
<1> HIDE DEF admitted
<1> QED
  BY <1>2, <1>3, <1>4
     DEF Rejected, OK, BadRequest, Unauthorized, Forbidden, NotFound, MethodNotAllowed

(* Every handler that needs a session is reached with one.                 *)
LEMMA ReachedWithSession ==
    ASSUME NEW req, Dispatch(req).handler \in SessionHandlers
    PROVE  Dispatch(req).session # None
<1>1. Dispatch(req).handler # None
  BY NoneAssumption DEF SessionHandlers, Handlers, Routes
<1>2. Dispatch(req).status = 0
  BY <1>1, RejectedStatus
<1>3. PICK route \in Routes :
        /\ route.path = req.path /\ Dispatch(req).handler = route.handler
        /\ ~IsExempt(req.path) =>
             /\ Authenticate(req.header) # {}
             /\ Dispatch(req).session = CHOOSE s \in Authenticate(req.header) : TRUE
  BY <1>2, Reached
<1>4. ~IsExempt(req.path)
  BY <1>3, SessionRoutesAreGuarded
<1>5. PICK u \in UserRows : u.id = Dispatch(req).session
  BY <1>3, <1>4, SessionOfUser
<1>6. u.id \in Nat
  BY UsersAssumption
<1> QED BY <1>5, <1>6, NoneAssumption

-----------------------------------------------------------------------------
(* The order of the rows and the pages.                                    *)

Rows(S) == IsFiniteSet(S) /\ (\A r \in S : r.id \in Nat) /\ (\A r, s \in S : r.id = s.id => r = s)

(* The place of a row among those with an id that is not above its own.    *)
Rank(S, r) == Cardinality({s \in S : s.id <= r.id})

LEMMA RankIsAPlace ==
    ASSUME NEW S, Rows(S), NEW r \in S
    PROVE  Rank(S, r) \in 1..Cardinality(S)
<1> DEFINE T == {s \in S : s.id <= r.id}
<1>1. T \in SUBSET S /\ r \in T
  BY DEF Rows
<1>2. IsFiniteSet(T) /\ Cardinality(T) <= Cardinality(S)
  BY <1>1, FS_Subset DEF Rows
<1>3. Cardinality(T) \in Nat /\ Cardinality(S) \in Nat
  BY <1>2, FS_CardinalityType DEF Rows
<1>4. Cardinality(T) # 0
  BY <1>1, <1>2, FS_EmptySet
<1> HIDE DEF T
<1>5. Rank(S, r) = Cardinality(T)
  BY DEF Rank, T
<1> QED BY <1>2, <1>3, <1>4, <1>5

LEMMA RankGrows ==
    ASSUME NEW S, Rows(S), NEW r \in S, NEW s \in S, r.id < s.id
    PROVE  Rank(S, r) < Rank(S, s)
<1> DEFINE R == {q \in S : q.id <= r.id}
           T == {q \in S : q.id <= s.id}
<1>1. T \in SUBSET S /\ R \in SUBSET T /\ s \in T /\ s \notin R
  BY DEF Rows
<1>2. IsFiniteSet(T)
  BY <1>1, FS_Subset DEF Rows
<1>3. IsFiniteSet(R) /\ Cardinality(R) <= Cardinality(T) /\ Cardinality(R) # Cardinality(T)
  BY <1>1, <1>2, FS_Subset
<1>4. Cardinality(R) \in Nat /\ Cardinality(T) \in Nat
  BY <1>2, <1>3, FS_CardinalityType
<1> HIDE DEF R, T
<1>5. Rank(S, r) = Cardinality(R) /\ Rank(S, s) = Cardinality(T)
  BY DEF Rank, R, T
<1> QED BY <1>3, <1>4, <1>5

(* The rows of a finite table can be put in the order of their ids.        *)
LEMMA AnOrderExists ==
    ASSUME NEW S, Rows(S)
    PROVE  \E seq \in [1..Cardinality(S) -> S] :
             /\ \A i, j \in DOMAIN seq : i < j => seq[i].id < seq[j].id
<1> DEFINE N == Cardinality(S)
           rank == [r \in S |-> Rank(S, r)]
<1>1. N \in Nat /\ IsFiniteSet(S)
  BY FS_CardinalityType DEF Rows
<1>2. rank \in [S -> 1..N]
  BY RankIsAPlace
<1>3. ASSUME NEW r \in S, NEW s \in S, rank[r] <= rank[s]
      PROVE  r.id <= s.id
  <2>1. r.id \in Nat /\ s.id \in Nat
    BY DEF Rows
  <2>2. CASE s.id < r.id
    <3>1. Rank(S, s) < Rank(S, r)
      BY <2>2, RankGrows
    <3>2. Rank(S, s) \in Int /\ Rank(S, r) \in Int
      BY RankIsAPlace
    <3> QED BY <1>3, <3>1, <3>2
  <2> QED BY <2>1, <2>2
<1>4. \A r, s \in S : rank[r] = rank[s] => r = s
  <2> SUFFICES ASSUME NEW r \in S, NEW s \in S, rank[r] = rank[s]
               PROVE  r = s
    OBVIOUS
  <2>1. rank[r] \in Int /\ rank[s] \in Int /\ r.id \in Nat /\ s.id \in Nat
    BY <1>2 DEF Rows
  <2>2. r.id <= s.id /\ s.id <= r.id
    <3> HIDE DEF rank
    <3> QED BY <1>3, <2>1
  <2> QED BY <2>1, <2>2 DEF Rows
<1> HIDE DEF rank
<1>5. rank \in Injection(S, 1..N)
  BY <1>2, <1>4 DEF Injection, IsInjective
<1>6. IsFiniteSet(1..N) /\ Cardinality(1..N) = N
  BY <1>1, FS_Interval
<1>7. rank \in Surjection(S, 1..N)
  BY <1>5, <1>6, FS_Injection
<1>8. \A i \in 1..N : \E r \in S : rank[r] = i
  BY <1>7 DEF Surjection
<1> DEFINE seq == [i \in 1..N |-> CHOOSE r \in S : rank[r] = i]
<1>9. \A i \in 1..N : seq[i] \in S /\ rank[seq[i]] = i
  BY <1>8
<1>10. seq \in [1..N -> S]
  BY <1>9
<1> HIDE DEF seq
<1>11. ASSUME NEW i \in 1..N, NEW j \in 1..N, i < j
       PROVE  seq[i].id < seq[j].id
  <2>1. seq[i] \in S /\ seq[j] \in S /\ rank[seq[i]] = i /\ rank[seq[j]] = j
    BY <1>9
  <2>2. seq[i].id <= seq[j].id /\ seq[i].id \in Nat /\ seq[j].id \in Nat
    BY <1>3, <1>11, <2>1 DEF Rows
  <2>3. seq[i].id # seq[j].id
    BY <1>11, <2>1 DEF Rows
  <2> QED BY <2>2, <2>3
<1> QED BY <1>10, <1>11

(* InOrder has every row once.                                             *)
LEMMA RowsInOrder ==
    ASSUME NEW S, Rows(S)
    PROVE  /\ InOrder(S) \in Seq(S) /\ Len(InOrder(S)) = Cardinality(S)
           /\ \A i, j \in 1..Len(InOrder(S)) : InOrder(S)[i].id = InOrder(S)[j].id => i = j
           /\ \A r \in S : \E i \in 1..Len(InOrder(S)) : InOrder(S)[i] = r
<1> DEFINE N == Cardinality(S)
           seq == InOrder(S)
<1>1. N \in Nat /\ IsFiniteSet(S)
  BY FS_CardinalityType DEF Rows
<1>2. seq \in [1..N -> S] /\ \A i, j \in DOMAIN seq : i < j => seq[i].id < seq[j].id
  BY AnOrderExists, Zenon DEF InOrder
<1> HIDE DEF seq
<1>3. seq \in Seq(S) /\ Len(seq) = N
  BY <1>1, <1>2
<1>4. \A i, j \in 1..N : seq[i].id = seq[j].id => i = j
  <2> SUFFICES ASSUME NEW i \in 1..N, NEW j \in 1..N, seq[i].id = seq[j].id, i # j
               PROVE  FALSE
    OBVIOUS
  <2>1. seq[i].id \in Nat /\ seq[j].id \in Nat
    BY <1>2 DEF Rows
  <2>2. i < j \/ j < i
    BY <1>1
  <2> QED BY <1>2, <2>1, <2>2
<1>5. seq \in Injection(1..N, S)
  BY <1>2, <1>4 DEF Injection, IsInjective
<1>6. IsFiniteSet(1..N) /\ Cardinality(1..N) = N
  BY <1>1, FS_Interval
<1>7. seq \in Surjection(1..N, S)
  BY <1>1, <1>5, <1>6, FS_Injection
<1>8. \A r \in S : \E i \in 1..N : seq[i] = r
  BY <1>7 DEF Surjection
<1> QED BY <1>3, <1>4, <1>8 DEF seq

(* LIMIT and OFFSET.                                                       *)
IsPageOf(page, rows, offset, limit) ==
    /\ Len(page) = IF Len(rows) <= offset THEN 0
                   ELSE IF offset + limit < Len(rows) THEN limit ELSE Len(rows) - offset
    /\ Len(page) <= limit
    /\ \A i \in 1..Len(page) : page[i] = rows[offset + i]

LEMMA WindowOf ==
    ASSUME NEW S, NEW seq \in Seq(S), NEW offset \in Nat, NEW limit \in Nat
    PROVE  /\ Window(seq, offset, limit) \in Seq(S)
           /\ IsPageOf(Window(seq, offset, limit), seq, offset, limit)
<1> DEFINE end == IF offset + limit < Len(seq) THEN offset + limit ELSE Len(seq)
           page == Window(seq, offset, limit)
<1>1. Len(seq) \in Nat /\ end \in Nat /\ end <= Len(seq) /\ end <= offset + limit
  OBVIOUS
<1>2. page = SubSeq(seq, offset + 1, end)
  BY DEF Window
<1> HIDE DEF end, page
<1>3. page \in Seq(S) /\ Len(page) = IF offset < end THEN end - offset ELSE 0
  BY <1>1, <1>2
<1>4. \A i \in 1..Len(page) : page[i] = seq[offset + i]
  BY <1>1, <1>2, <1>3
<1>5. Len(page) <= limit
  BY <1>1, <1>3
<1>6. IsPageOf(page, seq, offset, limit)
  BY <1>1, <1>3, <1>4, <1>5 DEF IsPageOf, end
<1> QED BY <1>3, <1>6 DEF page

(* A page is neither empty nor longer than the maximum, and begins in the  *)
(* table, whatever numbers were asked for.                                 *)
LEMMA PageIsBounded ==
    ASSUME NEW query
    PROVE  /\ query.pageSize \in Int \cup {None} =>
                PageSize(query) \in Nat /\ 1 <= PageSize(query) /\ PageSize(query) <= MaxPageSize
           /\ {query.page, query.pageSize} \subseteq Int \cup {None} => Offset(query) \in Nat
<1>1. ASSUME query.pageSize \in Int \cup {None}
      PROVE  PageSize(query) \in Nat /\ 1 <= PageSize(query) /\ PageSize(query) <= MaxPageSize
  BY <1>1, RowsAssumption, NoneAssumption DEF PageSize
<1>2. ASSUME {query.page, query.pageSize} \subseteq Int \cup {None}
      PROVE  Offset(query) \in Nat
  <2> DEFINE page == IF query.page # None /\ query.page > 0 THEN query.page ELSE 1
  <2>1. page \in Nat /\ page >= 1
    BY <1>2
  <2>2. PageSize(query) \in Nat
    BY <1>1, <1>2
  <2> HIDE DEF page
  <2>3. (page - 1) * PageSize(query) \in Nat
    BY <2>1, <2>2
  <2> QED BY <2>3 DEF Offset, page
<1> QED BY <1>1, <1>2

(* The rows that match the filters of a request.                           *)
EventsOf(query) ==
    {e \in EventRows : /\ query.query # None => query.query \in e.words
                       /\ query.date # None => e.date = query.date}

SeatsOf(query) ==
    LET row == IF query.row # None /\ query.row > 0 THEN query.row ELSE None
    IN {s \in SeatRows : /\ s.event_id = query.event_id
                         /\ row # None => s.row = row
                         /\ query.status # None => status[s.id] = query.status}

LEMMA TablesHaveRows ==
    /\ \A S \in SUBSET EventRows : Rows(S)
    /\ \A S \in SUBSET SeatRows : Rows(S)
<1>1. ASSUME NEW S \in SUBSET EventRows PROVE Rows(S)
  <2>1. IsFiniteSet(S)
    BY RowsAssumption, FS_Subset
  <2> QED BY <2>1, RowsAssumption DEF Rows
<1>2. ASSUME NEW S \in SUBSET SeatRows PROVE Rows(S)
  <2>1. IsFiniteSet(S)
    BY RowsAssumption, FS_Subset
  <2> QED BY <2>1, RowsAssumption DEF Rows
<1> QED BY <1>1, <1>2

(* That the list of a date without events is not asked for changes nothing:*)
(* it would be empty.                                                      *)
LEMMA EventsPage ==
    ASSUME NEW query, {query.page, query.pageSize} \subseteq Int \cup {None}
    PROVE  GetEventsList(query) = Window(InOrder(EventsOf(query)), Offset(query), PageSize(query))
<1>1. CASE query.date # None /\ EventsCount(query) = 0
  <2>1. {e \in EventRows : e.date = query.date} = {}
    <3>1. IsFiniteSet({e \in EventRows : e.date = query.date})
      BY TablesHaveRows DEF Rows
    <3> QED BY <1>1, <3>1, FS_EmptySet DEF EventsCount
  <2> DEFINE seq == InOrder(EventsOf(query))
             page == Window(seq, Offset(query), PageSize(query))
  <2>2. EventsOf(query) \in SUBSET EventRows /\ EventsOf(query) = {}
    BY <1>1, <2>1 DEF EventsOf
  <2>3. seq \in Seq(EventsOf(query)) /\ Len(seq) = Cardinality(EventsOf(query))
    BY <2>2, TablesHaveRows, RowsInOrder
  <2>4. Len(seq) = 0
    BY <2>2, <2>3, FS_EmptySet
  <2>5. Offset(query) \in Nat /\ PageSize(query) \in Nat
    BY PageIsBounded
  <2> HIDE DEF seq
  <2>6. page \in Seq(EventsOf(query)) /\ Len(page) = 0
    <3> DEFINE rows == EventsOf(query)
    <3> HIDE DEF rows
    <3>1. seq \in Seq(rows)
      BY <2>3 DEF rows
    <3>2. Len(seq) <= Offset(query)
      BY <2>4, <2>5
    <3> HIDE DEF page
    <3>3. page \in Seq(rows) /\ Len(page) = 0
      BY <2>5, <3>1, <3>2, WindowOf, Zenon DEF page, IsPageOf
    <3> QED BY <3>3 DEF rows
  <2>7. page = << >>
    BY <2>6
  <2> QED BY <1>1, <2>7 DEF GetEventsList, seq
<1>2. CASE ~(query.date # None /\ EventsCount(query) = 0)
  BY <1>2 DEF GetEventsList, EventsOf
<1> QED BY <1>1, <1>2

(* The page of seats, for a row filter that is positive or is none.        *)
LEMMA SeatsPage ==
    ASSUME NEW query, DOMAIN query = QueryNames
    PROVE  LET row == IF query.row # None /\ query.row > 0 THEN query.row ELSE None
           IN GetSeats([query EXCEPT !.row = row]) =
                Window(InOrder(SeatsOf(query)), Offset(query), PageSize(query))
<1> DEFINE row == IF query.row # None /\ query.row > 0 THEN query.row ELSE None
           q == [query EXCEPT !.row = row]
<1>1. q.row = row /\ q.event_id = query.event_id /\ q.status = query.status
      /\ q.page = query.page /\ q.pageSize = query.pageSize
  BY DEF QueryNames
<1> HIDE DEF q
<1>2. Offset(q) = Offset(query) /\ PageSize(q) = PageSize(query)
  <2>1. PageSize(q) = PageSize(query)
    BY <1>1 DEF PageSize
  <2>2. Offset(q) = Offset(query)
    BY <1>1, <2>1 DEF Offset
  <2> QED BY <2>1, <2>2
<1>3. {s \in SeatRows : /\ s.event_id = q.event_id
                        /\ q.row # None => s.row = q.row
                        /\ q.status # None => status[s.id] = q.status} = SeatsOf(query)
  BY <1>1 DEF SeatsOf
<1> QED BY <1>2, <1>3 DEF GetSeats, q

(* A list answered is one row for each row of the page.                    *)
LEMMA ListedEvents ==
    ASSUME NEW query, {query.page, query.pageSize} \subseteq Int \cup {None}
    PROVE  LET rows == Window(InOrder(EventsOf(query)), Offset(query), PageSize(query))
           IN /\ \E S : ListEvents(query) \in Seq(S)
              /\ Len(ListEvents(query)) = Len(rows) /\ Len(rows) <= MaxPageSize
              /\ \A i \in 1..Len(rows) : ListEvents(query)[i].id = rows[i].id
<1> DEFINE rows == Window(InOrder(EventsOf(query)), Offset(query), PageSize(query))
           S == EventsOf(query)
<1>1. S \in SUBSET EventRows
  BY DEF EventsOf
<1>2. InOrder(S) \in Seq(S)
  BY <1>1, TablesHaveRows, RowsInOrder
<1>3. Offset(query) \in Nat /\ PageSize(query) \in Nat /\ PageSize(query) <= MaxPageSize
  BY PageIsBounded
<1>4. rows \in Seq(S) /\ Len(rows) <= PageSize(query)
  BY <1>2, <1>3, WindowOf, Zenon DEF IsPageOf
<1>5. GetEventsList(query) = rows
  BY EventsPage
<1> HIDE DEF rows, S
<1>6. DOMAIN rows = 1..Len(rows) /\ Len(rows) \in Nat /\ \A i \in 1..Len(rows) : rows[i] \in S
  BY <1>4
<1> DEFINE Line(i) == [id |-> rows[i].id,
                       title |-> IF rows[i].title = None THEN "" ELSE rows[i].title]
<1>7. ListEvents(query) = [i \in 1..Len(rows) |-> Line(i)]
  BY <1>5, <1>6 DEF ListEvents
<1>8. \A i \in 1..Len(rows) : Line(i).id = rows[i].id
  OBVIOUS
<1> HIDE DEF Line
<1>9. ListEvents(query) \in Seq({Line(i) : i \in 1..Len(rows)})
      /\ Len(ListEvents(query)) = Len(rows)
  BY <1>6, <1>7
<1>10. \A i \in 1..Len(rows) : ListEvents(query)[i].id = rows[i].id
  BY <1>7, <1>8
<1>11. Len(rows) <= MaxPageSize
  BY <1>3, <1>4, <1>6, RowsAssumption
<1> QED BY <1>9, <1>10, <1>11 DEF rows, S

LEMMA ListedSeats ==
    ASSUME NEW query, DOMAIN query = QueryNames,
           {query.page, query.pageSize} \subseteq Int \cup {None}
    PROVE  LET rows == Window(InOrder(SeatsOf(query)), Offset(query), PageSize(query))
           IN /\ \E S : ListSeats(query) \in Seq(S)
              /\ Len(ListSeats(query)) = Len(rows) /\ Len(rows) <= MaxPageSize
              /\ \A i \in 1..Len(rows) : ListSeats(query)[i].id = rows[i].id
<1> DEFINE rows == Window(InOrder(SeatsOf(query)), Offset(query), PageSize(query))
           S == SeatsOf(query)
           row == IF query.row # None /\ query.row > 0 THEN query.row ELSE None
<1>1. S \in SUBSET SeatRows
  BY DEF SeatsOf
<1>2. InOrder(S) \in Seq(S)
  BY <1>1, TablesHaveRows, RowsInOrder
<1>3. Offset(query) \in Nat /\ PageSize(query) \in Nat /\ PageSize(query) <= MaxPageSize
  BY PageIsBounded
<1>4. rows \in Seq(S) /\ Len(rows) <= PageSize(query)
  BY <1>2, <1>3, WindowOf, Zenon DEF IsPageOf
<1>5. GetSeats([query EXCEPT !.row = row]) = rows
  BY SeatsPage
<1> HIDE DEF rows, S
<1>6. DOMAIN rows = 1..Len(rows) /\ Len(rows) \in Nat
  BY <1>4
<1> DEFINE Line(i) == [id |-> rows[i].id, row |-> rows[i].row,
                       price |-> rows[i].price, status |-> status[rows[i].id]]
<1>7. ListSeats(query) = [i \in 1..Len(rows) |-> Line(i)]
  BY <1>5, <1>6 DEF ListSeats
<1>8. \A i \in 1..Len(rows) : Line(i).id = rows[i].id
  OBVIOUS
<1> HIDE DEF Line
<1>9. ListSeats(query) \in Seq({Line(i) : i \in 1..Len(rows)})
      /\ Len(ListSeats(query)) = Len(rows)
  BY <1>6, <1>7
<1>10. \A i \in 1..Len(rows) : ListSeats(query)[i].id = rows[i].id
  BY <1>7, <1>8
<1>11. Len(rows) <= MaxPageSize
  BY <1>3, <1>4, <1>6, RowsAssumption
<1> QED BY <1>9, <1>10, <1>11 DEF rows, S

-----------------------------------------------------------------------------
(* The walk.                                                               *)

(* A step of a walk asks for the page of the rows that it is to find.      *)
LEMMA QueryOfWalk ==
    ASSUME NEW w \in WalkSet, NEW page \in Nat, page >= 1
    PROVE  LET query == [w.query EXCEPT !.page = page]
           IN /\ DOMAIN query = QueryNames /\ {query.page, query.pageSize} \subseteq Int \cup {None}
              /\ PageSize(query) = PageSize(w.query)
              /\ Offset(query) = (page - 1) * PageSize(w.query)
              /\ w.handler = "ListEvents" => EventsOf(query) = Listed(w)
              /\ w.handler = "ListSeats" => SeatsOf(query) = Listed(w)
<1> DEFINE query == [w.query EXCEPT !.page = page]
<1>1. /\ DOMAIN query = QueryNames /\ query.page = page /\ query.pageSize = w.query.pageSize
      /\ query.event_id = w.query.event_id /\ query.row = w.query.row
      /\ query.status = w.query.status /\ query.query = w.query.query
      /\ query.date = w.query.date
  BY RequestsAssumption DEF QueryNames
<1> HIDE DEF query
<1>2. {query.page, query.pageSize} \subseteq Int \cup {None}
  BY <1>1, RequestsAssumption
<1>3. PageSize(query) = PageSize(w.query)
  BY <1>1 DEF PageSize
<1>4. Offset(query) = (page - 1) * PageSize(w.query)
  <2>1. (IF query.page # None /\ query.page > 0 THEN query.page ELSE 1) = page
    BY <1>1, NoneAssumption
  <2> QED BY <1>3, <2>1 DEF Offset
<1>5. w.handler = "ListEvents" => EventsOf(query) = Listed(w)
  BY <1>1 DEF EventsOf, Listed
<1>6. ASSUME w.handler = "ListSeats" PROVE SeatsOf(query) = Listed(w)
  <2> DEFINE row == IF query.row # None /\ query.row > 0 THEN query.row ELSE None
             q == w.query
  <2>1. q.row \in Int \cup {None} /\ q.status = None
    BY RequestsAssumption
  <2>2. ASSUME NEW s \in SeatRows
        PROVE  (row # None => s.row = row) <=> (q.row \in {None, s.row} \/ q.row <= 0)
    <3>1. CASE q.row = None
      BY <1>1, <3>1
    <3>2. CASE q.row \in Int
      BY <1>1, <3>2, NoneAssumption
    <3> QED BY <2>1, <3>1, <3>2
  <2> QED BY <1>1, <1>6, <2>1, <2>2 DEF SeatsOf, Listed
<1> QED BY <1>1, <1>2, <1>3, <1>4, <1>5, <1>6 DEF query

(* The answer to the request of a walk for a page.                         *)
PageOf(w, page) == Answer(w.handler, None, [w.query EXCEPT !.page = page]).body

LEMMA AnswerToWalk ==
    ASSUME NEW w \in WalkSet, NEW page \in Nat, page >= 1
    PROVE  LET rows == Window(InOrder(Listed(w)), (page - 1) * PageSize(w.query), PageSize(w.query))
           IN /\ \E S : PageOf(w, page) \in Seq(S)
              /\ Len(PageOf(w, page)) = Len(rows)
              /\ \A i \in 1..Len(rows) : PageOf(w, page)[i].id = rows[i].id
<1> DEFINE query == [w.query EXCEPT !.page = page]
           rows == Window(InOrder(Listed(w)), (page - 1) * PageSize(w.query), PageSize(w.query))
<1>1. /\ DOMAIN query = QueryNames /\ {query.page, query.pageSize} \subseteq Int \cup {None}
      /\ PageSize(query) = PageSize(w.query)
      /\ Offset(query) = (page - 1) * PageSize(w.query)
      /\ w.handler = "ListEvents" => EventsOf(query) = Listed(w)
      /\ w.handler = "ListSeats" => SeatsOf(query) = Listed(w)
  BY QueryOfWalk
<1> HIDE DEF query
<1>2. CASE w.handler = "ListEvents"
  <2>1. PageOf(w, page) = ListEvents(query)
    BY <1>2 DEF PageOf, Answer, SessionHandlers, query
  <2> QED BY <1>1, <1>2, <2>1, ListedEvents
<1>3. CASE w.handler = "ListSeats"
  <2>1. PageOf(w, page) = ListSeats(query)
    BY <1>3 DEF PageOf, Answer, SessionHandlers, query
  <2> QED BY <1>1, <1>3, <2>1, ListedSeats
<1> QED BY <1>2, <1>3, RequestsAssumption

(* A walk lists rows of a table.                                           *)
LEMMA ListedRows ==
    ASSUME NEW w
    PROVE  Rows(Listed(w))
<1>1. Listed(w) \in SUBSET SeatRows \/ Listed(w) \in SUBSET EventRows
  BY DEF Listed
<1> QED BY <1>1, TablesHaveRows

(* The ids of the first rows of a list.                                    *)
FirstIds(rows, room) == [i \in 1..(IF room < Len(rows) THEN room ELSE Len(rows)) |-> rows[i].id]

(* A prefix is extended by what follows it.                                *)
LEMMA PrefixExtends ==
    ASSUME NEW q \in Seq(Nat), NEW a \in Nat, NEW b \in Nat, a <= b, b <= Len(q),
           NEW p \in Seq(Nat), Len(p) = b - a, \A i \in 1..Len(p) : p[i] = q[a + i]
    PROVE  [i \in 1..b |-> q[i]] = [i \in 1..a |-> q[i]] \o p
<1> DEFINE f == [i \in 1..a |-> q[i]]
           g == [i \in 1..b |-> q[i]]
           h == f \o p
<1>1. f \in Seq(Nat) /\ Len(f) = a /\ \A i \in 1..a : f[i] = q[i]
  OBVIOUS
<1>2. g \in Seq(Nat) /\ Len(g) = b /\ \A i \in 1..b : g[i] = q[i]
  OBVIOUS
<1> HIDE DEF f, g
<1>3. h \in Seq(Nat) /\ Len(h) = Len(f) + Len(p)
      /\ \A i \in 1..(Len(f) + Len(p)) : h[i] = IF i <= Len(f) THEN f[i] ELSE p[i - Len(f)]
  BY <1>1, ConcatProperties, Zenon
<1> HIDE DEF h
<1>4. Len(h) = b /\ \A i \in 1..b : h[i] = IF i <= a THEN f[i] ELSE p[i - a]
  BY <1>1, <1>3
<1>5. \A i \in 1..b : h[i] = q[i]
  <2> SUFFICES ASSUME NEW i \in 1..b PROVE h[i] = q[i]
    OBVIOUS
  <2>1. CASE i <= a
    BY <1>1, <1>4, <2>1
  <2>2. CASE i > a
    <3>1. i - a \in 1..Len(p) /\ a + (i - a) = i
      BY <2>2
    <3>2. p[i - a] = q[i]
      BY <3>1
    <3>3. ~(i <= a)
      BY <2>2
    <3> QED BY <1>4, <3>2, <3>3
  <2> QED BY <2>1, <2>2
<1>6. g = h
  BY <1>2, <1>3, <1>4, <1>5, SeqEqual
<1> QED BY <1>6 DEF f, g, h

IdsOf(answer) == [i \in DOMAIN answer |-> answer[i].id]

(* The lines of an answer are those of a page.                             *)
Shows(answer, page) ==
    /\ Len(answer) = Len(page)
    /\ \A i \in 1..Len(answer) : answer[i].id = page[i].id

(* An answer for the rows after the first ones.                            *)
Paging(rows, room, size, answer) ==
    /\ \E S : Rows(S) /\ rows \in Seq(S)
    /\ \E T : answer \in Seq(T)
    /\ room \in Nat /\ size \in Nat /\ size >= 1
    /\ Shows(answer, Window(rows, room, size))

(* A page adds to the rows seen as many as it has room for, and is empty   *)
(* when all have been seen.                                                *)
LEMMA NextPageExtends ==
    ASSUME NEW rows, NEW room, NEW size, NEW answer, Paging(rows, room, size, answer)
    PROVE  /\ answer = << >> <=> Len(rows) <= room
           /\ FirstIds(rows, room) \in Seq(Nat)
           /\ IdsOf(answer) \in Seq(Nat)
           /\ FirstIds(rows, room + size) = FirstIds(rows, room) \o IdsOf(answer)
<1> room \in Nat /\ size \in Nat /\ size >= 1 /\ Shows(answer, Window(rows, room, size))
  BY DEF Paging
<1> PICK S : Rows(S) /\ rows \in Seq(S)
  BY DEF Paging
<1> PICK T : answer \in Seq(T)
  BY DEF Paging
<1> DEFINE q == [i \in 1..Len(rows) |-> rows[i].id]
           p == [i \in DOMAIN answer |-> answer[i].id]
           page == Window(rows, room, size)
           a == IF room < Len(rows) THEN room ELSE Len(rows)
           b == IF room + size < Len(rows) THEN room + size ELSE Len(rows)
<1>1. page \in Seq(S) /\ IsPageOf(page, rows, room, size)
  <2> HIDE DEF q, p, a, b
  <2> QED BY WindowOf, Zenon
<1>2. Len(answer) = Len(page) /\ \A i \in 1..Len(answer) : answer[i].id = page[i].id
  BY DEF Shows
<1> HIDE DEF page
<1>3. DOMAIN answer = 1..Len(answer) /\ Len(answer) \in Nat /\ Len(rows) \in Nat
  OBVIOUS
<1>4. \A i \in 1..Len(rows) : rows[i].id \in Nat
  BY DEF Rows
<1>5. q \in Seq(Nat) /\ Len(q) = Len(rows) /\ \A i \in 1..Len(rows) : q[i] = rows[i].id
  BY <1>3, <1>4
<1> HIDE DEF q
<1>6. /\ a \in Nat /\ b \in Nat /\ a <= b /\ b <= Len(q)
      /\ Len(answer) = b - a /\ (Len(answer) = 0 <=> Len(rows) <= room)
      /\ Len(answer) # 0 => a = room
  <2>1. Len(answer) = IF Len(rows) <= room THEN 0
                      ELSE IF room + size < Len(rows) THEN size ELSE Len(rows) - room
    BY <1>1, <1>2, Zenon DEF IsPageOf
  <2>2. CASE Len(rows) <= room
    BY <1>3, <1>5, <2>1, <2>2
  <2>3. CASE room < Len(rows) /\ room + size < Len(rows)
    BY <1>3, <1>5, <2>1, <2>3
  <2>4. CASE room < Len(rows) /\ Len(rows) <= room + size
    BY <1>3, <1>5, <2>1, <2>4
  <2> QED BY <1>3, <2>2, <2>3, <2>4
<1>7. FirstIds(rows, room) = [i \in 1..a |-> q[i]] /\ FirstIds(rows, room + size) = [i \in 1..b |-> q[i]]
  <2>1. \A i \in 1..a : i \in 1..Len(rows)
    BY <1>3, <1>5, <1>6
  <2>2. \A i \in 1..b : i \in 1..Len(rows)
    BY <1>3, <1>5, <1>6
  <2> HIDE DEF a, b
  <2>3. [i \in 1..a |-> rows[i].id] = [i \in 1..a |-> q[i]]
    BY <1>5, <2>1
  <2>4. [i \in 1..b |-> rows[i].id] = [i \in 1..b |-> q[i]]
    BY <1>5, <2>2
  <2> QED BY <2>3, <2>4 DEF FirstIds, a, b
<1> HIDE DEF a, b
<1>8. ASSUME NEW i \in 1..Len(answer) PROVE answer[i].id = q[a + i] /\ q[a + i] \in Nat
  <2>1. a = room /\ a + i \in 1..Len(rows)
    BY <1>3, <1>5, <1>6, <1>8
  <2>2. answer[i].id = rows[a + i].id
    BY <1>1, <1>2, <1>8, <2>1 DEF IsPageOf
  <2>3. q[a + i] = rows[a + i].id /\ rows[a + i].id \in Nat
    BY <1>4, <1>5, <2>1
  <2> QED BY <2>2, <2>3
<1>9. p \in Seq(Nat) /\ Len(p) = b - a /\ \A i \in 1..Len(p) : p[i] = q[a + i]
  <2>1. \A i \in 1..Len(answer) : p[i] = q[a + i] /\ q[a + i] \in Nat
    BY <1>3, <1>8
  <2>2. p \in [1..Len(answer) -> Nat]
    BY <1>3, <1>8
  <2> HIDE DEF p
  <2>3. p \in Seq(Nat) /\ Len(p) = Len(answer)
    BY <1>3, <2>2
  <2> QED BY <1>6, <2>1, <2>3
<1> HIDE DEF p
<1>10. [i \in 1..b |-> q[i]] = [i \in 1..a |-> q[i]] \o p
  BY <1>5, <1>6, <1>9, PrefixExtends
<1>11. [i \in 1..a |-> q[i]] \in Seq(Nat)
  <2>1. \A i \in 1..a : q[i] \in Nat
    BY <1>3, <1>4, <1>5, <1>6
  <2> QED BY <1>6, <2>1
<1>12. answer = << >> <=> Len(rows) <= room
  <2>1. answer = << >> <=> Len(answer) = 0
    OBVIOUS
  <2> QED BY <1>6, <2>1
<1> QED BY <1>7, <1>9, <1>10, <1>11, <1>12 DEF p, IdsOf

-----------------------------------------------------------------------------
(* The steps.                                                              *)

TablesOK ==
    /\ status \in [SeatIds -> SeatStatus]
    /\ created \subseteq BookingRows
    /\ holder \in [SeatIds -> {b.id : b \in created} \cup {None}]
    /\ IsFiniteSet(created)

Statuses ==
    {0, OK, BadRequest, Unauthorized, Forbidden, NotFound, MethodNotAllowed, InternalServerError}

AnswerOK(req, answer) ==
    /\ answer.status \in Statuses
    /\ (/\ answer.status = OK /\ req.method = "GET"
        /\ req.path \in {<<"api", "seats">>, <<"api", "events">>}) =>
          Len(answer.body) <= MaxPageSize

LEMMA TypeParts ==
    /\ Inductive => TablesOK
    /\ TypeOK <=> /\ status \in [SeatIds -> SeatStatus]
                  /\ created \subseteq BookingRows
                  /\ holder \in [SeatIds -> {b.id : b \in created} \cup {None}]
                  /\ request \in RequestSet \cup {None} /\ AnswerOK(request, response)
                  /\ walk \in [on : WalkSet \cup {None}, page : Nat, seen : Seq(Nat), done : BOOLEAN]
BY DEF Inductive, TypeOK, TablesOK, AnswerOK, Statuses

(* A handler or a worker changes one booking and one seat.                 *)
LEMMA WritersKeepTables ==
    ASSUME TablesOK, Writers
    PROVE  TablesOK'
<1> USE DEF TablesOK
<1>1. CASE \E b \in BookingRows \ created :
             created' = created \cup {b} /\ UNCHANGED <<status, holder>>
  <2>1. IsFiniteSet(created')
    BY <1>1, FS_AddElement
  <2>2. holder \in [SeatIds -> {b.id : b \in created'} \cup {None}]
    BY <1>1
  <2> QED BY <1>1, <2>1, <2>2
<1>2. CASE \E s \in SeatIds, b \in created :
             /\ holder[s] = None /\ status[s] = "FREE"
             /\ holder' = [holder EXCEPT ![s] = b.id]
             /\ status' = [status EXCEPT ![s] = "RESERVED"]
             /\ UNCHANGED created
  BY <1>2 DEF SeatStatus
<1>3. CASE \E s \in SeatIds :
             /\ holder[s] # None
             /\ \/ status[s] = "RESERVED" /\ status' = [status EXCEPT ![s] = "SOLD"]
                   /\ UNCHANGED holder
                \/ status' = [status EXCEPT ![s] = "FREE"] /\ holder' = [holder EXCEPT ![s] = None]
             /\ UNCHANGED created
  BY <1>3 DEF SeatStatus
<1> QED BY <1>1, <1>2, <1>3 DEF Writers

(* The handler of a path that a request with GET reaches.                  *)
LEMMA HandlerOfPath ==
    ASSUME NEW route \in Routes, route.method = "GET"
    PROVE  /\ route.path = <<"api", "seats">> => route.handler = "ListSeats"
           /\ route.path = <<"api", "events">> => route.handler = "ListEvents"
           /\ route.path = <<"api", "bookings">> => route.handler = "ListBookings"
           /\ route.path = <<"api", "analytics">> => route.handler = "GetEventAnalytics"
<1>1. \A r \in Routes : r.method = "GET" /\ Len(r.path) = 2 =>
        /\ r.path[2] = "seats" => r.handler = "ListSeats"
        /\ r.path[2] = "events" => r.handler = "ListEvents"
        /\ r.path[2] = "bookings" => r.handler = "ListBookings"
        /\ r.path[2] = "analytics" => r.handler = "GetEventAnalytics"
  BY DEF Routes
<1>2. ASSUME route.path = <<"api", "seats">> PROVE route.handler = "ListSeats"
  <2>1. Len(route.path) = 2 /\ route.path[2] = "seats"
    BY <1>2
  <2> QED BY <1>1, <2>1
<1>3. ASSUME route.path = <<"api", "events">> PROVE route.handler = "ListEvents"
  <2>1. Len(route.path) = 2 /\ route.path[2] = "events"
    BY <1>3
  <2> QED BY <1>1, <2>1
<1>4. ASSUME route.path = <<"api", "bookings">> PROVE route.handler = "ListBookings"
  <2>1. Len(route.path) = 2 /\ route.path[2] = "bookings"
    BY <1>4
  <2> QED BY <1>1, <2>1
<1>5. ASSUME route.path = <<"api", "analytics">> PROVE route.handler = "GetEventAnalytics"
  <2>1. Len(route.path) = 2 /\ route.path[2] = "analytics"
    BY <1>5
  <2> QED BY <1>1, <2>1
<1> QED BY <1>2, <1>3, <1>4, <1>5

(* No list is longer than the maximum, whatever was asked for.             *)
LEMMA AnswersAreTyped ==
    ASSUME NEW req \in RequestSet
    PROVE  AnswerOK(req, Serve(req))
<1> DEFINE d == Dispatch(req)
<1>1. CASE d.status # 0
  <2>1. Serve(req) = [status |-> d.status, body |-> None]
    BY <1>1 DEF Serve
  <2> QED BY <1>1, <2>1, RejectedStatus DEF AnswerOK, Statuses
<1>2. CASE d.status = 0
  <2>1. Serve(req) = Answer(d.handler, d.session, req.query)
    BY <1>2 DEF Serve
  <2>2. Serve(req).status \in Statuses
    <3> DEFINE a == Answer(d.handler, d.session, req.query)
    <3>1. a.status \in {WithoutSession(d.handler), OK, BadRequest, 0}
      <4> HIDE DEF d
      <4> QED BY DEF Answer
    <3>2. WithoutSession(d.handler) \in {Unauthorized, InternalServerError}
      BY DEF WithoutSession
    <3> HIDE DEF a
    <3>3. a.status \in Statuses
      BY <3>1, <3>2 DEF Statuses
    <3> QED BY <2>1, <3>3 DEF a
  <2>3. PICK route \in Routes :
          /\ route.path = req.path /\ route.method = req.method
          /\ Binds(route.handler, req.query) /\ d.handler = route.handler
    BY <1>2, Reached
  <2>4. /\ DOMAIN req.query = QueryNames
        /\ {req.query.page, req.query.pageSize} \subseteq Int \cup {None, Invalid}
    BY RequestsAssumption
  <2> HIDE DEF d
  <2>5. CASE route.handler = "ListSeats"
    <3>1. {req.query.page, req.query.pageSize} \subseteq Int \cup {None}
      BY <2>3, <2>4, <2>5 DEF Binds, SeatsBind, Optional
    <3>2. Serve(req).body = ListSeats(req.query)
      BY <2>1, <2>3, <2>5 DEF Answer, SessionHandlers
    <3>3. Len(ListSeats(req.query)) <= MaxPageSize
      BY <2>4, <3>1, ListedSeats
    <3> QED BY <2>2, <3>2, <3>3 DEF AnswerOK
  <2>6. CASE route.handler = "ListEvents"
    <3>1. {req.query.page, req.query.pageSize} \subseteq Int \cup {None}
      BY <2>3, <2>4, <2>6 DEF Binds, EventsBind, Optional
    <3>2. Serve(req).body = ListEvents(req.query)
      BY <2>1, <2>3, <2>6 DEF Answer, SessionHandlers
    <3>3. Len(ListEvents(req.query)) <= MaxPageSize
      BY <3>1, ListedEvents
    <3> QED BY <2>2, <3>2, <3>3 DEF AnswerOK
  <2>7. CASE route.handler \notin {"ListSeats", "ListEvents"}
    <3>1. req.method = "GET" => req.path \notin {<<"api", "seats">>, <<"api", "events">>}
      BY <2>3, <2>7, HandlerOfPath
    <3> QED BY <2>2, <3>1 DEF AnswerOK
  <2> QED BY <2>5, <2>6, <2>7
<1> QED BY <1>1, <1>2

LEMMA InitInductive == Init => Inductive
<1> SUFFICES ASSUME Init PROVE Inductive
  OBVIOUS
<1>1. TypeOK
  BY DEF Init, TypeOK, SeatStatus, NoResponse, NotWalking, OK
<1>2. IsFiniteSet(created)
  BY FS_EmptySet DEF Init
<1>3. WalkOK
  BY DEF Init, WalkOK, NotWalking
<1> QED BY <1>1, <1>2, <1>3 DEF Inductive

(* Nobody but the client changes what it has seen.                         *)
LEMMA WalkFrame ==
    ASSUME Inductive, UNCHANGED walk
    PROVE  WalkOK'
<1>1. WalkOK
  BY DEF Inductive
<1> QED BY <1>1 DEF WalkOK

(* What a client has seen after some pages are the first rows.             *)
LEMMA WalkIsPrefix ==
    ASSUME Inductive, walk.on # None
    PROVE  /\ walk.on \in WalkSet /\ walk.page \in Nat /\ walk.page >= 1
           /\ walk.seen = FirstIds(InOrder(Listed(walk.on)),
                                   (walk.page - 1) * PageSize(walk.on.query))
           /\ walk.done =>
                Len(InOrder(Listed(walk.on))) <= (walk.page - 1) * PageSize(walk.on.query)
           /\ (walk.page - 1) * PageSize(walk.on.query) \in Nat
           /\ PageSize(walk.on.query) \in Nat /\ PageSize(walk.on.query) >= 1
<1>1. walk.on \in WalkSet /\ walk.page \in Nat /\ walk.page >= 1
  BY DEF Inductive, TypeOK, WalkOK
<1>2. walk.on.query.pageSize \in Int \cup {None}
  BY <1>1, RequestsAssumption
<1>3. PageSize(walk.on.query) \in Nat /\ PageSize(walk.on.query) >= 1
  BY <1>2, PageIsBounded
<1>4. walk.page - 1 \in Nat
  BY <1>1
<1>5. (walk.page - 1) * PageSize(walk.on.query) \in Nat
  BY <1>3, <1>4
<1> QED BY <1>1, <1>3, <1>5 DEF Inductive, WalkOK, FirstIds

LEMMA StartWalkKeeps ==
    ASSUME Inductive, StartWalk
    PROVE  WalkOK' /\ walk' \in [on : WalkSet \cup {None}, page : Nat, seen : Seq(Nat), done : BOOLEAN]
<1>1. PICK w \in WalkSet : walk' = [on |-> w, page |-> 1, seen |-> << >>, done |-> FALSE]
  BY DEF StartWalk, NotWalking
<1>2. w # None
  BY RequestsAssumption
<1>3. w.query.pageSize \in Int \cup {None}
  BY RequestsAssumption
<1>4. PageSize(w.query) \in Nat
  BY <1>3, PageIsBounded
<1>5. (1 - 1) * PageSize(w.query) = 0
  BY <1>4
<1>6. Len(InOrder(Listed(w))) \in Nat
  BY ListedRows, RowsInOrder
<1>7. << >> = FirstIds(InOrder(Listed(w)), 0)
  BY <1>6 DEF FirstIds
<1>8. walk'.on = w /\ walk'.page = 1 /\ walk'.seen = << >> /\ walk'.done = FALSE
  BY <1>1
<1>9. WalkOK'
  BY <1>2, <1>5, <1>7, <1>8 DEF WalkOK, FirstIds
<1> QED BY <1>1, <1>9

(* A page extends what has been seen; an empty one shows that nothing is   *)
(* left.                                                                   *)
LEMMA WalkOnKeeps ==
    ASSUME Inductive, WalkOn
    PROVE  WalkOK' /\ walk' \in [on : WalkSet \cup {None}, page : Nat, seen : Seq(Nat), done : BOOLEAN]
<1> DEFINE w == walk.on
           rows == InOrder(Listed(w))
           size == PageSize(w.query)
           room == (walk.page - 1) * size
           answer == PageOf(w, walk.page)
<1>1. walk \in [on : WalkSet \cup {None}, page : Nat, seen : Seq(Nat), done : BOOLEAN]
  BY DEF Inductive, TypeOK
<1>2. w # None /\ ~walk.done
  BY DEF WalkOn
<1>3. /\ w \in WalkSet /\ walk.page \in Nat /\ walk.page >= 1
      /\ walk.seen = FirstIds(rows, room)
      /\ room \in Nat /\ size \in Nat /\ size >= 1
  BY <1>2, WalkIsPrefix
<1>4. walk' = IF answer = << >> THEN [walk EXCEPT !.done = TRUE]
              ELSE [walk EXCEPT !.page = @ + 1, !.seen = @ \o IdsOf(answer)]
  BY DEF WalkOn, PageOf, IdsOf
<1>5. rows \in Seq(Listed(w)) /\ Rows(Listed(w))
  BY ListedRows, RowsInOrder
<1>6. PICK S : answer \in Seq(S)
  BY <1>3, AnswerToWalk
<1>7. Shows(answer, Window(rows, room, size))
  BY <1>3, AnswerToWalk DEF Shows
<1> HIDE DEF answer, rows, room, size
<1>8. /\ answer = << >> <=> Len(rows) <= room
      /\ FirstIds(rows, room) \in Seq(Nat)
      /\ FirstIds(rows, room + size) = FirstIds(rows, room) \o IdsOf(answer)
      /\ IdsOf(answer) \in Seq(Nat)
  <2>1. Paging(rows, room, size, answer)
    BY <1>3, <1>5, <1>6, <1>7 DEF Paging
  <2> QED BY <2>1, NextPageExtends
<1>9. CASE answer = << >>
  <2>1. walk' = [on |-> w, page |-> walk.page, seen |-> walk.seen, done |-> TRUE]
    BY <1>1, <1>4, <1>9
  <2>2. walk'.on = w /\ walk'.page = walk.page /\ walk'.seen = FirstIds(rows, room)
    BY <1>3, <2>1
  <2>3. Len(rows) <= room
    BY <1>8, <1>9
  <2>4. WalkOK'
    BY <1>2, <1>3, <2>2, <2>3 DEF WalkOK, FirstIds, rows, room, size
  <2> QED BY <1>1, <2>1, <2>4
<1>10. CASE answer # << >>
  <2>1. walk' = [on |-> w, page |-> walk.page + 1, seen |-> FirstIds(rows, room + size), done |-> FALSE]
    BY <1>1, <1>2, <1>3, <1>4, <1>8, <1>10
  <2>2. (walk.page + 1 - 1) * size = room + size
    BY <1>3 DEF room
  <2>3. /\ walk'.on = w /\ walk'.page = walk.page + 1
        /\ walk'.seen = FirstIds(rows, room + size) /\ walk'.done = FALSE
    BY <2>1
  <2>4. walk.page + 1 \in Nat /\ walk.page + 1 >= 1
    BY <1>3
  <2>5. WalkOK'
    <3>1. (walk'.page - 1) * PageSize(walk'.on.query) = room + size
      <4>1. PageSize(walk'.on.query) = size
        BY <2>3 DEF size
      <4>2. walk'.page - 1 = walk.page + 1 - 1
        BY <1>3, <2>3
      <4>3. (walk'.page - 1) * PageSize(walk'.on.query) = (walk.page + 1 - 1) * size
        BY <4>1, <4>2, Zenon
      <4> QED BY <2>2, <4>3
    <3>2. InOrder(Listed(walk'.on)) = rows
      BY <2>3 DEF rows
    <3> QED BY <1>2, <2>3, <2>4, <3>1, <3>2 DEF WalkOK, FirstIds
  <2>6. FirstIds(rows, room + size) \in Seq(Nat)
    <3>1. room + size \in Nat
      BY <1>3
    <3>2. walk.seen \o IdsOf(answer) = FirstIds(rows, room + size)
      BY <1>3, <1>8
    <3> QED BY <1>3, <1>8, <3>2, ConcatProperties
  <2> QED BY <1>3, <2>1, <2>4, <2>5, <2>6
<1> QED BY <1>9, <1>10

LEMMA EndWalkKeeps ==
    ASSUME EndWalk
    PROVE  WalkOK' /\ walk' \in [on : WalkSet \cup {None}, page : Nat, seen : Seq(Nat), done : BOOLEAN]
BY DEF EndWalk, NotWalking, WalkOK

LEMMA NextKeeps == Inductive /\ [Next]_vars => Inductive'
<1> SUFFICES ASSUME Inductive, [Next]_vars PROVE Inductive'
  OBVIOUS
<1> USE DEF Inductive
<1> DEFINE Walks == [on : WalkSet \cup {None}, page : Nat, seen : Seq(Nat), done : BOOLEAN]
<1>1. TablesOK /\ TypeOK /\ request \in RequestSet \cup {None} /\ AnswerOK(request, response)
      /\ walk \in Walks
  BY TypeParts
<1>2. ASSUME TablesOK', request' \in RequestSet \cup {None}, AnswerOK(request', response'),
             walk' \in Walks, WalkOK'
      PROVE  Inductive'
  BY <1>2 DEF TypeOK, TablesOK, AnswerOK, Statuses
<1>3. ASSUME UNCHANGED tables PROVE TablesOK'
  BY <1>1, <1>3 DEF TablesOK, tables
<1>4. CASE Writers
  <2>1. TablesOK'
    BY <1>1, <1>4, WritersKeepTables
  <2>2. UNCHANGED <<request, response, walk>>
    BY <1>4 DEF Writers
  <2> QED BY <1>1, <1>2, <2>1, <2>2, WalkFrame
<1>5. CASE Ask
  <2>1. PICK req \in RequestSet : request' = req /\ response' = Serve(req)
    BY <1>5 DEF Ask
  <2>2. UNCHANGED tables /\ UNCHANGED walk
    BY <1>5 DEF Ask
  <2>3. AnswerOK(request', response')
    BY <2>1, AnswersAreTyped
  <2> QED BY <1>1, <1>2, <1>3, <2>1, <2>2, <2>3, WalkFrame
<1>6. CASE AskInVain
  <2>1. PICK req \in RequestSet : request' = req
    BY <1>6 DEF AskInVain
  <2>2. response' = [status |-> InternalServerError, body |-> None]
        /\ UNCHANGED tables /\ UNCHANGED walk
    BY <1>6 DEF AskInVain
  <2>3. AnswerOK(request', response')
    BY <2>2 DEF AnswerOK, Statuses, InternalServerError, OK
  <2> QED BY <1>1, <1>2, <1>3, <2>1, <2>2, <2>3, WalkFrame
<1>7. CASE Answered
  <2>1. request' = None /\ response' = NoResponse /\ UNCHANGED tables /\ UNCHANGED walk
    BY <1>7 DEF Answered
  <2>2. AnswerOK(request', response')
    BY <2>1 DEF AnswerOK, Statuses, NoResponse, OK
  <2> QED BY <1>1, <1>2, <1>3, <2>1, <2>2, WalkFrame
<1>8. ASSUME UNCHANGED tables, UNCHANGED request, UNCHANGED response, walk' \in Walks, WalkOK'
      PROVE  Inductive'
  BY <1>1, <1>2, <1>3, <1>8
<1>9. CASE StartWalk
  <2>1. UNCHANGED tables /\ UNCHANGED request /\ UNCHANGED response
    BY <1>9 DEF StartWalk
  <2> QED BY <1>8, <1>9, <2>1, StartWalkKeeps
<1>10. CASE WalkOn
  <2>1. UNCHANGED tables /\ UNCHANGED request /\ UNCHANGED response
    BY <1>10 DEF WalkOn
  <2> QED BY <1>8, <1>10, <2>1, WalkOnKeeps
<1>11. CASE EndWalk
  <2>1. UNCHANGED tables /\ UNCHANGED request /\ UNCHANGED response
    BY <1>11 DEF EndWalk
  <2> QED BY <1>8, <1>11, <2>1, EndWalkKeeps
<1>12. CASE UNCHANGED vars
  <2>1. UNCHANGED tables /\ UNCHANGED request /\ UNCHANGED response /\ UNCHANGED walk
    BY <1>12 DEF vars
  <2> QED BY <1>1, <1>8, <2>1, WalkFrame
<1> QED BY <1>4, <1>5, <1>6, <1>7, <1>9, <1>10, <1>11, <1>12 DEF Next

(* Whatever the tables hold and whatever is asked for: the answers have    *)
(* their types and a walk has seen exactly the rows of the pages before.   *)
THEOREM Invariance == Spec => []Inductive
BY InitInductive, NextKeeps, PTL DEF Spec

(* No list is longer than the maximal page, with any numbers for the page  *)
(* and its size.                                                           *)
THEOREM TypeInvariance == Spec => []TypeOK
<1>1. Inductive => TypeOK
  BY DEF Inductive
<1> QED
  BY <1>1, Invariance, PTL

-----------------------------------------------------------------------------
(* What the reads promise.                                                 *)

LEMMA IdsAreAsMany ==
    ASSUME NEW S, Rows(S)
    PROVE  Cardinality({r.id : r \in S}) = Cardinality(S)
<1> DEFINE T == {r.id : r \in S}
           f == [r \in S |-> r.id]
<1>1. f \in [S -> T] /\ (\A r, s \in S : f[r] = f[s] => r = s) /\ (\A t \in T : \E r \in S : f[r] = t)
  BY DEF Rows
<1>2. f \in Bijection(S, T)
  BY <1>1 DEF Bijection, Injection, Surjection, IsInjective
<1>3. ExistsBijection(S, T)
  BY <1>2 DEF ExistsBijection
<1> QED BY <1>3, FS_Bijection DEF Rows

(* A client that asks for page after page until an empty one has seen      *)
(* every row of the list once, for a table of any size, any page size and  *)
(* whatever happened to the seats on the way, if rows come in id order.    *)
THEOREM WalksAreComplete == Spec => []WalkIsComplete
<1>1. Inductive => WalkIsComplete
  <2> SUFFICES ASSUME Inductive, walk.done
               PROVE  LET ids == {r.id : r \in Listed(walk.on)}
                      IN ToSet(walk.seen) = ids /\ Len(walk.seen) = Cardinality(ids)
    BY DEF WalkIsComplete
  <2> DEFINE S == Listed(walk.on)
             rows == InOrder(S)
             room == (walk.page - 1) * PageSize(walk.on.query)
  <2>1. walk.on # None
    BY DEF Inductive, WalkOK, NotWalking
  <2>2. walk.seen = FirstIds(rows, room) /\ Len(rows) <= room /\ room \in Nat
    BY <2>1, WalkIsPrefix
  <2>3. /\ Rows(S) /\ rows \in Seq(S) /\ Len(rows) = Cardinality(S)
        /\ \A r \in S : \E i \in 1..Len(rows) : rows[i] = r
    BY ListedRows, RowsInOrder
  <2> HIDE DEF S, rows, room
  <2>4. Len(rows) \in Nat /\ \A i \in 1..Len(rows) : rows[i] \in S
    BY <2>3
  <2>5. walk.seen = [i \in 1..Len(rows) |-> rows[i].id]
    <3>1. (IF room < Len(rows) THEN room ELSE Len(rows)) = Len(rows)
      BY <2>2, <2>4
    <3> QED BY <2>2, <3>1 DEF FirstIds
  <2>6. ToSet(walk.seen) = {r.id : r \in S}
    BY <2>3, <2>4, <2>5 DEF ToSet
  <2>7. Len(walk.seen) = Len(rows)
    BY <2>4, <2>5
  <2> QED BY <2>3, <2>6, <2>7, IdsAreAsMany DEF S
<1> QED
  BY <1>1, Invariance, PTL

(* The middleware and the router let no request reach a handler that needs *)
(* a session without one, for any users, credentials and paths.            *)
THEOREM SessionsAreThere == Spec => SessionWhereNeeded
<1>1. [Next]_vars => [Ask => LET reached == Dispatch(request')
                             IN reached.handler \in SessionHandlers => reached.session # None]_vars
  BY ReachedWithSession
<1> QED BY <1>1, PTL DEF Spec, SessionWhereNeeded

-----------------------------------------------------------------------------
(* Analytics.                                                              *)

LEMMA DisjointUnion ==
    ASSUME NEW S, NEW T, IsFiniteSet(S), IsFiniteSet(T), S \cap T = {}
    PROVE  IsFiniteSet(S \cup T) /\ Cardinality(S \cup T) = Cardinality(S) + Cardinality(T)
<1>1. Cardinality(S) \in Nat /\ Cardinality(T) \in Nat
  BY FS_CardinalityType
<1>2. IsFiniteSet(S \cup T)
      /\ Cardinality(S \cup T) = Cardinality(S) + Cardinality(T) - Cardinality(S \cap T)
  BY FS_Union
<1>3. Cardinality(S \cap T) = 0
  BY FS_EmptySet
<1> QED BY <1>1, <1>2, <1>3

(* A seat of an event is counted under exactly one status.                 *)
LEMMA CountsAddUp ==
    ASSUME TablesOK, NEW event
    PROVE  LET a == AnalyticsResponse(event)
           IN a.sold + a.reserved + a.free = a.total
<1> DEFINE S == {s \in SeatRows : s.event_id = event}
           W(value) == WithStatus(event, value)
           Count(n) == IF n = None THEN 0 ELSE n
<1>1. IsFiniteSet(S)
  <2>1. S \in SUBSET SeatRows
    OBVIOUS
  <2> QED BY <2>1, TablesHaveRows DEF Rows
<1>2. ASSUME NEW value PROVE W(value) \in SUBSET S
  BY DEF WithStatus
<1>3. ASSUME NEW value PROVE IsFiniteSet(W(value)) /\ Cardinality(W(value)) \in Nat
  <2>1. IsFiniteSet(W(value))
    BY <1>1, <1>2, FS_Subset
  <2> QED BY <2>1, FS_CardinalityType
<1>4. W("SOLD") \cup W("RESERVED") \cup W("FREE") = S
  <2>1. \A s \in SeatRows : status[s.id] \in SeatStatus
    BY DEF TablesOK, SeatIds
  <2> QED BY <2>1 DEF WithStatus, SeatStatus
<1>5. W("SOLD") \cap W("RESERVED") = {} /\ (W("SOLD") \cup W("RESERVED")) \cap W("FREE") = {}
  BY DEF WithStatus
<1> HIDE DEF S, W
<1>6. Cardinality(W("SOLD")) + Cardinality(W("RESERVED")) + Cardinality(W("FREE")) = Cardinality(S)
  <2> DEFINE P == W("SOLD") \cup W("RESERVED")
  <2>1. IsFiniteSet(P) /\ Cardinality(P) = Cardinality(W("SOLD")) + Cardinality(W("RESERVED"))
    BY <1>3, <1>5, DisjointUnion
  <2>2. Cardinality(P \cup W("FREE")) = Cardinality(P) + Cardinality(W("FREE"))
    BY <1>3, <1>5, <2>1, DisjointUnion
  <2> QED BY <1>4, <2>1, <2>2 DEF P
<1>7. ASSUME NEW value PROVE Count(SumOf(event, W(value))) = Cardinality(W(value))
  <2>1. CASE S = {}
    <3>1. SumOf(event, W(value)) = None
      BY <2>1 DEF SumOf, S
    <3>2. W(value) = {}
      BY <1>2, <2>1
    <3> QED BY <3>1, <3>2, FS_EmptySet
  <2>2. CASE S # {}
    <3>1. SumOf(event, W(value)) = Cardinality(W(value))
      BY <2>2 DEF SumOf, S
    <3>2. Cardinality(W(value)) # None
      BY <1>3, NoneAssumption
    <3> QED BY <3>1, <3>2
  <2> QED BY <2>1, <2>2
<1>8. LET a == AnalyticsResponse(event)
      IN /\ a.sold = Count(SumOf(event, W("SOLD"))) /\ a.reserved = Count(SumOf(event, W("RESERVED")))
         /\ a.free = Count(SumOf(event, W("FREE"))) /\ a.total = Cardinality(S)
  BY DEF AnalyticsResponse, GetEventAnalytics, S, W
<1> HIDE DEF Count
<1> QED BY <1>6, <1>7, <1>8

(* A request with GET that is answered with 200 was answered by the        *)
(* handler of its path.                                                    *)
LEMMA AnsweredByHandler ==
    ASSUME NEW req, req.method = "GET", Serve(req).status = OK
    PROVE  \E route \in Routes :
             /\ route.path = req.path /\ route.method = "GET"
             /\ Serve(req) = Answer(route.handler, Dispatch(req).session, req.query)
             /\ Dispatch(req).handler = route.handler
             /\ ~IsExempt(req.path) =>
                  /\ Authenticate(req.header) # {}
                  /\ Dispatch(req).session = CHOOSE s \in Authenticate(req.header) : TRUE
<1> DEFINE d == Dispatch(req)
<1>1. d.status = 0
  <2> SUFFICES ASSUME d.status # 0 PROVE FALSE
    OBVIOUS
  <2>1. Serve(req).status = d.status
    BY DEF Serve
  <2> QED BY <2>1, RejectedStatus
<1>2. Serve(req) = Answer(d.handler, d.session, req.query)
  BY <1>1 DEF Serve
<1>3. PICK route \in Routes :
        /\ route.path = req.path /\ route.method = req.method /\ d.handler = route.handler
        /\ ~IsExempt(req.path) =>
             /\ Authenticate(req.header) # {}
             /\ d.session = CHOOSE s \in Authenticate(req.header) : TRUE
  BY <1>1, Reached
<1> HIDE DEF d
<1>4. Serve(req) = Answer(route.handler, d.session, req.query)
  BY <1>2, <1>3
<1> QED BY <1>3, <1>4 DEF d

(* The counts of the analytics add up, for any event, any seats and at any *)
(* moment.                                                                 *)
THEOREM AnalyticsAreOfAMoment == Spec => AnalyticsAddUp
<1>1. Inductive /\ [Next]_vars =>
        [Ask /\ request'.path = <<"api", "analytics">> /\ request'.method = "GET"
             /\ response'.status = OK =>
           LET a == response'.body
           IN a.sold + a.reserved + a.free = a.total]_vars
  <2> SUFFICES ASSUME Inductive, Ask, request'.path = <<"api", "analytics">>,
                      request'.method = "GET", response'.status = OK
               PROVE  LET a == response'.body
                      IN a.sold + a.reserved + a.free = a.total
    OBVIOUS
  <2>1. PICK req \in RequestSet : request' = req /\ response' = Serve(req)
    BY DEF Ask
  <2>2. PICK route \in Routes :
          /\ route.path = req.path /\ route.method = "GET"
          /\ Serve(req) = Answer(route.handler, Dispatch(req).session, req.query)
    BY <2>1, AnsweredByHandler
  <2>3. route.handler = "GetEventAnalytics"
    BY <2>1, <2>2, HandlerOfPath
  <2>4. Serve(req).body = AnalyticsResponse(req.query.id)
    BY <2>1, <2>2, <2>3 DEF Answer, SessionHandlers, OK, BadRequest
  <2>5. TablesOK
    BY TypeParts
  <2> QED BY <2>1, <2>4, <2>5, CountsAddUp
<1> QED BY <1>1, Invariance, PTL DEF Spec, AnalyticsAddUp

-----------------------------------------------------------------------------
(* Bookings.                                                               *)

OwnedBy(user) == {c \in created : c.user = user}
SeatsHeld(c) == {s \in SeatIds : holder[s] = c.id}
Line(c) == [id |-> c.id, event_id |-> c.event_id, seats |-> SeatsHeld(c)]

(* The join, the grouping, the JSON and the handler that reads it make one *)
(* line of each booking, with the ids of its seats.                        *)
LEMMA ListedBookings ==
    ASSUME NEW user
    PROVE  ListBookings(user) = {Line(c) : c \in OwnedBy(user)}
<1> DEFINE rows == {r \in JoinSeats(user) :
                      IF r.seat = None THEN \A s \in SeatIds : holder[s] # r.booking.id
                                       ELSE holder[r.seat] = r.booking.id}
           Objects(c) == {[id |-> s] : s \in SeatsHeld(c)}
           Group(r) == {[id |-> q.seat] : q \in {p \in rows : p.booking = r.booking /\ p.seat # None}}
<1>1. None \notin SeatIds
  BY RowsAssumption, NoneAssumption DEF SeatIds
<1>2. \A r : r \in rows <=>
        \E c \in OwnedBy(user) :
          \/ r = [booking |-> c, seat |-> None] /\ SeatsHeld(c) = {}
          \/ \E s \in SeatsHeld(c) : r = [booking |-> c, seat |-> s]
  <2> SUFFICES ASSUME NEW r
               PROVE  r \in rows <=>
                        \E c \in OwnedBy(user) :
                          \/ r = [booking |-> c, seat |-> None] /\ SeatsHeld(c) = {}
                          \/ \E s \in SeatsHeld(c) : r = [booking |-> c, seat |-> s]
    OBVIOUS
  <2>1. r \in JoinSeats(user) <=>
          \E c \in OwnedBy(user), s \in SeatIds \cup {None} : r = [booking |-> c, seat |-> s]
    BY DEF JoinSeats, OwnedBy
  <2>2. ASSUME NEW c \in OwnedBy(user), r = [booking |-> c, seat |-> None]
        PROVE  (IF r.seat = None THEN \A s \in SeatIds : holder[s] # r.booking.id
                                 ELSE holder[r.seat] = r.booking.id) <=> SeatsHeld(c) = {}
    BY <2>2 DEF SeatsHeld
  <2>3. ASSUME NEW c \in OwnedBy(user), NEW s \in SeatIds, r = [booking |-> c, seat |-> s]
        PROVE  (IF r.seat = None THEN \A t \in SeatIds : holder[t] # r.booking.id
                                 ELSE holder[r.seat] = r.booking.id) <=> s \in SeatsHeld(c)
    BY <1>1, <2>3 DEF SeatsHeld
  <2>4. SeatsHeld(1) \subseteq SeatIds
    BY DEF SeatsHeld
  <2>5. ASSUME r \in rows
        PROVE  \E c \in OwnedBy(user) :
                 \/ r = [booking |-> c, seat |-> None] /\ SeatsHeld(c) = {}
                 \/ \E s \in SeatsHeld(c) : r = [booking |-> c, seat |-> s]
    BY <2>1, <2>2, <2>3, <2>5
  <2>6. ASSUME NEW c \in OwnedBy(user),
               \/ r = [booking |-> c, seat |-> None] /\ SeatsHeld(c) = {}
               \/ \E s \in SeatsHeld(c) : r = [booking |-> c, seat |-> s]
        PROVE  r \in rows
    <3>1. SeatsHeld(c) \subseteq SeatIds
      BY DEF SeatsHeld
    <3>2. CASE r = [booking |-> c, seat |-> None] /\ SeatsHeld(c) = {}
      BY <2>1, <2>2, <3>2
    <3>3. CASE \E s \in SeatsHeld(c) : r = [booking |-> c, seat |-> s]
      BY <2>1, <2>3, <3>1, <3>3
    <3> QED BY <2>6, <3>2, <3>3
  <2> QED BY <2>5, <2>6
<1> HIDE DEF rows
<1>3. \A r \in rows : r.booking \in OwnedBy(user)
  BY <1>2
<1>4. \A c \in OwnedBy(user) : \E r \in rows : r.booking = c
  <2> SUFFICES ASSUME NEW c \in OwnedBy(user) PROVE \E r \in rows : r.booking = c
    OBVIOUS
  <2>1. CASE SeatsHeld(c) = {}
    <3>1. [booking |-> c, seat |-> None] \in rows
      BY <1>2, <2>1
    <3> QED BY <3>1
  <2>2. CASE SeatsHeld(c) # {}
    <3>1. PICK s \in SeatsHeld(c) : TRUE
      BY <2>2
    <3>2. [booking |-> c, seat |-> s] \in rows
      BY <1>2
    <3> QED BY <3>2
  <2> QED BY <2>1, <2>2
<1>5. ASSUME NEW r \in rows PROVE Group(r) = Objects(r.booking)
  <2>1. r.booking \in OwnedBy(user)
    BY <1>3
  <2>2. \A p \in rows : p.booking = r.booking /\ p.seat # None => p.seat \in SeatsHeld(r.booking)
    BY <1>2
  <2>3. \A s \in SeatsHeld(r.booking) :
          /\ [booking |-> r.booking, seat |-> s] \in rows
          /\ s # None
    BY <1>1, <1>2, <2>1 DEF SeatsHeld
  <2>4. ASSUME NEW o \in Group(r) PROVE o \in Objects(r.booking)
    <3>1. PICK q \in rows : q.booking = r.booking /\ q.seat # None /\ o = [id |-> q.seat]
      OBVIOUS
    <3> QED BY <2>2, <3>1
  <2>5. ASSUME NEW o \in Objects(r.booking) PROVE o \in Group(r)
    <3>1. PICK s \in SeatsHeld(r.booking) : o = [id |-> s]
      OBVIOUS
    <3> DEFINE q == [booking |-> r.booking, seat |-> s]
    <3>2. q \in rows /\ q.booking = r.booking /\ q.seat = s /\ s # None
      BY <2>3
    <3> QED BY <3>1, <3>2
  <2> QED BY <2>4, <2>5
<1>6. GetBookings(user) = {[id |-> r.booking.id, event_id |-> r.booking.event_id, seats |-> Group(r)] :
                             r \in rows}
  BY DEF GetBookings, Aggregate, rows
<1> DEFINE Row(c) == [id |-> c.id, event_id |-> c.event_id, seats |-> Objects(c)]
<1>7. GetBookings(user) = {Row(c) : c \in OwnedBy(user)}
  <2>1. \A r \in rows : [id |-> r.booking.id, event_id |-> r.booking.event_id, seats |-> Group(r)]
                         = Row(r.booking)
    BY <1>5
  <2> HIDE DEF Group, Row
  <2>2. GetBookings(user) = {Row(r.booking) : r \in rows}
    BY <1>6, <2>1
  <2> QED BY <1>3, <1>4, <2>2
<1>8. ASSUME NEW c PROVE {object.id : object \in Objects(c)} = SeatsHeld(c)
  <2>1. \A s \in SeatsHeld(c) : [id |-> s] \in Objects(c) /\ [id |-> s].id = s
    OBVIOUS
  <2>2. \A o \in Objects(c) : o.id \in SeatsHeld(c)
    OBVIOUS
  <2> HIDE DEF Objects
  <2> QED BY <2>1, <2>2
<1> HIDE DEF Objects
<1>9. ASSUME NEW c
      PROVE  [Row(c) EXCEPT !.seats = {object.id : object \in @}] = Line(c)
  <2>1. \A x : [Row(c) EXCEPT !.seats = x] = [id |-> c.id, event_id |-> c.event_id, seats |-> x]
    OBVIOUS
  <2>2. {object.id : object \in Row(c).seats} = SeatsHeld(c)
    BY <1>8
  <2>3. [Row(c) EXCEPT !.seats = SeatsHeld(c)] = Line(c)
    BY <2>1 DEF Line
  <2> HIDE DEF Row
  <2> QED BY <2>2, <2>3
<1> DEFINE Read(b) == [b EXCEPT !.seats = {object.id : object \in @}]
<1>10. ListBookings(user) = {Read(b) : b \in GetBookings(user)}
  BY DEF ListBookings
<1>11. \A c : Read(Row(c)) = Line(c)
  BY <1>9
<1> HIDE DEF Row, Read
<1> QED BY <1>7, <1>10, <1>11

LEMMA LinesAreAsMany ==
    ASSUME TablesOK, NEW user
    PROVE  Cardinality({Line(c) : c \in OwnedBy(user)}) = Cardinality(OwnedBy(user))
<1> DEFINE S == OwnedBy(user)
           T == {Line(c) : c \in S}
           f == [c \in S |-> Line(c)]
<1>1. \A c, d \in S : c.id = d.id => c = d
  BY RowsAssumption DEF TablesOK, OwnedBy
<1>2. \A c : Line(c).id = c.id
  BY DEF Line
<1>3. f \in [S -> T] /\ (\A c, d \in S : f[c] = f[d] => c = d) /\ (\A t \in T : \E c \in S : f[c] = t)
  BY <1>1, <1>2
<1>4. f \in Bijection(S, T)
  BY <1>3 DEF Bijection, Injection, Surjection, IsInjective
<1>5. ExistsBijection(S, T)
  BY <1>4 DEF ExistsBijection
<1>6. S \in SUBSET created
  BY DEF OwnedBy
<1>7. IsFiniteSet(S)
  BY <1>6, FS_Subset DEF TablesOK
<1> QED BY <1>5, <1>7, FS_Bijection

(* The route of the bookings is behind the authentication.                 *)
LEMMA BookingsAreGuarded == ~IsExempt(<<"api", "bookings">>)
<1> DEFINE route == [method |-> "GET", path |-> <<"api", "bookings">>, handler |-> "ListBookings"]
<1>1. route \in Routes /\ route.handler \in SessionHandlers /\ route.path = <<"api", "bookings">>
  BY DEF Routes, SessionHandlers
<1> HIDE DEF route
<1> QED BY <1>1, SessionRoutesAreGuarded

(* Whoever is answered with a list of bookings is an active user with the  *)
(* email of the request and gets all bookings of that user and no others,  *)
(* each once and with its seats, whatever the tables hold.                 *)
THEOREM BookingsAreOwn == Spec => OwnBookings
<1> DEFINE Own ==
      \E u \in UserRows :
        /\ u.is_active /\ u.email = request'.header.token.email
        /\ {b.id : b \in response'.body} = {b.id : b \in {c \in created : c.user = u.id}}
        /\ Cardinality(response'.body) = Cardinality({c \in created : c.user = u.id})
        /\ \A s \in SeatIds :
             \A b \in response'.body : s \in b.seats <=> holder[s] = b.id
<1>1. Inductive /\ [Next]_vars =>
        [Ask /\ request'.path = <<"api", "bookings">> /\ request'.method = "GET"
             /\ response'.status = OK => Own]_vars
  <2> SUFFICES ASSUME Inductive, Ask, request'.path = <<"api", "bookings">>,
                      request'.method = "GET", response'.status = OK
               PROVE  Own
    OBVIOUS
  <2>1. PICK req \in RequestSet : request' = req /\ response' = Serve(req)
    BY DEF Ask
  <2> DEFINE session == Dispatch(req).session
  <2>2. PICK route \in Routes :
          /\ route.path = req.path /\ route.method = "GET"
          /\ Serve(req) = Answer(route.handler, session, req.query)
          /\ Dispatch(req).handler = route.handler
          /\ ~IsExempt(req.path) =>
               /\ Authenticate(req.header) # {}
               /\ session = CHOOSE s \in Authenticate(req.header) : TRUE
    BY <2>1, AnsweredByHandler
  <2>3. route.handler = "ListBookings"
    BY <2>1, <2>2, HandlerOfPath
  <2>4. PICK u \in UserRows :
          u.is_active /\ u.email = req.header.token.email /\ u.id = session
    BY <2>1, <2>2, BookingsAreGuarded, SessionOfUser
  <2>5. session # None
    BY <2>2, <2>3, ReachedWithSession DEF SessionHandlers
  <2>6. Serve(req).body = ListBookings(session)
    BY <2>2, <2>3, <2>5 DEF Answer
  <2> HIDE DEF session
  <2>7. response'.body = {Line(c) : c \in OwnedBy(u.id)}
    BY <2>1, <2>4, <2>6, ListedBookings
  <2>8. OwnedBy(u.id) = {c \in created : c.user = u.id}
    BY DEF OwnedBy
  <2>9. {b.id : b \in response'.body} = {b.id : b \in OwnedBy(u.id)}
    <3>1. \A c : Line(c).id = c.id
      BY DEF Line
    <3> QED BY <2>7, <3>1
  <2>10. Cardinality(response'.body) = Cardinality(OwnedBy(u.id))
    BY <2>7, LinesAreAsMany, TypeParts
  <2>11. \A s \in SeatIds : \A b \in response'.body : s \in b.seats <=> holder[s] = b.id
    BY <2>7 DEF Line, SeatsHeld
  <2> QED BY <2>1, <2>4, <2>8, <2>9, <2>10, <2>11
<1> QED BY <1>1, Invariance, PTL DEF Spec, OwnBookings
=============================================================================
