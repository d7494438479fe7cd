------------------------------- MODULE Reset -------------------------------
(***************************************************************************)
(* The reset service: one transaction on the main database that deletes    *)
(* the rows of five tables and loads the places of the event provider into *)
(* seats.  Fetchers take page numbers from a channel, fetch the pages and  *)
(* put them into the bounded placeChan; inserters take them out and insert *)
(* their rows through the shared transaction; a monitor closes the         *)
(* channels in turn; Reset waits for the first error or for the end.       *)
(* It is called by the handler of POST /api/reset, whose context ends when *)
(* the client goes away, or by the preloader, whose context never ends.    *)
(***************************************************************************)
EXTENDS Naturals, Sequences

CONSTANTS
    Fetchers,    \* numFetchers goroutines
    Inserters,   \* numInserters goroutines
    TotalPages,  \* totalPages
    ChanSize,    \* capacity of placeChan
    Catalogue    \* the places on each page of the event provider

Page == 1..TotalPages

(* A place of the event provider, its row and its number in the row.       *)
Place == [id: STRING, row: Nat, seat: Nat, isFree: BOOLEAN]

ASSUME ResetAssumption ==
    /\ TotalPages \in Nat /\ ChanSize \in Nat \ {0}
    /\ Fetchers # {} /\ Inserters # {} /\ Fetchers \cap Inserters = {}
    /\ DOMAIN Catalogue = Page
    /\ \A n \in Page : Catalogue[n] \subseteq Place

Workers == Fetchers \cup Inserters

VARIABLES
    callerGone, \* the context given to Reset is done
    cancelled,  \* cancel() was called: the context of the goroutines is done
    main,       \* where Reset is
    cleared,    \* how many of the five DELETEs have run
    visible,    \* the database as other connections see it
    working,    \* the database as the connection of the transaction sees it
    lost,       \* SQLite has ended the transaction: the connection autocommits
    nextPage,   \* the head of pageChan
    placeChan,  \* the pages (chunks) in placeChan
    errChan,    \* TRUE if an error lies in errChan, which has room for one
    monitor,    \* what the monitor waits for; "done": doneChan is closed
    pc, page,   \* where each fetcher and inserter is, and the page it works on
    result,     \* what Reset has returned
    failed      \* some call of Reset outside the process has failed

workerVars == <<nextPage, placeChan, pc, page>>
dbVars == <<visible, working, lost, cleared>>
vars == <<callerGone, cancelled, main, dbVars, workerVars,
          errChan, monitor, result, failed>>

-----------------------------------------------------------------------------
(* Mutant: bookings before the table that refers to it.                    *)
BookingsFirst ==
    <<"booking_orders", "booking_payments", "bookings", "booking_seats", "seats">>

(* The database: the tables that still have their old rows, and how often  *)
(* the rows of each page were inserted into seats.                         *)
ClearOrder ==
    <<"booking_orders", "booking_payments", "booking_seats", "bookings", "seats">>
Tables == {ClearOrder[i] : i \in DOMAIN ClearOrder}

ForeignKeys ==
    {<<"booking_orders", "bookings">>, <<"booking_payments", "bookings">>,
     <<"booking_seats", "bookings">>, <<"booking_seats", "seats">>}

(* Mutant: each band without its last seat.                                *)
CalculateSeatPriceBelow(row, seat) ==
    LET seatIndex == (row - 1) * 1000 + seat IN
    CASE seatIndex < 10000 -> 40000
      [] seatIndex >= 10000 /\ seatIndex < 25000 -> 80000
      [] seatIndex >= 25000 /\ seatIndex < 45000 -> 120000
      [] seatIndex >= 45000 /\ seatIndex < 70000 -> 160000
      [] OTHER -> 200000

CalculateSeatPrice(row, seat) ==
    LET seatIndex == (row - 1) * 1000 + seat IN
    CASE seatIndex <= 10000 -> 40000
      [] seatIndex > 10000 /\ seatIndex <= 25000 -> 80000
      [] seatIndex > 25000 /\ seatIndex <= 45000 -> 120000
      [] seatIndex > 45000 /\ seatIndex <= 70000 -> 160000
      [] OTHER -> 200000

SeatRow(place) ==
    [external_id |-> place.id, row |-> place.row, number |-> place.seat,
     price |-> CalculateSeatPrice(place.row, place.seat),
     status |-> IF place.isFree THEN "FREE" ELSE "RESERVED"]

RowsOfPage(n) == {SeatRow(place) : place \in Catalogue[n]}

Before == [old |-> Tables, seats |-> [n \in Page |-> 0]]
Complete ==
    [old |-> {}, seats |-> [n \in Page |-> IF RowsOfPage(n) = {} THEN 0 ELSE 1]]

Referenced(db, table) == \E t \in db.old : <<t, table>> \in ForeignKeys

DeleteAll(db, table) == [db EXCEPT !.old = @ \ {table}]

InsertRows(db, n) == [db EXCEPT !.seats[n] = @ + 1]

-----------------------------------------------------------------------------
MainSteps == {"begin", "clear", "starting", "select", "failing", "commit",
              "closing", "returned"}
WorkerSteps == {"unborn", "next", "fetch", "send", "receive", "insert", "execute",
                "report", "cancel", "done"}
Database == [old: SUBSET Tables, seats: [Page -> Nat]]

TypeOK ==
    /\ callerGone \in BOOLEAN /\ cancelled \in BOOLEAN /\ failed \in BOOLEAN
    /\ main \in MainSteps
    /\ cleared \in 0..Len(ClearOrder)
    /\ visible \in Database /\ working \in Database /\ lost \in BOOLEAN
    /\ nextPage \in 1..(TotalPages + 1)
    /\ placeChan \in Seq(Page) /\ Len(placeChan) <= ChanSize
    /\ errChan \in BOOLEAN
    /\ monitor \in {"unborn", "fetchers", "inserters", "done"}
    /\ pc \in [Workers -> WorkerSteps]
    /\ page \in [Workers -> Page \cup {0}]
    /\ result \in {"none", "ok", "error"}

Init ==
    /\ callerGone = FALSE /\ cancelled = FALSE /\ failed = FALSE
    /\ main = "begin" /\ cleared = 0
    /\ visible = Before /\ working = Before /\ lost = FALSE
    /\ nextPage = 1 /\ placeChan = << >> /\ errChan = FALSE
    /\ monitor = "unborn"
    /\ pc = [w \in Workers |-> "unborn"]
    /\ page = [w \in Workers |-> 0]
    /\ result = "none"

ContextDone == callerGone \/ cancelled
Unharmed == UNCHANGED failed
Failure == failed' = TRUE

(* The sql.Tx takes statements from BEGIN until COMMIT or ROLLBACK is      *)
(* called.                                                                 *)
TxOpen == main \notin {"begin", "closing", "returned"}

-----------------------------------------------------------------------------
(* Reset                                                                   *)

(* Reset returns when no statement is running; what it has not committed   *)
(* is rolled back, and the context of the goroutines ends (both are        *)
(* deferred).                                                              *)
ReturnError ==
    /\ main' = "returned" /\ result' = "error"
    /\ working' = visible
    /\ cancelled' = TRUE

Begin ==
    /\ main = "begin"
    /\ \/ main' = "clear" /\ Unharmed /\ UNCHANGED <<cancelled, working, result>>
       \/ Failure /\ ReturnError
    /\ UNCHANGED <<callerGone, cleared, visible, lost, workerVars, errChan, monitor>>

(* Mutant: the statements run outside the transaction.                     *)
ClearWithoutTx ==
    /\ main = "clear" /\ cleared < Len(ClearOrder)
    /\ LET table == ClearOrder[cleared + 1] IN
       \/ /\ ~ContextDone /\ ~Referenced(visible, table)
          /\ visible' = DeleteAll(visible, table)
          /\ working' = DeleteAll(working, table)
          /\ cleared' = cleared + 1
          /\ Unharmed /\ UNCHANGED <<main, cancelled, result>>
       \/ /\ IF ContextDone \/ Referenced(visible, table) THEN Unharmed ELSE Failure
          /\ ReturnError
          /\ UNCHANGED <<cleared, visible>>
    /\ UNCHANGED <<callerGone, lost, workerVars, errChan, monitor>>

(* clearExistingData: the next DELETE.  It fails when the context is done, *)
(* when rows of another table refer to the table, or for a reason of the   *)
(* database (the first of them waits for the write lock).                  *)
Clear ==
    /\ main = "clear" /\ cleared < Len(ClearOrder)
    /\ LET table == ClearOrder[cleared + 1] IN
       \/ /\ ~ContextDone /\ ~Referenced(working, table)
          /\ working' = DeleteAll(working, table)
          /\ cleared' = cleared + 1
          /\ Unharmed /\ UNCHANGED <<main, cancelled, result>>
       \/ /\ IF ContextDone \/ Referenced(working, table) THEN Unharmed ELSE Failure
          /\ ReturnError
          /\ UNCHANGED cleared
    /\ UNCHANGED <<callerGone, visible, lost, workerVars, errChan, monitor>>

(* The goroutines are started.                                             *)
Start ==
    /\ main = "clear" /\ cleared = Len(ClearOrder)
    /\ main' = "starting"
    /\ pc' = [w \in Workers |-> IF w \in Fetchers THEN "next" ELSE "receive"]
    /\ monitor' = "fetchers"
    /\ UNCHANGED <<callerGone, cancelled, dbVars, nextPage, placeChan, page,
                   errChan, result, failed>>

(* Reset reaches its select.  The goroutines may have come to any point by *)
(* then, even to their end.                                                *)
Wait ==
    /\ main = "starting" /\ main' = "select"
    /\ UNCHANGED <<callerGone, cancelled, dbVars, workerVars,
                   errChan, monitor, result, failed>>

(* The select takes an error that lies in errChan, or finds doneChan       *)
(* closed; when both are ready it takes either.                            *)
ReceiveError ==
    /\ main = "select" /\ errChan
    /\ main' = "failing" /\ errChan' = FALSE
    /\ UNCHANGED <<callerGone, cancelled, dbVars, workerVars, monitor, result, failed>>

ReceiveDone ==
    /\ main = "select" /\ monitor = "done"
    /\ main' = "commit"
    /\ UNCHANGED <<callerGone, cancelled, dbVars, workerVars,
                   errChan, monitor, result, failed>>

(* The context of the goroutines ends, and the deferred Rollback keeps new *)
(* statements out.                                                         *)
Fail ==
    /\ main = "failing"
    /\ cancelled' = TRUE /\ main' = "closing"
    /\ UNCHANGED <<callerGone, dbVars, workerVars, errChan, monitor, result, failed>>

(* It waits for the statements that were let in before.                    *)
Rollback ==
    /\ main = "closing"
    /\ \A w \in Workers : pc[w] # "execute"
    /\ ReturnError
    /\ UNCHANGED <<callerGone, cleared, visible, lost, workerVars, errChan, monitor, failed>>

(* Commit does not look at the context.  It fails when SQLite has ended    *)
(* the transaction before.                                                 *)
Commit ==
    /\ main = "commit"
    /\ \/ /\ ~lost
          /\ visible' = working /\ main' = "returned" /\ result' = "ok"
          /\ cancelled' = TRUE
          /\ Unharmed /\ UNCHANGED working
       \/ /\ IF lost THEN Unharmed ELSE Failure
          /\ ReturnError /\ UNCHANGED visible
    /\ UNCHANGED <<callerGone, cleared, lost, workerVars, errChan, monitor>>

-----------------------------------------------------------------------------
(* The goroutines                                                          *)

GoTo(w, step) == pc' = [pc EXCEPT ![w] = step]

(* Mutant: one page number too many.                                       *)
TakePageBeyond(f) ==
    /\ pc[f] = "next"
    /\ IF nextPage > TotalPages + 1
       THEN GoTo(f, "done") /\ UNCHANGED <<nextPage, page>>
       ELSE /\ nextPage' = nextPage + 1
            /\ IF ContextDone
               THEN GoTo(f, "done") /\ UNCHANGED page
               ELSE GoTo(f, "fetch") /\ page' = [page EXCEPT ![f] = nextPage]
    /\ UNCHANGED <<callerGone, cancelled, main, dbVars, placeChan,
                   errChan, monitor, result, failed>>

(* A fetcher takes a page number and looks at the context: it ends when    *)
(* there is no page left, and also, without an error, when the context is  *)
(* done.                                                                   *)
TakePage(f) ==
    /\ pc[f] = "next"
    /\ IF nextPage > TotalPages
       THEN GoTo(f, "done") /\ UNCHANGED <<nextPage, page>>
       ELSE /\ nextPage' = nextPage + 1
            /\ IF ContextDone
               THEN GoTo(f, "done") /\ UNCHANGED page
               ELSE GoTo(f, "fetch") /\ page' = [page EXCEPT ![f] = nextPage]
    /\ UNCHANGED <<callerGone, cancelled, main, dbVars, placeChan,
                   errChan, monitor, result, failed>>

(* The client of the event provider: the request for a page, the answers   *)
(* the provider may give to it, and what the client makes of an answer.    *)
(* The body is decoded when it is said to be JSON and has a status the     *)
(* client knows; one that does not parse then is an error.  The number of  *)
(* a page stands for the places on it.                                     *)
ListPlacesParams(n) == [page |-> n, pageSize |-> 1000]

NewListPlacesRequest(params) ==
    [method |-> "GET", path |-> <<"api", "partners", "v1", "places">>, query |-> params]

Answers(request) ==
    {[status |-> s, json |-> j, parses |-> p,
      places |-> IF s = 200 /\ j /\ p THEN request.query.page ELSE 0] :
       s \in {200, 422, 500, 503}, j \in BOOLEAN, p \in BOOLEAN}

NoAnswer == [err |-> TRUE, status |-> 0, json200 |-> FALSE, places |-> 0]

ParseListPlacesResponse(rsp) ==
    IF rsp.json /\ rsp.status \in {200, 422, 500} /\ ~rsp.parses THEN NoAnswer
    ELSE [err |-> FALSE, status |-> rsp.status,
          json200 |-> rsp.json /\ rsp.status = 200, places |-> rsp.places]

ListPlacesWithResponse(params) ==
    {NoAnswer} \cup {ParseListPlacesResponse(rsp) : rsp \in Answers(NewListPlacesRequest(params))}

(* What fetchPage accepts.                                                 *)
PageFetched(response) ==
    ~response.err /\ response.status = 200 /\ response.json200

(* A call whose context is done may still have been answered.              *)
FetchPage(f) ==
    /\ pc[f] = "fetch"
    /\ \E response \in ListPlacesWithResponse(ListPlacesParams(page[f])) :
         /\ IF PageFetched(response)
            THEN GoTo(f, "send") /\ Unharmed
            ELSE GoTo(f, "report") /\ (IF ContextDone THEN Unharmed ELSE Failure)
         /\ page' = [page EXCEPT ![f] = IF PageFetched(response) THEN response.places ELSE 0]
    /\ UNCHANGED <<callerGone, cancelled, main, dbVars, nextPage, placeChan,
                   errChan, monitor, result>>

(* Mutant: the send does not look at the context.                          *)
SendChunkOnly(f) ==
    /\ pc[f] = "send"
    /\ Len(placeChan) < ChanSize
    /\ placeChan' = Append(placeChan, page[f]) /\ GoTo(f, "next")
    /\ page' = [page EXCEPT ![f] = 0]
    /\ UNCHANGED <<callerGone, cancelled, main, dbVars, nextPage,
                   errChan, monitor, result, failed>>

SendChunk(f) ==
    /\ pc[f] = "send"
    /\ \/ /\ Len(placeChan) < ChanSize
          /\ placeChan' = Append(placeChan, page[f]) /\ GoTo(f, "next")
       \/ /\ ContextDone
          /\ GoTo(f, "done") /\ UNCHANGED placeChan
    /\ page' = [page EXCEPT ![f] = 0]
    /\ UNCHANGED <<callerGone, cancelled, main, dbVars, nextPage,
                   errChan, monitor, result, failed>>

ReceiveChunk(i) ==
    /\ pc[i] = "receive"
    /\ \/ /\ placeChan # << >>
          /\ placeChan' = Tail(placeChan)
          /\ page' = [page EXCEPT ![i] = Head(placeChan)]
          /\ GoTo(i, "insert")
       \/ /\ placeChan = << >> /\ monitor = "inserters"
          /\ GoTo(i, "done") /\ UNCHANGED <<placeChan, page>>
    /\ UNCHANGED <<callerGone, cancelled, main, dbVars, nextPage,
                   errChan, monitor, result, failed>>

(* An empty chunk needs no statement.  The statement of another one is let *)
(* in unless Commit or Rollback has been called or the context is done;    *)
(* from then on it only waits for the connection.                          *)
InsertPlaceChunk(i) ==
    /\ pc[i] = "insert"
    /\ LET empty == Catalogue[page[i]] = {}
           admitted == TxOpen /\ ~ContextDone
       IN \/ empty /\ GoTo(i, "receive") /\ page' = [page EXCEPT ![i] = 0]
          \/ ~empty /\ admitted /\ GoTo(i, "execute") /\ UNCHANGED page
          \/ ~empty /\ ~admitted /\ GoTo(i, "report") /\ page' = [page EXCEPT ![i] = 0]
    /\ UNCHANGED <<callerGone, cancelled, main, dbVars, nextPage, placeChan,
                   errChan, monitor, result, failed>>

(* What becomes of a statement on the connection of the transaction.  When *)
(* the transaction is lost the rows are committed at once.                 *)
StatementSucceeds(n) ==
    /\ working' = InsertRows(working, n)
    /\ visible' = IF lost THEN working' ELSE visible
    /\ Unharmed /\ UNCHANGED lost

StatementFails == Failure /\ UNCHANGED <<visible, working, lost>>

(* A statement whose context ends while it runs is interrupted, and SQLite *)
(* rolls the whole transaction back; so it does after some errors.  The    *)
(* sql.Tx does not notice.                                                 *)
TransactionFails ==
    /\ working' = visible /\ lost' = TRUE
    /\ IF ContextDone THEN Unharmed ELSE Failure
    /\ UNCHANGED visible

(* Mutant: the inserter goes on after a failed statement.                  *)
ExecuteInsertOrSkip(i) ==
    /\ pc[i] = "execute"
    /\ StatementSucceeds(page[i]) \/ StatementFails \/ TransactionFails
    /\ GoTo(i, "receive") /\ page' = [page EXCEPT ![i] = 0]
    /\ UNCHANGED <<callerGone, cancelled, main, cleared, nextPage, placeChan,
                   errChan, monitor, result>>

(* The statement runs.                                                     *)
ExecuteInsert(i) ==
    /\ pc[i] = "execute"
    /\ \/ StatementSucceeds(page[i]) /\ GoTo(i, "receive")
       \/ (StatementFails \/ TransactionFails) /\ GoTo(i, "report")
    /\ page' = [page EXCEPT ![i] = 0]
    /\ UNCHANGED <<callerGone, cancelled, main, cleared, nextPage, placeChan,
                   errChan, monitor, result>>

(* A failed goroutine gives its error to Reset if that is waiting, else    *)
(* leaves it in errChan, and then cancels the others; if errChan is full   *)
(* it just ends.                                                           *)
Report(w) ==
    /\ pc[w] = "report"
    /\ \/ /\ main = "select" /\ ~errChan
          /\ main' = "failing" /\ GoTo(w, "cancel") /\ UNCHANGED errChan
       \/ /\ main # "select" /\ ~errChan
          /\ errChan' = TRUE /\ GoTo(w, "cancel") /\ UNCHANGED main
       \/ /\ errChan
          /\ GoTo(w, "done") /\ UNCHANGED <<main, errChan>>
    /\ UNCHANGED <<callerGone, cancelled, dbVars, nextPage, placeChan, page,
                   monitor, result, failed>>

Cancel(w) ==
    /\ pc[w] = "cancel"
    /\ cancelled' = TRUE /\ GoTo(w, "done")
    /\ UNCHANGED <<callerGone, main, dbVars, nextPage, placeChan, page,
                   errChan, monitor, result, failed>>

AllDone(set) == \A w \in set : pc[w] = "done"

(* Mutant: doneChan is closed before the inserters have ended.             *)
MonitorOfFetchers ==
    /\ \/ monitor = "fetchers" /\ AllDone(Fetchers) /\ monitor' = "inserters"
       \/ monitor = "inserters" /\ monitor' = "done"
    /\ UNCHANGED <<callerGone, cancelled, main, dbVars, workerVars,
                   errChan, result, failed>>

(* The monitor closes placeChan when all fetchers have ended, and doneChan *)
(* when all inserters have.                                                *)
Monitor ==
    /\ \/ monitor = "fetchers" /\ AllDone(Fetchers) /\ monitor' = "inserters"
       \/ monitor = "inserters" /\ AllDone(Inserters) /\ monitor' = "done"
    /\ UNCHANGED <<callerGone, cancelled, main, dbVars, workerVars,
                   errChan, result, failed>>

(* The client of POST /api/reset goes away.                                *)
CallerLeaves ==
    /\ main # "returned"
    /\ ~callerGone /\ callerGone' = TRUE
    /\ UNCHANGED <<cancelled, main, dbVars, workerVars,
                   errChan, monitor, result, failed>>

-----------------------------------------------------------------------------
ResetStep ==
    \/ Begin \/ Clear \/ Start \/ Wait \/ ReceiveError \/ ReceiveDone \/ Fail
    \/ Rollback \/ Commit

WorkerStep(w) ==
    \/ TakePage(w) \/ FetchPage(w) \/ SendChunk(w)
    \/ ReceiveChunk(w) \/ InsertPlaceChunk(w) \/ ExecuteInsert(w)
    \/ Report(w) \/ Cancel(w)

Next ==
    ResetStep \/ Monitor \/ CallerLeaves \/ \E w \in Workers : WorkerStep(w)

(* Every goroutine that can run does; calls end, with an answer or an      *)
(* error.                                                                  *)
Fairness ==
    WF_vars(ResetStep) /\ WF_vars(Monitor) /\ \A w \in Workers : WF_vars(WorkerStep(w))

Spec == Init /\ [][Next]_vars /\ Fairness

-----------------------------------------------------------------------------
(* What ResetDatabase answers when Reset has returned.                     *)
ResetDatabase ==
    CASE result = "error" -> 500 [] result = "ok" -> 200 [] OTHER -> 0

(* A reset that is answered with 200 has put every row of every page into  *)
(* seats exactly once and has removed everything else, whatever the order  *)
(* of fetching and inserting - unless its caller went away, which ends the *)
(* fetchers without an error, or an error lies unread in errChan because   *)
(* the goroutines had ended before Reset came to its select.               *)
CommitIsComplete ==
    ResetDatabase = 200 => visible = Complete \/ callerGone \/ errChan

(* A reset that runs or has failed removes nothing that was there before   *)
(* it, whatever happens to its transaction; it can leave behind rows of    *)
(* the pages it fetched, of each page once at most, and only after a call  *)
(* has failed or its caller has left.                                      *)
FailureRemovesNothing ==
    ResetDatabase # 200 =>
      /\ visible.old = Tables
      /\ \A n \in Page : visible.seats[n] <= 1
      /\ visible # Before => failed \/ callerGone

(* A reset works in one transaction, from its begin (reset_service.go:42)  *)
(* to its commit (180): when it fails without committing, be it only that  *)
(* the caller left and no call failed, the database is as it was.          *)
FailureChangesNothing == result = "error" /\ ~failed => visible = Before

(* A reset fails only because a call failed or its caller left: the order  *)
(* of the DELETEs, and goroutines that end while others work, are no       *)
(* reasons.                                                                *)
FailureHasCause == ResetDatabase = 500 => failed \/ callerGone

(* The price of a seat is the one of its band, by the ranges next to the   *)
(* cases of calculateSeatPrice; the last of them has no end.               *)
Bands ==
    {[from |-> 1, to |-> 10000, price |-> 40000],
     [from |-> 10001, to |-> 25000, price |-> 80000],
     [from |-> 25001, to |-> 45000, price |-> 120000],
     [from |-> 45001, to |-> 70000, price |-> 160000]}
SeatIndex(row, seat) == (row - 1) * 1000 + seat
IsPriced(index, price) ==
    \/ \E band \in Bands : band.from <= index /\ index <= band.to /\ price = band.price
    \/ 70001 <= index /\ price = 200000
SeatsArePriced ==
    \A n \in Page : visible.seats[n] > 0 =>
      \A r \in RowsOfPage(n) : IsPriced(SeatIndex(r.row, r.number), r.price)

(* The rows, and the seats of a row, are numbered from 1.                  *)
SeatsAreNumbered ==
    \A n \in Page : \A place \in Catalogue[n] : place.row >= 1 /\ place.seat >= 1

(* Until the goroutines are started nothing has happened to what they work *)
(* on; the tables go in an order in which no other refers to them.         *)
ClearingOK ==
    /\ main \in {"begin", "clear"} =>
         /\ pc = [w \in Workers |-> "unborn"] /\ page = [w \in Workers |-> 0]
         /\ nextPage = 1 /\ placeChan = << >> /\ monitor = "unborn"
         /\ ~cancelled /\ ~errChan /\ ~lost /\ working.seats = Before.seats
    /\ main = "begin" => cleared = 0
    /\ main # "returned" /\ ~lost =>
         working.old = {ClearOrder[i] : i \in (cleared + 1)..Len(ClearOrder)}
    /\ main \notin {"begin", "clear", "returned"} => cleared = Len(ClearOrder)

(* The connection and the rest of the database: apart until the            *)
(* transaction is lost, the same from then on.  It is lost only to a       *)
(* failure or to the end of the context, and no statement outlives Reset.  *)
TransactionOK ==
    /\ main # "returned" => visible = IF lost THEN working ELSE Before
    /\ lost => failed \/ callerGone
    /\ main = "returned" => \A w \in Workers : pc[w] # "execute"

(* Whatever ends a goroutine or Reset before its time goes back to a       *)
(* failed call or to the caller, until Reset has committed.                *)
Cause == failed \/ callerGone \/ result = "ok"
CausesOK ==
    /\ main = "returned" <=> result # "none"
    /\ cancelled \/ errChan \/ main \in {"failing", "closing"} => Cause
    /\ \A w \in Workers : pc[w] \in {"report", "cancel"} => Cause

(* While Reset may still commit, the context of the goroutines ends only   *)
(* after an error was left in errChan.                                     *)
MayCommit == main \in {"starting", "select", "commit"}
CancelOK ==
    MayCommit => /\ cancelled => errChan
                 /\ \A w \in Workers : pc[w] = "cancel" => errChan

(* A page that was taken is in one place: with one goroutine, in placeChan *)
(* once, or in seats once.                                                 *)
Queued(n) == \E k \in 1..Len(placeChan) : placeChan[k] = n
Held(n) == \E w \in Workers : page[w] = n
PagesOK ==
    /\ \A f \in Fetchers : pc[f] \notin {"receive", "insert", "execute"}
    /\ \A i \in Inserters : pc[i] \notin {"next", "fetch", "send"}
    /\ \A w \in Workers : page[w] # 0 <=> pc[w] \in {"fetch", "send", "insert", "execute"}
    /\ \A w \in Workers : pc[w] = "execute" => Catalogue[page[w]] # {}
    /\ \A v, w \in Workers : page[v] = page[w] => v = w \/ page[v] = 0
    /\ \A k, l \in 1..Len(placeChan) : placeChan[k] = placeChan[l] => k = l
    /\ \A n \in Page : Queued(n) => ~Held(n)
    /\ \A n \in Page : Queued(n) \/ Held(n) => n < nextPage /\ working.seats[n] = 0
    /\ \A n \in Page : working.seats[n] # 0 =>
         working.seats[n] = 1 /\ n < nextPage /\ Catalogue[n] # {}

(* As long as the caller stays and no goroutine has failed, no page is     *)
(* lost, and a goroutine ends only when there is nothing left for it.      *)
Trouble == callerGone \/ errChan \/ \E w \in Workers : pc[w] = "report"
NothingLost ==
    MayCommit /\ ~Trouble =>
      /\ \A n \in Page : n < nextPage =>
           Queued(n) \/ Held(n) \/ working.seats[n] = 1 \/ Catalogue[n] = {}
      /\ \A f \in Fetchers : pc[f] = "done" => nextPage = TotalPages + 1
      /\ \A i \in Inserters : pc[i] = "done" => placeChan = << >> /\ AllDone(Fetchers)

(* The monitor sees only what has ended for good.                          *)
MonitorOK ==
    /\ monitor \in {"inserters", "done"} => AllDone(Fetchers)
    /\ monitor = "done" => AllDone(Inserters)
    /\ main = "commit" \/ result = "ok" => monitor = "done"

(* What Reset and its goroutines keep at every step.  The properties above *)
(* that are about a reset follow from it.                                  *)
Inductive ==
    /\ TypeOK /\ CommitIsComplete /\ FailureRemovesNothing /\ FailureHasCause
    /\ TransactionOK /\ ClearingOK /\ CausesOK /\ CancelOK /\ PagesOK /\ NothingLost /\ MonitorOK

(* Reset returns, and none of its goroutines is left behind on a channel.  *)
EverythingEnds == <>[](main = "returned" /\ (AllDone(Workers) \/ monitor = "unborn"))
=============================================================================
