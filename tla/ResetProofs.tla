---------------------------- MODULE ResetProofs ----------------------------
(***************************************************************************)
(* The reset of the database, for any number of fetchers, inserters and    *)
(* pages and any catalogue.  That a reset answered with 200 is complete    *)
(* rests on where a page may be (PagesOK), on what may be missing          *)
(* (NothingLost) and on what the monitor has seen (MonitorOK); that a      *)
(* failed reset has a cause on the way errors take (CausesOK); that it     *)
(* removes nothing on what the connection of a lost transaction and the    *)
(* rest of the database have in common (TransactionOK).                    *)
(***************************************************************************)
EXTENDS Reset, Integers, TLAPS

-----------------------------------------------------------------------------
(* The operators.                                                          *)

LEMMA BeforeIsDatabase ==
    /\ Before \in Database /\ Before.old = Tables
    /\ \A n \in Page : Before.seats[n] = 0
BY DEF Before, Database

LEMMA InsertedRows ==
    ASSUME NEW db \in Database, NEW n \in Page
    PROVE  /\ InsertRows(db, n) \in Database
           /\ InsertRows(db, n).old = db.old
           /\ InsertRows(db, n).seats[n] = db.seats[n] + 1
           /\ \A m \in Page : m # n => InsertRows(db, n).seats[m] = db.seats[m]
BY DEF InsertRows, Database

LEMMA DeletedRows ==
    ASSUME NEW db \in Database, NEW table
    PROVE  /\ DeleteAll(db, table) \in Database
           /\ DeleteAll(db, table).old = db.old \ {table}
           /\ DeleteAll(db, table).seats = db.seats
BY DEF DeleteAll, Database

(* Whatever the event provider answers, the client does not take the       *)
(* places of one page for those of another.                                *)
LEMMA FetchedIsAsked ==
    ASSUME NEW n, NEW response \in ListPlacesWithResponse(ListPlacesParams(n)),
           PageFetched(response)
    PROVE  response.places = n
<1>1. PICK rsp \in Answers(NewListPlacesRequest(ListPlacesParams(n))) :
         response = ParseListPlacesResponse(rsp)
  BY DEF ListPlacesWithResponse, PageFetched, NoAnswer
<1>2. PICK s \in {200, 422, 500, 503}, j \in BOOLEAN, p \in BOOLEAN :
        rsp = [status |-> s, json |-> j, parses |-> p,
               places |-> IF s = 200 /\ j /\ p THEN n ELSE 0]
  BY DEF Answers, NewListPlacesRequest, ListPlacesParams
<1>3. ~(rsp.json /\ rsp.status \in {200, 422, 500} /\ ~rsp.parses)
  BY <1>1 DEF ParseListPlacesResponse, PageFetched, NoAnswer
<1>4. rsp.json /\ rsp.status = 200 /\ response.places = rsp.places
  BY <1>1, <1>3 DEF ParseListPlacesResponse, PageFetched
<1> QED
  BY <1>2, <1>3, <1>4

(* No table that still has its rows refers to the next one to be emptied.  *)
Rest(c) == {ClearOrder[i] : i \in (c + 1)..Len(ClearOrder)}

LEMMA Tables5 == Len(ClearOrder) = 5 /\ DOMAIN ClearOrder = 1..5
BY DEF ClearOrder

LEMMA OrderOfTables ==
    /\ Rest(0) = Tables /\ Rest(5) = {}
    /\ \A c \in 0..4 : Rest(c + 1) = Rest(c) \ {ClearOrder[c + 1]}
    /\ \A c \in 0..4 : \A t \in Rest(c) : <<t, ClearOrder[c + 1]>> \notin ForeignKeys
<1>1. /\ Rest(0) = {"booking_orders", "booking_payments", "booking_seats", "bookings", "seats"}
      /\ Rest(1) = {"booking_payments", "booking_seats", "bookings", "seats"}
      /\ Rest(2) = {"booking_seats", "bookings", "seats"}
      /\ Rest(3) = {"bookings", "seats"}
      /\ Rest(4) = {"seats"} /\ Rest(5) = {}
  <2>1. (1..5) = {1, 2, 3, 4, 5} /\ (2..5) = {2, 3, 4, 5} /\ (3..5) = {3, 4, 5}
        /\ (4..5) = {4, 5} /\ (5..5) = {5} /\ (6..5) = {}
    OBVIOUS
  <2> QED BY <2>1, Tables5 DEF Rest, ClearOrder
<1>2. Tables = {"booking_orders", "booking_payments", "booking_seats", "bookings", "seats"}
  <2>1. 1..5 = {1, 2, 3, 4, 5}
    OBVIOUS
  <2> QED BY <2>1, Tables5 DEF Tables, ClearOrder
<1>3. ASSUME NEW c \in 0..4
      PROVE  /\ Rest(c + 1) = Rest(c) \ {ClearOrder[c + 1]}
             /\ \A t \in Rest(c) : <<t, ClearOrder[c + 1]>> \notin ForeignKeys
  <2>1. c \in {0, 1, 2, 3, 4}
    OBVIOUS
  <2> QED BY <1>1, <2>1 DEF ClearOrder, ForeignKeys
<1> QED
  BY <1>1, <1>2, <1>3

-----------------------------------------------------------------------------
(* Reset.                                                                  *)

LEMMA PagesFrame ==
    ASSUME PagesOK, UNCHANGED workerVars,
           working'.seats = working.seats \/ \A n \in Page : working'.seats[n] = 0
    PROVE  PagesOK'
BY DEF PagesOK, Queued, Held, workerVars

(* What the rest of the database sees until Reset has returned.            *)
LEMMA StillOpen ==
    ASSUME Inductive, main # "returned"
    PROVE  result = "none" /\ visible = IF lost THEN working ELSE Before
BY DEF Inductive, CausesOK, TransactionOK

(* A step that leaves the database alone keeps what is promised of it.     *)
LEMMA DatabaseFrame ==
    ASSUME Inductive, UNCHANGED <<dbVars, callerGone>>, failed => failed',
           main' = "returned" <=> main = "returned",
           main = "returned" => UNCHANGED <<result, pc>>
    PROVE  FailureRemovesNothing' /\ TransactionOK'
<1>1. FailureRemovesNothing'
  <2>1. result # "ok" \/ main = "returned"
    BY DEF Inductive, CausesOK
  <2>2. (ResetDatabase = 200 <=> result = "ok") /\ (ResetDatabase' = 200 <=> result' = "ok")
    BY DEF ResetDatabase
  <2>3. ResetDatabase' # 200 => ResetDatabase # 200
    BY <2>1, <2>2
  <2>4. visible' = visible /\ callerGone' = callerGone
    BY DEF dbVars
  <2>5. ResetDatabase # 200 =>
          /\ visible.old = Tables /\ \A n \in Page : visible.seats[n] <= 1
          /\ visible # Before => failed \/ callerGone
    BY DEF Inductive, FailureRemovesNothing
  <2> QED BY <2>3, <2>4, <2>5 DEF FailureRemovesNothing
<1>2. TransactionOK'
  BY DEF Inductive, TransactionOK, dbVars
<1> QED
  BY <1>1, <1>2

LEMMA ReturnErrorKeeps ==
    ASSUME Inductive, main # "returned", ReturnError,
           UNCHANGED <<callerGone, cleared, visible, lost, workerVars, errChan, monitor>>,
           \A w \in Workers : pc[w] # "execute",
           failed' \in BOOLEAN, failed => failed', failed' \/ callerGone
    PROVE  Inductive'
<1>1. result = "none" /\ result' = "error" /\ main' = "returned"
      /\ working' = visible /\ cancelled' = TRUE /\ (visible = working \/ visible = Before)
  BY StillOpen DEF ReturnError
<1>2. TypeOK'
  BY <1>1 DEF Inductive, TypeOK, MainSteps, workerVars
<1>3. CommitIsComplete' /\ FailureHasCause'
  BY <1>1 DEF CommitIsComplete, FailureHasCause, ResetDatabase
<1>4. FailureRemovesNothing' /\ TransactionOK'
  BY <1>1 DEF Inductive, FailureRemovesNothing, TransactionOK, ResetDatabase, workerVars
<1>5. PagesOK'
  BY <1>1, BeforeIsDatabase, PagesFrame DEF Inductive
<1>6. ClearingOK' /\ CausesOK' /\ CancelOK' /\ NothingLost'
  BY <1>1 DEF ClearingOK, CausesOK, Cause, CancelOK, NothingLost, MayCommit
<1>7. MonitorOK'
  BY <1>1 DEF Inductive, MonitorOK, AllDone, workerVars
<1> QED
  BY <1>2, <1>3, <1>4, <1>5, <1>6, <1>7 DEF Inductive

(* Until the goroutines are started no statement of theirs is running.     *)
LEMMA NoneExecutes ==
    ASSUME Inductive, main \in {"begin", "clear", "commit"}
    PROVE  \A w \in Workers : pc[w] # "execute"
<1>1. CASE main = "commit"
  BY <1>1 DEF Inductive, MonitorOK, AllDone, PagesOK, Workers
<1>2. CASE main \in {"begin", "clear"}
  BY <1>2 DEF Inductive, ClearingOK
<1> QED
  BY <1>1, <1>2

LEMMA BeginKeeps == Inductive /\ Begin => Inductive'
<1> SUFFICES ASSUME Inductive, Begin PROVE Inductive'
  OBVIOUS
<1>1. CASE Failure /\ ReturnError
  BY <1>1, NoneExecutes, ReturnErrorKeeps DEF Begin, Failure
<1>2. CASE main' = "clear" /\ Unharmed /\ UNCHANGED <<cancelled, working, result>>
  <2>1. UNCHANGED <<callerGone, cancelled, dbVars, workerVars, errChan, monitor, result, failed>>
        /\ main = "begin" /\ main' = "clear"
    BY <1>2 DEF Begin, Unharmed, dbVars
  <2> USE <2>1 DEF dbVars, workerVars
  <2>2. TypeOK'
    BY DEF Inductive, TypeOK, MainSteps
  <2>3. CommitIsComplete' /\ FailureHasCause' /\ FailureRemovesNothing' /\ TransactionOK'
    BY DatabaseFrame DEF Inductive, CommitIsComplete, FailureHasCause, ResetDatabase
  <2>4. ClearingOK'
    BY DEF Inductive, ClearingOK
  <2>5. CausesOK' /\ CancelOK' /\ NothingLost'
    BY DEF Inductive, CausesOK, Cause, CancelOK, NothingLost, MayCommit
  <2>6. PagesOK' /\ MonitorOK'
    BY PagesFrame DEF Inductive, MonitorOK, AllDone
  <2> QED BY <2>2, <2>3, <2>4, <2>5, <2>6 DEF Inductive
<1> QED
  BY <1>1, <1>2 DEF Begin

(* The next table is not referred to any more, so that its DELETE fails    *)
(* only for a reason of the database or because the caller has left.       *)
LEMMA ClearKeeps == Inductive /\ Clear => Inductive'
<1> SUFFICES ASSUME Inductive, Clear PROVE Inductive'
  OBVIOUS
<1> DEFINE table == ClearOrder[cleared + 1]
<1>1. main = "clear" /\ cleared \in 0..4 /\ working.old = Rest(cleared) /\ ~cancelled
      /\ working \in Database /\ ~lost
  BY Tables5 DEF Clear, Inductive, TypeOK, ClearingOK, Rest
<1>2. ~Referenced(working, table)
  BY <1>1, OrderOfTables DEF Referenced
<1>3. CASE working' = DeleteAll(working, table) /\ cleared' = cleared + 1 /\ Unharmed
           /\ UNCHANGED <<main, cancelled, result>>
  <2>1. UNCHANGED <<callerGone, cancelled, main, visible, lost, workerVars, errChan, monitor, result, failed>>
        /\ cleared' = cleared + 1 /\ ~lost
    BY <1>1, <1>3 DEF Clear, Unharmed
  <2>2. working' \in Database /\ working'.seats = working.seats /\ working'.old = Rest(cleared + 1)
    BY <1>1, <1>3, DeletedRows, OrderOfTables
  <2> USE <2>1, <2>2, <1>1 DEF workerVars
  <2>3. TypeOK'
    BY Tables5 DEF Inductive, TypeOK
  <2>4. CommitIsComplete' /\ FailureHasCause' /\ FailureRemovesNothing' /\ TransactionOK'
    BY DEF Inductive, CommitIsComplete, FailureRemovesNothing, FailureHasCause, TransactionOK, ResetDatabase
  <2>5. ClearingOK'
    BY Tables5 DEF Inductive, ClearingOK, Rest
  <2>6. CausesOK' /\ CancelOK' /\ NothingLost'
    BY DEF Inductive, CausesOK, Cause, CancelOK, NothingLost, MayCommit
  <2>7. PagesOK' /\ MonitorOK'
    BY PagesFrame DEF Inductive, MonitorOK, AllDone
  <2> QED BY <2>3, <2>4, <2>5, <2>6, <2>7 DEF Inductive
<1>4. CASE ReturnError /\ UNCHANGED cleared
           /\ (IF ContextDone \/ Referenced(working, table) THEN Unharmed ELSE Failure)
  <2>1. callerGone \/ failed' = TRUE
    BY <1>1, <1>2, <1>4 DEF ContextDone, Failure
  <2>2. failed' \in BOOLEAN /\ (failed => failed')
    BY <1>4 DEF Failure, Unharmed, Inductive, TypeOK
  <2> QED BY <1>1, <1>4, <2>1, <2>2, NoneExecutes, ReturnErrorKeeps DEF Clear
<1> QED
  BY <1>3, <1>4 DEF Clear

LEMMA StartKeeps == Inductive /\ Start => Inductive'
<1> SUFFICES ASSUME Inductive, Start PROVE Inductive'
  OBVIOUS
<1>1. /\ main = "clear" /\ main' = "starting" /\ monitor' = "fetchers"
      /\ pc' = [w \in Workers |-> IF w \in Fetchers THEN "next" ELSE "receive"]
      /\ UNCHANGED <<callerGone, cancelled, dbVars, nextPage, placeChan, page,
                     errChan, result, failed>>
      /\ cleared = Len(ClearOrder)
  BY DEF Start
<1> USE <1>1 DEF dbVars
<1>2. TypeOK'
  <2>1. pc' \in [Workers -> WorkerSteps]
    BY DEF WorkerSteps
  <2> QED BY <2>1 DEF Inductive, TypeOK, MainSteps
<1>3. CommitIsComplete' /\ FailureHasCause' /\ FailureRemovesNothing' /\ TransactionOK'
  BY DatabaseFrame DEF Inductive, CommitIsComplete, FailureHasCause, ResetDatabase
<1>4. ClearingOK'
  BY DEF Inductive, ClearingOK
<1>5. ~cancelled /\ ~errChan /\ nextPage = 1 /\ placeChan = << >>
      /\ page = [w \in Workers |-> 0] /\ \A n \in Page : working.seats[n] = 0
  BY BeforeIsDatabase DEF Inductive, ClearingOK
<1>6. CausesOK' /\ CancelOK'
  BY <1>5 DEF Inductive, CausesOK, Cause, CancelOK
<1>7. PagesOK'
  <2>1. \A w \in Workers : page'[w] = 0
    BY <1>5
  <2>2. \A n \in Page : ~Queued(n)' /\ ~Held(n)'
    BY <1>5, <2>1 DEF Queued, Held, Page
  <2>3. \A f \in Fetchers : pc'[f] = "next"
    BY DEF Workers
  <2>4. \A i \in Inserters : pc'[i] = "receive"
    BY ResetAssumption DEF Workers
  <2>5. \A w \in Workers : pc'[w] \in {"next", "receive"}
    OBVIOUS
  <2>6. Len(placeChan') = 0
    BY <1>5
  <2> QED BY <1>5, <2>1, <2>2, <2>3, <2>4, <2>5, <2>6 DEF PagesOK
<1>8. NothingLost'
  BY <1>5, ResetAssumption DEF NothingLost, Page, Workers
<1>9. MonitorOK'
  BY StillOpen DEF MonitorOK
<1> QED
  BY <1>2, <1>3, <1>4, <1>6, <1>7, <1>8, <1>9 DEF Inductive

(* What is not lost stays so in a step that touches no page.               *)
LEMMA NothingLostFrame ==
    ASSUME NothingLost, MayCommit,
           UNCHANGED <<callerGone, errChan, working, workerVars>>
    PROVE  NothingLost'
BY DEF NothingLost, Trouble, Queued, Held, AllDone, workerVars

LEMMA WaitKeeps == Inductive /\ (Wait \/ ReceiveDone) => Inductive'
<1> SUFFICES ASSUME Inductive, Wait \/ ReceiveDone PROVE Inductive'
  OBVIOUS
<1>1. UNCHANGED <<callerGone, cancelled, dbVars, workerVars, errChan, monitor, result, failed>>
      /\ MayCommit /\ main' \in {"select", "commit"} /\ (main' = "commit" => monitor = "done")
  BY DEF Wait, ReceiveDone, MayCommit
<1>2. NothingLost'
  BY <1>1, NothingLostFrame DEF Inductive, dbVars
<1>3. PagesOK'
  BY <1>1, PagesFrame DEF Inductive, dbVars
<1>8. FailureRemovesNothing' /\ TransactionOK'
  BY <1>1, DatabaseFrame DEF MayCommit
<1> USE <1>1 DEF dbVars, workerVars
<1>4. TypeOK'
  BY DEF Inductive, TypeOK, MainSteps
<1>5. CommitIsComplete' /\ FailureHasCause'
  BY DEF Inductive, CommitIsComplete, FailureHasCause, ResetDatabase
<1>6. ClearingOK' /\ CausesOK'
  BY DEF Inductive, ClearingOK, CausesOK, Cause, MayCommit
<1>7. CancelOK' /\ MonitorOK'
  BY DEF Inductive, CancelOK, MonitorOK, AllDone
<1> QED
  BY <1>2, <1>3, <1>4, <1>5, <1>6, <1>7, <1>8 DEF Inductive

LEMMA ReceiveErrorKeeps == Inductive /\ ReceiveError => Inductive'
<1> SUFFICES ASSUME Inductive, ReceiveError PROVE Inductive'
  OBVIOUS
<1>1. UNCHANGED <<callerGone, cancelled, dbVars, workerVars, monitor, result, failed>>
      /\ main = "select" /\ main' = "failing" /\ errChan /\ errChan' = FALSE
  BY DEF ReceiveError
<1>2. PagesOK'
  BY <1>1, PagesFrame DEF Inductive, dbVars
<1> USE <1>1 DEF dbVars, workerVars
<1>3. TypeOK'
  BY DEF Inductive, TypeOK, MainSteps
<1>4. CommitIsComplete' /\ FailureHasCause' /\ FailureRemovesNothing' /\ TransactionOK'
  BY StillOpen, DatabaseFrame DEF Inductive, CommitIsComplete, FailureHasCause, ResetDatabase
<1>5. ClearingOK' /\ CausesOK'
  BY DEF Inductive, ClearingOK, CausesOK, Cause
<1>6. CancelOK' /\ NothingLost' /\ MonitorOK'
  BY DEF Inductive, CancelOK, NothingLost, MayCommit, MonitorOK, AllDone
<1> QED
  BY <1>2, <1>3, <1>4, <1>5, <1>6 DEF Inductive

LEMMA FailKeeps == Inductive /\ Fail => Inductive'
<1> SUFFICES ASSUME Inductive, Fail PROVE Inductive'
  OBVIOUS
<1>1. UNCHANGED <<callerGone, dbVars, workerVars, errChan, monitor, result, failed>>
      /\ main = "failing" /\ main' = "closing" /\ cancelled' = TRUE
  BY DEF Fail
<1>2. PagesOK'
  BY <1>1, PagesFrame DEF Inductive, dbVars
<1>3. CommitIsComplete' /\ FailureHasCause' /\ FailureRemovesNothing' /\ TransactionOK'
  BY <1>1, StillOpen, DatabaseFrame DEF Inductive, CommitIsComplete, FailureHasCause, ResetDatabase
<1> USE <1>1 DEF dbVars, workerVars
<1>4. TypeOK'
  BY DEF Inductive, TypeOK, MainSteps
<1>5. ClearingOK' /\ CausesOK'
  BY DEF Inductive, ClearingOK, CausesOK, Cause
<1>6. CancelOK' /\ NothingLost' /\ MonitorOK'
  BY DEF Inductive, CancelOK, NothingLost, MayCommit, MonitorOK, AllDone
<1> QED
  BY <1>2, <1>3, <1>4, <1>5, <1>6 DEF Inductive

LEMMA RollbackKeeps == Inductive /\ Rollback => Inductive'
<1> SUFFICES ASSUME Inductive, Rollback PROVE Inductive'
  OBVIOUS
<1>1. failed' = failed /\ failed \in BOOLEAN /\ main = "closing"
  BY DEF Rollback, Inductive, TypeOK
<1>2. failed \/ callerGone
  BY <1>1, StillOpen DEF Inductive, CausesOK, Cause
<1> QED
  BY <1>1, <1>2, ReturnErrorKeeps DEF Rollback

(* When doneChan is closed, the caller stays and no error is left, every   *)
(* page has been through placeChan and lies in seats.                      *)
LEMMA LoadedAtCommit ==
    ASSUME Inductive, main = "commit", ~lost, ~callerGone, ~errChan
    PROVE  working = Complete
<1>1. \A w \in Workers : pc[w] = "done" /\ page[w] = 0
  BY DEF Inductive, MonitorOK, AllDone, Workers, PagesOK
<1>2. MayCommit /\ ~Trouble
  BY <1>1 DEF MayCommit, Trouble
<1>3. nextPage = TotalPages + 1 /\ placeChan = << >>
  BY <1>1, <1>2, ResetAssumption DEF Inductive, NothingLost, Workers
<1>4. ASSUME NEW n \in Page
      PROVE  working.seats[n] = IF RowsOfPage(n) = {} THEN 0 ELSE 1
  <2>1. n < nextPage /\ ~Queued(n) /\ ~Held(n)
    BY <1>1, <1>3, ResetAssumption DEF Page, Queued, Held
  <2>2. working.seats[n] = 1 \/ Catalogue[n] = {}
    BY <1>2, <2>1 DEF Inductive, NothingLost
  <2>3. working.seats[n] # 0 => working.seats[n] = 1 /\ Catalogue[n] # {}
    BY DEF Inductive, PagesOK
  <2>4. RowsOfPage(n) = {} <=> Catalogue[n] = {}
    BY DEF RowsOfPage
  <2> QED BY <2>2, <2>3, <2>4
<1>5. working.old = {}
  BY Tables5, OrderOfTables DEF Inductive, ClearingOK, Rest
<1>6. working \in Database
  BY DEF Inductive, TypeOK
<1> QED
  BY <1>4, <1>5, <1>6 DEF Complete, Database

LEMMA CommitKeeps == Inductive /\ Commit => Inductive'
<1> SUFFICES ASSUME Inductive, Commit PROVE Inductive'
  OBVIOUS
<1>1. CASE (IF lost THEN Unharmed ELSE Failure) /\ ReturnError /\ UNCHANGED visible
  <2>1. failed' \in BOOLEAN /\ (failed => failed') /\ (failed' \/ callerGone)
    BY <1>1 DEF Unharmed, Failure, Inductive, TypeOK, TransactionOK
  <2> QED BY <1>1, <2>1, NoneExecutes, ReturnErrorKeeps DEF Commit
<1>2. CASE ~lost /\ visible' = working /\ main' = "returned" /\ result' = "ok" /\ cancelled' = TRUE
           /\ Unharmed /\ UNCHANGED working
  <2>1. UNCHANGED <<callerGone, cleared, lost, workerVars, errChan, monitor, failed, working>>
        /\ main = "commit"
    BY <1>2 DEF Commit, Unharmed
  <2>2. PagesOK'
    BY <2>1, PagesFrame DEF Inductive
  <2> USE <1>2, <2>1 DEF workerVars
  <2>3. TypeOK'
    BY DEF Inductive, TypeOK, MainSteps
  <2>4. CommitIsComplete'
    <3>1. Complete' = Complete
      BY DEF Complete, RowsOfPage, Page
    <3> QED BY <3>1, LoadedAtCommit DEF CommitIsComplete
  <2>5. FailureRemovesNothing' /\ FailureHasCause' /\ TransactionOK'
    BY NoneExecutes DEF FailureRemovesNothing, FailureHasCause, TransactionOK, ResetDatabase
  <2>6. ClearingOK' /\ CausesOK' /\ CancelOK' /\ NothingLost'
    BY DEF ClearingOK, CausesOK, Cause, CancelOK, NothingLost, MayCommit
  <2>7. MonitorOK'
    BY DEF Inductive, MonitorOK, AllDone
  <2> QED BY <2>2, <2>3, <2>4, <2>5, <2>6, <2>7 DEF Inductive
<1> QED
  BY <1>1, <1>2 DEF Commit

LEMMA ResetStepKeeps == Inductive /\ ResetStep => Inductive'
BY BeginKeeps, ClearKeeps, StartKeeps, WaitKeeps, ReceiveErrorKeeps, FailKeeps,
   RollbackKeeps, CommitKeeps
DEF ResetStep

-----------------------------------------------------------------------------
(* The goroutines.                                                         *)

(* A goroutine works only after the tables were cleared, and while one     *)
(* works Reset cannot have committed.                                      *)
LEMMA AtWork ==
    ASSUME Inductive, NEW w \in Workers, pc[w] \notin {"unborn", "done"}
    PROVE  /\ main \in {"starting", "select", "failing", "closing", "returned"}
           /\ result \in {"none", "error"}
           /\ w \in Fetchers => monitor \notin {"inserters", "done"}
           /\ w \in Inserters => monitor # "done"
<1>1. main \notin {"begin", "clear"}
  BY DEF Inductive, ClearingOK
<1>2. /\ w \in Fetchers => monitor \notin {"inserters", "done"}
      /\ w \in Inserters => monitor # "done"
  BY DEF Inductive, MonitorOK, AllDone
<1>3. monitor # "done"
  BY <1>2 DEF Workers
<1>4. main # "commit" /\ result # "ok"
  BY <1>3 DEF Inductive, MonitorOK
<1>5. main \in MainSteps /\ result \in {"none", "ok", "error"}
  BY DEF Inductive, TypeOK
<1> QED
  BY <1>1, <1>2, <1>4, <1>5 DEF MainSteps

(* What no goroutine can disturb, whichever step it takes.                 *)
LEMMA ControlFrame ==
    ASSUME Inductive, NEW w \in Workers, pc[w] \notin {"unborn", "done"},
           NEW s \in WorkerSteps, pc' = [pc EXCEPT ![w] = s],
           UNCHANGED <<callerGone, cleared, monitor, result>>,
           failed' = failed \/ failed' = TRUE,
           main' = main \/ (main = "select" /\ main' = "failing"),
           cancelled' \in BOOLEAN, errChan' \in BOOLEAN,
           visible' \in Database, working' \in Database, lost' \in BOOLEAN,
           nextPage' \in 1..(TotalPages + 1), placeChan' \in Seq(Page),
           Len(placeChan') <= ChanSize, page' \in [Workers -> Page \cup {0}]
    PROVE  TypeOK' /\ CommitIsComplete' /\ FailureHasCause' /\ MonitorOK'
<1>1. TypeOK'
  <2>1. pc' \in [Workers -> WorkerSteps]
    BY DEF Inductive, TypeOK
  <2>2. failed' \in BOOLEAN /\ main' \in MainSteps
    BY DEF Inductive, TypeOK, MainSteps
  <2> QED BY <2>1, <2>2 DEF Inductive, TypeOK
<1>2. CommitIsComplete' /\ FailureHasCause'
  <2>1. result' \in {"none", "error"} /\ (failed => failed')
    BY AtWork DEF Inductive, TypeOK
  <2> QED BY <2>1 DEF Inductive, CommitIsComplete, FailureHasCause, ResetDatabase
<1>3. MonitorOK'
  <2>1. main' # "commit" /\ result' # "ok"
    BY AtWork
  <2>2. \A v \in Workers : v # w => pc'[v] = pc[v]
    BY DEF Inductive, TypeOK
  <2>3. monitor \in {"inserters", "done"} => \A f \in Fetchers : pc'[f] = "done"
    BY <2>2, AtWork DEF Inductive, MonitorOK, AllDone, Workers
  <2>4. monitor # "done"
    BY AtWork DEF Workers
  <2> QED BY <2>1, <2>3, <2>4 DEF MonitorOK, AllDone
<1> QED
  BY <1>1, <1>2, <1>3

(* Nor can one that leaves the database alone break what is promised of it. *)
LEMMA WorkerFrame ==
    ASSUME Inductive, NEW w \in Workers, pc[w] \notin {"unborn", "done"},
           NEW s \in WorkerSteps, pc' = [pc EXCEPT ![w] = s],
           s = "execute" => main # "returned",
           UNCHANGED <<callerGone, dbVars, monitor, result>>,
           failed' = failed \/ failed' = TRUE,
           main' = main \/ (main = "select" /\ main' = "failing"),
           cancelled' \in BOOLEAN, errChan' \in BOOLEAN,
           nextPage' \in 1..(TotalPages + 1), placeChan' \in Seq(Page),
           Len(placeChan') <= ChanSize, page' \in [Workers -> Page \cup {0}]
    PROVE  /\ TypeOK' /\ CommitIsComplete' /\ FailureRemovesNothing' /\ FailureHasCause'
           /\ TransactionOK' /\ ClearingOK' /\ MonitorOK'
<1>1. /\ visible' = visible /\ working' = working /\ lost' = lost /\ cleared' = cleared
      /\ (failed => failed') /\ (main' = "returned" <=> main = "returned")
  BY DEF dbVars, Inductive, TypeOK
<1>2. TypeOK' /\ CommitIsComplete' /\ FailureHasCause' /\ MonitorOK'
  <2>1. visible' \in Database /\ working' \in Database /\ lost' \in BOOLEAN
    BY <1>1 DEF Inductive, TypeOK
  <2> QED BY <1>1, <2>1, ControlFrame
<1>3. FailureRemovesNothing'
  BY <1>1, AtWork DEF Inductive, FailureRemovesNothing, ResetDatabase
<1>4. TransactionOK'
  <2>1. main' = "returned" => \A v \in Workers : pc'[v] # "execute"
    BY <1>1 DEF Inductive, TransactionOK, TypeOK
  <2> QED BY <1>1, <2>1 DEF Inductive, TransactionOK
<1>5. ClearingOK'
  <2>1. main' \notin {"begin", "clear"}
    BY AtWork
  <2> QED BY <1>1, <2>1, AtWork DEF Inductive, ClearingOK
<1> QED
  BY <1>2, <1>3, <1>4, <1>5

(* A goroutine that gives up its page leaves all others where they are.    *)
LEMMA GivenUp ==
    ASSUME Inductive, NEW w \in Workers, page' = [page EXCEPT ![w] = 0],
           NEW s \in {"report", "done", "receive"}, pc' = [pc EXCEPT ![w] = s],
           s = "receive" => w \in Inserters,
           UNCHANGED <<placeChan, nextPage, working>>
    PROVE  PagesOK'
<1> USE DEF Inductive, TypeOK
<1>1. /\ \A f \in Fetchers : pc'[f] \notin {"receive", "insert", "execute"}
      /\ \A i \in Inserters : pc'[i] \notin {"next", "fetch", "send"}
  BY ResetAssumption DEF PagesOK, Workers
<1>2. /\ \A v \in Workers : page'[v] # 0 <=> pc'[v] \in {"fetch", "send", "insert", "execute"}
      /\ \A v \in Workers : pc'[v] = "execute" => Catalogue[page'[v]] # {}
  BY DEF PagesOK
<1>3. \A u, v \in Workers : page'[u] = page'[v] => u = v \/ page'[u] = 0
  BY DEF PagesOK
<1>4. \A n \in Page : Held(n)' => Held(n)
  BY DEF Held, Page
<1>5. \A n \in Page : Queued(n)' <=> Queued(n)
  BY DEF Queued
<1> QED
  BY <1>1, <1>2, <1>3, <1>4, <1>5 DEF PagesOK

LEMMA CausesFrame ==
    ASSUME Inductive, NEW w \in Workers, NEW s \in WorkerSteps \ {"cancel"},
           pc' = [pc EXCEPT ![w] = s],
           UNCHANGED <<callerGone, cancelled, errChan, main, result>>,
           failed' = failed \/ failed' = TRUE,
           s = "report" => failed' \/ callerGone \/ cancelled
    PROVE  CausesOK' /\ CancelOK'
<1>1. Cause => Cause'
  BY DEF Cause
<1>2. s = "report" => Cause'
  BY <1>1 DEF Cause, Inductive, CausesOK
<1>3. \A v \in Workers : pc'[v] = IF v = w THEN s ELSE pc[v]
  BY DEF Inductive, TypeOK
<1>4. CausesOK'
  BY <1>1, <1>2, <1>3 DEF Inductive, CausesOK
<1>5. CancelOK'
  BY <1>3 DEF Inductive, CancelOK, MayCommit
<1> QED
  BY <1>4, <1>5

(* While nothing has gone wrong the context of the goroutines is alive,    *)
(* and before a step that leads to such a state nothing had.               *)
LEMMA Untroubled ==
    ASSUME Inductive, NEW w \in Workers, pc[w] # "report", NEW s,
           pc' = [pc EXCEPT ![w] = s], UNCHANGED <<callerGone, errChan, main>>,
           MayCommit', ~Trouble'
    PROVE  MayCommit /\ ~Trouble /\ s # "report" /\ ~ContextDone
<1>1. \A v \in Workers : pc'[v] = IF v = w THEN s ELSE pc[v]
  BY DEF Inductive, TypeOK
<1>2. MayCommit /\ ~Trouble /\ s # "report"
  BY <1>1 DEF MayCommit, Trouble
<1> QED
  BY <1>2 DEF Inductive, CancelOK, Trouble, ContextDone

LEMMA TakePageKeeps == ASSUME Inductive, NEW f \in Workers, TakePage(f) PROVE Inductive'
<1> USE DEF Inductive, TypeOK
<1>1. /\ pc[f] = "next" /\ f \in Fetchers /\ page[f] = 0
      /\ UNCHANGED <<callerGone, cancelled, main, dbVars, placeChan, errChan, monitor, result, failed>>
  BY DEF TakePage, PagesOK, Workers
<1>2. \/ /\ nextPage > TotalPages /\ GoTo(f, "done") /\ UNCHANGED <<nextPage, page>>
      \/ /\ nextPage <= TotalPages /\ nextPage' = nextPage + 1 /\ ContextDone
         /\ GoTo(f, "done") /\ UNCHANGED page
      \/ /\ nextPage <= TotalPages /\ nextPage' = nextPage + 1 /\ ~ContextDone
         /\ GoTo(f, "fetch") /\ page' = [page EXCEPT ![f] = nextPage]
  BY ResetAssumption DEF TakePage
<1>3. nextPage' \in 1..(TotalPages + 1) /\ nextPage <= nextPage'
      /\ page' \in [Workers -> Page \cup {0}]
  BY <1>2, ResetAssumption DEF Page
<1>4. PICK s \in {"done", "fetch"} : pc' = [pc EXCEPT ![f] = s]
  BY <1>2 DEF GoTo
<1>5. TypeOK' /\ CommitIsComplete' /\ FailureRemovesNothing' /\ FailureHasCause'
      /\ TransactionOK' /\ ClearingOK' /\ MonitorOK'
  <2>1. pc[f] \notin {"unborn", "done"} /\ s \in WorkerSteps /\ s # "execute"
    BY <1>1 DEF WorkerSteps
  <2>2. /\ cancelled' \in BOOLEAN /\ errChan' \in BOOLEAN /\ main' = main /\ failed' = failed
        /\ placeChan' \in Seq(Page) /\ Len(placeChan') <= ChanSize
    BY <1>1
  <2> QED BY <1>1, <1>3, <1>4, <2>1, <2>2, WorkerFrame
<1>6. CausesOK' /\ CancelOK'
  BY <1>1, <1>4, CausesFrame DEF WorkerSteps
<1>7. \A w \in Workers : pc'[w] = IF w = f THEN s ELSE pc[w]
  BY <1>4
<1>8. PagesOK'
  <2>1. CASE UNCHANGED page /\ pc' = [pc EXCEPT ![f] = "done"]
    <3>1. page' = [page EXCEPT ![f] = 0]
      BY <1>1, <2>1
    <3>2. \A n \in Page : (Queued(n)' <=> Queued(n)) /\ (Held(n)' <=> Held(n))
      BY <1>1, <2>1 DEF Queued, Held
    <3>3. working' = working /\ placeChan' = placeChan
      BY <1>1 DEF dbVars
    <3>4. /\ \A w \in Fetchers : pc'[w] \notin {"receive", "insert", "execute"}
          /\ \A w \in Inserters : pc'[w] \notin {"next", "fetch", "send"}
          /\ \A w \in Workers : page'[w] # 0 <=> pc'[w] \in {"fetch", "send", "insert", "execute"}
          /\ \A w \in Workers : pc'[w] = "execute" => Catalogue[page'[w]] # {}
          /\ \A v, w \in Workers : page'[v] = page'[w] => v = w \/ page'[v] = 0
      BY <1>1, <2>1 DEF PagesOK, Workers
    <3>5. \A n \in Page : n < nextPage => n < nextPage'
      BY <1>3 DEF Page
    <3> QED BY <3>2, <3>3, <3>4, <3>5 DEF PagesOK
  <2>2. CASE /\ nextPage <= TotalPages /\ nextPage' = nextPage + 1
             /\ pc' = [pc EXCEPT ![f] = "fetch"] /\ page' = [page EXCEPT ![f] = nextPage]
    <3>1. nextPage \in Page /\ nextPage # 0
      BY <2>2, ResetAssumption DEF Page
    <3>2. ~Held(nextPage) /\ ~Queued(nextPage) /\ working.seats[nextPage] = 0
      BY <3>1 DEF PagesOK
    <3>3. \A n \in Page : Held(n)' => Held(n) \/ n = nextPage
      BY <2>2 DEF Held
    <3>4. \A n \in Page : Queued(n)' <=> Queued(n)
      BY <1>1 DEF Queued
    <3>5. working' = working /\ placeChan' = placeChan
      BY <1>1 DEF dbVars
    <3>6. /\ \A w \in Fetchers : pc'[w] \notin {"receive", "insert", "execute"}
          /\ \A w \in Inserters : pc'[w] \notin {"next", "fetch", "send"}
      BY <1>1, <2>2, ResetAssumption DEF PagesOK, Workers
    <3>7. /\ \A w \in Workers : page'[w] # 0 <=> pc'[w] \in {"fetch", "send", "insert", "execute"}
          /\ \A w \in Workers : pc'[w] = "execute" => Catalogue[page'[w]] # {}
      BY <2>2, <3>1 DEF PagesOK
    <3>8. \A v, w \in Workers : page'[v] = page'[w] => v = w \/ page'[v] = 0
      BY <2>2, <3>2 DEF PagesOK, Held
    <3>9. \A n \in Page : n < nextPage \/ n = nextPage => n < nextPage'
      BY <2>2 DEF Page
    <3> QED BY <3>2, <3>3, <3>4, <3>5, <3>6, <3>7, <3>8, <3>9 DEF PagesOK
  <2> QED BY <1>2, <2>1, <2>2 DEF GoTo
<1>9. NothingLost'
  <2> SUFFICES ASSUME MayCommit', ~Trouble' PROVE NothingLost'
    BY DEF NothingLost
  <2>1. MayCommit /\ ~Trouble /\ ~ContextDone
    BY <1>1, <1>4, Untroubled
  <2>2. working' = working /\ placeChan' = placeChan
    BY <1>1 DEF dbVars
  <2>3. \A n \in Page : Queued(n) => Queued(n)'
    BY <1>1 DEF Queued
  <2>4. \A n \in Page : Held(n) => Held(n)'
    BY <1>1, <1>2, <2>1 DEF Held, Page
  <2>5. \A n \in Page : n < nextPage' => n < nextPage \/ Held(n)'
    <3>1. CASE nextPage' = nextPage
      BY <3>1
    <3>2. CASE nextPage' = nextPage + 1 /\ page' = [page EXCEPT ![f] = nextPage]
      BY <3>2 DEF Held, Page
    <3> QED BY <1>2, <2>1, <3>1, <3>2
  <2>6. \A g \in Fetchers : pc'[g] = "done" => nextPage' = TotalPages + 1
    <3>1. CASE nextPage > TotalPages /\ UNCHANGED nextPage
      BY <3>1, ResetAssumption
    <3>2. CASE nextPage <= TotalPages /\ pc' = [pc EXCEPT ![f] = "fetch"]
      BY <3>2, <2>1, ResetAssumption DEF NothingLost, Workers
    <3> QED BY <1>2, <2>1, <3>1, <3>2 DEF GoTo
  <2>7. \A i \in Inserters : pc'[i] = pc[i]
    BY <1>1, <1>7, ResetAssumption DEF Workers
  <2>8. ~AllDone(Fetchers)
    BY <1>1 DEF AllDone
  <2> QED BY <2>1, <2>2, <2>3, <2>4, <2>5, <2>6, <2>7, <2>8 DEF NothingLost
<1> QED
  BY <1>5, <1>6, <1>8, <1>9

(* An answered page is the one that was asked for; without an answer the   *)
(* fetcher goes to report.                                                 *)
LEMMA FetchPageKeeps == ASSUME Inductive, NEW f \in Workers, FetchPage(f) PROVE Inductive'
<1> USE DEF Inductive, TypeOK
<1>1. /\ pc[f] = "fetch" /\ f \in Fetchers /\ page[f] \in Page
      /\ UNCHANGED <<callerGone, cancelled, main, dbVars, nextPage, placeChan, errChan, monitor, result>>
  BY DEF FetchPage, PagesOK, Workers
<1>2. \/ /\ pc' = [pc EXCEPT ![f] = "send"] /\ page' = page /\ failed' = failed
      \/ /\ pc' = [pc EXCEPT ![f] = "report"] /\ page' = [page EXCEPT ![f] = 0]
         /\ (IF ContextDone THEN failed' = failed ELSE failed' = TRUE)
  <2>1. PICK response \in ListPlacesWithResponse(ListPlacesParams(page[f])) :
          /\ IF PageFetched(response)
             THEN GoTo(f, "send") /\ Unharmed
             ELSE GoTo(f, "report") /\ (IF ContextDone THEN Unharmed ELSE Failure)
          /\ page' = [page EXCEPT ![f] = IF PageFetched(response) THEN response.places ELSE 0]
    BY DEF FetchPage
  <2>2. CASE PageFetched(response)
    <3>1. response.places = page[f]
      BY <2>2, FetchedIsAsked
    <3> QED BY <2>1, <2>2, <3>1 DEF GoTo, Unharmed
  <2>3. CASE ~PageFetched(response)
    BY <2>1, <2>3 DEF GoTo, Unharmed, Failure
  <2> QED BY <2>2, <2>3
<1>3. PICK s \in {"send", "report"} : pc' = [pc EXCEPT ![f] = s]
  BY <1>2
<1>4. page' \in [Workers -> Page \cup {0}] /\ (failed' = failed \/ failed' = TRUE)
  BY <1>2
<1>5. TypeOK' /\ CommitIsComplete' /\ FailureRemovesNothing' /\ FailureHasCause'
      /\ TransactionOK' /\ ClearingOK' /\ MonitorOK'
  BY <1>1, <1>3, <1>4, WorkerFrame DEF WorkerSteps
<1>6. CausesOK' /\ CancelOK'
  <2>1. s = "report" => failed' \/ callerGone \/ cancelled
    BY <1>1, <1>2, <1>3 DEF ContextDone
  <2> QED BY <1>1, <1>3, <1>4, <2>1, CausesFrame DEF WorkerSteps
<1>7. CASE pc' = [pc EXCEPT ![f] = "report"] /\ page' = [page EXCEPT ![f] = 0]
  <2>1. PagesOK'
    BY <1>1, <1>7, GivenUp DEF dbVars
  <2>2. NothingLost'
    BY <1>1, <1>7 DEF NothingLost, Trouble
  <2> QED BY <1>5, <1>6, <2>1, <2>2
<1>8. CASE pc' = [pc EXCEPT ![f] = "send"] /\ page' = page
  <2>1. \A n \in Page : (Queued(n)' <=> Queued(n)) /\ (Held(n)' <=> Held(n))
    BY <1>1, <1>8 DEF Queued, Held
  <2>2. working' = working /\ placeChan' = placeChan /\ nextPage' = nextPage
    BY <1>1 DEF dbVars
  <2>3. PagesOK'
    <3>1. /\ \A w \in Fetchers : pc'[w] \notin {"receive", "insert", "execute"}
          /\ \A w \in Inserters : pc'[w] \notin {"next", "fetch", "send"}
          /\ \A w \in Workers : page'[w] # 0 <=> pc'[w] \in {"fetch", "send", "insert", "execute"}
          /\ \A w \in Workers : pc'[w] = "execute" => Catalogue[page'[w]] # {}
          /\ \A v, w \in Workers : page'[v] = page'[w] => v = w \/ page'[v] = 0
      BY <1>1, <1>8, ResetAssumption DEF PagesOK, Workers
    <3> QED BY <1>8, <2>1, <2>2, <3>1 DEF PagesOK
  <2>4. NothingLost'
    <3> SUFFICES ASSUME MayCommit', ~Trouble' PROVE NothingLost'
      BY DEF NothingLost
    <3>1. MayCommit /\ ~Trouble
      BY <1>1, <1>3, Untroubled
    <3>2. \A g \in Fetchers : pc'[g] = "done" => pc[g] = "done"
      BY <1>8 DEF Workers
    <3>3. \A i \in Inserters : pc'[i] = pc[i]
      BY <1>1, <1>8, ResetAssumption DEF Workers
    <3>4. ~AllDone(Fetchers)
      BY <1>1 DEF AllDone
    <3> QED BY <2>1, <2>2, <3>1, <3>2, <3>3, <3>4 DEF NothingLost
  <2> QED BY <1>5, <1>6, <2>3, <2>4
<1> QED
  BY <1>2, <1>7, <1>8

LEMMA SendChunkKeeps == ASSUME Inductive, NEW f \in Workers, SendChunk(f) PROVE Inductive'
<1> USE DEF Inductive, TypeOK
<1>1. /\ pc[f] = "send" /\ f \in Fetchers /\ page[f] \in Page
      /\ page' = [page EXCEPT ![f] = 0]
      /\ UNCHANGED <<callerGone, cancelled, main, dbVars, nextPage, errChan, monitor, result, failed>>
  BY DEF SendChunk, PagesOK, Workers
<1>2. \/ /\ Len(placeChan) < ChanSize /\ placeChan' = Append(placeChan, page[f])
         /\ pc' = [pc EXCEPT ![f] = "next"]
      \/ ContextDone /\ pc' = [pc EXCEPT ![f] = "done"] /\ placeChan' = placeChan
  BY DEF SendChunk, GoTo
<1>3. PICK s \in {"next", "done"} : pc' = [pc EXCEPT ![f] = s]
  BY <1>2
<1>4. placeChan' \in Seq(Page) /\ Len(placeChan') <= ChanSize /\ page' \in [Workers -> Page \cup {0}]
  <2>1. page' \in [Workers -> Page \cup {0}]
    BY <1>1
  <2>2. CASE Len(placeChan) < ChanSize /\ placeChan' = Append(placeChan, page[f])
    <3>1. placeChan' \in Seq(Page) /\ Len(placeChan') = Len(placeChan) + 1 /\ Len(placeChan) \in Nat
      BY <1>1, <2>2
    <3> QED BY <2>1, <2>2, <3>1, ResetAssumption
  <2> QED BY <1>2, <2>1, <2>2
<1>5. TypeOK' /\ CommitIsComplete' /\ FailureRemovesNothing' /\ FailureHasCause'
      /\ TransactionOK' /\ ClearingOK' /\ MonitorOK'
  <2>1. pc[f] \notin {"unborn", "done"} /\ s \in WorkerSteps /\ s # "execute"
    BY <1>1 DEF WorkerSteps
  <2>2. /\ cancelled' \in BOOLEAN /\ errChan' \in BOOLEAN /\ main' = main /\ failed' = failed
        /\ nextPage' \in 1..(TotalPages + 1)
    BY <1>1
  <2> QED BY <1>1, <1>3, <1>4, <2>1, <2>2, WorkerFrame
<1>6. CausesOK' /\ CancelOK'
  BY <1>1, <1>3, CausesFrame DEF WorkerSteps
<1>7. CASE ContextDone /\ pc' = [pc EXCEPT ![f] = "done"] /\ placeChan' = placeChan
  <2>1. PagesOK'
    BY <1>1, <1>7, GivenUp DEF dbVars
  <2>2. NothingLost'
    BY <1>1, <1>3, <1>7, Untroubled DEF NothingLost
  <2> QED BY <1>5, <1>6, <2>1, <2>2
<1>8. CASE placeChan' = Append(placeChan, page[f]) /\ pc' = [pc EXCEPT ![f] = "next"]
  <2>1. /\ Len(placeChan') = Len(placeChan) + 1 /\ placeChan'[Len(placeChan) + 1] = page[f]
        /\ \A k \in 1..Len(placeChan) : placeChan'[k] = placeChan[k]
        /\ Len(placeChan) \in Nat
    BY <1>1, <1>8
  <2>2. \A n \in Page : Queued(n)' <=> Queued(n) \/ n = page[f]
    BY <2>1 DEF Queued
  <2>3. \A n \in Page : Held(n)' <=> Held(n) /\ n # page[f]
    BY <1>1 DEF Held, PagesOK, Page
  <2>4. working' = working /\ nextPage' = nextPage
    BY <1>1 DEF dbVars
  <2>5. Held(page[f]) /\ ~Queued(page[f])
    BY <1>1 DEF Held, PagesOK
  <2>6. PagesOK'
    <3>1. /\ \A w \in Fetchers : pc'[w] \notin {"receive", "insert", "execute"}
          /\ \A w \in Inserters : pc'[w] \notin {"next", "fetch", "send"}
      BY <1>1, <1>8, ResetAssumption DEF PagesOK, Workers
    <3>2. /\ \A w \in Workers : page'[w] # 0 <=> pc'[w] \in {"fetch", "send", "insert", "execute"}
          /\ \A w \in Workers : pc'[w] = "execute" => Catalogue[page'[w]] # {}
      BY <1>1, <1>8 DEF PagesOK
    <3>3. \A v, w \in Workers : page'[v] = page'[w] => v = w \/ page'[v] = 0
      BY <1>1 DEF PagesOK
    <3>4. \A k \in 1..Len(placeChan) : placeChan[k] # page[f]
      BY <2>5 DEF Queued
    <3>5. \A k, l \in 1..Len(placeChan') : placeChan'[k] = placeChan'[l] => k = l
      BY <2>1, <3>4 DEF PagesOK
    <3> QED BY <2>2, <2>3, <2>4, <2>5, <3>1, <3>2, <3>3, <3>5 DEF PagesOK
  <2>7. NothingLost'
    <3> SUFFICES ASSUME MayCommit', ~Trouble' PROVE NothingLost'
      BY DEF NothingLost
    <3>1. MayCommit /\ ~Trouble
      BY <1>1, <1>3, Untroubled
    <3>2. \A g \in Fetchers : pc'[g] = "done" => pc[g] = "done"
      BY <1>8 DEF Workers
    <3>3. \A i \in Inserters : pc'[i] = pc[i]
      BY <1>1, <1>8, ResetAssumption DEF Workers
    <3>4. ~AllDone(Fetchers)
      BY <1>1 DEF AllDone
    <3>5. \A n \in Page : Queued(n) \/ Held(n) => Queued(n)' \/ Held(n)'
      BY <2>2, <2>3
    <3> QED BY <2>4, <3>1, <3>2, <3>3, <3>4, <3>5 DEF NothingLost
  <2> QED BY <1>5, <1>6, <2>6, <2>7
<1> QED
  BY <1>2, <1>7, <1>8

LEMMA ReceiveChunkKeeps == ASSUME Inductive, NEW i \in Workers, ReceiveChunk(i) PROVE Inductive'
<1> USE DEF Inductive, TypeOK
<1>1. /\ pc[i] = "receive" /\ i \in Inserters /\ i \notin Fetchers /\ page[i] = 0
      /\ UNCHANGED <<callerGone, cancelled, main, dbVars, nextPage, errChan, monitor, result, failed>>
  BY ResetAssumption DEF ReceiveChunk, PagesOK, Workers
<1>2. \/ /\ placeChan # << >> /\ placeChan' = Tail(placeChan)
         /\ page' = [page EXCEPT ![i] = Head(placeChan)] /\ pc' = [pc EXCEPT ![i] = "insert"]
      \/ /\ placeChan = << >> /\ monitor = "inserters"
         /\ pc' = [pc EXCEPT ![i] = "done"] /\ UNCHANGED <<placeChan, page>>
  BY DEF ReceiveChunk, GoTo
<1>3. PICK s \in {"insert", "done"} : pc' = [pc EXCEPT ![i] = s]
  BY <1>2
<1>4. placeChan' \in Seq(Page) /\ Len(placeChan') <= ChanSize /\ page' \in [Workers -> Page \cup {0}]
  <2>1. CASE placeChan # << >> /\ placeChan' = Tail(placeChan)
             /\ page' = [page EXCEPT ![i] = Head(placeChan)]
    <3>1. Head(placeChan) \in Page /\ Tail(placeChan) \in Seq(Page)
          /\ Len(Tail(placeChan)) = Len(placeChan) - 1 /\ Len(placeChan) \in Nat
      BY <2>1
    <3> QED BY <2>1, <3>1, ResetAssumption
  <2> QED BY <1>2, <2>1
<1>5. TypeOK' /\ CommitIsComplete' /\ FailureRemovesNothing' /\ FailureHasCause'
      /\ TransactionOK' /\ ClearingOK' /\ MonitorOK'
  <2>1. pc[i] \notin {"unborn", "done"} /\ s \in WorkerSteps /\ s # "execute"
    BY <1>1 DEF WorkerSteps
  <2>2. /\ cancelled' \in BOOLEAN /\ errChan' \in BOOLEAN /\ main' = main /\ failed' = failed
        /\ nextPage' \in 1..(TotalPages + 1)
    BY <1>1
  <2> QED BY <1>1, <1>3, <1>4, <2>1, <2>2, WorkerFrame
<1>6. CausesOK' /\ CancelOK'
  BY <1>1, <1>3, CausesFrame DEF WorkerSteps
<1>7. \A g \in Fetchers : pc'[g] = pc[g]
  BY <1>1, <1>3 DEF Workers
<1>8. working' = working /\ nextPage' = nextPage
  BY <1>1 DEF dbVars
<1>9. CASE /\ placeChan = << >> /\ monitor = "inserters"
           /\ pc' = [pc EXCEPT ![i] = "done"] /\ UNCHANGED <<placeChan, page>>
  <2>1. PagesOK'
    <3>1. page' = [page EXCEPT ![i] = 0]
      BY <1>1, <1>9
    <3> QED BY <1>8, <1>9, <3>1, GivenUp
  <2>2. NothingLost'
    <3> SUFFICES ASSUME MayCommit', ~Trouble' PROVE NothingLost'
      BY DEF NothingLost
    <3>1. MayCommit /\ ~Trouble
      BY <1>1, <1>3, Untroubled
    <3>2. \A n \in Page : (Queued(n)' <=> Queued(n)) /\ (Held(n)' <=> Held(n))
      BY <1>9 DEF Queued, Held
    <3>3. AllDone(Fetchers)' /\ placeChan' = << >>
      BY <1>7, <1>9 DEF MonitorOK, AllDone
    <3> QED BY <1>7, <1>8, <3>1, <3>2, <3>3 DEF NothingLost
  <2> QED BY <1>5, <1>6, <2>1, <2>2
<1>10. CASE /\ placeChan # << >> /\ placeChan' = Tail(placeChan)
            /\ page' = [page EXCEPT ![i] = Head(placeChan)] /\ pc' = [pc EXCEPT ![i] = "insert"]
  <2> DEFINE n0 == Head(placeChan)
  <2>1. /\ Len(placeChan) \in Nat \ {0} /\ Len(placeChan') = Len(placeChan) - 1
        /\ \A k \in 1..Len(placeChan') : placeChan'[k] = placeChan[k + 1]
        /\ n0 = placeChan[1] /\ n0 \in Page
    BY <1>10
  <2>2. \A k \in 1..Len(placeChan) : placeChan[k] = n0 => k = 1
    BY <2>1 DEF PagesOK
  <2>3. ASSUME NEW n \in Page PROVE Queued(n)' <=> Queued(n) /\ n # n0
    <3>1. ASSUME Queued(n)' PROVE Queued(n) /\ n # n0
      <4>1. PICK k \in 1..Len(placeChan') : placeChan'[k] = n
        BY <3>1 DEF Queued
      <4>2. k + 1 \in 1..Len(placeChan) /\ placeChan[k + 1] = n /\ k + 1 # 1
        BY <2>1, <4>1
      <4> QED BY <2>2, <4>2 DEF Queued
    <3>2. ASSUME Queued(n), n # n0 PROVE Queued(n)'
      <4>1. PICK k \in 1..Len(placeChan) : placeChan[k] = n
        BY <3>2 DEF Queued
      <4>2. k - 1 \in 1..Len(placeChan') /\ placeChan'[k - 1] = n
        BY <2>1, <3>2, <4>1
      <4> QED BY <4>2 DEF Queued
    <3> QED BY <3>1, <3>2
  <2>4. \A n \in Page : Held(n)' <=> Held(n) \/ n = n0
    BY <1>1, <1>10 DEF Held, Page
  <2>5. Queued(n0) /\ ~Held(n0)
    BY <2>1 DEF Queued, PagesOK
  <2>6. PagesOK'
    <3>1. /\ \A w \in Fetchers : pc'[w] \notin {"receive", "insert", "execute"}
          /\ \A w \in Inserters : pc'[w] \notin {"next", "fetch", "send"}
      BY <1>7, <1>10 DEF PagesOK, Workers
    <3>2. /\ \A w \in Workers : page'[w] # 0 <=> pc'[w] \in {"fetch", "send", "insert", "execute"}
          /\ \A w \in Workers : pc'[w] = "execute" => Catalogue[page'[w]] # {}
      <4>1. pc'[i] = "insert" /\ page'[i] = n0 /\ n0 # 0
        BY <1>10, <2>1 DEF Page
      <4>2. \A w \in Workers : w # i => pc'[w] = pc[w] /\ page'[w] = page[w]
        BY <1>10
      <4> QED BY <4>1, <4>2 DEF PagesOK
    <3>3. \A v, w \in Workers : page'[v] = page'[w] => v = w \/ page'[v] = 0
      BY <1>10, <2>5 DEF PagesOK, Held
    <3>4. \A k, l \in 1..Len(placeChan') : placeChan'[k] = placeChan'[l] => k = l
      <4> SUFFICES ASSUME NEW k \in 1..Len(placeChan'), NEW l \in 1..Len(placeChan'),
                          placeChan'[k] = placeChan'[l]
                   PROVE  k = l
        OBVIOUS
      <4>1. k + 1 \in 1..Len(placeChan) /\ l + 1 \in 1..Len(placeChan)
            /\ placeChan[k + 1] = placeChan[l + 1]
        BY <2>1
      <4>2. k + 1 = l + 1
        BY <4>1 DEF PagesOK
      <4> QED BY <4>2
    <3> QED BY <1>8, <2>1, <2>3, <2>4, <2>5, <3>1, <3>2, <3>3, <3>4 DEF PagesOK
  <2>7. NothingLost'
    <3> SUFFICES ASSUME MayCommit', ~Trouble' PROVE NothingLost'
      BY DEF NothingLost
    <3>1. MayCommit /\ ~Trouble
      BY <1>1, <1>3, Untroubled
    <3>2. \A n \in Page : Queued(n) \/ Held(n) => Queued(n)' \/ Held(n)'
      BY <2>3, <2>4
    <3>3. \A j \in Inserters : pc'[j] # "done"
      BY <1>10, <3>1 DEF NothingLost, Workers
    <3> QED BY <1>7, <1>8, <3>1, <3>2, <3>3 DEF NothingLost
  <2> QED BY <1>5, <1>6, <2>6, <2>7
<1> QED
  BY <1>2, <1>9, <1>10

(* An empty page is dropped; the statement of another one is let in, or    *)
(* the inserter goes to report.                                            *)
LEMMA InsertPlaceChunkKeeps ==
    ASSUME Inductive, NEW i \in Workers, InsertPlaceChunk(i) PROVE Inductive'
<1> USE DEF Inductive, TypeOK
<1>1. /\ pc[i] = "insert" /\ i \in Inserters /\ i \notin Fetchers /\ page[i] \in Page
      /\ UNCHANGED <<callerGone, cancelled, main, dbVars, nextPage, placeChan,
                     errChan, monitor, result, failed>>
  BY ResetAssumption DEF InsertPlaceChunk, PagesOK, Workers
<1>2. \/ /\ Catalogue[page[i]] = {} /\ pc' = [pc EXCEPT ![i] = "receive"]
         /\ page' = [page EXCEPT ![i] = 0]
      \/ /\ Catalogue[page[i]] # {} /\ TxOpen /\ pc' = [pc EXCEPT ![i] = "execute"]
         /\ page' = page
      \/ /\ pc' = [pc EXCEPT ![i] = "report"] /\ page' = [page EXCEPT ![i] = 0]
         /\ ~TxOpen \/ ContextDone
  BY DEF InsertPlaceChunk, GoTo
<1>3. PICK s \in {"receive", "execute", "report"} : pc' = [pc EXCEPT ![i] = s]
  BY <1>2
<1>4. page' \in [Workers -> Page \cup {0}]
  BY <1>2
<1>5. TypeOK' /\ CommitIsComplete' /\ FailureRemovesNothing' /\ FailureHasCause'
      /\ TransactionOK' /\ ClearingOK' /\ MonitorOK'
  <2>1. s = "execute" => main # "returned"
    BY <1>2, <1>3 DEF TxOpen
  <2>2. pc[i] \notin {"unborn", "done"} /\ s \in WorkerSteps
    BY <1>1 DEF WorkerSteps
  <2>3. /\ cancelled' \in BOOLEAN /\ errChan' \in BOOLEAN /\ placeChan' \in Seq(Page)
        /\ nextPage' \in 1..(TotalPages + 1) /\ Len(placeChan') <= ChanSize
        /\ main' = main /\ failed' = failed
    BY <1>1
  <2> QED BY <1>1, <1>3, <1>4, <2>1, <2>2, <2>3, WorkerFrame
<1>6. CausesOK' /\ CancelOK'
  <2>1. s = "report" => failed' \/ callerGone \/ cancelled
    <3>1. main \in {"closing", "returned"} => failed \/ callerGone
      BY <1>1, AtWork DEF CausesOK, Cause, FailureHasCause, ResetDatabase
    <3>2. main # "begin"
      BY <1>1, AtWork
    <3> QED BY <1>1, <1>2, <1>3, <3>1, <3>2 DEF ContextDone, TxOpen
  <2> QED BY <1>1, <1>3, <2>1, CausesFrame DEF WorkerSteps
<1>7. working' = working
  BY <1>1 DEF dbVars
<1>8. CASE Catalogue[page[i]] # {} /\ pc' = [pc EXCEPT ![i] = "execute"] /\ page' = page
  <2>1. \A n \in Page : (Queued(n)' <=> Queued(n)) /\ (Held(n)' <=> Held(n))
    BY <1>1, <1>8 DEF Queued, Held
  <2>2. PagesOK'
    <3>1. /\ \A w \in Fetchers : pc'[w] \notin {"receive", "insert", "execute"}
          /\ \A w \in Inserters : pc'[w] \notin {"next", "fetch", "send"}
          /\ \A w \in Workers : page'[w] # 0 <=> pc'[w] \in {"fetch", "send", "insert", "execute"}
          /\ \A w \in Workers : pc'[w] = "execute" => Catalogue[page'[w]] # {}
      BY <1>1, <1>8 DEF PagesOK, Workers
    <3> QED BY <1>1, <1>7, <1>8, <2>1, <3>1 DEF PagesOK
  <2>3. NothingLost'
    <3> SUFFICES ASSUME MayCommit', ~Trouble' PROVE NothingLost'
      BY DEF NothingLost
    <3>1. MayCommit /\ ~Trouble
      BY <1>1, <1>8, Untroubled
    <3>2. /\ \A w \in Inserters : pc'[w] = "done" => pc[w] = "done"
          /\ \A w \in Fetchers : pc'[w] = pc[w]
      BY <1>1, <1>8 DEF Workers
    <3> QED BY <1>1, <1>7, <2>1, <3>1, <3>2 DEF NothingLost, AllDone
  <2> QED BY <1>5, <1>6, <2>2, <2>3
<1>9. CASE page' = [page EXCEPT ![i] = 0] /\ s \in {"receive", "report"}
           /\ (s = "receive" => Catalogue[page[i]] = {})
  <2>1. PagesOK'
    BY <1>1, <1>3, <1>7, <1>9, GivenUp
  <2>2. NothingLost'
    <3> SUFFICES ASSUME MayCommit', ~Trouble' PROVE NothingLost'
      BY DEF NothingLost
    <3>1. MayCommit /\ ~Trouble /\ Catalogue[page[i]] = {}
      BY <1>1, <1>3, <1>9, Untroubled
    <3>2. \A n \in Page : Queued(n)' <=> Queued(n)
      BY <1>1 DEF Queued
    <3>3. \A n \in Page : Held(n) => Held(n)' \/ n = page[i]
      BY <1>9 DEF Held
    <3>4. /\ \A w \in Inserters : pc'[w] = "done" => pc[w] = "done"
          /\ \A w \in Fetchers : pc'[w] = pc[w]
      BY <1>1, <1>3 DEF Workers
    <3> QED BY <1>1, <1>7, <3>1, <3>2, <3>3, <3>4 DEF NothingLost, AllDone
  <2> QED BY <1>5, <1>6, <2>1, <2>2
<1> QED
  BY <1>2, <1>3, <1>8, <1>9

(* While a statement runs Reset has not returned; what the rest of the     *)
(* database sees of it is nothing, or what the connection has.             *)
LEMMA Executing ==
    ASSUME Inductive, NEW i \in Workers, pc[i] = "execute"
    PROVE  /\ main \in {"starting", "select", "failing", "closing"} /\ result = "none"
           /\ i \in Inserters /\ i \notin Fetchers /\ page[i] \in Page
           /\ visible = (IF lost THEN working ELSE Before) /\ visible.old = Tables
           /\ Held(page[i]) /\ ~Queued(page[i]) /\ page[i] < nextPage
           /\ working.seats[page[i]] = 0 /\ visible.seats[page[i]] = 0
<1>1. main # "returned"
  BY DEF Inductive, TransactionOK
<1>2. result = "none" /\ visible = IF lost THEN working ELSE Before
  BY <1>1, StillOpen
<1>3. main \in {"starting", "select", "failing", "closing"}
  BY <1>1, AtWork
<1>4. i \in Inserters /\ i \notin Fetchers /\ page[i] \in Page /\ page[i] # 0
  BY ResetAssumption DEF Inductive, PagesOK, TypeOK, Workers, Page
<1>5. Held(page[i]) /\ ~Queued(page[i]) /\ page[i] < nextPage /\ working.seats[page[i]] = 0
  BY <1>4 DEF Inductive, Held, PagesOK
<1>6. visible.old = Tables
  BY <1>2 DEF Inductive, FailureRemovesNothing, ResetDatabase
<1>7. visible.seats[page[i]] = 0
  BY <1>2, <1>4, <1>5, BeforeIsDatabase
<1> QED
  BY <1>1, <1>2, <1>3, <1>4, <1>5, <1>6, <1>7

(* The rows of a page are inserted by the inserter that holds it, which    *)
(* then is in no other place, be it in the transaction or outside it.      *)
LEMMA InsertedPage ==
    ASSUME Inductive, NEW i \in Workers, pc[i] = "execute", Catalogue[page[i]] # {},
           working' = InsertRows(working, page[i]),
           page' = [page EXCEPT ![i] = 0], pc' = [pc EXCEPT ![i] = "receive"],
           UNCHANGED <<callerGone, cancelled, main, nextPage, placeChan, errChan>>
    PROVE  PagesOK' /\ NothingLost'
<1> USE DEF Inductive, TypeOK
<1>1. /\ i \in Inserters /\ i \notin Fetchers /\ page[i] \in Page
      /\ Held(page[i]) /\ ~Queued(page[i]) /\ page[i] < nextPage /\ working.seats[page[i]] = 0
  BY Executing
<1>2. /\ working'.seats[page[i]] = 1
      /\ \A n \in Page : n # page[i] => working'.seats[n] = working.seats[n]
  BY <1>1, InsertedRows
<1>3. \A n \in Page : Queued(n)' <=> Queued(n)
  BY DEF Queued
<1>4. \A n \in Page : Held(n)' <=> Held(n) /\ n # page[i]
  BY DEF Held, PagesOK, Page
<1>5. PagesOK'
  <2>1. /\ \A w \in Fetchers : pc'[w] \notin {"receive", "insert", "execute"}
        /\ \A w \in Inserters : pc'[w] \notin {"next", "fetch", "send"}
    BY <1>1, ResetAssumption DEF PagesOK, Workers
  <2>2. /\ \A w \in Workers : page'[w] # 0 <=> pc'[w] \in {"fetch", "send", "insert", "execute"}
        /\ \A w \in Workers : pc'[w] = "execute" => Catalogue[page'[w]] # {}
    BY DEF PagesOK
  <2>3. \A v, w \in Workers : page'[v] = page'[w] => v = w \/ page'[v] = 0
    BY DEF PagesOK
  <2>4. \A k, l \in 1..Len(placeChan') : placeChan'[k] = placeChan'[l] => k = l
    BY DEF PagesOK
  <2>5. \A n \in Page : Queued(n)' \/ Held(n)' => n < nextPage' /\ working'.seats[n] = 0
    BY <1>1, <1>2, <1>3, <1>4 DEF PagesOK
  <2>6. \A n \in Page : working'.seats[n] # 0 =>
          working'.seats[n] = 1 /\ n < nextPage' /\ Catalogue[n] # {}
    BY <1>1, <1>2 DEF PagesOK
  <2>7. \A n \in Page : Queued(n)' => ~Held(n)'
    BY <1>3, <1>4 DEF PagesOK
  <2> QED BY <2>1, <2>2, <2>3, <2>4, <2>5, <2>6, <2>7 DEF PagesOK
<1>6. NothingLost'
  <2> SUFFICES ASSUME MayCommit', ~Trouble' PROVE NothingLost'
    BY DEF NothingLost
  <2>1. MayCommit /\ ~Trouble
    BY Untroubled
  <2>2. \A n \in Page : Queued(n) \/ Held(n) \/ working.seats[n] = 1 =>
          Queued(n)' \/ Held(n)' \/ working'.seats[n] = 1
    BY <1>1, <1>2, <1>3, <1>4
  <2>3. /\ \A w \in Inserters : pc'[w] = "done" => pc[w] = "done"
        /\ \A w \in Fetchers : pc'[w] = pc[w]
    BY <1>1 DEF Workers
  <2> QED BY <2>1, <2>2, <2>3 DEF NothingLost, AllDone
<1> QED
  BY <1>5, <1>6

(* When the transaction is lost so is what was inserted in it: the pages   *)
(* are in no place then, but Reset will see the error.                     *)
LEMMA LostPages ==
    ASSUME Inductive, NEW i \in Workers, pc[i] = "execute",
           working' = visible \/ working' = working,
           page' = [page EXCEPT ![i] = 0], pc' = [pc EXCEPT ![i] = "report"],
           UNCHANGED <<nextPage, placeChan>>
    PROVE  PagesOK' /\ NothingLost'
<1> USE DEF Inductive, TypeOK
<1>1. \A n \in Page : working'.seats[n] = working.seats[n] \/ working'.seats[n] = 0
  BY Executing, BeforeIsDatabase
<1>2. /\ \A f \in Fetchers : pc'[f] \notin {"receive", "insert", "execute"}
      /\ \A w \in Inserters : pc'[w] \notin {"next", "fetch", "send"}
  BY DEF PagesOK, Workers
<1>3. /\ \A v \in Workers : page'[v] # 0 <=> pc'[v] \in {"fetch", "send", "insert", "execute"}
      /\ \A v \in Workers : pc'[v] = "execute" => Catalogue[page'[v]] # {}
  BY DEF PagesOK
<1>4. \A u, v \in Workers : page'[u] = page'[v] => u = v \/ page'[u] = 0
  BY DEF PagesOK
<1>5. \A n \in Page : Held(n)' => Held(n)
  BY DEF Held, Page
<1>6. \A n \in Page : Queued(n)' <=> Queued(n)
  BY DEF Queued
<1>7. PagesOK'
  BY <1>1, <1>2, <1>3, <1>4, <1>5, <1>6 DEF PagesOK
<1>8. NothingLost'
  BY DEF NothingLost, Trouble
<1> QED
  BY <1>7, <1>8

LEMMA ExecuteInsertKeeps ==
    ASSUME Inductive, NEW i \in Workers, ExecuteInsert(i) PROVE Inductive'
<1>typed. TypeOK
  BY DEF Inductive
<1>1. /\ pc[i] = "execute" /\ page' = [page EXCEPT ![i] = 0]
      /\ UNCHANGED <<callerGone, cancelled, main, cleared, nextPage, placeChan,
                     errChan, monitor, result>>
  BY DEF ExecuteInsert
<1>2. \/ /\ working' = InsertRows(working, page[i]) /\ lost' = lost /\ failed' = failed
         /\ visible' = (IF lost THEN working' ELSE visible)
         /\ pc' = [pc EXCEPT ![i] = "receive"]
      \/ /\ visible' = visible /\ working' = working /\ lost' = lost /\ failed' = TRUE
         /\ pc' = [pc EXCEPT ![i] = "report"]
      \/ /\ visible' = visible /\ working' = visible /\ lost' = TRUE
         /\ (ContextDone /\ failed' = failed) \/ failed' = TRUE
         /\ pc' = [pc EXCEPT ![i] = "report"]
  BY DEF ExecuteInsert, StatementSucceeds, StatementFails, TransactionFails,
         GoTo, Unharmed, Failure
<1>3. PICK s \in {"receive", "report"} : pc' = [pc EXCEPT ![i] = s]
  BY <1>2
<1>4. /\ main \in {"starting", "select", "failing", "closing"} /\ result = "none"
      /\ visible = (IF lost THEN working ELSE Before) /\ visible.old = Tables
      /\ page[i] \in Page
  BY <1>1, Executing
<1>5. (failed' = failed \/ failed' = TRUE) /\ (failed => failed')
  BY <1>2
<1>6. /\ InsertRows(working, page[i]) \in Database
      /\ InsertRows(working, page[i]).old = working.old
  BY <1>4, <1>typed, InsertedRows DEF TypeOK
<1>7. /\ visible' \in Database /\ working' \in Database /\ lost' \in BOOLEAN
      /\ page' \in [Workers -> Page \cup {0}]
  BY <1>1, <1>2, <1>6, <1>typed DEF TypeOK
<1>8. TypeOK' /\ CommitIsComplete' /\ FailureHasCause' /\ MonitorOK'
  <2>1. pc[i] \notin {"unborn", "done"} /\ s \in WorkerSteps
    BY <1>1 DEF WorkerSteps
  <2>2. /\ cancelled' \in BOOLEAN /\ errChan' \in BOOLEAN /\ placeChan' \in Seq(Page)
        /\ nextPage' \in 1..(TotalPages + 1) /\ Len(placeChan') <= ChanSize
    BY <1>1, <1>typed DEF TypeOK
  <2> QED BY <1>1, <1>3, <1>5, <1>7, <2>1, <2>2, ControlFrame
<1>9. CausesOK' /\ CancelOK'
  <2>1. s = "report" => failed' \/ callerGone \/ cancelled
    <3>1. s = "report" => pc' # [pc EXCEPT ![i] = "receive"]
      BY <1>3, <1>typed DEF TypeOK
    <3> QED BY <1>2, <3>1 DEF ContextDone
  <2> QED BY <1>1, <1>3, <1>5, <2>1, CausesFrame DEF WorkerSteps
<1>10. PagesOK' /\ NothingLost'
  <2>1. CASE working' = InsertRows(working, page[i]) /\ pc' = [pc EXCEPT ![i] = "receive"]
    <3>1. Catalogue[page[i]] # {}
      BY <1>1 DEF Inductive, PagesOK
    <3> QED BY <1>1, <2>1, <3>1, InsertedPage
  <2>2. CASE working' \in {visible, working} /\ pc' = [pc EXCEPT ![i] = "report"]
    BY <1>1, <2>2, LostPages
  <2> QED BY <1>2, <2>1, <2>2
<1>11. main' # "returned" /\ visible' = IF lost' THEN working' ELSE Before
  BY <1>1, <1>2, <1>4
<1>12. lost' => failed' \/ callerGone'
  <2>1. cancelled => failed \/ callerGone
    BY <1>4 DEF Inductive, CausesOK, Cause
  <2>2. lost => failed \/ callerGone
    BY DEF Inductive, TransactionOK
  <2>3. ContextDone => failed \/ callerGone
    BY <2>1 DEF ContextDone
  <2>4. callerGone' = callerGone
    BY <1>1
  <2> QED BY <1>2, <1>5, <2>2, <2>3, <2>4
<1>13. TransactionOK'
  BY <1>11, <1>12 DEF TransactionOK
<1>14. FailureRemovesNothing'
  <2>1. visible'.old = Tables
    BY <1>2, <1>4, <1>6
  <2>2. \A n \in Page : working'.seats[n] <= 1
    <3>1. \A n \in Page : working'.seats[n] \in {0, 1}
      BY <1>10 DEF PagesOK
    <3> QED BY <3>1
  <2>3. \A n \in Page : visible'.seats[n] <= 1
    BY <1>11, <2>2, BeforeIsDatabase
  <2>4. visible' # Before => failed' \/ callerGone'
    BY <1>11, <1>12
  <2> QED BY <2>1, <2>3, <2>4 DEF FailureRemovesNothing
<1>15. ClearingOK'
  <2>1. main' \notin {"begin", "clear", "returned"} /\ main' = main /\ cleared' = cleared
    BY <1>1, <1>4
  <2>2. ~lost' => ~lost /\ working'.old = working.old
    BY <1>2, <1>6
  <2> QED BY <2>1, <2>2 DEF Inductive, ClearingOK
<1> QED
  BY <1>8, <1>9, <1>10, <1>13, <1>14, <1>15 DEF Inductive

LEMMA ReportKeeps == ASSUME Inductive, NEW w \in Workers, Report(w) PROVE Inductive'
<1> USE DEF Inductive, TypeOK
<1>1. /\ pc[w] = "report" /\ page[w] = 0 /\ Cause
      /\ UNCHANGED <<callerGone, cancelled, dbVars, nextPage, placeChan, page,
                     monitor, result, failed>>
  BY DEF Report, PagesOK, CausesOK
<1>2. \/ /\ main = "select" /\ ~errChan /\ main' = "failing"
         /\ pc' = [pc EXCEPT ![w] = "cancel"] /\ errChan' = errChan
      \/ /\ main # "select" /\ ~errChan /\ errChan' = TRUE
         /\ pc' = [pc EXCEPT ![w] = "cancel"] /\ main' = main
      \/ /\ errChan /\ pc' = [pc EXCEPT ![w] = "done"] /\ main' = main /\ errChan' = errChan
  BY DEF Report, GoTo
<1>3. PICK s \in {"cancel", "done"} : pc' = [pc EXCEPT ![w] = s]
  BY <1>2
<1>4. errChan' \in BOOLEAN /\ (main' = main \/ (main = "select" /\ main' = "failing"))
  BY <1>2
<1>5. TypeOK' /\ CommitIsComplete' /\ FailureRemovesNothing' /\ FailureHasCause'
      /\ TransactionOK' /\ ClearingOK' /\ MonitorOK'
  BY <1>1, <1>3, <1>4, WorkerFrame DEF WorkerSteps
<1>6. \A v \in Workers : pc'[v] = IF v = w THEN s ELSE pc[v]
  BY <1>3
<1>7. CausesOK'
  <2>1. Cause'
    BY <1>1 DEF Cause
  <2>2. main' = "returned" <=> main = "returned"
    BY <1>4
  <2> QED BY <1>1, <2>1, <2>2 DEF CausesOK
<1>8. MayCommit' => errChan'
  BY <1>2 DEF MayCommit
<1>9. CancelOK' /\ NothingLost'
  BY <1>8 DEF CancelOK, NothingLost, Trouble
<1>10. PagesOK'
  <2>1. \A n \in Page : (Queued(n)' <=> Queued(n)) /\ (Held(n)' <=> Held(n))
    BY <1>1 DEF Queued, Held
  <2>2. working' = working /\ placeChan' = placeChan /\ nextPage' = nextPage /\ page' = page
    BY <1>1 DEF dbVars
  <2>3. /\ \A f \in Fetchers : pc'[f] \notin {"receive", "insert", "execute"}
        /\ \A i \in Inserters : pc'[i] \notin {"next", "fetch", "send"}
        /\ \A v \in Workers : page'[v] # 0 <=> pc'[v] \in {"fetch", "send", "insert", "execute"}
        /\ \A v \in Workers : pc'[v] = "execute" => Catalogue[page'[v]] # {}
    BY <1>1, <1>6 DEF PagesOK, Workers
  <2> QED BY <2>1, <2>2, <2>3 DEF PagesOK
<1> QED
  BY <1>5, <1>7, <1>9, <1>10

LEMMA CancelKeeps == ASSUME Inductive, NEW w \in Workers, Cancel(w) PROVE Inductive'
<1> USE DEF Inductive, TypeOK
<1>1. /\ pc[w] = "cancel" /\ page[w] = 0 /\ Cause /\ (MayCommit => errChan)
      /\ cancelled' = TRUE /\ pc' = [pc EXCEPT ![w] = "done"]
      /\ UNCHANGED <<callerGone, main, dbVars, nextPage, placeChan, page,
                     errChan, monitor, result, failed>>
  BY DEF Cancel, GoTo, PagesOK, CausesOK, CancelOK
<1>2. TypeOK' /\ CommitIsComplete' /\ FailureRemovesNothing' /\ FailureHasCause'
      /\ TransactionOK' /\ ClearingOK' /\ MonitorOK'
  BY <1>1, WorkerFrame DEF WorkerSteps
<1>3. CausesOK'
  BY <1>1 DEF CausesOK, Cause
<1>4. CancelOK' /\ NothingLost'
  BY <1>1 DEF CancelOK, NothingLost, MayCommit, Trouble
<1>5. PagesOK'
  <2>1. page' = [page EXCEPT ![w] = 0]
    BY <1>1
  <2> QED BY <1>1, <2>1, GivenUp DEF dbVars
<1> QED
  BY <1>2, <1>3, <1>4, <1>5

LEMMA WorkerStepKeeps == ASSUME Inductive, NEW w \in Workers, WorkerStep(w) PROVE Inductive'
BY TakePageKeeps, FetchPageKeeps, SendChunkKeeps, ReceiveChunkKeeps, InsertPlaceChunkKeeps,
   ExecuteInsertKeeps, ReportKeeps, CancelKeeps DEF WorkerStep

-----------------------------------------------------------------------------
(* The monitor and the caller.                                             *)

LEMMA MonitorKeeps == Inductive /\ Monitor => Inductive'
<1> SUFFICES ASSUME Inductive, Monitor PROVE Inductive'
  OBVIOUS
<1>1. UNCHANGED <<callerGone, cancelled, main, dbVars, workerVars, errChan, result, failed>>
      /\ \/ monitor = "fetchers" /\ AllDone(Fetchers) /\ monitor' = "inserters"
         \/ monitor = "inserters" /\ AllDone(Inserters) /\ monitor' = "done"
  BY DEF Monitor
<1>2. PagesOK'
  BY <1>1, PagesFrame DEF Inductive, dbVars
<1>3. NothingLost'
  BY <1>1, NothingLostFrame DEF Inductive, NothingLost, MayCommit, dbVars
<1> USE <1>1 DEF dbVars, workerVars
<1>4. TypeOK'
  BY DEF Inductive, TypeOK
<1>5. CommitIsComplete' /\ FailureHasCause' /\ FailureRemovesNothing' /\ TransactionOK'
  BY DatabaseFrame DEF Inductive, CommitIsComplete, FailureHasCause, ResetDatabase
<1>6. ClearingOK' /\ CausesOK' /\ CancelOK'
  BY DEF Inductive, ClearingOK, CausesOK, Cause, CancelOK, MayCommit
<1>7. MonitorOK'
  BY DEF Inductive, MonitorOK, AllDone
<1> QED
  BY <1>2, <1>3, <1>4, <1>5, <1>6, <1>7 DEF Inductive

LEMMA CallerLeavesKeeps == Inductive /\ CallerLeaves => Inductive'
<1> SUFFICES ASSUME Inductive, CallerLeaves PROVE Inductive'
  OBVIOUS
<1>1. UNCHANGED <<cancelled, main, dbVars, workerVars, errChan, monitor, result, failed>>
      /\ callerGone' = TRUE
  BY DEF CallerLeaves
<1>2. PagesOK'
  BY <1>1, PagesFrame DEF Inductive, dbVars
<1> USE <1>1 DEF dbVars, workerVars
<1>3. TypeOK'
  BY DEF Inductive, TypeOK
<1>4. CommitIsComplete' /\ FailureHasCause' /\ FailureRemovesNothing' /\ TransactionOK'
  BY DEF Inductive, CommitIsComplete, FailureRemovesNothing, FailureHasCause, TransactionOK, ResetDatabase
<1>5. ClearingOK' /\ CausesOK' /\ CancelOK' /\ NothingLost'
  BY DEF Inductive, ClearingOK, CausesOK, Cause, CancelOK, MayCommit, NothingLost, Trouble
<1>6. MonitorOK'
  BY DEF Inductive, MonitorOK, AllDone
<1> QED
  BY <1>2, <1>3, <1>4, <1>5, <1>6 DEF Inductive

-----------------------------------------------------------------------------
(* What a reset promises.                                                  *)

LEMMA InitInductive == Init => Inductive
<1> SUFFICES ASSUME Init PROVE Inductive
  OBVIOUS
<1> USE DEF Init
<1>1. TypeOK
  <2>1. pc \in [Workers -> WorkerSteps] /\ page \in [Workers -> Page \cup {0}]
    BY DEF WorkerSteps
  <2>2. nextPage \in 1..(TotalPages + 1) /\ Len(placeChan) <= ChanSize /\ placeChan \in Seq(Page)
    BY ResetAssumption
  <2>3. visible \in Database /\ working \in Database /\ cleared \in 0..Len(ClearOrder)
    BY BeforeIsDatabase, Tables5
  <2>4. main \in MainSteps /\ monitor \in {"unborn", "fetchers", "inserters", "done"}
        /\ result \in {"none", "ok", "error"}
    BY DEF MainSteps
  <2>5. callerGone \in BOOLEAN /\ cancelled \in BOOLEAN /\ failed \in BOOLEAN
        /\ errChan \in BOOLEAN /\ lost \in BOOLEAN
    OBVIOUS
  <2> HIDE DEF Init
  <2> QED BY <2>1, <2>2, <2>3, <2>4, <2>5 DEF TypeOK
<1>2. CommitIsComplete /\ FailureRemovesNothing /\ FailureHasCause /\ TransactionOK
  BY BeforeIsDatabase DEF CommitIsComplete, FailureRemovesNothing, FailureHasCause, TransactionOK, ResetDatabase
<1>3. ClearingOK
  BY BeforeIsDatabase, OrderOfTables DEF ClearingOK, Rest
<1>4. CausesOK /\ CancelOK /\ NothingLost /\ MonitorOK
  BY DEF CausesOK, CancelOK, NothingLost, MayCommit, MonitorOK
<1>5. PagesOK
  <2>1. \A n \in Page : ~Queued(n) /\ ~Held(n)
    BY DEF Queued, Held, Page
  <2>2. \A w \in Workers : pc[w] = "unborn" /\ page[w] = 0
    OBVIOUS
  <2>3. Len(placeChan) = 0
    OBVIOUS
  <2> QED BY <2>1, <2>2, <2>3, BeforeIsDatabase DEF PagesOK, Workers
<1> QED
  BY <1>1, <1>2, <1>3, <1>4, <1>5 DEF Inductive

LEMMA NextKeeps == Inductive /\ [Next]_vars => Inductive'
<1> SUFFICES ASSUME Inductive, [Next]_vars PROVE Inductive'
  OBVIOUS
<1>1. CASE Next
  BY <1>1, ResetStepKeeps, MonitorKeeps, CallerLeavesKeeps, WorkerStepKeeps DEF Next
<1>2. CASE UNCHANGED vars
  <2>1. UNCHANGED <<callerGone, cancelled, main, dbVars, workerVars, errChan, monitor, result, failed>>
    BY <1>2 DEF vars
  <2>2. PagesOK'
    BY <2>1, PagesFrame DEF Inductive, dbVars
  <2>3. NothingLost'
    BY <2>1, NothingLostFrame DEF Inductive, NothingLost, MayCommit, dbVars
  <2> USE <2>1 DEF dbVars, workerVars
  <2>4. TypeOK' /\ ClearingOK' /\ CausesOK' /\ CancelOK' /\ MonitorOK'
    BY DEF Inductive, TypeOK, ClearingOK, CausesOK, Cause, CancelOK, MayCommit, MonitorOK, AllDone
  <2>5. CommitIsComplete' /\ FailureHasCause' /\ FailureRemovesNothing' /\ TransactionOK'
    BY DEF Inductive, CommitIsComplete, FailureRemovesNothing, FailureHasCause, TransactionOK, ResetDatabase
  <2> QED BY <2>2, <2>3, <2>4, <2>5 DEF Inductive
<1> QED
  BY <1>1, <1>2

(* However many goroutines fetch and insert, and wherever a call fails or  *)
(* the caller leaves: a page lies in one place, none is lost without an    *)
(* error that Reset will see, and every end has a cause.                   *)
THEOREM Invariance == Spec => []Inductive
BY InitInductive, NextKeeps, PTL DEF Spec

(* The state of a reset has its type: in particular no page number beyond  *)
(* the last is asked for and placeChan never holds more than it can.       *)
THEOREM TypeInvariance == Spec => []TypeOK
<1>1. Inductive => TypeOK
  BY DEF Inductive
<1> QED
  BY <1>1, Invariance, PTL

(* A reset that is answered with 200 has loaded every row of every page    *)
(* exactly once and removed all else, unless its caller went away or an    *)
(* error was left in errChan.                                              *)
THEOREM ResetIsComplete == Spec => []CommitIsComplete
<1>1. Inductive => CommitIsComplete
  BY DEF Inductive
<1> QED
  BY <1>1, Invariance, PTL

(* A reset that runs or has failed has removed nothing, also when SQLite   *)
(* has ended its transaction under the inserters; what it can leave behind *)
(* is rows of pages it fetched, of each once at most, and only after a     *)
(* call has failed or the caller has left.                                 *)
THEOREM FailedResetRemovesNothing == Spec => []FailureRemovesNothing
<1>1. Inductive => FailureRemovesNothing
  BY DEF Inductive
<1> QED
  BY <1>1, Invariance, PTL

(* A reset is answered with 500 only after a call has failed or the caller *)
(* has left.                                                               *)
THEOREM ResetFailsForCause == Spec => []FailureHasCause
<1>1. Inductive => FailureHasCause
  BY DEF Inductive
<1> QED
  BY <1>1, Invariance, PTL

-----------------------------------------------------------------------------
(* The prices.                                                             *)

LEMMA BandOfSeat ==
    ASSUME NEW row \in Nat, NEW seat \in Nat, row >= 1, seat >= 1
    PROVE  IsPriced(SeatIndex(row, seat), CalculateSeatPrice(row, seat))
<1> DEFINE i == SeatIndex(row, seat)
<1>1. i \in Int /\ i >= 1
  BY SMT DEF SeatIndex
<1>2. CalculateSeatPrice(row, seat) =
        CASE i <= 10000 -> 40000
          [] i > 10000 /\ i <= 25000 -> 80000
          [] i > 25000 /\ i <= 45000 -> 120000
          [] i > 45000 /\ i <= 70000 -> 160000
          [] OTHER -> 200000
  BY SMT DEF CalculateSeatPrice, SeatIndex
<1> HIDE DEF i
<1> SUFFICES IsPriced(i, CalculateSeatPrice(row, seat))
  BY SMT DEF i
<1>3. CASE 1 <= i /\ i <= 10000
  <2>1. CalculateSeatPrice(row, seat) = 40000
    BY <1>1, <1>2, <1>3, SMT
  <2>2. PICK band \in Bands : band = [from |-> 1, to |-> 10000, price |-> 40000]
    BY SMT DEF Bands
  <2> QED BY <1>3, <2>1, <2>2, SMT DEF IsPriced
<1>4. CASE 10001 <= i /\ i <= 25000
  <2>1. CalculateSeatPrice(row, seat) = 80000
    BY <1>1, <1>2, <1>4, SMT
  <2>2. PICK band \in Bands : band = [from |-> 10001, to |-> 25000, price |-> 80000]
    BY SMT DEF Bands
  <2> QED BY <1>4, <2>1, <2>2, SMT DEF IsPriced
<1>5. CASE 25001 <= i /\ i <= 45000
  <2>1. CalculateSeatPrice(row, seat) = 120000
    BY <1>1, <1>2, <1>5, SMT
  <2>2. PICK band \in Bands : band = [from |-> 25001, to |-> 45000, price |-> 120000]
    BY SMT DEF Bands
  <2> QED BY <1>5, <2>1, <2>2, SMT DEF IsPriced
<1>6. CASE 45001 <= i /\ i <= 70000
  <2>1. CalculateSeatPrice(row, seat) = 160000
    BY <1>1, <1>2, <1>6, SMT
  <2>2. PICK band \in Bands : band = [from |-> 45001, to |-> 70000, price |-> 160000]
    BY SMT DEF Bands
  <2> QED BY <1>6, <2>1, <2>2, SMT DEF IsPriced
<1>7. CASE 70001 <= i
  BY <1>1, <1>2, <1>7, SMT DEF IsPriced
<1> QED
  BY <1>1, <1>3, <1>4, <1>5, <1>6, <1>7, SMT

(* Where rows and seats are numbered from 1, every seat carries the price  *)
(* of its band, the first and the last seat of each band included.         *)
THEOREM PricesAreOfTheBands ==
    ASSUME SeatsAreNumbered
    PROVE  Spec => []SeatsArePriced
<1>1. ASSUME NEW n \in Page, NEW r \in RowsOfPage(n)
      PROVE  IsPriced(SeatIndex(r.row, r.number), r.price)
  <2>1. PICK place \in Catalogue[n] : r = SeatRow(place)
    BY DEF RowsOfPage
  <2>2. r.row = place.row /\ r.number = place.seat
        /\ r.price = CalculateSeatPrice(place.row, place.seat)
    BY <2>1 DEF SeatRow
  <2>3. place.row \in Nat /\ place.seat \in Nat /\ place.row >= 1 /\ place.seat >= 1
    BY ResetAssumption DEF Place, SeatsAreNumbered
  <2>4. IsPriced(SeatIndex(place.row, place.seat), CalculateSeatPrice(place.row, place.seat))
    BY <2>3, BandOfSeat
  <2> QED BY <2>2, <2>4
<1>2. SeatsArePriced
  BY <1>1 DEF SeatsArePriced
<1> QED
  BY <1>2, PTL
=============================================================================
