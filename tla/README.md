# Verification of the ticket backend

This directory holds a TLA+ model of the backend in `src/backend`, the TLC
configurations that check it on small instances, and TLAPS proofs of all its
safety properties for instances of any size. Paths below are relative to `src/backend` unless they start
with `src/`.

## The system

| part | state | operations | talks to |
|---|---|---|---|
| HTTP handlers (`internal/ports/transport_http.go`) | none of their own; each request has an open transaction and local variables | CreateBooking, SelectSeat, ReleaseSeat, InitiatePayment, CancelBooking, NotifyPaymentFailed, NotifyPaymentCompleted; reads: ListBookings, ListEvents, ListSeats, GetEventAnalytics; ResetDatabase | main database, payment gateway, job queue |
| SQL statements (`internal/sqlc`, `migrations`) | `seats`, `bookings`, `booking_seats`, `booking_payments`, `booking_orders` | one function per statement | called by handlers and workers |
| River workers (`internal/portriver`) | open transaction and local variables of a `Work` method | release seats, select places, confirm order, cancel booking, refund payment | main database, event provider, payment gateway, job queue |
| Job queue (River on a second SQLite file, `internal/dependencies`) | jobs with state and attempt | insert, fetch, complete, retry, discard, rescue | runs the workers |
| Event provider (external, client in `pkg/eventprovider`) | orders and places | start, select, release, get, submit, confirm, cancel | called by workers and by the reset |
| Payment gateway (external, client in `pkg/paymentgateway`) | payments | init, pay (by the customer), cancel; reports to SuccessURL and FailURL | called by InitiatePayment and by the refund worker; calls NotifyPayment* |
| Reset service (`internal/service/reset_service.go`), preloader | goroutines and channels of one reset | clear and reload all seats in one transaction | event provider, main database |
| Routing and authentication (`internal/ports/transport_http.gen.go`, `internal/middleware`, `internal/service/authentication_service.go`) | none | match a route, check the credentials, bind the query parameters | in front of every handler; reads `users` |
| Start and shutdown (`cmd/api`, `cmd/setup`, `cmd/preloader`, `internal/dependencies`, `internal/config`) | the fields of `Dependencies`, five goroutines, `schema_migrations` | construct, migrate, run, stop | all |
| Telemetry (`pkg/telemetry`) | the registered cleanups | start, shut down | main |
| Payment token (`internal/paymenttoken`) | none | a hash | InitiatePayment, refund |

A booking goes CREATED, PAYMENT_INITIATED, then CONFIRMED or CANCELLED. Seats
are attached to it by rows of `booking_seats`, and `seats.status` repeats what
those rows imply. A payment is opened at the gateway while the transaction of
InitiatePayment is open. The gateway later reports success or failure with a GET
request, which changes the booking and only then inserts a job. On success:
*select_seats* (order and places at the provider), then *confirm_order* (submit,
confirm, SOLD). On failure or cancellation: *cancel* (release the places, cancel
the order), then *release_seats* (free the seats). *refund* cancels the payment.

What is hard about it:

- two tables say who has a seat, and five callers update both;
- transactions stay open across HTTP calls, so what they read is old when they
  write, and the only write lock of the database may be held for the whole call;
- jobs live in another database than the data, so commit and insert are never
  atomic, in either order;
- a job is retried from its first line after its external calls had effects;
- a reset runs eight goroutines over two channels and one transaction, and its
  context may end at any moment;
- the lists are paged by separate statements over tables that change;
- migrations are not transactional, and the goroutines of the process end in any
  order;
- reports of the gateway may be repeated, delayed and reordered;
- the process may die anywhere.

Every such place is listed with its line under `hazards` in `PROJECT.json`, with
the properties that watch it.

## Modules

| module | models | notes |
|---|---|---|
| `Environment` | shared parameters, budget of faults | |
| `Sqlite` | transactions of the main database | `writer` holds the write lock; `fresh` are the open transactions whose snapshot is still current |
| `Sqlc` | tables and statements | a query is an operator that returns what it reads, a write returns the new table |
| `River` | the queue and the constructors of the job arguments | `jobs` maps a slot to a job |
| `EventProvider`, `PaymentGateway` | the two external services | what the clients in the code rely on, everything else nondeterministic |
| `HttpServer` | the state-changing handlers | `req` maps a request in flight to its phase and what it has read |
| `Workers` | the five `Work` methods | `work` maps a job to the step and the local variables of its worker |
| `Alem` | the composition, crashes, fairness, properties | |
| `SeatInventory` | the abstract specification of who has a seat and its status | implemented by `Alem` |
| `Claims` | what the documents and comments promise and the code does not do | |
| `Reset` | `Reset` and the handler that calls it, the client's `ListPlaces` | a module of its own, one reset |
| `Access` | router, authentication, binding of query parameters | operators, no state |
| `Reads` | ListEvents, ListSeats, ListBookings, GetEventAnalytics | extends `Access`; the other handlers appear as `Writers` |
| `Process` | `main` of the api and of the preloader, setup, shutdown | requests and jobs only start and end here |
| `MCAlem`, `MCReset`, `MCReads`, `MCProcess` | definitions for TLC | |
| `TypeProofs`, `SeatProofs`, `PaymentProofs`, `OrderProofs`, `InventoryProofs` | theorems about `Alem` | each but the last extends the one before; `InventoryProofs` extends `SeatProofs` |
| `ResetProofs`, `ProcessProofs`, `ReadsProofs` | theorems about `Reset`, `Process`, `Access` and `Reads` | |

**Handlers and workers.** A step is the code up to and including the next call
outside the process, or the commit. CreateBooking, SelectSeat and ReleaseSeat
start with a write and call nothing, so each is one action. InitiatePayment is
`InitiatePayment` (up to the call of the gateway) and `RecordPayment`.
CancelBooking is `CancelCreatedBooking`/`CommitCancel` or
`CancelConfirmedBooking`/`EnqueueRefund`, because each job it inserts is visible
to the queue before the transaction ends. NotifyPayment* are the commit and then
the insertion. A request that fails without an effect is a stutter; one that
fails after an effect is `AbortRequest` (`Interrupted`, `AnswerLost`,
`FailAfterCall` or `Refused` for a worker).

**Seat inventory.** `SeatsAreInventory` is `SeatInventory`'s specification for the
seats that were free when they were loaded (`ForSale`), with `holder` mapped to
the booking of the row of `booking_seats` that has the seat, if there is one, and
`status` to `seats.status`. A seat loaded as RESERVED is left out, because
SelectSeat gives it away unread and so breaks the promise that only FREE seats
are taken. So SelectSeat is a `Take` or
nothing, ReleaseSeat and the releasing worker a `GiveBack` of one seat or of all
the seats the booking has *at that moment* (not of the ones read earlier), the
confirming worker a `Sell` of all of them, and every other step is a stutter.

**Reset.** Each goroutine has a program counter and the page it works on. The
channel of the page numbers is filled before anybody needs it and is just its
head, `nextPage`; `placeChan` is a bounded sequence, `errChan` a flag. The
database is what the transaction sees (`working`) and what others see
(`visible`): which of the five tables still have their old rows, and how often
each page was inserted. `Report` is the non-blocking send: to Reset itself when it is in its
select, else into the channel, else nowhere. All of `ListPlacesWithResponse` is
the set of outcomes a call may have. A transaction begun by `db.Begin()` is not
tied to the context, so a commit succeeds after the caller has left. Its
statements are: an insert is let in (`InsertPlaceChunk`, where `database/sql`
looks at the context and at the transaction) and then waits for the connection
and runs (`ExecuteInsert`). When the context ends during a statement, go-sqlite3
interrupts it and SQLite rolls back the *whole* transaction, as it may after an
I/O error or a full disk; from then on (`lost`) the connection commits every
statement by itself, while the `sql.Tx` still takes statements. The deferred
Rollback is therefore two steps: it keeps new statements out (`Fail`) and waits
for those that were let in (`Rollback`).

**Access and Reads.** A request is a method, a path, an Authorization header
(a scheme and a token that decodes to an email and a password, or does not) and
the values of its parameters: absent, malformed or a value. `Dispatch` returns
the status of a rejected request or the handler with its session. An OPTIONS
request never gets to the router: the CORS handler answers it by its Origin and
by the method and headers it asks for (`PreflightStatus`). `Ask` is a
request with its answer in one step, since every read is one statement;
`WalkOn` asks for the next page of a list. The rows of an event come in the
order of their ids although no statement says ORDER BY: SQLite reads them through
`idx_seats_event`, whose entries for one event are in that order, and nothing
runs ANALYZE; events come in the order of the rows of their FTS table.

**Process.** `step` is where main is; an option or a constructor is the fields of
`Dependencies` it reads and the one it sets, and `nils` remembers who was
constructed from a field that was still nil. Only `schema` survives the
process. The goroutines of the errgroup are program counters over its context
and its first error. Deadlines are an action that may be taken once the wait
has begun.

**Transactions.** The database is in WAL mode and BEGIN is deferred
(`dependencies.go:69`). A transaction that begins with a write waits for the
lock. One that has read cannot wait: its write fails with SQLITE_BUSY if another
one writes or has committed since. The parameter `cache=shared` in the DSN has
no effect: the path of the database has no `file:` prefix (`compose.yaml:6`), so
the driver takes its own parameters and drops the rest. Uncommitted changes of
the lock holder are invisible to others, so the model writes them in the action
that commits.

**Data.** The amount of a payment is the set of seats it was summed over: prices
are positive (`reset_service.go:284`), so the set tells apart more than the sum
does, and "total <= 0" is the empty set. Places of the provider are identified
with seats, ids with model values, and the time-based order id of a payment with
an unused one (two calls of `UnixNano` in the same nanosecond are not modelled).
Bookings exist for good, since the composition has no reset: GetBooking always
finds its row.

**Assumptions about the services.** The gateway may capture a payment after a
declined attempt of the same payment, and reports only what happened to it. That
reports come from the gateway is an assumption: `/api/payments` needs no
authentication (`cmd/api/main.go:136`), and the handlers ask nobody whether a
report is true. Each provider call may have its effect and lose its answer. The
gateway may decline any cancellation, with an error status or in the body of an
answer with status 200. Whether the provider refuses a second cancellation, and
what `places_count` a cancelled order reports, is left open; GetOrder may answer
with an error, whose body decodes to zero values.
River runs a job in one worker at a time, recovers panics, and rescues jobs that
a crash left running.

## Runs

`CHECK_DEADLOCK` is off in the runs of `MCAlem`, because the bounded ids and
reports run out and nobody is obliged to make a request, and in `reset`, which
ends when the reset has. It is on in `reads` and `process`.

| run | instance | shows |
|---|---|---|
| `contention` | 2 users, 2 bookings, 2 seats, 2 requests, 2 jobs | `SeatLedger`, `Inductive`, `AmountIsCurrent`, `SeatsAreInventory` |
| `fulfilment` | 1 booking, 2 orders, 3 jobs, 1 fault, fairness | `SoldIsConfirmed`, `SubmittedIsPaid`, `FulfilmentInductive`, `LockDiscipline`, `JobsSettle`, `LockIsReleased` |
| `reports` | 2 payments, 2 reports each, 2 requests, 3 jobs | `TypeOK`, `PaymentLedger`, `PaymentInductive`, `OnlyPaidIsRefunded` |
| `reset` | 2 fetchers, 2 inserters, 4 pages (one empty), a channel of 1 | `TypeOK`, `CommitIsComplete`, `FailureRemovesNothing`, `FailureHasCause`, `SeatsArePriced`, `Inductive`, `EverythingEnds` |
| `reads` | 3 users, 4 events, 3 seats of one event, 2 bookings, pages of 2 (at most 3) | `TypeOK`, `WalkIsComplete`, `Inductive`, `SessionWhereNeeded`, `OwnBookings`, `AnalyticsAddUp` |
| `process` | 2 connections, 2 jobs, 2 migrations | `TypeOK`, `SchemaIsWhole`, `BuiltFromWhatExists`, `GracefulExit`, `CauseIsKept`, `Inductive`, `ShutdownEnds` |

The properties, in words:

- **SeatLedger**: a seat is in one booking at most; a seat with a row is not
  FREE, a SOLD seat has a row, a seat without one is FREE (unless it was taken
  when it was loaded).
- **LockDiscipline**, **LockIsReleased**: the write lock is held only at a step
  that leads to its release, and is released.
- **AmountIsCurrent**: the amount recorded with a payment is the total at that
  moment, although it was read before the call to the gateway.
- **PaymentLedger**: at most one payment for a booking, and statuses that match.
  It holds through reordered reports because both handlers overwrite both rows.
- **OnlyPaidIsRefunded**: only a payment that is SUCCESS, that the gateway has
  captured and whose booking is CONFIRMED becomes REFUNDED, whatever was reported
  between the worker's read and its update. It does not say that the gateway has
  given the money back: the code does not look (`refund_unchecked`).
- **SoldIsConfirmed**: SOLD only after the provider confirmed an order that
  `booking_orders` has for the booking.
- **SubmittedIsPaid**: no order is submitted for a booking that was not paid, as
  long as reports are the gateway's own. In `fulfilment` a retry has a second order
  to start.
- **JobsSettle**: every job is completed or discarded.
- **SeatsAreInventory**: the refinement above: only a FREE seat is taken, none
  passes from one booking to another, seats of a booking are sold together, and a
  delayed worker frees neither less nor more than the booking has.
- **CommitIsComplete**: a reset answered with 200 has inserted every page exactly
  once and removed everything else, with the two exceptions below.
- **FailureRemovesNothing**, **FailureHasCause**: nobody sees a table emptied by a
  reset that runs or has failed, even when SQLite ends its transaction; such a
  reset leaves behind rows of fetched pages at most, once each, and only after a
  failed call or the end of its context. A reset fails only because a call
  outside the process failed or its caller left. (That a failed reset changes
  nothing at all is refuted by `reset_interrupted`.)
- **SeatsArePriced**: the price bands are those the comments of
  `calculateSeatPrice` give, checked at both ends of each band (the last has no
  end).
- **EverythingEnds**: Reset returns and leaves no goroutine behind on a channel.
- **WalkIsComplete**: a client that asks for page after page until an empty one
  sees every matching row once, for page sizes that are absent, accepted and
  replaced by the default, while the seats change hands. It checks the arithmetic
  of the pages; that every statement returns its rows in the order of their ids
  is an assumption about SQLite's plan.
- **SessionWhereNeeded**: no handler that needs a session runs without one.
- **OwnBookings**, **AnalyticsAddUp**: the bookings listed are exactly the
  caller's, with the seats of that moment, also none; the counts of an event add
  up, also without any seat.
- **SchemaIsWhole**: a process started with the migrations serves only on a
  schema that has them all, however earlier processes ended.
- **BuiltFromWhatExists**: nothing that handles requests or jobs was constructed
  from a nil field, apart from the two workers of `nil_client`.
- **GracefulExit**, **CauseIsKept**, **ShutdownEnds**: a shutdown ends, cuts off
  no job and only requests that outlast the deadline, calls the cleanup of the
  telemetry once (whether it can flush is not said), and reports what brought it
  about.
- **Inductive** (of `Alem`, `Reset`, `Reads` and `Process`),
  **PaymentInductive**, **FulfilmentInductive**: the inductive invariants of the
  proofs, explained there.

Bounds: in `contention` two users, bookings and requests make the races over a
seat, and two seats make bookings of several seats, which are given back one by
one or all at once and sold together. Slots of the queue are used again, so two
or three jobs at a time still are all the jobs of a booking; cancelling a booking
that is CONFIRMED needs three slots and happens in `fulfilment` and `reports`,
whose inductive invariants contain the one of `contention`. In the runs every
seat is free when it is loaded and has a place at the provider; seats that do not
are left to the theorems.
Two attempts (River: 25) make both a retry and a discard happen;
two running workers (configuration: 5) are the smallest number that interleaves;
one fault is one crash, one lost answer or one failed insert at any step. `Room`
keeps a handler from starting when the queue has no slot for the jobs it and
the workers will insert, so that the bound on slots blocks nobody half way.
In `reset`, two of each kind of goroutine and a channel smaller than the number
of pages make every blocking and every order of sends and errors happen (the
code has 5, 3, 100 pages and 10); more of them add no other situation. In
`reads`, one row more than a page has makes a second page, a requested size
above the maximum falls back to the default, and dates and words select all,
some and none. In `process`, two migrations (the code has four) have a state
between them; two jobs and two connections outlive each other.

Requests, users and seats are symmetric where no seat is special; ids picked by
a CHOOSE are not in the symmetry sets.

Each passing property has a mutant in `PROJECT.json`: an operator next to the
definition it replaces (marked "Mutant") which has a plausible bug, such as a
missing rollback or a read outside the transaction, and which TLC refutes.

**Fairness** (`fulfilment` and the runs of claims).
A request that has started goes on (`net/http` runs the handler to its end), a
worker goes on (every HTTP call and transaction ends, at the latest with the
job's timeout), and a job left running is rescued: weak fairness. River fetches
available jobs oldest first whenever a slot is free, so no job is passed over
forever: strong fairness, since the slots may be taken and freed. Users,
customers and the gateway owe nothing.
In `Reset` every goroutine goes on and every call ends, with an answer or an error:
weak fairness of each. In `Process` main and the five goroutines go on, a deadline
passes once its wait has begun, and a job whose context is cancelled returns
(all its calls take that context); nothing is assumed of the handlers of
requests, whose call of the payment gateway may hang.

### Where the code does something else than is said of it

Each claim in `Claims` quotes its line and is refuted by a run of its own.

| run | said | what happens |
|---|---|---|
| `cancel_created` | "Если CREATED -> Освободить места" (`transport_http.go:243`) | the job frees seats only if the booking is still CREATED, and it has just been made CANCELLED |
| `nil_client` | paid seats become SOLD (`src/README.md:146`) | two workers are built with a nil queue client (`main.go:91`, `main.go:101`); the confirm job is never inserted |
| `busy_confirm` | "update them to SOLD" (`portriver_eventprovider_confirm.go:123`) | the update meets SQLITE_BUSY after the provider has confirmed, the retry sees CONFIRMED and returns nil, and the seats stay RESERVED |
| `payment_failed` | "места освобождаются" (`openapi.json:565`) | no place was selected yet, so releasing it is refused and the job gives up |
| `refund_unchecked` | "check if it was successful" (`portriver_payment_refund.go:95`) | the answer is decoded and not looked at; one that says `success = false` is recorded as REFUNDED |
| `reset_interrupted` | the reset works in one transaction (`reset_service.go:42`, `:180`) | an insert interrupted by the end of the context ends the transaction in SQLite, and a waiting insert commits its page although the reset fails |

`payment_failed` depends on the provider refusing to release a place nobody
selected; by the same rule the places of a confirmed order are not released when
a paid booking is cancelled, and its seats stay SOLD although
`src/README.md:304` has them FREE. `busy_confirm` needs only another booking
that commits between two steps of the worker. In `reset_interrupted` no call
fails: the caller leaves.

More disagreements are visible in single definitions and have no run of their own:

- `SelectSeat` overwrites the status of a seat it has not read, although
  `src/README.md:374` updates only FREE seats and answers 419 otherwise: a seat
  loaded as RESERVED is given away. `SeatLedger` and `SeatsAreInventory` except
  these seats.
- `CancelBookingRow` does not touch a CONFIRMED row (`bookings.sql.go:18`),
  although `openapi.json:399` says "Бронирование отменено": a paid booking that is
  cancelled stays CONFIRMED while its payment becomes REFUNDED, and a late report
  may confirm it again. `PaymentLedger` permits this.
- `Reset` commits although not "All workers completed successfully"
  (`reset_service.go:177`), in the two cases below that `CommitIsComplete` excepts.
- `CallGetOrder` compares the number of places once, before `CallSubmitOrder`, so a
  cancelling worker can release a place in between.

The workers have a queue client in every run but
`nil_client`, so that the code behind that defect is checked too.

### What the runs of the other modules show besides their properties

- A reset can commit a partial load in two cases, which `CommitIsComplete` names
  as exceptions; without either of them TLC refutes it. If the caller leaves when the inserters have nothing in hand,
  the fetchers end without an error, the inserters find the channel closed and
  empty, and Reset commits what there is. And if a goroutine leaves its error in
  `errChan` while all others end before Reset reaches its select, both cases
  of the select are ready and it may take `doneChan`.
- Telemetry is shut down as soon as the context is cancelled, while requests are
  still being drained: what they trace afterwards is lost.
- Signals before the signal goroutine has registered, and a return of main
  before the errgroup, do not run any cleanup: telemetry is not shut down, and
  `deps.Close` is called nowhere but on an error that has already set it to nil.
- The preloader applies no migrations and has no telemetry.

## Proofs

Every invariant, action property and refinement that a passing run checks is a
theorem; only liveness is not. The inductive invariants are invariants of the
runs too, so TLC and the prover look at the same formulas.

Assumptions, all on constants and evaluated by TLC in the runs of their modules:
`ParametersAssumption`, `RiverAssumption` and `ClientAssumption` for `Alem` (ids
of different kinds differ, seats and job slots are finite, at least one attempt
and one worker); `ResetAssumption` for `Reset` (a page is a set of places, there
is a fetcher, an inserter and a slot in the channel); `ProcessAssumption` for
`Process` (the number of migrations); `UsersAssumption`, `NoneAssumption`,
`RowsAssumption` and `RequestsAssumption` for `Access` and `Reads` (keys are
unique, NULL is no value, the default page size is within the maximum, a query
has the parameters of the API). They leave open the size of everything and the
order of everything.

### The composition

- `Typing` (`TypeProofs`): `TypeOK`, `References` and `QueueOK`. `TypeOK` is not
  inductive: that a job's booking exists comes from the request or the payment
  row it was made from, and that an attempt does not exceed `MaxAttempts` from
  the queue. The invariant is split by component (tables, transactions,
  requests, queue with workers, services), there is a lemma for every statement
  and every action, and `RefundReferences` (the payment a refund worker holds
  has a row) is carried along because `UpdateBookingPaymentStatus` would
  otherwise create one.
- `Invariance` (`SeatProofs`): `Inductive`. `SeatLedger` alone is not inductive,
  since `ReleaseSeats` frees the seats it read earlier. It needs
  `SnapshotsCurrent`: while a snapshot is current, what was read is what the
  tables say. That survives the steps of others only because all changes are made
  under the lock and outdate every snapshot, and the releasing worker is not the
  lock holder when it writes, which is `LockDiscipline`. `SeatsAgree` and
  `LockIsHeldToRelease` follow, and so does `AmountsAreCurrent`, `RecordPayment`
  being the only step that adds a payment.
- `InventoryIsImplemented` (`InventoryProofs`): the refinement
  `SeatsAreInventory`. Four actions write seats (`SeatWriters`); for each there
  is a lemma that its effect on `booking_seats` and `seats.status` is an action
  of the inventory, everything else is a stutter. `SeatLedger` makes the mapping
  work (a seat has one row at most, so the mapping's CHOOSE finds it), and
  `SnapshotsCurrent` makes the late release of a worker a `GiveBack` of exactly
  what the booking has. The ledger's last conjunct makes a seat for sale that
  nobody has FREE when it is taken, though SelectSeat never looks.
- `PaymentInvariance`, `PaymentsAgree`, `RefundsAreOfPaid` (`PaymentProofs`).
  `PaymentLedger` would break if RecordPayment or CommitCancel wrote over a
  status it has not seen, or two requests recorded the same id. So
  `PaymentInductive` adds `StatusSnapshots` (who may still write finds the
  status it has read), `LockHolders` (who is between the first write and the
  commit has the lock, so nobody else changes a status meanwhile),
  `PaymentIds` (the gateway knows every id in use, so it gives out no used one)
  and `SuccessIsCaptured` (a SUCCESS goes back to a genuine report). For
  `RefundsAreOfPaid` the refunding worker's update needs `StatusSnapshots`: the
  SUCCESS it read before its call is still there, or the update is refused.
- `FulfilmentInvariance`, `OnlyConfirmedIsSold`, `OnlyPaidIsSubmitted`
  (`OrderProofs`). The two properties say nothing of what the jobs will do; the
  conjunct `FulfilmentChain` follows the payment from the report through the
  request, the selecting job, the row of `booking_orders` and the confirming
  job. It holds through retries and crashes because its parts never become false
  again: a captured payment, a row of `booking_orders` and a confirmed order stay.

### The other modules

- `Invariance` (`ResetProofs`), for any number of goroutines and pages and any
  capacity of `placeChan`. `CommitIsComplete` needs to know where a page is:
  `PagesOK` (with one goroutine, in the channel once, or in `seats` once),
  `NothingLost` (as long as there is no error and the caller stays, a page that was
  taken is in one of these places, and a goroutine ends only when there is nothing
  left for it) and `MonitorOK` (doneChan is closed after all have ended).
  `FailureHasCause` needs `CausesOK` (each report and each cancellation goes back
  to a failed call or to the caller), `CancelOK` (before the commit, the context
  ends only with an error left in `errChan`) and `ClearingOK` (the order of the
  DELETEs respects the foreign keys, so none of them fails by itself).
  `TransactionOK` follows the connection: until the transaction is lost nobody
  else sees its work, from then on everybody does; it is lost only to a failure or
  to the end of the context, and no statement outlives Reset. So a commit that
  succeeds is one of an unbroken transaction, and what a failure leaves is
  inserts into the old tables.
  `ResetIsComplete`, `FailedResetRemovesNothing`, `ResetFailsForCause` and
  `TypeInvariance` follow. `PricesAreOfTheBands` has the hypothesis `SeatsAreNumbered`: the
  provider numbers rows and seats from 1, which the code takes for granted
  (with a row 0 the price would be that of the first band).
- `Invariance` (`ProcessProofs`), for any number of migrations, connections and
  jobs. Its parts are `MainOK` (before the group starts, nothing has happened to
  what the goroutines work with), `PartsOK` (the options applied have left their
  fields), `TelemetryOK` (a cleanup is registered or has run, once), `GroupOK`
  (the group's context and first error go together, a goroutine leaves only when
  its connections or jobs are accounted for) and `MigrationsOK`.
  `ServesOnWholeSchema`, `PartsExist`, `ExitIsGraceful`, `CauseOfTheEnd` and
  `TypeInvariance` follow.
- `Invariance` (`ReadsProofs`), for any tables, page sizes and requests:
  `WalkOK` says that after some pages a client has seen the first rows of the
  list, as many as fit into the pages. It rests on the lemma that a finite set of
  rows has an order by id (the position of a row is the number of rows up to it)
  and on what `Window` cuts out of it. `WalksAreComplete` and `TypeInvariance`
  follow. `SessionsAreThere` is an argument about the router: a route of a
  handler that asks for the session lies outside the exempt prefixes.
  `AnalyticsAreOfAMoment`: the three statuses split the seats of an event.
  `BookingsAreOwn`: grouping by booking leaves one line per booking, with the
  seats whose rows refer to it.

### Only model-checked

The liveness properties `JobsSettle`, `LockIsReleased`, `EverythingEnds` and
`ShutdownEnds`, since the prover does not handle fairness and ENABLED; and the
claims of `Claims`, which are refuted and not proved.

## Not modelled

- The composition of a reset with the other handlers and the queue: `Alem` starts
  from what a reset leaves. Jobs that outlive the rows they refer to end with
  the error of GetBooking.
- Two processes on one database, such as the preloader beside the api.
- The generated clients but for `ListPlaces`: request builders and response types
  without decisions. Most endpoints of the payment gateway are never called.
- Payment tokens (a hash), the exporters of the telemetry, the load tests.
- Connection pools (32 and 5 connections) and timed backoff.
- The width of page numbers (int32 in the query, multiplied as int64, so that the
  offset cannot overflow): a list of more than 2^31 pages.

## Plan

1. (done) `Environment`, `Sqlite`, `Sqlc`, `River`, the services, `HttpServer`,
   `Workers`, `Alem`, `Claims`; the proofs of types and of the seat ledger.
2. (done) `Reset`, `SeatInventory` and its refinement, `Access`, `Reads`,
   `Process`.
3. (done) Proofs of the refinement, the payments, the chain of jobs, `Reset`,
   `Process`, `Access` and `Reads`.
4. Open: liveness stays with TLC. Eight hazards of `PROJECT.json` have no property;
   the note of each says why.
