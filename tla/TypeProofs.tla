----------------------------- MODULE TypeProofs ------------------------------
(***************************************************************************)
(* Type correctness of Alem, for every value of the constants.  The        *)
(* variables keep their types only together with the references between    *)
(* the tables, the requests and the jobs, and with the discipline of the   *)
(* queue, so the inductive invariant has a part for each component:        *)
(* tables, transactions, requests, queue with workers, and the two         *)
(* services.  A lemma for each operation says that it keeps its part; a    *)
(* lemma for each action puts them together.                               *)
(***************************************************************************)
EXTENDS Alem, SequenceTheorems, WellFoundedInduction, TLAPS

TablesInv == SqlcTypeOK /\ PaymentReferences
RequestsInv == HttpTypeOK /\ RequestReferences
QueueInv == RiverTypeOK /\ WorkersTypeOK /\ QueueOK /\ JobReferences

TypeInv ==
    /\ TablesInv /\ SqliteTypeOK /\ RequestsInv /\ QueueInv
    /\ EpTypeOK /\ PgTypeOK /\ faults \in 0..MaxFaults

-----------------------------------------------------------------------------
(* Sqlite.                                                                 *)

LEMMA TransactionTypes ==
    ASSUME SqliteTypeOK, NEW t \in Txs,
           \/ BeginRead(t) \/ Lock(t) \/ CommitChanges
           \/ EndUnchanged(t) \/ CloseAll \/ UNCHANGED txVars
    PROVE  SqliteTypeOK'
BY DEF SqliteTypeOK, BeginRead, Lock, CommitChanges, EndUnchanged, CloseAll, txVars

-----------------------------------------------------------------------------
(* Sqlc: what the statements return has the type of the table.             *)

LEMMA OrderStatements ==
    ASSUME SqlcTypeOK, NEW b \in Bookings, NEW st \in OrderStatus
    PROVE  /\ \A o \in Orders : InsertBookingOrder(b, o, st) \in Seq(BookingOrder)
           /\ UpdateBookingOrderStatus(b, st) \in Seq(BookingOrder)
<1>1. \A o \in Orders : InsertBookingOrder(b, o, st) \in Seq(BookingOrder)
  BY DEF SqlcTypeOK, InsertBookingOrder, BookingOrder
<1>2. orders \in [1..Len(orders) -> BookingOrder] /\ Len(orders) \in Nat
  BY DEF SqlcTypeOK
<1>3. UpdateBookingOrderStatus(b, st) \in [1..Len(orders) -> BookingOrder]
  BY <1>2 DEF UpdateBookingOrderStatus, BookingOrder
<1>4. UpdateBookingOrderStatus(b, st) \in Seq(BookingOrder)
  BY <1>2, <1>3, SeqDef
<1> QED
  BY <1>1, <1>4

(* The first order of a booking is found, if the booking has one.          *)
LEMMA FirstOrder ==
    ASSUME SqlcTypeOK, NEW b
    PROVE  GetBookingOrder(b) \in Orders \cup {None}
<1> DEFINE rows == OrderRowsOfBooking(b)
<1> SUFFICES ASSUME rows # {} PROVE GetBookingOrder(b) \in Orders
  BY DEF GetBookingOrder
<1>1. rows \subseteq Nat /\ \A i \in rows : orders[i].order \in Orders
  <2>1. orders \in [1..Len(orders) -> BookingOrder] /\ Len(orders) \in Nat
    BY DEF SqlcTypeOK
  <2> QED BY <2>1 DEF OrderRowsOfBooking, BookingOrder
<1>2. \E i \in rows : \A k \in rows : i <= k
  <2> DEFINE R == {p \in Nat \X Nat : p[1] < p[2]}
  <2>1. IsWellFoundedOn(R, Nat)
    BY NatLessThanWellFounded, Zenon DEF OpToRel
  <2>2. PICK i \in rows : \A k \in rows : ~ (<<k, i>> \in R)
    <3> HIDE DEF rows, R
    <3> QED BY <1>1, <2>1, WFMin
  <2>3. \A k \in rows : i <= k
    <3> SUFFICES ASSUME NEW k \in rows PROVE i <= k
      OBVIOUS
    <3>1. k \in Nat /\ i \in Nat
      BY <1>1
    <3>2. ~ (k < i)
      BY <2>2, <3>1
    <3> QED BY <3>1, <3>2
  <2> QED BY <2>3
<1> QED
  BY <1>1, <1>2 DEF GetBookingOrder

-----------------------------------------------------------------------------
(* River and the workers.                                                  *)

NewJob(job, b) ==
    /\ job \in Job
    /\ job.state = "available" /\ job.attempt = 0 /\ job.booking = b

LEMMA NewJobs ==
    ASSUME NEW b \in Bookings
    PROVE  /\ \A st \in {None, "CREATED"} : NewJob(ReleaseSeatsArgs(b, st), b)
           /\ NewJob(SelectSeatsArgs(b), b)
           /\ \A o \in Orders \cup {None}, n \in Nat : NewJob(ConfirmOrderArgs(b, o, n), b)
           /\ NewJob(CancelBookingArgs(b), b)
           /\ NewJob(RefundPaymentArgs(b), b)
<1> USE RiverAssumption DEF NewJob, JobOf, Job, JobKinds
<1>1. \A st \in {None, "CREATED"} : NewJob(ReleaseSeatsArgs(b, st), b)
  BY DEF ReleaseSeatsArgs
<1>2. NewJob(SelectSeatsArgs(b), b)
  BY DEF SelectSeatsArgs
<1>3. \A o \in Orders \cup {None}, n \in Nat : NewJob(ConfirmOrderArgs(b, o, n), b)
  <2> SUFFICES ASSUME NEW o \in Orders \cup {None}, NEW n \in Nat
               PROVE  NewJob(ConfirmOrderArgs(b, o, n), b)
    OBVIOUS
  <2> DEFINE job == JobOf("booking.confirm_order", b)
  <2>1. job \in Job /\ job.state = "available" /\ job.attempt = 0 /\ job.booking = b
    OBVIOUS
  <2>2. ConfirmOrderArgs(b, o, n) = [job EXCEPT !.order = o, !.expectedPlaces = n]
    BY DEF ConfirmOrderArgs
  <2> HIDE DEF job
  <2> QED BY <2>1, <2>2
<1>4. NewJob(CancelBookingArgs(b), b)
  BY DEF CancelBookingArgs
<1>5. NewJob(RefundPaymentArgs(b), b)
  BY DEF RefundPaymentArgs
<1> QED
  BY <1>1, <1>2, <1>3, <1>4, <1>5

(* A new job takes a slot that no worker is busy with.                     *)
LEMMA InsertTypes ==
    ASSUME QueueInv, NEW b \in Bookings, NEW job, NewJob(job, b),
           Insert(job), UNCHANGED work
    PROVE  QueueInv'
<1> USE RiverAssumption DEF NewJob
<1>1. PICK i \in Jobs : jobs[i].state = "none" /\ jobs' = [jobs EXCEPT ![i] = job]
  BY DEF Insert, FreeSlots
<1>2. RiverTypeOK' /\ WorkersTypeOK'
  BY <1>1 DEF QueueInv, RiverTypeOK, WorkersTypeOK
<1>3. work[i].step = "idle"
  BY <1>1 DEF QueueInv, QueueOK
<1>4. QueueOK'
  BY <1>1, <1>3 DEF QueueInv, QueueOK, RiverTypeOK
<1>5. JobReferences'
  BY <1>1, <1>3 DEF QueueInv, JobReferences, RiverTypeOK
<1> QED
  BY <1>2, <1>4, <1>5 DEF QueueInv

(* A worker goes on with its job: it keeps it and changes its variables.   *)
LEMMA WorkTypes ==
    ASSUME QueueInv, NEW j \in Jobs, jobs[j].state = "running",
           NEW w \in Local, work' = [work EXCEPT ![j] = w], UNCHANGED jobs,
           /\ jobs[j].kind = "booking.select_seats"
           /\ w.step \in {"insertOrder", "selectPlaces", "enqueue"}
           => w.order \in Orders
    PROVE  QueueInv'
<1>1. RiverTypeOK' /\ WorkersTypeOK'
  BY DEF QueueInv, RiverTypeOK, WorkersTypeOK
<1>2. QueueOK'
  BY DEF QueueInv, QueueOK, WorkersTypeOK
<1>3. JobReferences'
  BY DEF QueueInv, JobReferences, WorkersTypeOK
<1> QED
  BY <1>1, <1>2, <1>3 DEF QueueInv

(* Work inserts its next job, or panics for want of a client.              *)
LEMMA EnqueueNextTypes ==
    ASSUME QueueInv, NEW j \in Jobs, jobs[j].state = "running",
           NEW b \in Bookings, NEW job, NewJob(job, b), Insert(job), GoTo(j, "returned")
    PROVE  QueueInv'
<1> USE RiverAssumption DEF NewJob, GoTo
<1>1. PICK i \in Jobs : jobs[i].state = "none" /\ jobs' = [jobs EXCEPT ![i] = job]
  BY DEF Insert, FreeSlots
<1>2. RiverTypeOK' /\ WorkersTypeOK'
  BY <1>1 DEF QueueInv, RiverTypeOK, WorkersTypeOK, Local, Steps
<1>3. work[i].step = "idle" /\ i # j
  BY <1>1 DEF QueueInv, QueueOK
<1>4. QueueOK'
  BY <1>1, <1>3 DEF QueueInv, QueueOK, RiverTypeOK, WorkersTypeOK
<1>5. JobReferences'
  BY <1>1, <1>3 DEF QueueInv, JobReferences, RiverTypeOK, WorkersTypeOK
<1> QED
  BY <1>2, <1>4, <1>5 DEF QueueInv

(* The job goes back to the queue or leaves it.                            *)
LEMMA RetryTypes ==
    ASSUME QueueInv, NEW j \in Jobs, jobs[j].state = "running",
           NEW w \in Local, w.step = "idle", work' = [work EXCEPT ![j] = w],
           Retry(j) \/ Complete(j)
    PROVE  QueueInv'
<1> USE RiverAssumption
<1>1. PICK job \in Job :
        /\ jobs' = [jobs EXCEPT ![j] = job]
        /\ job.state = "available" =>
             /\ jobs[j].attempt < MaxAttempts /\ job.attempt = jobs[j].attempt
             /\ job.booking = jobs[j].booking
        /\ job.state # "running"
        /\ job.state # "none" => job.state = "available"
  <2>1. NoJob \in Job /\ NoJob.state = "none"
    BY DEF NoJob, JobOf, Job
  <2>2. CASE Complete(j)
    BY <2>1, <2>2 DEF Complete
  <2>3. CASE Retry(j)
    <3>1. jobs[j] \in Job
      BY DEF QueueInv, RiverTypeOK
    <3>2. CASE jobs[j].attempt < MaxAttempts
      <4> DEFINE again == [jobs[j] EXCEPT !.state = "available"]
      <4>1. jobs' = [jobs EXCEPT ![j] = again]
        BY <2>3, <3>2 DEF Retry, QueueInv, RiverTypeOK
      <4>2. /\ again \in Job /\ again.state = "available"
            /\ again.attempt = jobs[j].attempt /\ again.booking = jobs[j].booking
        BY <3>1 DEF Job
      <4> QED BY <3>2, <4>1, <4>2
    <3>3. CASE ~ (jobs[j].attempt < MaxAttempts)
      <4>1. jobs' = [jobs EXCEPT ![j] = NoJob]
        BY <2>3, <3>3 DEF Retry, QueueInv, RiverTypeOK
      <4> QED BY <2>1, <4>1
    <3> QED BY <3>2, <3>3
  <2> QED BY <2>2, <2>3
<1>2. RiverTypeOK' /\ WorkersTypeOK'
  BY <1>1 DEF QueueInv, RiverTypeOK, WorkersTypeOK
<1>3. QueueOK'
  BY <1>1 DEF QueueInv, QueueOK, RiverTypeOK, WorkersTypeOK
<1>4. JobReferences'
  BY <1>1 DEF QueueInv, JobReferences, RiverTypeOK, WorkersTypeOK
<1> QED
  BY <1>2, <1>3, <1>4 DEF QueueInv
(* Work fails or returns nil.                                              *)
LEMMA FailTypes ==
    ASSUME QueueInv, SqliteTypeOK, NEW j \in Jobs, work[j].step # "idle", Fail(j)
    PROVE  QueueInv' /\ SqliteTypeOK'
<1>1. jobs[j].state = "running" /\ NotWorking \in Local /\ NotWorking.step = "idle"
  BY DEF QueueInv, QueueOK, NotWorking, Local
<1>2. QueueInv'
  BY <1>1, RetryTypes DEF Fail
<1>3. SqliteTypeOK'
  BY TransactionTypes DEF Fail, Txs
<1> QED
  BY <1>2, <1>3

LEMMA ReturnTypes ==
    ASSUME QueueInv, NEW j \in Jobs, work[j].step # "idle", Return(j)
    PROVE  QueueInv'
<1> DEFINE w == [work[j] EXCEPT !.step = "returned"]
<1>1. jobs[j].state = "running"
  BY DEF QueueInv, QueueOK
<1>2. w \in Local /\ w.step = "returned" /\ work' = [work EXCEPT ![j] = w]
  BY DEF QueueInv, WorkersTypeOK, Local, Steps, Return, GoTo
<1> QED
  BY <1>1, <1>2, WorkTypes DEF Return

-----------------------------------------------------------------------------
(* Requests.                                                               *)

LEMMA RequestTypes ==
    ASSUME RequestsInv, NEW r \in Requests
    PROVE  /\ Respond(r) => RequestsInv'
           /\ \A phase \in Phases, b \in Bookings : Enter(r, phase, b) => RequestsInv'
           /\ UNCHANGED req => RequestsInv'
<1> USE DEF RequestsInv, HttpTypeOK, RequestReferences, Request, Idle, IsIdle, InPhase
<1>1. Respond(r) => RequestsInv'
  BY DEF Respond
<1>2. \A phase \in Phases, b \in Bookings : Enter(r, phase, b) => RequestsInv'
  <2> SUFFICES ASSUME NEW phase \in Phases, NEW b \in Bookings, Enter(r, phase, b)
               PROVE  RequestsInv'
    OBVIOUS
  <2> DEFINE q == [Idle EXCEPT !.phase = phase, !.booking = b]
  <2>1. q \in Request /\ q.booking = b
    OBVIOUS
  <2>2. req' = [req EXCEPT ![r] = q]
    BY DEF Enter
  <2> HIDE DEF q
  <2> QED BY <2>1, <2>2
<1>3. UNCHANGED req => RequestsInv'
  OBVIOUS
<1> QED
  BY <1>1, <1>2, <1>3
-----------------------------------------------------------------------------
(* The services, and what an action leaves alone.                          *)

LEMMA ServiceTypes ==
    ASSUME EpTypeOK, PgTypeOK
    PROVE  /\ \A o : StartOrder(o) \/ SubmitOrder(o) \/ ConfirmOrder(o)
                      \/ CancelOrder(o) => EpTypeOK'
           /\ \A o \in Orders, s \in Seats : SelectPlace(s, o) => EpTypeOK'
           /\ \A s \in Seats : ReleasePlace(s) => EpTypeOK'
           /\ \A p \in PayIds : InitPayment(p) \/ Decline(p) \/ Capture(p)
                                \/ CancelPayment(p) => PgTypeOK'
           /\ \A event : \A p \in PayIds : Report(p, event) => PgTypeOK'
<1>1. \A o : StartOrder(o) \/ SubmitOrder(o) \/ ConfirmOrder(o)
              \/ CancelOrder(o) => EpTypeOK'
  BY DEF EpTypeOK, StartOrder, SubmitOrder, ConfirmOrder, CancelOrder
<1>2. \A o \in Orders, s \in Seats : SelectPlace(s, o) => EpTypeOK'
  BY DEF EpTypeOK, SelectPlace
<1>3. \A s \in Seats : ReleasePlace(s) => EpTypeOK'
  BY DEF EpTypeOK, ReleasePlace
<1>4. \A p \in PayIds : InitPayment(p) \/ Decline(p) \/ Capture(p)
                        \/ CancelPayment(p) => PgTypeOK'
  BY DEF PgTypeOK, InitPayment, Decline, Capture, CancelPayment, Record
<1>5. \A event : \A p \in PayIds : Report(p, event) => PgTypeOK'
  BY ParametersAssumption DEF PgTypeOK, Report
<1> QED
  BY <1>1, <1>2, <1>3, <1>4, <1>5

LEMMA UnchangedTypes ==
    ASSUME TypeInv
    PROVE  /\ UNCHANGED dbVars => TablesInv'
           /\ UNCHANGED txVars => SqliteTypeOK'
           /\ UNCHANGED req => RequestsInv'
           /\ UNCHANGED <<jobs, work>> => QueueInv'
           /\ UNCHANGED epVars => EpTypeOK'
           /\ UNCHANGED pgVars => PgTypeOK'
           /\ UNCHANGED faults \/ Fault \/ NoFault => (faults \in 0..MaxFaults)'
<1> USE DEF TypeInv
<1>1. UNCHANGED dbVars => TablesInv'
  BY DEF TablesInv, SqlcTypeOK, PaymentReferences, IsPayment, dbVars
<1>2. UNCHANGED txVars => SqliteTypeOK'
  BY DEF SqliteTypeOK, txVars
<1>3. UNCHANGED req => RequestsInv'
  BY DEF RequestsInv, HttpTypeOK, RequestReferences, IsIdle, InPhase
<1>4. UNCHANGED <<jobs, work>> => QueueInv'
  BY DEF QueueInv, RiverTypeOK, WorkersTypeOK, QueueOK, JobReferences
<1>5. UNCHANGED epVars => EpTypeOK'
  BY DEF EpTypeOK, epVars
<1>6. UNCHANGED pgVars => PgTypeOK'
  BY DEF PgTypeOK, pgVars
<1>7. UNCHANGED faults \/ Fault \/ NoFault => (faults \in 0..MaxFaults)'
  BY ParametersAssumption DEF Fault, NoFault
<1> QED
  BY <1>1, <1>2, <1>3, <1>4, <1>5, <1>6, <1>7

-----------------------------------------------------------------------------
(* The actions of the HTTP server.                                         *)

LEMMA CreateBookingTypes ==
    ASSUME TypeInv, NEW u \in Users, CreateBooking(u), UNCHANGED <<epVars, work>>
    PROVE  TypeInv'
<1>1. PICK b \in Bookings : bookings' = CreateBookingRow(b, u)
  BY DEF CreateBooking, UnusedBookings
<1>2. bookings' \in [Bookings -> Booking]
  BY <1>1 DEF TypeInv, TablesInv, SqlcTypeOK, CreateBookingRow, Booking, BookingStatus
<1>3. TablesInv'
  BY <1>2 DEF CreateBooking, TypeInv, TablesInv, SqlcTypeOK, PaymentReferences, IsPayment
<1>4. SqliteTypeOK'
  BY DEF CreateBooking, TypeInv, SqliteTypeOK, CommitChanges
<1> QED
  BY <1>3, <1>4, UnchangedTypes DEF CreateBooking, TypeInv

LEMMA SeatActionsTypes ==
    ASSUME TypeInv, NEW u \in Users, NEW s \in Seats, UNCHANGED <<epVars, work>>,
           ReleaseSeat(u, s) \/ \E b \in Bookings : SelectSeat(u, b, s)
    PROVE  TypeInv'
<1>1. CASE ReleaseSeat(u, s)
  <2>1. TablesInv'
    BY <1>1 DEF ReleaseSeat, TypeInv, TablesInv, SqlcTypeOK, PaymentReferences, IsPayment,
                DeleteBookingSeat, UpdateSeatStatus, SeatStatus
  <2>2. SqliteTypeOK'
    BY <1>1 DEF ReleaseSeat, TypeInv, SqliteTypeOK, CommitChanges
  <2> QED BY <1>1, <2>1, <2>2, UnchangedTypes DEF ReleaseSeat, TypeInv
<1>2. ASSUME NEW b \in Bookings, SelectSeat(u, b, s) PROVE TypeInv'
  <2>1. TablesInv'
    BY <1>2 DEF SelectSeat, TypeInv, TablesInv, SqlcTypeOK, PaymentReferences, IsPayment,
                InsertBookingSeat, BookingSeat, UpdateSeatStatus, SeatStatus
  <2>2. SqliteTypeOK'
    BY <1>2 DEF SelectSeat, TypeInv, SqliteTypeOK, CommitChanges
  <2> QED BY <1>2, <2>1, <2>2, UnchangedTypes DEF SelectSeat, TypeInv
<1> QED
  BY <1>1, <1>2

LEMMA InitiatePaymentTypes ==
    ASSUME TypeInv, NEW r \in Requests, NEW u \in Users, NEW b \in Bookings,
           InitiatePayment(r, u, b), UNCHANGED <<epVars, work>>
    PROVE  TypeInv'
<1> DEFINE p == CHOOSE q \in UnusedPayIds : TRUE
           q == [phase |-> "gateway", booking |-> b, pay |-> p, amount |-> GetBookingTotal(b)]
<1>1. p \in PayIds
  BY DEF InitiatePayment, UnusedPayIds
<1>2. InitPayment(p) /\ req' = [req EXCEPT ![r] = q]
  BY DEF InitiatePayment
<1>3. q \in Request /\ q.booking \in Bookings
  BY <1>1 DEF TypeInv, TablesInv, SqlcTypeOK, Request, Phases, GetBookingTotal,
              GetBookingSeats, RowsOfBooking, BookingSeat
<1>4. RequestsInv'
  <2> HIDE DEF q
  <2> QED BY <1>2, <1>3 DEF TypeInv, RequestsInv, HttpTypeOK, RequestReferences,
                              IsIdle, InPhase
<1>5. PgTypeOK'
  BY <1>1, <1>2, ServiceTypes DEF TypeInv
<1>6. SqliteTypeOK'
  BY TransactionTypes DEF TypeInv, InitiatePayment, Txs
<1> QED
  BY <1>4, <1>5, <1>6, UnchangedTypes DEF InitiatePayment, TypeInv

LEMMA CancelRequestTypes ==
    ASSUME TypeInv, NEW r \in Requests, NEW u \in Users, NEW b \in Bookings,
           CancelCreatedBooking(r, u, b) \/ CancelConfirmedBooking(r, u, b),
           UNCHANGED <<epVars, work>>
    PROVE  TypeInv'
<1>1. PICK job : NewJob(job, b) /\ Insert(job)
  <2>1. CASE CancelCreatedBooking(r, u, b)
    <3>1. NewJob(ReleaseSeatsArgs(b, "CREATED"), b)
      BY NewJobs
    <3> QED BY <2>1, <3>1 DEF CancelCreatedBooking
  <2>2. CASE CancelConfirmedBooking(r, u, b)
    BY <2>2, NewJobs DEF CancelConfirmedBooking
  <2> QED BY <2>1, <2>2
<1>2. QueueInv'
  BY <1>1, InsertTypes DEF TypeInv
<1>3. SqliteTypeOK'
  BY TransactionTypes DEF TypeInv, CancelCreatedBooking, CancelConfirmedBooking, Txs
<1>4. RequestsInv'
  BY RequestTypes DEF TypeInv, CancelCreatedBooking, CancelConfirmedBooking, Phases
<1> QED
  BY <1>2, <1>3, <1>4, UnchangedTypes
     DEF TypeInv, CancelCreatedBooking, CancelConfirmedBooking

LEMMA ReportTypes ==
    ASSUME TypeInv, NEW r \in Requests, NEW p \in PayIds,
           NotifyPaymentFailed(r, p) \/ NotifyPaymentCompleted(r, p),
           UNCHANGED <<epVars, work>>
    PROVE  TypeInv'
<1> DEFINE b == GetBookingByPaymentOrderID(p)
<1>1. IsPayment(p) /\ b \in Bookings
  BY DEF NotifyPaymentFailed, NotifyPaymentCompleted, TypeInv, TablesInv,
         PaymentReferences, GetBookingByPaymentOrderID
<1>2. PICK st \in {"SUCCESS", "FAIL"}, bst \in {"CONFIRMED", "CANCELLED"}, phase \in Phases :
        /\ payments' = UpdateBookingPaymentStatus(p, st)
        /\ bookings' = UpdateBookingStatus(b, bst)
        /\ Enter(r, phase, b)
  BY DEF NotifyPaymentFailed, NotifyPaymentCompleted, Phases
<1>3. UNCHANGED <<bookingSeats, seatStatus, orders, jobs, faults>> /\ CommitChanges
  BY DEF NotifyPaymentFailed, NotifyPaymentCompleted
<1>4. TablesInv'
  BY <1>1, <1>2, <1>3
     DEF TypeInv, TablesInv, SqlcTypeOK, PaymentReferences, IsPayment, Payment, PaymentStatus,
         UpdateBookingPaymentStatus, UpdateBookingStatus, Booking, BookingStatus
<1>5. SqliteTypeOK'
  BY <1>3 DEF TypeInv, SqliteTypeOK, CommitChanges
<1>6. RequestsInv'
  BY <1>1, <1>2, RequestTypes DEF TypeInv
<1>7. PgTypeOK'
  BY ServiceTypes DEF TypeInv, NotifyPaymentFailed, NotifyPaymentCompleted
<1> QED
  BY <1>3, <1>4, <1>5, <1>6, <1>7, UnchangedTypes DEF TypeInv

(* The later steps of a request.                                           *)
LEMMA HttpStepTypes ==
    ASSUME TypeInv, NEW r \in Requests, HttpStep(r), UNCHANGED <<epVars, work>>
    PROVE  TypeInv'
<1> DEFINE b == req[r].booking
<1>1. ~IsIdle(r)
  BY DEF HttpStep, RecordPayment, CommitCancel, EnqueueRefund, EnqueueCancel,
         EnqueueSelect, AbortRequest, IsIdle, InPhase
<1>2. b \in Bookings /\ req[r] \in Request
  BY <1>1 DEF TypeInv, RequestsInv, RequestReferences, HttpTypeOK
<1>3. Respond(r) /\ RequestsInv'
  BY RequestTypes DEF TypeInv, HttpStep, RecordPayment, CommitCancel, EnqueueRefund,
         EnqueueCancel, EnqueueSelect, AbortRequest
<1>4. SqliteTypeOK'
  BY TransactionTypes DEF TypeInv, HttpStep, RecordPayment, CommitCancel, EnqueueRefund,
         EnqueueCancel, EnqueueSelect, AbortRequest, Txs
<1>5. CASE RecordPayment(r)
  <2>1. payments' \in [PayIds -> Payment] /\ PaymentReferences'
    BY <1>2, <1>5 DEF RecordPayment, TypeInv, TablesInv, SqlcTypeOK, PaymentReferences,
         IsPayment, Request, Payment, PaymentStatus, InsertBookingPayment
  <2>2. bookings' \in [Bookings -> Booking]
    BY <1>2, <1>5 DEF RecordPayment, TypeInv, TablesInv, SqlcTypeOK,
         UpdateBookingStatus, Booking, BookingStatus
  <2>3. TablesInv'
    BY <1>5, <2>1, <2>2 DEF RecordPayment, TypeInv, TablesInv, SqlcTypeOK
  <2> QED BY <1>3, <1>4, <1>5, <2>3, UnchangedTypes DEF TypeInv, RecordPayment
<1>6. CASE CommitCancel(r)
  <2>1. TablesInv'
    BY <1>2, <1>6 DEF CommitCancel, TypeInv, TablesInv, SqlcTypeOK, PaymentReferences,
         IsPayment, CancelBookingRow, Booking, BookingStatus
  <2> QED BY <1>3, <1>4, <1>6, <2>1, UnchangedTypes DEF TypeInv, CommitCancel
<1>7. CASE EnqueueRefund(r) \/ EnqueueCancel(r) \/ EnqueueSelect(r)
  <2>1. PICK job : NewJob(job, b) /\ Insert(job)
    BY <1>2, <1>7, NewJobs DEF EnqueueRefund, EnqueueCancel, EnqueueSelect
  <2>2. QueueInv'
    BY <1>2, <2>1, InsertTypes DEF TypeInv
  <2> QED BY <1>3, <1>4, <1>7, <2>2, UnchangedTypes
          DEF TypeInv, EnqueueRefund, EnqueueCancel, EnqueueSelect
<1>8. CASE AbortRequest(r)
  BY <1>3, <1>4, <1>8, UnchangedTypes DEF TypeInv, AbortRequest
<1> QED
  BY <1>5, <1>6, <1>7, <1>8 DEF HttpStep
-----------------------------------------------------------------------------
(* The actions of the workers and of the queue.                            *)

LEMMA RunningJob ==
    ASSUME TypeInv, NEW j \in Jobs, work[j].step # "idle"
    PROVE  /\ jobs[j].state = "running" /\ jobs[j] \in Job
           /\ work[j] \in Local /\ BookingOf(j) \in Bookings
BY DEF TypeInv, QueueInv, QueueOK, RiverTypeOK, WorkersTypeOK, JobReferences, BookingOf

LEMMA GoToTypes ==
    ASSUME TypeInv, NEW j \in Jobs, work[j].step # "idle",
           NEW step \in Steps, GoTo(j, step), UNCHANGED jobs,
           /\ jobs[j].kind = "booking.select_seats"
           /\ step \in {"insertOrder", "selectPlaces", "enqueue"}
           => work[j].order \in Orders
    PROVE  QueueInv'
<1> DEFINE w == [work[j] EXCEPT !.step = step]
<1>1. w \in Local /\ w.step = step /\ w.order = work[j].order
  BY RunningJob DEF Local
<1>2. work' = [work EXCEPT ![j] = w]
  BY DEF TypeInv, QueueInv, WorkersTypeOK, GoTo
<1> HIDE DEF w
<1> QED
  BY <1>1, <1>2, RunningJob, WorkTypes DEF TypeInv

LEMMA StartWorkTypes ==
    ASSUME TypeInv, NEW j \in Jobs, StartWork(j), UNCHANGED req
    PROVE  TypeInv'
<1> USE RiverAssumption
<1> DEFINE job == [jobs[j] EXCEPT !.state = "running", !.attempt = jobs[j].attempt + 1]
           w == [work[j] EXCEPT !.step = "begin"]
<1>1. jobs[j].state = "available" /\ jobs[j] \in Job /\ jobs[j].attempt < MaxAttempts
  BY DEF StartWork, Fetch, TypeInv, QueueInv, QueueOK, RiverTypeOK
<1>2. job \in Job /\ job.state = "running" /\ job.booking = jobs[j].booking
  <2>1. jobs[j].attempt + 1 \in 0..MaxAttempts
    BY <1>1 DEF Job
  <2> QED BY <1>1, <2>1 DEF Job
<1>3. jobs' = [jobs EXCEPT ![j] = job]
  BY DEF StartWork, Fetch, TypeInv, QueueInv, RiverTypeOK
<1>4. w \in Local /\ w.step = "begin" /\ work' = [work EXCEPT ![j] = w]
  BY DEF StartWork, GoTo, TypeInv, QueueInv, WorkersTypeOK, Local, Steps
<1>5. QueueInv'
  <2> HIDE DEF job, w
  <2>1. RiverTypeOK' /\ WorkersTypeOK'
    BY <1>2, <1>3, <1>4 DEF TypeInv, QueueInv, RiverTypeOK, WorkersTypeOK
  <2>2. QueueOK'
    BY <1>2, <1>3, <1>4 DEF TypeInv, QueueInv, QueueOK, RiverTypeOK, WorkersTypeOK
  <2>3. JobReferences'
    BY <1>1, <1>2, <1>3, <1>4
       DEF TypeInv, QueueInv, JobReferences, RiverTypeOK, WorkersTypeOK
  <2> QED BY <2>1, <2>2, <2>3 DEF QueueInv
<1> QED
  BY <1>5, UnchangedTypes DEF TypeInv, StartWork

(* FinishWork and Rescue.                                                  *)
LEMMA SettleTypes ==
    ASSUME TypeInv, NEW j \in Jobs, FinishWork(j) \/ Rescue(j), UNCHANGED req
    PROVE  TypeInv'
<1>1. CASE FinishWork(j)
  <2>1. jobs[j].state = "running"
    BY <1>1, RunningJob DEF FinishWork
  <2>2. NotWorking \in Local /\ NotWorking.step = "idle"
    BY DEF NotWorking, Local
  <2>3. QueueInv'
    BY <1>1, <2>1, <2>2, RetryTypes DEF TypeInv, FinishWork
  <2> QED BY <1>1, <2>3, UnchangedTypes DEF TypeInv, FinishWork
<1>2. CASE Rescue(j)
  <2>1. work[j] \in Local /\ work' = [work EXCEPT ![j] = work[j]]
    BY <1>2 DEF Rescue, TypeInv, QueueInv, WorkersTypeOK
  <2>2. QueueInv'
    BY <1>2, <2>1, RetryTypes DEF TypeInv, Rescue
  <2> QED BY <1>2, <2>2, UnchangedTypes DEF TypeInv, Rescue
<1> QED
  BY <1>1, <1>2

LEMMA InterruptedTypes ==
    ASSUME TypeInv, NEW j \in Jobs, Interrupted(j), UNCHANGED req
    PROVE  TypeInv'
<1>1. Fail(j) /\ work[j].step # "idle"
  BY DEF Interrupted
<1>2. QueueInv' /\ SqliteTypeOK'
  BY <1>1, FailTypes DEF TypeInv
<1> QED
  BY <1>2, UnchangedTypes DEF TypeInv, Interrupted

(* ReleaseSeatsWorker.                                                     *)
LEMMA ReleaseWorkerTypes ==
    ASSUME TypeInv, NEW j \in Jobs, ReadForRelease(j) \/ ReleaseSeats(j), UNCHANGED req
    PROVE  TypeInv'
<1>1. work[j].step # "idle" /\ jobs[j].kind = "booking.release_seats"
  BY DEF ReadForRelease, ReleaseSeats, At
<1>2. BookingOf(j) \in Bookings /\ jobs[j].state = "running" /\ work[j] \in Local
  BY <1>1, RunningJob
<1>3. SqliteTypeOK'
  BY TransactionTypes DEF TypeInv, ReadForRelease, ReleaseSeats, Txs
<1>4. CASE Return(j)
  <2>1. QueueInv'
    BY <1>1, <1>4, ReturnTypes DEF TypeInv
  <2>2. CASE ReadForRelease(j)
    BY <1>3, <2>1, <2>2, UnchangedTypes DEF TypeInv, ReadForRelease
  <2>3. CASE ReleaseSeats(j)
    <3>1. TablesInv'
      BY <2>3 DEF ReleaseSeats, TypeInv, TablesInv, SqlcTypeOK, PaymentReferences, IsPayment,
           DeleteBookingSeats, UpdateSeatsStatusByIDs, SeatStatus
    <3> QED BY <1>3, <2>1, <2>3, <3>1, UnchangedTypes DEF TypeInv, ReleaseSeats
  <2> QED BY <2>2, <2>3
<1>5. CASE ReadForRelease(j) /\ ~ Return(j)
  <2> DEFINE w == [work[j] EXCEPT !.step = "releaseSeats",
                                  !.seats = GetBookingSeats(BookingOf(j))]
  <2>1. work' = [work EXCEPT ![j] = w] /\ UNCHANGED jobs
    BY <1>5 DEF ReadForRelease, TypeInv, QueueInv, WorkersTypeOK
  <2>2. GetBookingSeats(BookingOf(j)) \subseteq Seats
    BY DEF TypeInv, TablesInv, SqlcTypeOK, GetBookingSeats, RowsOfBooking, BookingSeat
  <2>3. w \in Local
    BY <1>2, <2>2 DEF Local, Steps
  <2>4. QueueInv'
    <3> HIDE DEF w
    <3> QED BY <1>1, <1>2, <2>1, <2>3, WorkTypes DEF TypeInv
  <2> QED BY <1>3, <1>5, <2>4, UnchangedTypes DEF TypeInv, ReadForRelease
<1> QED
  BY <1>4, <1>5 DEF ReleaseSeats

(* SelectSeatsWorker.                                                      *)
LEMMA ReadForSelectTypes ==
    ASSUME TypeInv, NEW j \in Jobs, ReadForSelect(j), UNCHANGED req
    PROVE  TypeInv'
<1>1. work[j].step # "idle"
  BY DEF ReadForSelect, At
<1>2. CASE Fail(j)
  <2>1. QueueInv' /\ SqliteTypeOK'
    BY <1>1, <1>2, FailTypes DEF TypeInv
  <2>2. EpTypeOK'
    BY ServiceTypes, UnchangedTypes DEF ReadForSelect, UnusedOrders, TypeInv
  <2> QED BY <2>1, <2>2, UnchangedTypes DEF TypeInv, ReadForSelect
<1>3. CASE ~ Fail(j)
  <2>1. PICK o \in Orders :
          /\ StartOrder(o)
          /\ work' = [work EXCEPT ![j] = [@ EXCEPT !.step = "insertOrder", !.order = o,
                                             !.seats = GetBookingSeats(BookingOf(j))]]
          /\ BeginRead(j) /\ UNCHANGED jobs
    BY <1>3 DEF ReadForSelect, UnusedOrders
  <2> DEFINE w == [work[j] EXCEPT !.step = "insertOrder", !.order = o,
                                  !.seats = GetBookingSeats(BookingOf(j))]
  <2>2. work' = [work EXCEPT ![j] = w]
    BY <2>1 DEF TypeInv, QueueInv, WorkersTypeOK
  <2>3. GetBookingSeats(BookingOf(j)) \subseteq Seats
    BY DEF TypeInv, TablesInv, SqlcTypeOK, GetBookingSeats, RowsOfBooking, BookingSeat
  <2>4. w \in Local /\ w.order \in Orders
    BY <1>1, <2>3, RunningJob DEF Local, Steps
  <2>5. QueueInv'
    <3> HIDE DEF w
    <3> QED BY <1>1, <2>1, <2>2, <2>4, RunningJob, WorkTypes DEF TypeInv
  <2>6. SqliteTypeOK' /\ EpTypeOK'
    BY <2>1, TransactionTypes, ServiceTypes DEF TypeInv, Txs
  <2> QED BY <2>5, <2>6, UnchangedTypes DEF TypeInv, ReadForSelect
<1> QED
  BY <1>2, <1>3

LEMMA LockForSelectTypes ==
    ASSUME TypeInv, NEW j \in Jobs, LockForSelect(j), UNCHANGED req
    PROVE  TypeInv'
<1> DEFINE w == [work[j] EXCEPT !.step = "selectPlaces", !.seats = work[j].seats \cap External]
<1>1. work[j].step = "insertOrder" /\ jobs[j].kind = "booking.select_seats"
  BY DEF LockForSelect, At
<1>2. work[j].order \in Orders /\ work[j] \in Local
  BY <1>1, RunningJob DEF TypeInv, QueueInv, JobReferences
<1>3. work' = [work EXCEPT ![j] = w]
  BY DEF LockForSelect, TypeInv, QueueInv, WorkersTypeOK
<1>4. w \in Local /\ w.order \in Orders
  BY <1>2 DEF Local, Steps
<1>5. QueueInv'
  <2> HIDE DEF w
  <2> QED BY <1>1, <1>3, <1>4, RunningJob, WorkTypes DEF TypeInv, LockForSelect
<1>6. SqliteTypeOK'
  BY TransactionTypes DEF TypeInv, LockForSelect, Txs
<1> QED
  BY <1>5, <1>6, UnchangedTypes DEF TypeInv, LockForSelect

LEMMA CallSelectPlaceTypes ==
    ASSUME TypeInv, NEW j \in Jobs, CallSelectPlace(j), UNCHANGED req
    PROVE  TypeInv'
<1>1. work[j].step = "selectPlaces" /\ jobs[j].kind = "booking.select_seats"
  BY DEF CallSelectPlace, At
<1>2. work[j].order \in Orders /\ work[j] \in Local /\ work[j].seats \subseteq Seats
  BY <1>1, RunningJob DEF TypeInv, QueueInv, JobReferences, Local
<1>3. EpTypeOK'
  BY <1>2, ServiceTypes, UnchangedTypes DEF TypeInv, CallSelectPlace
<1>4. CASE Fail(j)
  <2>1. QueueInv' /\ SqliteTypeOK'
    BY <1>1, <1>4, FailTypes DEF TypeInv
  <2> QED BY <1>3, <2>1, UnchangedTypes DEF TypeInv, CallSelectPlace, AnswerLost, Refused
<1>5. CASE ~ Fail(j)
  <2>1. PICK s \in Seats :
          work' = [work EXCEPT ![j] = [@ EXCEPT !.seats = work[j].seats \ {s},
                                                !.count = work[j].count + 1]]
    BY <1>2, <1>5 DEF CallSelectPlace, AnswerLost, Refused
  <2>2. UNCHANGED <<jobs, txVars, faults>>
    BY <1>5 DEF CallSelectPlace, AnswerLost, Refused
  <2>3. PICK rest \in SUBSET Seats, n \in Nat :
          work' = [work EXCEPT ![j] = [@ EXCEPT !.seats = rest, !.count = n]]
    <3>1. work[j].seats \ {s} \in SUBSET Seats /\ work[j].count + 1 \in Nat
      BY <1>2 DEF Local
    <3> QED BY <2>1, <3>1
  <2> DEFINE w == [work[j] EXCEPT !.seats = rest, !.count = n]
  <2>4. /\ work' = [work EXCEPT ![j] = w]
        /\ w \in Local /\ w.order \in Orders
    BY <1>2, <2>3 DEF Local, TypeInv, QueueInv, WorkersTypeOK
  <2>5. QueueInv'
    <3> HIDE DEF w
    <3> QED BY <1>1, <2>2, <2>3, <2>4, RunningJob, WorkTypes DEF TypeInv
  <2> QED BY <1>3, <2>2, <2>5, UnchangedTypes DEF TypeInv, CallSelectPlace
<1> QED
  BY <1>4, <1>5

LEMMA CommitOrderTypes ==
    ASSUME TypeInv, NEW j \in Jobs, CommitOrder(j), UNCHANGED req
    PROVE  TypeInv'
<1>1. work[j].step = "selectPlaces" /\ jobs[j].kind = "booking.select_seats"
  BY DEF CommitOrder, At
<1>2. work[j].order \in Orders /\ BookingOf(j) \in Bookings
  BY <1>1, RunningJob DEF TypeInv, QueueInv, JobReferences
<1>3. orders' \in Seq(BookingOrder)
  BY <1>2, OrderStatements DEF CommitOrder, TypeInv, TablesInv, OrderStatus
<1>4. TablesInv'
  BY <1>3 DEF CommitOrder, TypeInv, TablesInv, SqlcTypeOK, PaymentReferences, IsPayment
<1>5. QueueInv'
  BY <1>1, <1>2, GoToTypes DEF CommitOrder, Steps
<1>6. SqliteTypeOK'
  BY TransactionTypes DEF TypeInv, CommitOrder, Txs
<1> QED
  BY <1>4, <1>5, <1>6, UnchangedTypes DEF TypeInv, CommitOrder

(* EnqueueConfirm and EnqueueRelease.                                      *)
LEMMA EnqueueTypes ==
    ASSUME TypeInv, NEW j \in Jobs, EnqueueConfirm(j) \/ EnqueueRelease(j), UNCHANGED req
    PROVE  TypeInv'
<1>1. work[j].step # "idle" /\ work[j] \in Local /\ BookingOf(j) \in Bookings
  BY RunningJob DEF EnqueueConfirm, EnqueueRelease, At
<1>2. PICK job : NewJob(job, BookingOf(j)) /\ EnqueueNext(j, job)
  BY <1>1, NewJobs DEF EnqueueConfirm, EnqueueRelease, Local
<1>3. CASE Fail(j)
  <2>1. QueueInv' /\ SqliteTypeOK'
    BY <1>1, <1>3, FailTypes DEF TypeInv
  <2> QED BY <1>2, <2>1, UnchangedTypes DEF TypeInv, EnqueueNext
<1>4. CASE Insert(job) /\ GoTo(j, "returned") /\ UNCHANGED txVars
  <2>1. QueueInv'
    BY <1>1, <1>2, <1>4, RunningJob, EnqueueNextTypes DEF TypeInv
  <2> QED BY <1>2, <1>4, <2>1, UnchangedTypes DEF TypeInv, EnqueueNext
<1> QED
  BY <1>2, <1>3, <1>4 DEF EnqueueNext

(* ConfirmOrderWorker.                                                     *)
LEMMA CallGetOrderTypes ==
    ASSUME TypeInv, NEW j \in Jobs, CallGetOrder(j), UNCHANGED req
    PROVE  TypeInv'
<1>1. work[j].step # "idle" /\ jobs[j].kind = "booking.confirm_order"
  BY DEF CallGetOrder, At
<1>2. CASE Fail(j)
  <2>1. QueueInv' /\ SqliteTypeOK'
    BY <1>1, <1>2, FailTypes DEF TypeInv
  <2> QED BY <2>1, UnchangedTypes DEF TypeInv, CallGetOrder
<1>3. CASE Return(j) /\ UNCHANGED txVars
  <2>1. QueueInv'
    BY <1>1, <1>3, ReturnTypes DEF TypeInv
  <2> QED BY <1>3, <2>1, UnchangedTypes DEF TypeInv, CallGetOrder
<1>4. CASE BeginRead(j) /\ UNCHANGED jobs /\ (GoTo(j, "submit") \/ GoTo(j, "confirm"))
  <2>1. QueueInv'
    BY <1>1, <1>4, GoToTypes DEF Steps
  <2>2. SqliteTypeOK'
    BY <1>4, TransactionTypes DEF TypeInv, Txs
  <2> QED BY <2>1, <2>2, UnchangedTypes DEF TypeInv, CallGetOrder
<1> QED
  BY <1>2, <1>3, <1>4 DEF CallGetOrder

LEMMA CallSubmitOrderTypes ==
    ASSUME TypeInv, NEW j \in Jobs, CallSubmitOrder(j), UNCHANGED req
    PROVE  TypeInv'
<1>1. work[j].step # "idle" /\ jobs[j].kind = "booking.confirm_order"
  BY DEF CallSubmitOrder, At
<1>2. EpTypeOK'
  BY ServiceTypes, UnchangedTypes DEF TypeInv, CallSubmitOrder
<1>3. CASE Fail(j)
  <2>1. QueueInv' /\ SqliteTypeOK'
    BY <1>1, <1>3, FailTypes DEF TypeInv
  <2> QED BY <1>2, <2>1, UnchangedTypes DEF TypeInv, CallSubmitOrder, FailAfterCall, Refused
<1>4. CASE Lock(j) /\ GoTo(j, "confirm") /\ UNCHANGED <<jobs, faults>>
  <2>1. QueueInv'
    BY <1>1, <1>4, GoToTypes DEF Steps
  <2>2. SqliteTypeOK'
    BY <1>4, TransactionTypes DEF TypeInv, Txs
  <2> QED BY <1>2, <1>4, <2>1, <2>2, UnchangedTypes DEF TypeInv, CallSubmitOrder
<1> QED
  BY <1>3, <1>4 DEF CallSubmitOrder, FailAfterCall, Refused

LEMMA CallConfirmOrderTypes ==
    ASSUME TypeInv, NEW j \in Jobs, CallConfirmOrder(j), UNCHANGED req
    PROVE  TypeInv'
<1>1. work[j].step # "idle" /\ BookingOf(j) \in Bookings
  BY RunningJob DEF CallConfirmOrder, At
<1>2. EpTypeOK'
  BY ServiceTypes, UnchangedTypes DEF TypeInv, CallConfirmOrder
<1>3. UNCHANGED <<bookings, bookingSeats, payments, pgVars>>
  BY DEF CallConfirmOrder
<1>4. CASE Fail(j) /\ UNCHANGED <<orders, seatStatus>>
  <2>1. QueueInv' /\ SqliteTypeOK'
    BY <1>1, <1>4, FailTypes DEF TypeInv
  <2>2. UNCHANGED dbVars
    BY <1>3, <1>4 DEF dbVars
  <2> QED BY <1>2, <1>3, <2>1, <2>2, UnchangedTypes
          DEF TypeInv, CallConfirmOrder, FailAfterCall, Refused
<1>5. CASE /\ orders' = UpdateBookingOrderStatus(BookingOf(j), "CONFIRMED")
           /\ seatStatus' = UpdateSeatsStatusByIDs(GetBookingSeats(BookingOf(j)), "SOLD")
           /\ CommitChanges /\ Return(j) /\ NoFault
  <2>1. orders' \in Seq(BookingOrder)
    BY <1>1, <1>5, OrderStatements DEF TypeInv, TablesInv, OrderStatus
  <2> seatStatus' \in [Seats -> SeatStatus]
    BY <1>5 DEF TypeInv, TablesInv, SqlcTypeOK, UpdateSeatsStatusByIDs, SeatStatus
  <2>2. TablesInv'
    BY <1>3, <2>1 DEF TypeInv, TablesInv, SqlcTypeOK, PaymentReferences, IsPayment
  <2>3. QueueInv'
    BY <1>1, <1>5, ReturnTypes DEF TypeInv
  <2>4. SqliteTypeOK'
    BY <1>5, TransactionTypes DEF TypeInv, Txs
  <2> QED BY <1>2, <1>3, <1>5, <2>2, <2>3, <2>4, UnchangedTypes DEF TypeInv
<1> QED
  BY <1>4, <1>5 DEF CallConfirmOrder, FailAfterCall, Refused

(* CancelBookingWorker.                                                    *)
LEMMA ReadForCancelTypes ==
    ASSUME TypeInv, NEW j \in Jobs, ReadForCancel(j), UNCHANGED req
    PROVE  TypeInv'
<1>1. work[j].step # "idle" /\ jobs[j].kind = "booking.cancel"
  BY DEF ReadForCancel, At
<1>2. CASE Return(j) /\ UNCHANGED txVars
  <2>1. QueueInv'
    BY <1>1, <1>2, ReturnTypes DEF TypeInv
  <2> QED BY <1>2, <2>1, UnchangedTypes DEF TypeInv, ReadForCancel
<1>3. CASE ~ (Return(j) /\ UNCHANGED txVars)
  <2> DEFINE order == GetBookingOrder(BookingOf(j))
             places == GetBookingSeats(BookingOf(j)) \cap External
             w == [work[j] EXCEPT !.step = "releasePlaces", !.order = order, !.seats = places]
  <2>1. /\ work' = [work EXCEPT ![j] = [@ EXCEPT !.step = "releasePlaces", !.order = order,
                                                 !.seats = places]]
        /\ BeginRead(j) /\ UNCHANGED jobs
    BY <1>3 DEF ReadForCancel
  <2>2. order \in Orders \cup {None}
    BY FirstOrder DEF TypeInv, TablesInv
  <2>3. places \subseteq Seats
    BY DEF TypeInv, TablesInv, SqlcTypeOK, GetBookingSeats, RowsOfBooking, BookingSeat
  <2>4. work' = [work EXCEPT ![j] = w] /\ w \in Local
    <3> HIDE DEF order, places
    <3> QED BY <1>1, <2>1, <2>2, <2>3, RunningJob
            DEF TypeInv, QueueInv, WorkersTypeOK, Local, Steps
  <2>5. QueueInv'
    <3> HIDE DEF w
    <3> QED BY <1>1, <2>1, <2>4, RunningJob, WorkTypes DEF TypeInv
  <2>6. SqliteTypeOK'
    BY <2>1, TransactionTypes DEF TypeInv, Txs
  <2> QED BY <2>5, <2>6, UnchangedTypes DEF TypeInv, ReadForCancel
<1> QED
  BY <1>2, <1>3

LEMMA CallReleasePlaceTypes ==
    ASSUME TypeInv, NEW j \in Jobs, CallReleasePlace(j), UNCHANGED req
    PROVE  TypeInv'
<1>1. work[j].step # "idle" /\ jobs[j].kind = "booking.cancel"
  BY DEF CallReleasePlace, At
<1>2. work[j] \in Local /\ work[j].seats \subseteq Seats
  BY <1>1, RunningJob DEF Local
<1>3. EpTypeOK'
  BY <1>2, ServiceTypes, UnchangedTypes DEF TypeInv, CallReleasePlace
<1>4. CASE Fail(j)
  <2>1. QueueInv' /\ SqliteTypeOK'
    BY <1>1, <1>4, FailTypes DEF TypeInv
  <2> QED BY <1>3, <2>1, UnchangedTypes DEF TypeInv, CallReleasePlace, AnswerLost, Refused
<1>5. CASE ~ Fail(j)
  <2>1. PICK s \in Seats : work' = [work EXCEPT ![j].seats = @ \ {s}]
    BY <1>2, <1>5 DEF CallReleasePlace, AnswerLost, Refused
  <2>2. UNCHANGED <<jobs, txVars, faults>>
    BY <1>5 DEF CallReleasePlace, AnswerLost, Refused
  <2> DEFINE w == [work[j] EXCEPT !.seats = work[j].seats \ {s}]
  <2>3. work' = [work EXCEPT ![j] = w] /\ w \in Local
    BY <1>2, <2>1 DEF TypeInv, QueueInv, WorkersTypeOK, Local
  <2>4. QueueInv'
    <3> HIDE DEF w
    <3> QED BY <1>1, <2>2, <2>3, RunningJob, WorkTypes DEF TypeInv
  <2> QED BY <1>3, <2>2, <2>4, UnchangedTypes DEF TypeInv, CallReleasePlace
<1> QED
  BY <1>4, <1>5

LEMMA CallCancelOrderTypes ==
    ASSUME TypeInv, NEW j \in Jobs, CallCancelOrder(j), UNCHANGED req
    PROVE  TypeInv'
<1>1. work[j].step # "idle" /\ jobs[j].kind = "booking.cancel" /\ BookingOf(j) \in Bookings
  BY RunningJob DEF CallCancelOrder, At
<1>2. EpTypeOK'
  BY ServiceTypes, UnchangedTypes DEF TypeInv, CallCancelOrder
<1>3. UNCHANGED <<bookings, bookingSeats, seatStatus, payments, pgVars>>
  BY DEF CallCancelOrder
<1>4. SqliteTypeOK' /\ (UNCHANGED faults \/ Fault)
  BY TransactionTypes DEF TypeInv, CallCancelOrder, FailAfterCall, Refused, Fail, NoFault, Txs
<1>5. TablesInv'
  <2>1. CASE UNCHANGED orders
    BY <1>3, <2>1, UnchangedTypes DEF dbVars
  <2>2. CASE orders' = UpdateBookingOrderStatus(BookingOf(j), "CANCELLED")
    <3>1. orders' \in Seq(BookingOrder)
      BY <1>1, <2>2, OrderStatements DEF TypeInv, TablesInv, OrderStatus
    <3> QED BY <1>3, <3>1 DEF TypeInv, TablesInv, SqlcTypeOK, PaymentReferences, IsPayment
  <2> QED BY <2>1, <2>2 DEF CallCancelOrder
<1>6. QueueInv'
  <2>1. CASE Fail(j)
    BY <1>1, <2>1, FailTypes DEF TypeInv
  <2>2. CASE GoTo(j, "enqueue") /\ UNCHANGED jobs
    BY <1>1, <2>2, GoToTypes DEF Steps
  <2> QED BY <2>1, <2>2 DEF CallCancelOrder, FailAfterCall, Refused
<1> QED
  BY <1>2, <1>3, <1>4, <1>5, <1>6, UnchangedTypes DEF TypeInv

(* RefundPaymentWorker.                                                    *)
LEMMA ReadForRefundTypes ==
    ASSUME TypeInv, NEW j \in Jobs, ReadForRefund(j), UNCHANGED req
    PROVE  TypeInv'
<1>1. work[j].step # "idle" /\ jobs[j].kind = "payment.refund"
  BY DEF ReadForRefund, At
<1>2. CASE Return(j) /\ UNCHANGED txVars
  <2>1. QueueInv'
    BY <1>1, <1>2, ReturnTypes DEF TypeInv
  <2> QED BY <1>2, <2>1, UnchangedTypes DEF TypeInv, ReadForRefund
<1>3. CASE ~ (Return(j) /\ UNCHANGED txVars)
  <2>1. PICK p \in PayIds : work' = [work EXCEPT ![j].step = "refund", ![j].pay = p]
    BY <1>3 DEF ReadForRefund, PaymentsOfBooking
  <2>2. BeginRead(j) /\ UNCHANGED jobs
    BY <1>3 DEF ReadForRefund
  <2> DEFINE w == [work[j] EXCEPT !.step = "refund", !.pay = p]
  <2>3. work' = [work EXCEPT ![j] = w] /\ w \in Local
    BY <1>1, <2>1, RunningJob DEF TypeInv, QueueInv, WorkersTypeOK, Local, Steps
  <2>4. QueueInv'
    <3> HIDE DEF w
    <3> QED BY <1>1, <2>2, <2>3, RunningJob, WorkTypes DEF TypeInv
  <2>5. SqliteTypeOK'
    BY <2>2, TransactionTypes DEF TypeInv, Txs
  <2> QED BY <2>4, <2>5, UnchangedTypes DEF TypeInv, ReadForRefund
<1> QED
  BY <1>2, <1>3

LEMMA CallCancelPaymentTypes ==
    ASSUME TypeInv, RefundReferences, NEW j \in Jobs, CallCancelPayment(j), UNCHANGED req
    PROVE  TypeInv'
<1>1. work[j].step # "idle" /\ jobs[j].kind = "payment.refund"
  BY DEF CallCancelPayment, At
<1>2. SqliteTypeOK' /\ (UNCHANGED faults \/ Fault)
  BY TransactionTypes DEF TypeInv, CallCancelPayment, FailAfterCall, Refused, Fail, NoFault, Txs
<1>3. QueueInv'
  <2>1. CASE Fail(j)
    BY <1>1, <2>1, FailTypes DEF TypeInv
  <2>2. CASE Return(j)
    BY <1>1, <2>2, ReturnTypes DEF TypeInv
  <2> QED BY <2>1, <2>2 DEF CallCancelPayment, FailAfterCall, Refused
<1>4. PgTypeOK'
  BY DEF TypeInv, PgTypeOK, CallCancelPayment, CancelPayment, DeclineToCancel, Record, pgVars
<1>5. UNCHANGED <<bookings, bookingSeats, seatStatus, orders, epVars>>
  BY DEF CallCancelPayment
<1>6. TablesInv'
  <2>1. CASE UNCHANGED payments
    BY <1>5, <2>1, UnchangedTypes DEF dbVars
  <2>2. CASE payments' = UpdateBookingPaymentStatus(work[j].pay, "REFUNDED")
    <3>1. payments' \in [PayIds -> Payment]
      BY <2>2 DEF TypeInv, TablesInv, SqlcTypeOK, UpdateBookingPaymentStatus, Payment,
                  PaymentStatus
    <3>2. PaymentReferences'
      BY <1>1, <2>2 DEF CallCancelPayment, At, RefundReferences, TypeInv, TablesInv, SqlcTypeOK,
                  PaymentReferences, IsPayment, UpdateBookingPaymentStatus, Payment
    <3> QED BY <1>5, <3>1, <3>2 DEF TypeInv, TablesInv, SqlcTypeOK
  <2> QED BY <2>1, <2>2 DEF CallCancelPayment
<1> QED
  BY <1>2, <1>3, <1>4, <1>5, <1>6, UnchangedTypes DEF TypeInv

-----------------------------------------------------------------------------
LEMMA CrashTypes ==
    ASSUME TypeInv, Crash
    PROVE  TypeInv'
<1>1. NotWorking \in Local /\ NotWorking.step = "idle" /\ Idle \in Request /\ Idle.phase = "idle"
  BY DEF NotWorking, Local, Idle, Request
<1>2. QueueInv'
  BY <1>1 DEF Crash, TypeInv, QueueInv, RiverTypeOK, WorkersTypeOK, QueueOK, JobReferences
<1>3. RequestsInv'
  BY <1>1 DEF Crash, RequestsInv, HttpTypeOK, RequestReferences, IsIdle, InPhase
<1>4. SqliteTypeOK'
  BY DEF Crash, CloseAll, SqliteTypeOK
<1> QED
  BY <1>2, <1>3, <1>4, UnchangedTypes DEF TypeInv, Crash

(* Workers only refund payments that exist: no step deletes one.           *)
LEMMA PaymentsStay ==
    ASSUME TypeInv, Next, NEW p \in PayIds, IsPayment(p)
    PROVE  IsPayment(p)'
<1>1. \/ UNCHANGED payments
      \/ \E q, b, amount : payments' = InsertBookingPayment(q, b, amount)
      \/ \E q, st : /\ payments' = UpdateBookingPaymentStatus(q, st)
                    /\ st \in {"FAIL", "SUCCESS", "REFUNDED"}
  <2>1. CASE Api
    BY <2>1 DEF Api, CreateBooking, SelectSeat, ReleaseSeat, InitiatePayment,
         CancelCreatedBooking, CancelConfirmedBooking, HttpStep, RecordPayment, CommitCancel,
         EnqueueRefund, EnqueueCancel, EnqueueSelect, AbortRequest, NotifyPaymentFailed,
         NotifyPaymentCompleted, dbVars
  <2>2. CASE \E i \in Jobs : Queue(i)
    BY <2>2 DEF Queue, StartWork, WorkStep, Rescue, FinishWork, Interrupted, ReadForRelease,
         ReleaseSeats, ReadForSelect, LockForSelect, CallSelectPlace, CommitOrder,
         EnqueueConfirm, CallGetOrder, CallSubmitOrder, CallConfirmOrder, ReadForCancel,
         CallReleasePlace, CallCancelOrder, EnqueueRelease, ReadForRefund,
         CallCancelPayment, EnqueueNext, dbVars
  <2>3. CASE \E q \in PayIds : Customer(q)
    BY <2>3 DEF Customer, dbVars
  <2>4. CASE Crash
    BY <2>4 DEF Crash, dbVars
  <2> QED BY <2>1, <2>2, <2>3, <2>4 DEF Next
<1> QED
  BY <1>1 DEF IsPayment, TypeInv, TablesInv, SqlcTypeOK, Payment, InsertBookingPayment,
              UpdateBookingPaymentStatus

(* What the actions of a worker leave to the others: their variables, and  *)
(* the jobs that some worker is busy with.                                 *)
LEMMA QueueFrame ==
    ASSUME TypeInv, NEW j \in Jobs, Queue(j), NEW i \in Jobs, i # j
    PROVE  work'[i] = work[i] /\ (jobs'[i] = jobs[i] \/ work[i].step = "idle")
<1>1. work'[i] = work[i]
  <2> USE DEF TypeInv, QueueInv, WorkersTypeOK, Return, GoTo, Fail, FailAfterCall,
              AnswerLost, Refused
  <2>1. CASE StartWork(j) \/ FinishWork(j) \/ Rescue(j) \/ Interrupted(j)
    BY <2>1 DEF StartWork, FinishWork, Rescue, Interrupted
  <2>2. CASE ReadForRelease(j) \/ ReleaseSeats(j) \/ ReadForRefund(j) \/ CallCancelPayment(j)
    BY <2>2 DEF ReadForRelease, ReleaseSeats, ReadForRefund, CallCancelPayment
  <2>3. CASE ReadForSelect(j) \/ LockForSelect(j) \/ CallSelectPlace(j) \/ CommitOrder(j)
    BY <2>3 DEF ReadForSelect, LockForSelect, CallSelectPlace, CommitOrder
  <2>4. CASE CallGetOrder(j) \/ CallSubmitOrder(j) \/ CallConfirmOrder(j)
    BY <2>4 DEF CallGetOrder, CallSubmitOrder, CallConfirmOrder
  <2>5. CASE ReadForCancel(j) \/ CallReleasePlace(j) \/ CallCancelOrder(j)
    BY <2>5 DEF ReadForCancel, CallReleasePlace, CallCancelOrder
  <2>6. CASE EnqueueConfirm(j) \/ EnqueueRelease(j)
    BY <2>6 DEF EnqueueConfirm, EnqueueRelease, EnqueueNext
  <2> QED BY <2>1, <2>2, <2>3, <2>4, <2>5, <2>6 DEF Queue, WorkStep
<1>2. jobs'[i] = jobs[i] \/ work[i].step = "idle"
  <2> USE DEF TypeInv, QueueInv, RiverTypeOK, Return, Fail, Retry, FailAfterCall,
              AnswerLost, Refused
  <2>1. CASE StartWork(j) \/ FinishWork(j) \/ Rescue(j) \/ Interrupted(j)
    BY <2>1 DEF StartWork, Fetch, FinishWork, Complete, Rescue, Interrupted
  <2>2. CASE ReadForRelease(j) \/ ReleaseSeats(j) \/ ReadForRefund(j) \/ CallCancelPayment(j)
    BY <2>2 DEF ReadForRelease, ReleaseSeats, ReadForRefund, CallCancelPayment
  <2>3. CASE ReadForSelect(j) \/ LockForSelect(j) \/ CallSelectPlace(j) \/ CommitOrder(j)
    BY <2>3 DEF ReadForSelect, LockForSelect, CallSelectPlace, CommitOrder
  <2>4. CASE CallGetOrder(j) \/ CallSubmitOrder(j) \/ CallConfirmOrder(j)
    BY <2>4 DEF CallGetOrder, CallSubmitOrder, CallConfirmOrder
  <2>5. CASE ReadForCancel(j) \/ CallReleasePlace(j) \/ CallCancelOrder(j)
    BY <2>5 DEF ReadForCancel, CallReleasePlace, CallCancelOrder
  <2>6. CASE EnqueueConfirm(j) \/ EnqueueRelease(j)
    <3>1. \A job : Insert(job) => jobs'[i] = jobs[i] \/ jobs[i].state = "none"
      BY DEF Insert, FreeSlots
    <3> QED BY <2>6, <3>1 DEF EnqueueConfirm, EnqueueRelease, EnqueueNext, QueueOK
  <2> QED BY <2>1, <2>2, <2>3, <2>4, <2>5, <2>6 DEF Queue, WorkStep
<1> QED
  BY <1>1, <1>2

(* The step "refund" is reached from ReadForRefund only.                   *)
LEMMA RefundStep ==
    ASSUME TypeInv, NEW j \in Jobs, Queue(j), work'[j].step = "refund"
    PROVE  ReadForRefund(j)
<1>types. work \in [Jobs -> Local] /\ NotWorking.step # "refund"
  BY DEF TypeInv, QueueInv, WorkersTypeOK, NotWorking
<1>1. CASE StartWork(j) \/ FinishWork(j) \/ Rescue(j) \/ Interrupted(j)
  BY <1>types, <1>1 DEF StartWork, GoTo, FinishWork, Rescue, Interrupted, Fail, Local
<1>2. CASE ReadForRelease(j) \/ ReleaseSeats(j)
  BY <1>types, <1>2 DEF ReadForRelease, ReleaseSeats, Return, GoTo, Local
<1>3. CASE ReadForSelect(j) \/ LockForSelect(j)
  BY <1>types, <1>3 DEF ReadForSelect, LockForSelect, Fail, Local
<1>4. CASE CallSelectPlace(j)
  <2>1. work[j].step = "selectPlaces"
    BY <1>4 DEF CallSelectPlace, At
  <2> QED BY <1>types, <1>4, <2>1
          DEF CallSelectPlace, AnswerLost, Refused, Fail, Local
<1>5. CASE CommitOrder(j) \/ EnqueueConfirm(j) \/ EnqueueRelease(j)
  BY <1>types, <1>5
     DEF CommitOrder, EnqueueConfirm, EnqueueRelease, EnqueueNext, GoTo, Fail, Local
<1>6. CASE CallGetOrder(j) \/ CallSubmitOrder(j) \/ CallConfirmOrder(j)
  BY <1>types, <1>6
     DEF CallGetOrder, CallSubmitOrder, CallConfirmOrder, Return, GoTo, Fail,
         FailAfterCall, Refused, Local
<1>7. CASE ReadForCancel(j) \/ CallCancelOrder(j)
  BY <1>types, <1>7
     DEF ReadForCancel, CallCancelOrder, Return, GoTo, Fail, FailAfterCall, Refused, Local
<1>8. CASE CallReleasePlace(j)
  <2>1. work[j].step = "releasePlaces"
    BY <1>8 DEF CallReleasePlace, At
  <2> QED BY <1>types, <1>8, <2>1
          DEF CallReleasePlace, AnswerLost, Refused, Fail, Local
<1>9. CASE CallCancelPayment(j)
  BY <1>types, <1>9
     DEF CallCancelPayment, Return, GoTo, Fail, FailAfterCall, Refused, Local
<1>10. CASE ReadForRefund(j)
  BY <1>types, <1>10 DEF ReadForRefund, Return, GoTo
<1> QED
  BY <1>1, <1>2, <1>3, <1>4, <1>5, <1>6, <1>7, <1>8, <1>9, <1>10 DEF Queue, WorkStep

LEMMA RefundTypes ==
    ASSUME TypeInv, RefundReferences, Next
    PROVE  RefundReferences'
<1> SUFFICES ASSUME NEW i \in Jobs, work'[i].step = "refund"
             PROVE  work'[i].pay \in PayIds /\ payments'[work'[i].pay].status # "none"
  BY DEF RefundReferences, IsPayment
<1>1. CASE work'[i] = work[i]
  <2>1. PICK p \in PayIds : p = work[i].pay /\ IsPayment(p)
    BY <1>1 DEF RefundReferences
  <2> QED BY <1>1, <2>1, PaymentsStay DEF IsPayment
<1>2. CASE work'[i] # work[i]
  <2>1. work \in [Jobs -> Local] /\ NotWorking.step # "refund"
    BY DEF TypeInv, QueueInv, WorkersTypeOK, NotWorking
  <2>2. Queue(i)
    BY <1>2, <2>1, QueueFrame DEF Next, Crash
  <2>3. ReadForRefund(i)
    BY <2>2, RefundStep
  <2>4. PICK p \in PaymentsOfBooking(BookingOf(i)) :
          work' = [work EXCEPT ![i].step = "refund", ![i].pay = p]
    BY <2>1, <2>3 DEF ReadForRefund, Return, GoTo, Local
  <2>5. work'[i].pay = p /\ p \in PayIds /\ IsPayment(p)
    BY <2>1, <2>4 DEF PaymentsOfBooking, Local
  <2> QED BY <2>5, PaymentsStay DEF IsPayment
<1> QED
  BY <1>1, <1>2

-----------------------------------------------------------------------------
(* The theorem.                                                            *)

LEMMA InitTypes == Init => TypeInv /\ RefundReferences
<1> SUFFICES ASSUME Init PROVE TypeInv /\ RefundReferences
  OBVIOUS
<1> USE ParametersAssumption, RiverAssumption DEF Init
<1>1. TablesInv
  BY DEF TablesInv, SqlcTypeOK, PaymentReferences, IsPayment, SqlcInit, Booking, SeatStatus,
         Payment
<1>2. SqliteTypeOK /\ RequestsInv
  BY DEF SqliteTypeOK, SqliteInit, RequestsInv, HttpTypeOK, HttpInit, RequestReferences,
         IsIdle, InPhase, Idle, Request
<1>3. QueueInv
  BY DEF QueueInv, RiverTypeOK, RiverInit, NoJob, JobOf, Job, WorkersTypeOK, WorkersInit,
         NotWorking, Local, QueueOK, JobReferences
<1>4. EpTypeOK /\ PgTypeOK /\ faults \in 0..MaxFaults
  BY DEF EpTypeOK, EpInit, PgTypeOK, PgInit, FaultsInit
<1>5. RefundReferences
  BY DEF RefundReferences, WorkersInit, NotWorking
<1> QED
  BY <1>1, <1>2, <1>3, <1>4, <1>5 DEF TypeInv

LEMMA NextTypes ==
    ASSUME TypeInv, RefundReferences, Next
    PROVE  TypeInv' /\ RefundReferences'
<1> SUFFICES TypeInv'
  BY RefundTypes
<1>1. CASE Api /\ UNCHANGED <<epVars, work>>
  <2>1. ASSUME NEW u \in Users, CreateBooking(u) PROVE TypeInv'
    BY <1>1, <2>1, CreateBookingTypes
  <2>2. ASSUME NEW u \in Users, NEW s \in Seats,
               ReleaseSeat(u, s) \/ \E b \in Bookings : SelectSeat(u, b, s)
        PROVE  TypeInv'
    BY <1>1, <2>2, SeatActionsTypes
  <2>3. ASSUME NEW u \in Users, NEW r \in Requests, NEW b \in Bookings,
               InitiatePayment(r, u, b)
        PROVE  TypeInv'
    BY <1>1, <2>3, InitiatePaymentTypes
  <2>4. ASSUME NEW u \in Users, NEW r \in Requests, NEW b \in Bookings,
               CancelCreatedBooking(r, u, b) \/ CancelConfirmedBooking(r, u, b)
        PROVE  TypeInv'
    BY <1>1, <2>4, CancelRequestTypes
  <2>5. ASSUME NEW r \in Requests, HttpStep(r) PROVE TypeInv'
    BY <1>1, <2>5, HttpStepTypes
  <2>6. ASSUME NEW r \in Requests, NEW p \in PayIds,
               NotifyPaymentFailed(r, p) \/ NotifyPaymentCompleted(r, p)
        PROVE  TypeInv'
    BY <1>1, <2>6, ReportTypes
  <2>7. ASSUME NEW u \in Users,
               \/ CreateBooking(u)
               \/ \E b \in Bookings, s \in Seats : SelectSeat(u, b, s)
               \/ \E s \in Seats : ReleaseSeat(u, s)
               \/ \E r \in Requests, b \in Bookings :
                    \/ InitiatePayment(r, u, b)
                    \/ CancelCreatedBooking(r, u, b)
                    \/ CancelConfirmedBooking(r, u, b)
        PROVE  TypeInv'
    <3>1. CASE CreateBooking(u)
      BY <2>1, <3>1
    <3>2. CASE \E b \in Bookings, s \in Seats : SelectSeat(u, b, s)
      BY <2>2, <3>2
    <3>3. CASE \E s \in Seats : ReleaseSeat(u, s)
      BY <2>2, <3>3
    <3>4. ASSUME NEW r \in Requests, NEW b \in Bookings,
                 \/ InitiatePayment(r, u, b)
                 \/ CancelCreatedBooking(r, u, b)
                 \/ CancelConfirmedBooking(r, u, b)
          PROVE  TypeInv'
      BY <2>3, <2>4, <3>4
    <3> QED BY <2>7, <3>1, <3>2, <3>3, <3>4
  <2>8. ASSUME NEW r \in Requests,
               \/ HttpStep(r)
               \/ \E p \in PayIds : NotifyPaymentFailed(r, p) \/ NotifyPaymentCompleted(r, p)
        PROVE  TypeInv'
    BY <2>5, <2>6, <2>8
  <2> QED BY <1>1, <2>7, <2>8 DEF Api
<1>2. ASSUME NEW p \in PayIds, Customer(p), UNCHANGED <<epVars, work>> PROVE TypeInv'
  <2>1. PgTypeOK'
    BY <1>2, ServiceTypes DEF Customer, TypeInv
  <2> QED BY <1>2, <2>1, UnchangedTypes DEF Customer, TypeInv
<1>3. ASSUME NEW j \in Jobs, Queue(j), UNCHANGED req PROVE TypeInv'
  BY <1>3, StartWorkTypes, SettleTypes, InterruptedTypes, ReleaseWorkerTypes,
     ReadForSelectTypes, LockForSelectTypes, CallSelectPlaceTypes, CommitOrderTypes,
     EnqueueTypes, CallGetOrderTypes, CallSubmitOrderTypes, CallConfirmOrderTypes,
     ReadForCancelTypes, CallReleasePlaceTypes, CallCancelOrderTypes, ReadForRefundTypes,
     CallCancelPaymentTypes
     DEF Queue, WorkStep
<1>4. CASE Crash
  BY <1>4, CrashTypes
<1> QED
  BY <1>1, <1>2, <1>3, <1>4 DEF Next

(* The variables of the tables, the transactions, the queue, the requests, *)
(* the workers and the services keep their types, and nothing refers to a  *)
(* booking, an order or a payment that does not exist, through every       *)
(* interleaving, failure and crash.                                        *)
THEOREM Typing == Spec => []TypeOK /\ []References /\ []QueueOK
<1>1. Init => TypeInv /\ RefundReferences
  BY InitTypes
<1>2. (TypeInv /\ RefundReferences) /\ [Next]_vars => (TypeInv /\ RefundReferences)'
  <2>1. ASSUME TypeInv, RefundReferences, UNCHANGED vars
        PROVE  TypeInv' /\ RefundReferences'
    BY <2>1, UnchangedTypes DEF vars, dbVars, txVars, epVars, pgVars, TypeInv,
         RefundReferences, IsPayment
  <2> QED BY <2>1, NextTypes
<1>3. TypeInv /\ RefundReferences => TypeOK /\ References /\ QueueOK
  BY DEF TypeInv, TablesInv, RequestsInv, QueueInv, TypeOK, References
<1> QED
  BY <1>1, <1>2, <1>3, PTL DEF Spec
=============================================================================
