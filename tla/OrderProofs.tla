----------------------------- MODULE OrderProofs ------------------------------
(***************************************************************************)
(* What is bought from the event provider, for every value of the          *)
(* constants: only orders of paid bookings are submitted, and only seats   *)
(* of a booking with a confirmed order are SOLD.  The two say nothing of   *)
(* the jobs that will make it so; FulfilmentChain does: it follows the     *)
(* payment from the report of the gateway through the request, the job     *)
(* that selects the places, the row of booking_orders and the job that     *)
(* confirms the order.                                                     *)
(***************************************************************************)
EXTENDS PaymentProofs

-----------------------------------------------------------------------------
(* What stays: the booking of a payment, that it is captured, the booking  *)
(* and the order of a row of booking_orders, a confirmed order.            *)

LEMMA PaymentKeepsBooking ==
    ASSUME TypeInv, RefundReferences, PaymentIds, Next, NEW p \in PayIds, IsPayment(p)
    PROVE  payments'[p].booking = payments[p].booking
<1>types. payments \in [PayIds -> Payment]
  BY DEF TypeInv, TablesInv, SqlcTypeOK
<1>1. ASSUME NEW r \in Requests, RecordPayment(r) \/ CommitCancel(r)
      PROVE  payments'[p].booking = payments[p].booking
  <2>1. CASE RecordPayment(r)
    <3>1. req[r].pay # p
      BY <2>1 DEF RecordPayment, PaymentIds
    <3> QED BY <1>types, <2>1, <3>1 DEF RecordPayment, InsertBookingPayment
  <2> QED BY <1>1, <2>1 DEF CommitCancel
<1>2. ASSUME NEW q, NEW st, payments' = UpdateBookingPaymentStatus(q, st)
      PROVE  payments'[p].booking = payments[p].booking
  BY <1>types, <1>2 DEF UpdateBookingPaymentStatus, Payment
<1>3. ASSUME NEW r \in Requests, NEW q \in PayIds,
             NotifyPaymentFailed(r, q) \/ NotifyPaymentCompleted(r, q)
      PROVE  payments'[p].booking = payments[p].booking
  BY <1>2, <1>3 DEF NotifyPaymentFailed, NotifyPaymentCompleted
<1>4. ASSUME NEW j \in Jobs, CallCancelPayment(j)
      PROVE  payments'[p].booking = payments[p].booking
  BY <1>2, <1>4 DEF CallCancelPayment
<1>5. ASSUME NEW u \in Users, CreateBooking(u)
      PROVE  payments'[p].booking = payments[p].booking
  BY <1>5 DEF CreateBooking
<1> QED
  BY <1>1, <1>3, <1>4, <1>5, MoneyWriters

LEMMA PaidStays ==
    ASSUME TypeInv, RefundReferences, PaymentIds, Next, NEW b, Paid(b)
    PROVE  Paid(b)'
<1>1. PICK p \in PayIds : IsPayment(p) /\ payments[p].booking = b /\ "captured" \in gateway[p]
  BY DEF Paid, PaymentsOfBooking
<1>2. IsPayment(p)' /\ payments'[p].booking = b /\ "captured" \in gateway'[p]
  BY <1>1, PaymentsStay, PaymentKeepsBooking, GatewayGrows
<1> QED
  BY <1>2 DEF Paid, PaymentsOfBooking

LEMMA RowTypes ==
    ASSUME NEW rows \in Seq(BookingOrder), NEW i \in DOMAIN rows
    PROVE  rows[i].booking \in Bookings /\ rows[i].order \in Orders
<1>1. rows[i] \in BookingOrder
  OBVIOUS
<1> QED
  BY <1>1 DEF BookingOrder

LEMMA OrderWriters ==
    ASSUME Next
    PROVE  \/ UNCHANGED orders
           \/ \E j \in Jobs : CommitOrder(j)
           \/ \E j \in Jobs, st \in {"CONFIRMED", "CANCELLED"} :
                orders' = UpdateBookingOrderStatus(BookingOf(j), st)
<1>1. CASE Api
  BY <1>1 DEF Api, CreateBooking, SelectSeat, ReleaseSeat, InitiatePayment,
     CancelCreatedBooking, CancelConfirmedBooking, HttpStep, RecordPayment, CommitCancel,
     EnqueueRefund, EnqueueCancel, EnqueueSelect, AbortRequest, NotifyPaymentFailed,
     NotifyPaymentCompleted, dbVars
<1>2. ASSUME NEW j \in Jobs, Queue(j)
      PROVE  \/ UNCHANGED orders
             \/ CommitOrder(j)
             \/ \E st \in {"CONFIRMED", "CANCELLED"} :
                  orders' = UpdateBookingOrderStatus(BookingOf(j), st)
  BY <1>2 DEF Queue, StartWork, WorkStep, Rescue, FinishWork, Interrupted, ReadForRelease,
     ReleaseSeats, ReadForSelect, LockForSelect, CallSelectPlace, EnqueueConfirm,
     CallGetOrder, CallSubmitOrder, CallConfirmOrder, ReadForCancel, CallReleasePlace,
     CallCancelOrder, EnqueueRelease, ReadForRefund, CallCancelPayment, EnqueueNext, dbVars
<1>3. CASE Crash \/ \E q \in PayIds : Customer(q)
  BY <1>3 DEF Crash, Customer, dbVars
<1> QED
  BY <1>1, <1>2, <1>3 DEF Next

(* Rows are only appended, by CommitOrder; the others change a status.     *)
LEMMA OrderRows ==
    ASSUME TypeInv, Next
    PROVE  /\ \A i \in DOMAIN orders :
                /\ i \in DOMAIN orders'
                /\ orders'[i].booking = orders[i].booking /\ orders'[i].order = orders[i].order
           /\ \A i \in DOMAIN orders' :
                \/ i \in DOMAIN orders
                \/ \E j \in Jobs : /\ CommitOrder(j)
                                   /\ orders'[i].booking = BookingOf(j)
                                   /\ orders'[i].order = work[j].order
<1>types. orders \in Seq(BookingOrder)
  BY DEF TypeInv, TablesInv, SqlcTypeOK
<1>1. CASE UNCHANGED orders
  BY <1>1
<1>2. ASSUME NEW j \in Jobs, NEW st, orders' = UpdateBookingOrderStatus(BookingOf(j), st)
      PROVE  /\ DOMAIN orders' = DOMAIN orders
             /\ \A i \in DOMAIN orders :
                  orders'[i].booking = orders[i].booking /\ orders'[i].order = orders[i].order
  <2>1. \A i \in DOMAIN orders : orders[i] \in BookingOrder
    BY <1>types
  <2> QED BY <1>2, <2>1 DEF UpdateBookingOrderStatus, BookingOrder
<1>3. ASSUME NEW j \in Jobs, CommitOrder(j)
      PROVE  /\ \A i \in DOMAIN orders : i \in DOMAIN orders' /\ orders'[i] = orders[i]
             /\ \A i \in DOMAIN orders' \ DOMAIN orders :
                  orders'[i].booking = BookingOf(j) /\ orders'[i].order = work[j].order
  <2> DEFINE row == [booking |-> BookingOf(j), order |-> work[j].order, status |-> "STARTED"]
  <2>1. orders' = Append(orders, row)
    BY <1>3 DEF CommitOrder, InsertBookingOrder
  <2> HIDE DEF row
  <2>2. /\ DOMAIN orders = 1..Len(orders) /\ Len(orders) \in Nat
        /\ DOMAIN orders' = 1..(Len(orders) + 1)
        /\ \A i \in 1..Len(orders) : orders'[i] = orders[i]
        /\ orders'[Len(orders) + 1] = row
    BY <1>types, <2>1
  <2> QED BY <2>2 DEF row
<1> QED
  BY <1>1, <1>2, <1>3, OrderWriters

LEMMA HasOrderStays ==
    ASSUME TypeInv, Next, NEW b, NEW o, HasOrder(b, o)
    PROVE  HasOrder(b, o)'
BY OrderRows DEF HasOrder

-----------------------------------------------------------------------------
(* The orders at the event provider.                                       *)

(* The four steps of an order.                                             *)
LEMMA OrderCalls ==
    ASSUME TypeInv, Next
    PROVE  \/ UNCHANGED epOrder
           \/ \E o \in UnusedOrders : epOrder' = [epOrder EXCEPT ![o] = "STARTED"]
           \/ \E j \in Jobs : /\ CallSubmitOrder(j) /\ SubmitOrderOK(jobs[j].order)
                              /\ epOrder' = [epOrder EXCEPT ![jobs[j].order] = "SUBMITTED"]
           \/ \E o : ConfirmOrderOK(o) /\ epOrder' = [epOrder EXCEPT ![o] = "CONFIRMED"]
           \/ \E o : CancelOrderOK(o) /\ epOrder' = [epOrder EXCEPT ![o] = "CANCELLED"]
<1>1. CASE (Api /\ UNCHANGED <<epVars, work>>) \/ Crash
            \/ ((\E p \in PayIds : Customer(p)) /\ UNCHANGED <<epVars, work>>)
  BY <1>1 DEF Crash, epVars
<1>2. ASSUME NEW j \in Jobs, Queue(j)
      PROVE  \/ UNCHANGED epOrder
             \/ ReadForSelect(j) \/ CallSubmitOrder(j) \/ CallConfirmOrder(j)
             \/ CallCancelOrder(j)
  BY <1>2 DEF Queue, StartWork, WorkStep, Rescue, FinishWork, Interrupted, ReadForRelease,
     ReleaseSeats, LockForSelect, CallSelectPlace, SelectPlace, CommitOrder, EnqueueConfirm,
     CallGetOrder, ReadForCancel, CallReleasePlace, ReleasePlace, EnqueueRelease,
     ReadForRefund, CallCancelPayment, EnqueueNext, epVars
<1>3. ASSUME NEW j \in Jobs, ReadForSelect(j)
      PROVE  \/ UNCHANGED epOrder
             \/ \E o \in UnusedOrders : epOrder' = [epOrder EXCEPT ![o] = "STARTED"]
  <2> DEFINE o == CHOOSE o \in UnusedOrders : TRUE
  <2>1. UnusedOrders # {} => o \in UnusedOrders
    OBVIOUS
  <2> HIDE DEF o
  <2> QED BY <1>3, <2>1, Zenon DEF ReadForSelect, StartOrder, epVars, o
<1>4. ASSUME NEW j \in Jobs, CallSubmitOrder(j)
      PROVE  \/ UNCHANGED epOrder
             \/ /\ SubmitOrderOK(jobs[j].order)
                /\ epOrder' = [epOrder EXCEPT ![jobs[j].order] = "SUBMITTED"]
  BY <1>4 DEF CallSubmitOrder, SubmitOrder, epVars
<1>5. ASSUME NEW j \in Jobs, CallConfirmOrder(j)
      PROVE  \/ UNCHANGED epOrder
             \/ \E o : ConfirmOrderOK(o) /\ epOrder' = [epOrder EXCEPT ![o] = "CONFIRMED"]
  BY <1>5 DEF CallConfirmOrder, ConfirmOrder, epVars
<1>6. ASSUME NEW j \in Jobs, CallCancelOrder(j)
      PROVE  \/ UNCHANGED epOrder
             \/ \E o : CancelOrderOK(o) /\ epOrder' = [epOrder EXCEPT ![o] = "CANCELLED"]
  BY <1>6 DEF CallCancelOrder, CancelOrder, epVars
<1> QED
  BY <1>1, <1>2, <1>3, <1>4, <1>5, <1>6 DEF Next

LEMMA ConfirmedStays ==
    ASSUME TypeInv, Next, NEW o \in Orders, epOrder[o] = "CONFIRMED"
    PROVE  epOrder'[o] = "CONFIRMED"
BY OrderCalls DEF UnusedOrders, SubmitOrderOK, ConfirmOrderOK, CancelOrderOK, TypeInv, EpTypeOK

(* Only CallSubmitOrder submits an order.                                  *)
LEMMA Submits ==
    ASSUME TypeInv, Next, NEW o \in Orders, epOrder'[o] \in {"SUBMITTED", "CONFIRMED"},
           epOrder[o] \notin {"SUBMITTED", "CONFIRMED"}
    PROVE  \E j \in Jobs : CallSubmitOrder(j) /\ o = jobs[j].order
BY OrderCalls DEF UnusedOrders, ConfirmOrderOK, TypeInv, EpTypeOK

-----------------------------------------------------------------------------
(* Where the requests, the jobs and the steps of the chain come from.      *)

LEMMA SelectPhase ==
    ASSUME TypeInv, Next, NEW r \in Requests, InPhase(r, "enqueueSelect")'
    PROVE  \/ req'[r] = req[r]
           \/ \E p \in PayIds : NotifyPaymentCompleted(r, p)
<1> USE DEF InPhase
<1>1. CASE UNCHANGED req
  BY <1>1
<1>2. ASSUME NEW q \in Requests, RequestStep(q), q # r PROVE req'[r] = req[r]
  BY <1>2, RequestFrame
<1>3. CASE RequestStep(r)
  <2> USE DEF TypeInv, RequestsInv, HttpTypeOK
  <2>1. CASE HttpStep(r)
    BY <2>1 DEF HttpStep, RecordPayment, CommitCancel, EnqueueRefund, EnqueueCancel,
       EnqueueSelect, AbortRequest, Respond, Idle
  <2>2. ASSUME NEW u \in Users, NEW b \in Bookings, InitiatePayment(r, u, b) PROVE FALSE
    <3>1. req'[r].phase = "gateway"
      BY <2>2 DEF InitiatePayment
    <3> QED BY <3>1
  <2>3. ASSUME NEW u \in Users, NEW b \in Bookings,
               CancelCreatedBooking(r, u, b) \/ CancelConfirmedBooking(r, u, b)
        PROVE  FALSE
    BY <2>3 DEF CancelCreatedBooking, CancelConfirmedBooking, Enter, Idle
  <2>4. ASSUME NEW p \in PayIds, NotifyPaymentFailed(r, p) PROVE FALSE
    BY <2>4 DEF NotifyPaymentFailed, Enter, Idle
  <2> QED BY <1>3, <2>1, <2>2, <2>3, <2>4 DEF RequestStep
<1>4. CASE Crash
  BY <1>4 DEF Crash, Idle
<1>5. CASE ShortStep
  BY <1>5 DEF ShortStep, CreateBooking, SelectSeat, ReleaseSeat
<1> QED
  BY <1>1, <1>2, <1>3, <1>4, <1>5, ApiSteps DEF Next, Customer

(* The jobs of the chain.                                                  *)
InChain(job) == job.kind \in {"booking.select_seats", "booking.confirm_order"}
SameArgs(job, old) ==
    job.kind = old.kind /\ job.booking = old.booking /\ job.order = old.order

LEMMA InsertOrigin ==
    ASSUME TypeInv, NEW job, Insert(job), NEW i \in Jobs
    PROVE  jobs'[i] = job \/ jobs'[i] = jobs[i]
BY DEF Insert, FreeSlots, TypeInv, QueueInv, RiverTypeOK

LEMMA RetryOrigin ==
    ASSUME TypeInv, NEW j \in Jobs, Retry(j) \/ Complete(j) \/ Fetch(j), NEW i \in Jobs
    PROVE  SameArgs(jobs'[i], jobs[i]) \/ ~ InChain(jobs'[i])
<1> USE DEF TypeInv, QueueInv, RiverTypeOK, Job, SameArgs, InChain
<1>1. NoJob.kind = "none"
  BY DEF NoJob, JobOf
<1>2. CASE Complete(j)
  BY <1>1, <1>2 DEF Complete
<1>3. CASE Fetch(j)
  BY <1>3 DEF Fetch
<1>4. CASE Retry(j)
  BY <1>1, <1>4 DEF Retry
<1> QED
  BY <1>2, <1>3, <1>4

LEMMA ArgsOfJobs ==
    \A b : /\ \A st : ~ InChain(ReleaseSeatsArgs(b, st))
           /\ ~ InChain(CancelBookingArgs(b)) /\ ~ InChain(RefundPaymentArgs(b))
           /\ SelectSeatsArgs(b).kind = "booking.select_seats" /\ SelectSeatsArgs(b).booking = b
           /\ \A o, n : /\ ConfirmOrderArgs(b, o, n).kind = "booking.confirm_order"
                        /\ ConfirmOrderArgs(b, o, n).booking = b
                        /\ ConfirmOrderArgs(b, o, n).order = o
BY DEF InChain, ReleaseSeatsArgs, CancelBookingArgs, RefundPaymentArgs, SelectSeatsArgs,
   ConfirmOrderArgs, JobOf

LEMMA ApiJobs ==
    ASSUME TypeInv, Api, NEW i \in Jobs
    PROVE  \/ SameArgs(jobs'[i], jobs[i]) \/ ~ InChain(jobs'[i])
           \/ \E r \in Requests : EnqueueSelect(r) /\ jobs'[i] = SelectSeatsArgs(req[r].booking)
<1> USE DEF SameArgs
<1>1. CASE UNCHANGED jobs
  BY <1>1
<1>2. ASSUME NEW r \in Requests, HttpStep(r)
      PROVE  \/ SameArgs(jobs'[i], jobs[i]) \/ ~ InChain(jobs'[i])
             \/ EnqueueSelect(r) /\ jobs'[i] = SelectSeatsArgs(req[r].booking)
  <2>1. CASE EnqueueSelect(r)
    BY <2>1, InsertOrigin DEF EnqueueSelect
  <2>2. CASE EnqueueRefund(r)
    BY <2>2, InsertOrigin, ArgsOfJobs DEF EnqueueRefund
  <2>3. CASE EnqueueCancel(r)
    BY <2>3, InsertOrigin, ArgsOfJobs DEF EnqueueCancel
  <2>4. CASE RecordPayment(r) \/ CommitCancel(r) \/ AbortRequest(r)
    BY <1>1, <2>4 DEF RecordPayment, CommitCancel, AbortRequest
  <2> QED BY <1>2, <2>1, <2>2, <2>3, <2>4 DEF HttpStep
<1>3. ASSUME NEW r \in Requests, NEW u \in Users, NEW b \in Bookings,
             CancelCreatedBooking(r, u, b) \/ CancelConfirmedBooking(r, u, b)
      PROVE  SameArgs(jobs'[i], jobs[i]) \/ ~ InChain(jobs'[i])
  BY <1>3, InsertOrigin, ArgsOfJobs DEF CancelCreatedBooking, CancelConfirmedBooking
<1>4. ASSUME ~ \E r \in Requests : HttpStep(r),
             ~ \E r \in Requests, u \in Users, b \in Bookings :
                 CancelCreatedBooking(r, u, b) \/ CancelConfirmedBooking(r, u, b)
      PROVE  UNCHANGED jobs
  BY <1>4 DEF Api, CreateBooking, SelectSeat, ReleaseSeat, InitiatePayment,
     NotifyPaymentFailed, NotifyPaymentCompleted
<1> QED
  BY <1>1, <1>2, <1>3, <1>4

LEMMA QueueJobs ==
    ASSUME TypeInv, NEW j \in Jobs, Queue(j), NEW i \in Jobs
    PROVE  \/ SameArgs(jobs'[i], jobs[i]) \/ ~ InChain(jobs'[i])
           \/ /\ EnqueueConfirm(j)
              /\ jobs'[i] = ConfirmOrderArgs(BookingOf(j), work[j].order, work[j].count)
<1>1. CASE UNCHANGED jobs
  BY <1>1 DEF SameArgs
<1>2. CASE Retry(j) \/ Complete(j) \/ Fetch(j)
  BY <1>2, RetryOrigin
<1>3. CASE EnqueueConfirm(j)
  <2>1. \/ Retry(j)
        \/ Insert(ConfirmOrderArgs(BookingOf(j), work[j].order, work[j].count))
    BY <1>3 DEF EnqueueConfirm, EnqueueNext, Fail
  <2> QED BY <1>2, <1>3, <2>1, InsertOrigin DEF SameArgs
<1>4. CASE EnqueueRelease(j)
  <2>1. Retry(j) \/ Insert(ReleaseSeatsArgs(BookingOf(j), None))
    BY <1>4 DEF EnqueueRelease, EnqueueNext, Fail
  <2> QED BY <1>2, <2>1, InsertOrigin, ArgsOfJobs DEF SameArgs
<1>5. ASSUME ~ EnqueueConfirm(j), ~ EnqueueRelease(j)
      PROVE  UNCHANGED jobs \/ Retry(j) \/ Complete(j) \/ Fetch(j)
  BY <1>5 DEF Queue, StartWork, WorkStep, Rescue, FinishWork, Interrupted,
     ReadForRelease, ReleaseSeats, ReadForSelect, LockForSelect, CallSelectPlace,
     CommitOrder, CallGetOrder, CallSubmitOrder, CallConfirmOrder, ReadForCancel,
     CallReleasePlace, CallCancelOrder, ReadForRefund, CallCancelPayment, Return, Fail,
     FailAfterCall, AnswerLost, Refused
<1> QED
  BY <1>1, <1>2, <1>3, <1>4, <1>5

(* A worker that is to insert the job that confirms has just committed the *)
(* order.                                                                  *)
LEMMA EnqueueStep ==
    ASSUME TypeInv, NEW j \in Jobs, Queue(j), At(j, "booking.select_seats", "enqueue")'
    PROVE  CommitOrder(j) /\ UNCHANGED jobs /\ work'[j].order = work[j].order
<1>types. work \in [Jobs -> Local] /\ NotWorking.step # "enqueue"
  BY DEF TypeInv, QueueInv, WorkersTypeOK, NotWorking
<1> USE DEF At, Return, GoTo, Fail, FailAfterCall, AnswerLost, Refused, Local
<1>1. CASE StartWork(j) \/ FinishWork(j) \/ Interrupted(j)
  BY <1>types, <1>1 DEF StartWork, FinishWork, Interrupted
<1>2. CASE Rescue(j)
  BY <1>2 DEF Rescue
<1>3. CASE ReadForRelease(j) \/ ReleaseSeats(j) \/ ReadForRefund(j) \/ CallCancelPayment(j)
  BY <1>types, <1>3 DEF ReadForRelease, ReleaseSeats, ReadForRefund, CallCancelPayment
<1>4. CASE ReadForSelect(j) \/ LockForSelect(j)
  BY <1>types, <1>4 DEF ReadForSelect, LockForSelect
<1>5. CASE CallSelectPlace(j) \/ CallReleasePlace(j)
  BY <1>types, <1>5 DEF CallSelectPlace, CallReleasePlace
<1>6. CASE CallGetOrder(j) \/ CallSubmitOrder(j) \/ CallConfirmOrder(j)
  BY <1>types, <1>6 DEF CallGetOrder, CallSubmitOrder, CallConfirmOrder
<1>7. CASE ReadForCancel(j)
  BY <1>types, <1>7 DEF ReadForCancel
<1>8. CASE CallCancelOrder(j)
  <2>1. jobs[j].kind = "booking.cancel"
    BY <1>8 DEF CallCancelOrder
  <2>2. UNCHANGED jobs \/ work'[j].step = "idle"
    BY <1>types, <1>8 DEF CallCancelOrder, NotWorking
  <2> QED BY <2>1, <2>2
<1>9. CASE EnqueueConfirm(j) \/ EnqueueRelease(j)
  BY <1>types, <1>9 DEF EnqueueConfirm, EnqueueRelease, EnqueueNext
<1>10. CASE CommitOrder(j)
  BY <1>types, <1>10 DEF CommitOrder
<1> QED
  BY <1>1, <1>2, <1>3, <1>4, <1>5, <1>6, <1>7, <1>8, <1>9, <1>10 DEF Queue, WorkStep

-----------------------------------------------------------------------------
(* The chain.                                                              *)

(* A report of a captured payment, the start of the chain.                 *)
LEMMA ReportedIsPaid ==
    ASSUME TypeInv, NEW r \in Requests, NEW p \in PayIds, NotifyPaymentCompleted(r, p)
    PROVE  \E b \in Bookings : req'[r].booking = b /\ Paid(b)
<1>1. PICK b \in Bookings : payments[p].booking = b /\ IsPayment(p) /\ "captured" \in gateway[p]
  BY DEF NotifyPaymentCompleted, Report, TypeInv, TablesInv, PaymentReferences
<1>2. req'[r].booking = b
  BY <1>1 DEF NotifyPaymentCompleted, Enter, Idle, GetBookingByPaymentOrderID, TypeInv,
     RequestsInv, HttpTypeOK
<1> QED
  BY <1>1, <1>2 DEF Paid, PaymentsOfBooking

(* The parts of FulfilmentChain with the bookings as variables, so that    *)
(* what is true of a booking before a step can be used after it.           *)
Chain ==
    \A b : /\ \A r \in Requests : InPhase(r, "enqueueSelect") /\ req[r].booking = b => Paid(b)
           /\ \A j \in Jobs : InChain(jobs[j]) /\ jobs[j].booking = b => Paid(b)
           /\ \A i \in DOMAIN orders : orders[i].booking = b => Paid(b)
           /\ \A j \in Jobs : \A o :
                /\ /\ jobs[j].kind = "booking.confirm_order"
                   /\ jobs[j].booking = b /\ jobs[j].order = o
                   => HasOrder(b, o)
                /\ /\ At(j, "booking.select_seats", "enqueue")
                   /\ jobs[j].booking = b /\ work[j].order = o
                   => HasOrder(b, o)

LEMMA ChainIsFulfilment ==
    (FulfilmentChain <=> Chain) /\ (FulfilmentChain' <=> Chain')
BY Zenon DEF FulfilmentChain, Chain, InChain

LEMMA NextChain ==
    ASSUME TypeInv, RefundReferences, PaymentIds, Chain, Next
    PROVE  Chain'
<1> SUFFICES ASSUME NEW b
             PROVE  /\ \A r \in Requests :
                         InPhase(r, "enqueueSelect")' /\ req'[r].booking = b => Paid(b)'
                    /\ \A j \in Jobs : InChain(jobs'[j]) /\ jobs'[j].booking = b => Paid(b)'
                    /\ \A i \in DOMAIN orders' : orders'[i].booking = b => Paid(b)'
                    /\ \A j \in Jobs : \A o :
                         /\ /\ jobs'[j].kind = "booking.confirm_order"
                            /\ jobs'[j].booking = b /\ jobs'[j].order = o
                            => HasOrder(b, o)'
                         /\ /\ At(j, "booking.select_seats", "enqueue")'
                            /\ jobs'[j].booking = b /\ work'[j].order = o
                            => HasOrder(b, o)'
  BY DEF Chain, InChain, At, InPhase
<1>paid. Paid(b) => Paid(b)'
  BY PaidStays
<1>order. \A o : HasOrder(b, o) => HasOrder(b, o)'
  BY HasOrderStays
<1>1. ASSUME NEW r \in Requests, InPhase(r, "enqueueSelect")', req'[r].booking = b
      PROVE  Paid(b)'
  <2>1. CASE req'[r] = req[r]
    BY <1>1, <1>paid, <2>1 DEF Chain, InPhase
  <2> QED BY <1>1, <1>paid, <2>1, SelectPhase, ReportedIsPaid
<1>2. ASSUME NEW j \in Jobs, NEW o,
             InChain(jobs'[j]), jobs'[j].booking = b, jobs'[j].order = o
      PROVE  Paid(b)' /\ (jobs'[j].kind = "booking.confirm_order" => HasOrder(b, o)')
  <2>1. CASE SameArgs(jobs'[j], jobs[j])
    <3>1. InChain(jobs[j]) /\ jobs[j].booking = b /\ jobs[j].order = o
      BY <1>2, <2>1 DEF InChain, SameArgs
    <3>2. Paid(b) /\ (jobs[j].kind = "booking.confirm_order" => HasOrder(b, o))
      BY <3>1 DEF Chain
    <3> QED BY <1>paid, <1>order, <2>1, <3>2 DEF SameArgs
  <2>2. ASSUME NEW r \in Requests, EnqueueSelect(r), jobs'[j] = SelectSeatsArgs(req[r].booking)
        PROVE  Paid(b)' /\ jobs'[j].kind # "booking.confirm_order"
    BY <1>2, <1>paid, <2>2, ArgsOfJobs DEF Chain, EnqueueSelect
  <2>3. ASSUME NEW i \in Jobs, EnqueueConfirm(i),
               jobs'[j] = ConfirmOrderArgs(BookingOf(i), work[i].order, work[i].count)
        PROVE  Paid(b)' /\ HasOrder(b, o)'
    <3>1. jobs[i].booking = b /\ work[i].order = o
      BY <1>2, <2>3, ArgsOfJobs DEF BookingOf
    <3>2. At(i, "booking.select_seats", "enqueue") /\ InChain(jobs[i])
      BY <2>3 DEF EnqueueConfirm, At, InChain
    <3> QED BY <1>paid, <1>order, <3>1, <3>2 DEF Chain
  <2>4. UNCHANGED jobs => SameArgs(jobs'[j], jobs[j])
    BY DEF SameArgs
  <2> QED BY <1>2, <2>1, <2>2, <2>3, <2>4, ApiJobs, QueueJobs DEF Next, Customer, Crash
<1>3. ASSUME NEW i \in DOMAIN orders', orders'[i].booking = b PROVE Paid(b)'
  <2>1. CASE i \in DOMAIN orders
    BY <1>3, <1>paid, <2>1, OrderRows DEF Chain
  <2>2. ASSUME NEW j \in Jobs, CommitOrder(j), BookingOf(j) = b PROVE Paid(b)'
    BY <1>paid, <2>2 DEF Chain, CommitOrder, At, InChain, BookingOf
  <2> QED BY <1>3, <2>1, <2>2, OrderRows
<1>4. ASSUME NEW j \in Jobs, NEW o, At(j, "booking.select_seats", "enqueue")',
             jobs'[j].booking = b, work'[j].order = o
      PROVE  HasOrder(b, o)'
  <2>1. CASE Queue(j)
    <3>1. CommitOrder(j) /\ jobs[j].booking = b /\ work[j].order = o
      BY <1>4, <2>1, EnqueueStep
    <3>2. orders' = Append(orders, [booking |-> b, order |-> o, status |-> "STARTED"])
      BY <3>1 DEF CommitOrder, InsertBookingOrder, BookingOf
    <3>3. orders \in Seq(BookingOrder)
      BY DEF TypeInv, TablesInv, SqlcTypeOK
    <3>4. /\ Len(orders) + 1 \in DOMAIN orders'
          /\ orders'[Len(orders) + 1] = [booking |-> b, order |-> o, status |-> "STARTED"]
      BY <3>2, <3>3
    <3> QED BY <3>4 DEF HasOrder
  <2>2. CASE ~ Queue(j)
    <3>1. work'[j] = work[j] /\ (jobs'[j] = jobs[j] \/ work[j].step = "idle")
      BY <1>4, <2>2, QueueFrame, ApiFrame DEF Next, Customer, Crash, At, NotWorking
    <3> QED BY <1>4, <1>order, <3>1 DEF Chain, At
  <2> QED BY <2>1, <2>2
<1> QED
  BY <1>1, <1>2, <1>3, <1>4 DEF InChain

-----------------------------------------------------------------------------
(* What is submitted, and what is sold.                                    *)

LEMMA NextSubmitted ==
    ASSUME TypeInv, RefundReferences, PaymentIds, Chain, SubmittedIsPaid, Next
    PROVE  SubmittedIsPaid'
<1> DEFINE PaidOrder(o) == \E i \in DOMAIN orders, b \in Bookings :
                             orders[i].order = o /\ orders[i].booking = b /\ Paid(b)
<1>types. \A i \in DOMAIN orders : orders[i].booking \in Bookings
  BY RowTypes DEF TypeInv, TablesInv, SqlcTypeOK
<1> SUFFICES ASSUME NEW o \in Orders, epOrder'[o] \in {"SUBMITTED", "CONFIRMED"}
             PROVE  PaidOrder(o)'
  BY DEF SubmittedIsPaid, Paid, PaymentsOfBooking, IsPayment
<1>1. ASSUME PaidOrder(o) PROVE PaidOrder(o)'
  BY <1>1, PaidStays, OrderRows
<1>2. PaidOrder(o)
  <2>1. CASE epOrder[o] \in {"SUBMITTED", "CONFIRMED"}
    BY <1>types, <2>1 DEF SubmittedIsPaid
  <2>2. CASE epOrder[o] \notin {"SUBMITTED", "CONFIRMED"}
    <3>1. PICK j \in Jobs : CallSubmitOrder(j) /\ o = jobs[j].order
      BY <2>2, Submits
    <3>2. Paid(jobs[j].booking) /\ HasOrder(jobs[j].booking, o)
      BY <3>1 DEF Chain, InChain, CallSubmitOrder, At
    <3> QED BY <1>types, <3>2 DEF HasOrder
  <2> QED BY <2>1, <2>2
<1> QED
  BY <1>1, <1>2

(* Of a seat that is sold the holder has an order, and it is confirmed.    *)
OrderConfirmed(b) == \E o \in Orders : HasOrder(b, o) /\ epOrder[o] = "CONFIRMED"

LEMMA SoldIsOfOrder ==
    ASSUME TypeInv, TypeInv'
    PROVE  /\ SoldIsConfirmed <=>
                \A r \in bookingSeats : seatStatus[r.seat] = "SOLD" => OrderConfirmed(r.booking)
           /\ SoldIsConfirmed' <=>
                \A r \in bookingSeats' : seatStatus'[r.seat] = "SOLD" =>
                  \E b : b = r.booking /\ OrderConfirmed(b)'
<1>1. (\A i \in DOMAIN orders : orders[i].order \in Orders)
      /\ (\A i \in DOMAIN orders' : orders'[i].order \in Orders)
  BY RowTypes DEF TypeInv, TablesInv, SqlcTypeOK
<1> QED
  BY <1>1 DEF SoldIsConfirmed, OrderConfirmed, HasOrder

LEMMA OrderConfirmedStays ==
    ASSUME TypeInv, Next, NEW b, OrderConfirmed(b)
    PROVE  OrderConfirmed(b)'
BY HasOrderStays, ConfirmedStays DEF OrderConfirmed

(* CallConfirmOrder sells the seats of the booking whose order it has      *)
(* confirmed.                                                              *)
LEMMA SellsConfirmed ==
    ASSUME TypeInv, Next, Chain, NEW j \in Jobs, CallConfirmOrder(j), ~ UNCHANGED seatStatus,
           NEW b, b = BookingOf(j)
    PROVE  OrderConfirmed(b)'
<1>1. PICK o : o = jobs[j].order /\ HasOrder(b, o)
  BY DEF Chain, CallConfirmOrder, At, BookingOf
<1>2. o \in Orders
  BY <1>1, RowTypes DEF HasOrder, TypeInv, TablesInv, SqlcTypeOK
<1>3. epOrder' = [epOrder EXCEPT ![o] = "CONFIRMED"]
  BY <1>1 DEF CallConfirmOrder, ConfirmOrder
<1>4. HasOrder(b, o)' /\ epOrder'[o] = "CONFIRMED"
  BY <1>1, <1>2, <1>3, HasOrderStays DEF TypeInv, EpTypeOK
<1> QED
  BY <1>2, <1>4 DEF OrderConfirmed

LEMMA NextSold ==
    ASSUME TypeInv, TypeInv', LockDiscipline, SnapshotsCurrent, SeatLedger, Chain,
           SoldIsConfirmed, Next
    PROVE  SoldIsConfirmed'
<1>types. seatStatus \in [Seats -> SeatStatus] /\ bookingSeats \subseteq BookingSeat
  BY DEF TypeInv, TablesInv, SqlcTypeOK
<1> SUFFICES ASSUME NEW row \in bookingSeats', seatStatus'[row.seat] = "SOLD",
                    NEW b, b = row.booking
             PROVE  OrderConfirmed(b)'
  BY SoldIsOfOrder
<1>1. CASE row \in bookingSeats /\ seatStatus[row.seat] = "SOLD"
  BY <1>1, SoldIsOfOrder, OrderConfirmedStays
<1>2. ASSUME NEW u \in Users, NEW c \in Bookings, NEW s \in Seats, SelectSeat(u, c, s)
      PROVE  row \in bookingSeats /\ seatStatus[row.seat] = "SOLD"
  BY <1>types, <1>2 DEF SelectSeat, InsertBookingSeat, UpdateSeatStatus, BookingSeat
<1>3. ASSUME NEW u \in Users, NEW s \in Seats, ReleaseSeat(u, s)
      PROVE  row \in bookingSeats /\ seatStatus[row.seat] = "SOLD"
  BY <1>types, <1>3 DEF ReleaseSeat, DeleteBookingSeat, UpdateSeatStatus, BookingSeat
<1>4. ASSUME NEW j \in Jobs, ReleaseSeats(j)
      PROVE  row \in bookingSeats /\ seatStatus[row.seat] = "SOLD"
  BY <1>types, <1>4 DEF ReleaseSeats, DeleteBookingSeats, UpdateSeatsStatusByIDs, BookingSeat
<1>5. ASSUME NEW j \in Jobs, CallConfirmOrder(j), ~ (seatStatus[row.seat] = "SOLD")
      PROVE  OrderConfirmed(b)'
  <2>1. row \in bookingSeats /\ row.seat \in Seats
    BY <1>types, <1>5 DEF CallConfirmOrder, BookingSeat
  <2>2. seatStatus' = UpdateSeatsStatusByIDs(GetBookingSeats(BookingOf(j)), "SOLD")
    BY <1>5 DEF CallConfirmOrder
  <2>3. row.seat \in GetBookingSeats(BookingOf(j))
    BY <1>5, <2>1, <2>2 DEF UpdateSeatsStatusByIDs
  <2>4. row.booking = BookingOf(j)
    BY <2>1, <2>3 DEF GetBookingSeats, RowsOfBooking, SeatLedger
  <2> QED BY <1>5, <2>4, SellsConfirmed
<1>6. ASSUME NEW j \in Jobs, CallConfirmOrder(j)
      PROVE  row \in bookingSeats
  BY <1>6 DEF CallConfirmOrder
<1> QED
  BY <1>1, <1>2, <1>3, <1>4, <1>5, <1>6, SeatWriters

-----------------------------------------------------------------------------
(* The theorems.                                                           *)

LEMMA InitFulfilment == Init => FulfilmentInductive
<1> SUFFICES ASSUME Init PROVE FulfilmentInductive
  OBVIOUS
<1>1. PaymentInductive
  BY InitPaymentInductive
<1>2. FulfilmentChain
  BY DEF Init, HttpInit, RiverInit, WorkersInit, SqlcInit, Idle, NoJob, JobOf, NotWorking,
     InPhase, At, FulfilmentChain
<1>3. SoldIsConfirmed /\ SubmittedIsPaid
  BY DEF Init, SqlcInit, EpInit, SoldIsConfirmed, SubmittedIsPaid
<1> QED
  BY <1>1, <1>2, <1>3 DEF FulfilmentInductive

LEMMA NextFulfilment == FulfilmentInductive /\ [Next]_vars => FulfilmentInductive'
<1> SUFFICES ASSUME FulfilmentInductive, [Next]_vars PROVE FulfilmentInductive'
  OBVIOUS
<1>1. PaymentInductive'
  BY NextPaymentInductive DEF FulfilmentInductive
<1>2. /\ TypeInv /\ RefundReferences /\ LockDiscipline /\ SnapshotsCurrent /\ SeatLedger
      /\ PaymentIds /\ Chain /\ SoldIsConfirmed /\ SubmittedIsPaid
  BY InductiveParts, ChainIsFulfilment DEF FulfilmentInductive, PaymentInductive
<1>3. CASE Next
  <2>1. TypeInv'
    BY <1>2, <1>3, NextTypes
  <2>2. FulfilmentChain'
    BY <1>2, <1>3, NextChain, ChainIsFulfilment
  <2>3. SoldIsConfirmed' /\ SubmittedIsPaid'
    BY <1>2, <1>3, <2>1, NextSold, NextSubmitted
  <2> QED BY <1>1, <2>2, <2>3 DEF FulfilmentInductive
<1>4. CASE UNCHANGED vars
  <2> USE <1>2, <1>4 DEF vars, dbVars, txVars, epVars, pgVars
  <2>1. FulfilmentChain'
    <3>1. \A b : Paid(b)' = Paid(b) /\ \A o : HasOrder(b, o)' = HasOrder(b, o)
      BY DEF Paid, PaymentsOfBooking, IsPayment, HasOrder
    <3>2. Chain'
      BY <3>1 DEF Chain, InChain, InPhase, At
    <3> QED BY <3>2, ChainIsFulfilment
  <2>2. SoldIsConfirmed'
    BY DEF SoldIsConfirmed
  <2>3. SubmittedIsPaid'
    BY DEF SubmittedIsPaid, Paid, PaymentsOfBooking, IsPayment
  <2> QED BY <1>1, <2>1, <2>2, <2>3 DEF FulfilmentInductive
<1> QED
  BY <1>3, <1>4

(* A job of the chain exists only for a paid booking, and its order only   *)
(* moves forward at the provider: so whatever a retry, a crash or a lost   *)
(* answer leaves behind, what is sold is confirmed and what is submitted   *)
(* is paid.                                                                *)
THEOREM FulfilmentInvariance == Spec => []FulfilmentInductive
BY InitFulfilment, NextFulfilment, PTL DEF Spec

(* A seat is SOLD only for a booking that has a confirmed order, although  *)
(* ConfirmOrderWorker sells whatever seats the booking has when the order  *)
(* is confirmed, and SelectSeat and the release worker may have changed    *)
(* them since the places were selected.                                    *)
THEOREM OnlyConfirmedIsSold == Spec => []SoldIsConfirmed
BY FulfilmentInvariance, PTL DEF FulfilmentInductive

(* No worker submits an order for a booking that has not been paid,        *)
(* through retries of its jobs, crashes and orders that are left behind.   *)
THEOREM OnlyPaidIsSubmitted == Spec => []SubmittedIsPaid
BY FulfilmentInvariance, PTL DEF FulfilmentInductive
=============================================================================
