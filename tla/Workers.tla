------------------------------ MODULE Workers -------------------------------
(***************************************************************************)
(* The River workers of internal/portriver.  Each Work method opens a      *)
(* transaction on the main database, calls the event provider or the       *)
(* payment gateway while it is open, commits, and may then insert a next   *)
(* job.  A step of the model is a Work method up to and including its next *)
(* call outside the process; work holds the variables of the method.       *)
(***************************************************************************)
EXTENDS Sqlite, Sqlc, River, EventProvider, PaymentGateway

CONSTANT WorkersHaveClient \* FALSE: main.go passes deps.RiverClient to the
                           \* worker constructors before InitRiverClient sets it

ASSUME ClientAssumption == WorkersHaveClient \in BOOLEAN

VARIABLE work

(* "returned": Work returned nil and River has not recorded it yet.        *)
Steps == {"begin", "releaseSeats", "insertOrder", "selectPlaces",
          "submit", "confirm", "releasePlaces", "refund",
          "enqueue", "returned"}

Local == [step: Steps \cup {"idle"},
          seats: SUBSET Seats,          \* seatIDs (those still to do)
          order: Orders \cup {None},    \* orderID
          count: Nat,                   \* selectedSeats
          pay: PayIds \cup {None}]      \* payment

NotWorking == [step |-> "idle", seats |-> {}, order |-> None, count |-> 0, pay |-> None]

WorkersTypeOK == work \in [Jobs -> Local]
WorkersInit == work = [j \in Jobs |-> NotWorking]

At(j, kind, step) == jobs[j].kind = kind /\ work[j].step = step
BookingOf(j) == jobs[j].booking
GoTo(j, step) == work' = [work EXCEPT ![j].step = step]
Return(j) == GoTo(j, "returned") /\ UNCHANGED jobs

(* Mutant: no deferred Rollback.                                           *)
FailWithoutRollback(j) ==
    UNCHANGED txVars /\ Retry(j) /\ work' = [work EXCEPT ![j] = NotWorking]

(* Work returns an error: the deferred Rollback runs, River retries.       *)
Fail(j) == EndUnchanged(j) /\ Retry(j) /\ work' = [work EXCEPT ![j] = NotWorking]

(* A call had its effect, but the answer is lost.                          *)
AnswerLost(j) == Fail(j) /\ Fault

(* A call had its effect, but Work fails before its transaction commits:   *)
(* the write is refused with SQLITE_BUSY, or the answer is lost.           *)
FailAfterCall(j) == Fail(j) /\ (IF CanWrite(j) THEN Fault ELSE NoFault)

(* The callee refuses the call.                                            *)
Refused(j) == Fail(j) /\ NoFault

-----------------------------------------------------------------------------
StartWork(j) ==
    /\ Fetch(j)
    /\ GoTo(j, "begin")
    /\ UNCHANGED <<dbVars, txVars, epVars, pgVars, faults>>

(* River records the completion of a job whose Work returned nil.          *)
FinishWork(j) ==
    /\ work[j].step = "returned"
    /\ Complete(j)
    /\ work' = [work EXCEPT ![j] = NotWorking]
    /\ UNCHANGED <<dbVars, txVars, epVars, pgVars, faults>>

(* Jobs left running by a crash are rescued.                               *)
Rescue(j) ==
    /\ jobs[j].state = "running" /\ work[j].step = "idle"
    /\ Retry(j)
    /\ UNCHANGED <<work, dbVars, txVars, epVars, pgVars, faults>>

(* The last step of two of the workers inserts the next job.  Insert       *)
(* through a nil client panics, after the commit.                          *)
EnqueueNext(j, job) ==
    /\ IF WorkersHaveClient
       THEN Insert(job) /\ GoTo(j, "returned") /\ UNCHANGED txVars
       ELSE Fail(j)
    /\ UNCHANGED <<dbVars, epVars, pgVars, faults>>

-----------------------------------------------------------------------------
(* ReleaseSeatsWorker                                                      *)

ReadForRelease(j) ==
    /\ At(j, "booking.release_seats", "begin")
    /\ IF jobs[j].statusEq \notin {None, bookings[BookingOf(j)].status}
       THEN Return(j) /\ UNCHANGED txVars
       ELSE /\ work' = [work EXCEPT ![j].step = "releaseSeats",
                                    ![j].seats = GetBookingSeats(BookingOf(j))]
            /\ BeginRead(j)
            /\ UNCHANGED jobs
    /\ UNCHANGED <<dbVars, epVars, pgVars, faults>>

(* Mutant: the seats are read outside the transaction that frees them.     *)
ReleaseSeatsLater(j) ==
    /\ At(j, "booking.release_seats", "releaseSeats")
    /\ LockFree
    /\ bookingSeats' = DeleteBookingSeats(BookingOf(j))
    /\ seatStatus' = UpdateSeatsStatusByIDs(work[j].seats, "FREE")
    /\ IF work[j].seats = {} THEN EndUnchanged(j) ELSE CommitChanges
    /\ Return(j)
    /\ UNCHANGED <<bookings, payments, orders, epVars, pgVars, faults>>

ReleaseSeats(j) ==
    /\ At(j, "booking.release_seats", "releaseSeats")
    /\ CanWrite(j)
    /\ bookingSeats' = DeleteBookingSeats(BookingOf(j))
    /\ seatStatus' = UpdateSeatsStatusByIDs(work[j].seats, "FREE")
    /\ IF work[j].seats = {} THEN EndUnchanged(j) ELSE CommitChanges
    /\ Return(j)
    /\ UNCHANGED <<bookings, payments, orders, epVars, pgVars, faults>>

-----------------------------------------------------------------------------
(* SelectSeatsWorker                                                       *)

ReadForSelect(j) ==
    /\ At(j, "booking.select_seats", "begin")
    /\ \/ /\ GetBookingSeats(BookingOf(j)) # {} /\ UnusedOrders # {}
          /\ LET o == CHOOSE o \in UnusedOrders : TRUE IN
               /\ StartOrder(o)
               /\ work' = [work EXCEPT ![j] =
                             [@ EXCEPT !.step = "insertOrder", !.order = o,
                                       !.seats = GetBookingSeats(BookingOf(j))]]
          /\ BeginRead(j)
          /\ UNCHANGED jobs
       \/ /\ GetBookingSeats(BookingOf(j)) = {} \/ UnusedOrders = {}
          /\ Fail(j)
          /\ UNCHANGED epVars
    /\ UNCHANGED <<dbVars, pgVars, faults>>

(* The first write: from here the transaction holds the write lock.        *)
LockForSelect(j) ==
    /\ At(j, "booking.select_seats", "insertOrder")
    /\ CanWrite(j)
    /\ Lock(j)
    /\ work' = [work EXCEPT ![j].step = "selectPlaces", ![j].seats = @ \cap External]
    /\ UNCHANGED <<dbVars, jobs, epVars, pgVars, faults>>

CallSelectPlace(j) ==
    /\ At(j, "booking.select_seats", "selectPlaces")
    /\ \E s \in work[j].seats :
         LET o == work[j].order
             ok == SelectPlaceOK(s, o)
         IN \/ /\ ok /\ SelectPlace(s, o)
               /\ work' = [work EXCEPT ![j] =
                             [@ EXCEPT !.seats = work[j].seats \ {s},
                                       !.count = work[j].count + 1]]
               /\ UNCHANGED <<jobs, txVars, faults>>
            \/ ok /\ SelectPlace(s, o) /\ AnswerLost(j)
            \/ ~ok /\ Refused(j) /\ UNCHANGED epVars
    /\ UNCHANGED <<dbVars, pgVars>>

CommitOrder(j) ==
    /\ At(j, "booking.select_seats", "selectPlaces")
    /\ work[j].seats = {}
    /\ orders' = InsertBookingOrder(BookingOf(j), work[j].order, "STARTED")
    /\ CommitChanges
    /\ GoTo(j, "enqueue")
    /\ UNCHANGED <<bookings, bookingSeats, seatStatus, payments, jobs, epVars, pgVars, faults>>

EnqueueConfirm(j) ==
    /\ At(j, "booking.select_seats", "enqueue")
    /\ EnqueueNext(j, ConfirmOrderArgs(BookingOf(j), work[j].order, work[j].count))

-----------------------------------------------------------------------------
(* ConfirmOrderWorker                                                      *)

(* The order is decoded whatever the HTTP status of the answer.            *)
CallGetOrder(j) ==
    /\ At(j, "booking.confirm_order", "begin")
    /\ LET o == jobs[j].order IN
       \E order \in GetOrderAnswers(o) :
         /\ IF order = ErrorBody THEN Fault ELSE NoFault
         /\ \/ order.places_count # jobs[j].expectedPlaces /\ Fail(j)
            \/ /\ order.places_count = jobs[j].expectedPlaces
               /\ order.status \in {"CANCELLED", "CONFIRMED"}
               /\ Return(j) /\ UNCHANGED txVars
            \/ /\ order.places_count = jobs[j].expectedPlaces
               /\ order.status \notin {"CANCELLED", "CONFIRMED"}
               /\ GoTo(j, IF order.status = "STARTED" THEN "submit" ELSE "confirm")
               /\ BeginRead(j) /\ UNCHANGED jobs
    /\ UNCHANGED <<dbVars, epVars, pgVars>>

(* The order is submitted, and the first write to booking_orders takes the *)
(* lock or fails.                                                          *)
CallSubmitOrder(j) ==
    /\ At(j, "booking.confirm_order", "submit")
    /\ LET o == jobs[j].order
           ok == SubmitOrderOK(o)
       IN \/ /\ ok /\ SubmitOrder(o)
             /\ \/ CanWrite(j) /\ Lock(j) /\ GoTo(j, "confirm") /\ UNCHANGED <<jobs, faults>>
                \/ FailAfterCall(j)
          \/ ~ok /\ Refused(j) /\ UNCHANGED epVars
    /\ UNCHANGED <<dbVars, pgVars>>

(* Mutant: the commit comes before the call, which may fail.               *)
CallConfirmOrderLast(j) ==
    /\ At(j, "booking.confirm_order", "confirm")
    /\ CanWrite(j)
    /\ \/ ConfirmOrderOK(jobs[j].order) /\ ConfirmOrder(jobs[j].order) /\ NoFault
       \/ UNCHANGED epVars /\ Fault
    /\ orders' = UpdateBookingOrderStatus(BookingOf(j), "CONFIRMED")
    /\ seatStatus' = UpdateSeatsStatusByIDs(GetBookingSeats(BookingOf(j)), "SOLD")
    /\ CommitChanges
    /\ Return(j)
    /\ UNCHANGED <<bookings, bookingSeats, payments, pgVars>>

(* The order is confirmed, and the seats of the booking are sold.          *)
CallConfirmOrder(j) ==
    /\ At(j, "booking.confirm_order", "confirm")
    /\ LET o == jobs[j].order
           b == BookingOf(j)
           ok == ConfirmOrderOK(o)
       IN \/ /\ ok /\ CanWrite(j) /\ ConfirmOrder(o)
             /\ orders' = UpdateBookingOrderStatus(b, "CONFIRMED")
             /\ seatStatus' = UpdateSeatsStatusByIDs(GetBookingSeats(b), "SOLD")
             /\ CommitChanges
             /\ Return(j) /\ NoFault
          \/ ok /\ ConfirmOrder(o) /\ FailAfterCall(j) /\ UNCHANGED <<orders, seatStatus>>
          \/ ~ok /\ Refused(j) /\ UNCHANGED <<epVars, orders, seatStatus>>
    /\ UNCHANGED <<bookings, bookingSeats, payments, pgVars>>

-----------------------------------------------------------------------------
(* CancelBookingWorker                                                     *)

ReadForCancel(j) ==
    /\ At(j, "booking.cancel", "begin")
    /\ IF GetBookingSeats(BookingOf(j)) = {}
       THEN Return(j) /\ UNCHANGED txVars
       ELSE /\ work' = [work EXCEPT ![j] =
                          [@ EXCEPT !.step = "releasePlaces",
                                    !.order = GetBookingOrder(BookingOf(j)),
                                    !.seats = GetBookingSeats(BookingOf(j)) \cap External]]
            /\ BeginRead(j)
            /\ UNCHANGED jobs
    /\ UNCHANGED <<dbVars, epVars, pgVars, faults>>

CallReleasePlace(j) ==
    /\ At(j, "booking.cancel", "releasePlaces")
    /\ \E s \in work[j].seats :
         \/ /\ ReleasePlaceOK(s) /\ ReleasePlace(s)
            /\ work' = [work EXCEPT ![j].seats = @ \ {s}]
            /\ UNCHANGED <<jobs, txVars, faults>>
         \/ ReleasePlaceOK(s) /\ ReleasePlace(s) /\ AnswerLost(j)
         \/ ~ReleasePlaceOK(s) /\ Refused(j) /\ UNCHANGED epVars
    /\ UNCHANGED <<dbVars, pgVars>>

(* The order, if there is one, is cancelled; its row is updated and the    *)
(* transaction commits.                                                    *)
CallCancelOrder(j) ==
    /\ At(j, "booking.cancel", "releasePlaces")
    /\ work[j].seats = {}
    /\ LET o == work[j].order IN
       \/ /\ o = None
          /\ EndUnchanged(j) /\ GoTo(j, "enqueue")
          /\ UNCHANGED <<orders, jobs, epVars, faults>>
       \/ /\ o # None /\ CancelOrderOK(o) /\ CanWrite(j) /\ CancelOrder(o)
          /\ orders' = UpdateBookingOrderStatus(BookingOf(j), "CANCELLED")
          /\ CommitChanges /\ GoTo(j, "enqueue")
          /\ UNCHANGED <<jobs, faults>>
       \/ /\ o # None /\ CancelOrderOK(o) /\ CancelOrder(o)
          /\ FailAfterCall(j) /\ UNCHANGED orders
       \/ /\ o # None /\ CancelOrderRefused(o)
          /\ Refused(j) /\ UNCHANGED <<epVars, orders>>
    /\ UNCHANGED <<bookings, bookingSeats, seatStatus, payments, pgVars>>

EnqueueRelease(j) ==
    /\ At(j, "booking.cancel", "enqueue")
    /\ EnqueueNext(j, ReleaseSeatsArgs(BookingOf(j), None))

-----------------------------------------------------------------------------
(* RefundPaymentWorker                                                     *)

ReadForRefund(j) ==
    /\ At(j, "payment.refund", "begin")
    /\ LET paid == {p \in PaymentsOfBooking(BookingOf(j)) : payments[p].status = "SUCCESS"} IN
       \/ /\ paid # PaymentsOfBooking(BookingOf(j)) \/ paid = {}
          /\ Return(j) /\ UNCHANGED txVars
       \/ /\ \E p \in paid :
               work' = [work EXCEPT ![j].step = "refund", ![j].pay = p]
          /\ BeginRead(j) /\ UNCHANGED jobs
    /\ UNCHANGED <<dbVars, epVars, pgVars, faults>>

(* Mutant: the payment is read outside the transaction that updates it.    *)
CallCancelPaymentLater(j) ==
    /\ At(j, "payment.refund", "refund")
    /\ CancelPaymentOK(work[j].pay) /\ LockFree /\ CancelPayment(work[j].pay)
    /\ payments' = UpdateBookingPaymentStatus(work[j].pay, "REFUNDED")
    /\ CommitChanges /\ Return(j)
    /\ UNCHANGED <<bookings, bookingSeats, seatStatus, orders, epVars, faults>>

(* The payment is cancelled, unless the gateway declines.  Of the answer   *)
(* only the HTTP status is looked at: one that says success = false in its *)
(* body is taken for a cancellation.                                       *)
CallCancelPayment(j) ==
    /\ At(j, "payment.refund", "refund")
    /\ LET p == work[j].pay IN
       \/ /\ CanWrite(j)
          /\ \/ CancelPaymentOK(p) /\ CancelPayment(p)
             \/ DeclineToCancel
          /\ payments' = UpdateBookingPaymentStatus(p, "REFUNDED")
          /\ CommitChanges /\ Return(j) /\ NoFault
       \/ /\ CancelPaymentOK(p) /\ CancelPayment(p)
          /\ FailAfterCall(j) /\ UNCHANGED payments
       \/ /\ DeclineToCancel
          /\ Refused(j) /\ UNCHANGED payments
    /\ UNCHANGED <<bookings, bookingSeats, seatStatus, orders, epVars>>

-----------------------------------------------------------------------------
(* Mutant: a write refused with SQLITE_BUSY is tried again and again in    *)
(* the same transaction.                                                   *)
InterruptedByFaults(j) ==
    /\ work[j].step \notin {"idle", "returned"} /\ Fault
    /\ Fail(j)
    /\ UNCHANGED <<dbVars, epVars, pgVars>>

(* Work fails between two calls or before the next one has an effect: a    *)
(* write is refused with SQLITE_BUSY, or a call, a commit or an insert     *)
(* fails, or the context of the job ends.                                  *)
Interrupted(j) ==
    /\ \/ /\ work[j].step \in {"releaseSeats", "insertOrder"}
          /\ ~CanWrite(j) /\ NoFault
       \/ work[j].step \notin {"idle", "returned"} /\ Fault
    /\ Fail(j)
    /\ UNCHANGED <<dbVars, epVars, pgVars>>

WorkStep(j) ==
    \/ FinishWork(j) \/ Interrupted(j)
    \/ ReadForRelease(j) \/ ReleaseSeats(j)
    \/ ReadForSelect(j) \/ LockForSelect(j) \/ CallSelectPlace(j)
    \/ CommitOrder(j) \/ EnqueueConfirm(j)
    \/ CallGetOrder(j) \/ CallSubmitOrder(j) \/ CallConfirmOrder(j)
    \/ ReadForCancel(j) \/ CallReleasePlace(j) \/ CallCancelOrder(j)
    \/ EnqueueRelease(j)
    \/ ReadForRefund(j) \/ CallCancelPayment(j)
=============================================================================
