----------------------------- MODULE HttpServer -----------------------------
(***************************************************************************)
(* The handlers of internal/ports/transport_http.go that change state.     *)
(*                                                                         *)
(* A handler whose transaction starts with a write and calls nothing       *)
(* outside the main database (CreateBooking, SelectSeat, ReleaseSeat) is   *)
(* one action: it waits for the write lock, and fails without an effect    *)
(* when a check or the wait fails.  The others keep a transaction open     *)
(* across a call to the gateway or the job queue, or enqueue a job after   *)
(* their commit: req holds what they know between those steps.             *)
(***************************************************************************)
EXTENDS Sqlite, Sqlc, River, PaymentGateway

VARIABLE req

(* gateway: InitiatePayment waits for the payment gateway.                 *)
(* commit, refund: CancelBooking of a CREATED, a CONFIRMED booking.        *)
(* enqueueCancel, enqueueSelect: NotifyPayment* after the commit.          *)
Phases == {"gateway", "commit", "refund", "enqueueCancel", "enqueueSelect"}

Request == [phase: Phases \cup {"idle"},
            booking: Bookings \cup {None},
            pay: PayIds \cup {None},
            amount: SUBSET Seats]

Idle == [phase |-> "idle", booking |-> None, pay |-> None, amount |-> {}]

HttpTypeOK == req \in [Requests -> Request]
HttpInit == req = [r \in Requests |-> Idle]

InPhase(r, phase) == req[r].phase = phase
IsIdle(r) == InPhase(r, "idle")
Enter(r, phase, b) == req' = [req EXCEPT ![r] = [Idle EXCEPT !.phase = phase, !.booking = b]]
Respond(r) == req' = [req EXCEPT ![r] = Idle]

(* Bound: a handler that enqueues n jobs (counting the ones their workers  *)
(* will insert) runs when the queue has slots for them.                    *)
Reserved ==
    Cardinality(Parents)
    + 2 * Cardinality({r \in Requests : req[r].phase \in {"enqueueCancel", "enqueueSelect"}})
    + Cardinality({r \in Requests : InPhase(r, "refund")})
Room(n) == Cardinality(FreeSlots) >= n + Reserved

-----------------------------------------------------------------------------
CreateBooking(u) ==
    /\ LockFree
    /\ UnusedBookings # {}
    /\ bookings' = CreateBookingRow(CHOOSE b \in UnusedBookings : TRUE, u)
    /\ CommitChanges
    /\ UNCHANGED <<bookingSeats, seatStatus, payments, orders, req, jobs, pgVars, faults>>

(* The handler checks neither the status nor the owner of the booking,     *)
(* nor the status of the seat: the constraints of booking_seats decide.    *)
SelectSeat(u, b, s) ==
    /\ LockFree
    /\ CanInsertBookingSeat(b, s)
    /\ bookingSeats' = InsertBookingSeat(u, b, s)
    /\ seatStatus' = UpdateSeatStatus(s, "RESERVED")
    /\ CommitChanges
    /\ UNCHANGED <<bookings, payments, orders, req, jobs, pgVars, faults>>

(* Mutant: the number of deleted rows is not checked.                      *)
ReleaseSeatUnchecked(u, s) ==
    /\ LockFree
    /\ bookingSeats' = DeleteBookingSeat(s, u)
    /\ seatStatus' = UpdateSeatStatus(s, "FREE")
    /\ CommitChanges
    /\ UNCHANGED <<bookings, payments, orders, req, jobs, pgVars, faults>>

ReleaseSeat(u, s) ==
    /\ LockFree
    /\ RowsOfSeatAndUser(s, u) # {}
    /\ bookingSeats' = DeleteBookingSeat(s, u)
    /\ seatStatus' = UpdateSeatStatus(s, "FREE")
    /\ CommitChanges
    /\ UNCHANGED <<bookings, payments, orders, req, jobs, pgVars, faults>>

-----------------------------------------------------------------------------
(* InitiatePayment reads the booking and its total, and asks the gateway   *)
(* for a payment ...                                                       *)
InitiatePayment(r, u, b) ==
    /\ IsIdle(r)
    /\ IsBooking(b) /\ bookings[b].user = u /\ bookings[b].status = "CREATED"
    /\ GetBookingTotal(b) # {}
    /\ UnusedPayIds # {}
    /\ LET p == CHOOSE q \in UnusedPayIds : TRUE IN
         /\ InitPayment(p)
         /\ req' = [req EXCEPT ![r] = [phase |-> "gateway", booking |-> b,
                                       pay |-> p, amount |-> GetBookingTotal(b)]]
    /\ BeginRead(r)
    /\ UNCHANGED <<dbVars, jobs, faults>>

(* Mutant: the booking is read outside the transaction that writes.        *)
RecordPaymentLater(r) ==
    /\ InPhase(r, "gateway")
    /\ LockFree
    /\ payments' = InsertBookingPayment(req[r].pay, req[r].booking, req[r].amount)
    /\ bookings' = UpdateBookingStatus(req[r].booking, "PAYMENT_INITIATED")
    /\ CommitChanges
    /\ Respond(r)
    /\ UNCHANGED <<bookingSeats, seatStatus, orders, jobs, pgVars, faults>>

(* ... and records the payment and the new status of the booking.          *)
RecordPayment(r) ==
    /\ InPhase(r, "gateway")
    /\ CanWrite(r)
    /\ payments' = InsertBookingPayment(req[r].pay, req[r].booking, req[r].amount)
    /\ bookings' = UpdateBookingStatus(req[r].booking, "PAYMENT_INITIATED")
    /\ CommitChanges
    /\ Respond(r)
    /\ UNCHANGED <<bookingSeats, seatStatus, orders, jobs, pgVars, faults>>

-----------------------------------------------------------------------------
(* CancelBooking reads the booking, updates it, which takes the lock, and  *)
(* enqueues the first job: the update is seen by others when it commits.   *)
CancelCreatedBooking(r, u, b) ==
    /\ IsIdle(r) /\ LockFree
    /\ IsBooking(b) /\ bookings[b].user = u /\ bookings[b].status = "CREATED"
    /\ Room(1) /\ Insert(ReleaseSeatsArgs(b, bookings[b].status))
    /\ Lock(r)
    /\ Enter(r, "commit", b)
    /\ UNCHANGED <<dbVars, pgVars, faults>>

CommitCancel(r) ==
    /\ InPhase(r, "commit")
    /\ CanWrite(r)
    /\ bookings' = CancelBookingRow(req[r].booking, bookings[req[r].booking].user)
    /\ CommitChanges
    /\ Respond(r)
    /\ UNCHANGED <<bookingSeats, seatStatus, payments, orders, jobs, pgVars, faults>>

(* Mutant: the job of a CREATED booking, with the status of this one.      *)
CancelConfirmedLikeCreated(r, u, b) ==
    /\ IsIdle(r) /\ LockFree
    /\ IsBooking(b) /\ bookings[b].user = u /\ bookings[b].status = "CONFIRMED"
    /\ Room(3) /\ Insert(ReleaseSeatsArgs(b, bookings[b].status))
    /\ Lock(r)
    /\ Enter(r, "refund", b)
    /\ UNCHANGED <<dbVars, pgVars, faults>>

(* The update of a CONFIRMED booking finds no row to change, but it takes  *)
(* the lock all the same.                                                  *)
CancelConfirmedBooking(r, u, b) ==
    /\ IsIdle(r) /\ LockFree
    /\ IsBooking(b) /\ bookings[b].user = u /\ bookings[b].status = "CONFIRMED"
    /\ Room(3) /\ Insert(CancelBookingArgs(b))
    /\ Lock(r)
    /\ Enter(r, "refund", b)
    /\ UNCHANGED <<dbVars, pgVars, faults>>

EnqueueRefund(r) ==
    /\ InPhase(r, "refund")
    /\ Insert(RefundPaymentArgs(req[r].booking))
    /\ EndUnchanged(r)
    /\ Respond(r)
    /\ UNCHANGED <<dbVars, pgVars, faults>>

-----------------------------------------------------------------------------
(* The reports of the gateway.  An order id without a row is answered 404  *)
(* and changes nothing.                                                    *)
NotifyPaymentFailed(r, p) ==
    /\ IsIdle(r) /\ LockFree /\ Room(2)
    /\ IsPayment(p) /\ Report(p, "declined")
    /\ payments' = UpdateBookingPaymentStatus(p, "FAIL")
    /\ bookings' = UpdateBookingStatus(GetBookingByPaymentOrderID(p), "CANCELLED")
    /\ CommitChanges
    /\ Enter(r, "enqueueCancel", GetBookingByPaymentOrderID(p))
    /\ UNCHANGED <<bookingSeats, seatStatus, orders, jobs, faults>>

NotifyPaymentCompleted(r, p) ==
    /\ IsIdle(r) /\ LockFree /\ Room(2)
    /\ IsPayment(p) /\ Report(p, "captured")
    /\ payments' = UpdateBookingPaymentStatus(p, "SUCCESS")
    /\ bookings' = UpdateBookingStatus(GetBookingByPaymentOrderID(p), "CONFIRMED")
    /\ CommitChanges
    /\ Enter(r, "enqueueSelect", GetBookingByPaymentOrderID(p))
    /\ UNCHANGED <<bookingSeats, seatStatus, orders, jobs, faults>>

(* Mutant: the failed payment enqueues the job of the completed one.       *)
EnqueueCancelMixedUp(r) ==
    /\ InPhase(r, "enqueueCancel")
    /\ Insert(SelectSeatsArgs(req[r].booking))
    /\ Respond(r)
    /\ UNCHANGED <<dbVars, txVars, pgVars, faults>>

EnqueueCancel(r) ==
    /\ InPhase(r, "enqueueCancel")
    /\ Insert(CancelBookingArgs(req[r].booking))
    /\ Respond(r)
    /\ UNCHANGED <<dbVars, txVars, pgVars, faults>>

EnqueueSelect(r) ==
    /\ InPhase(r, "enqueueSelect")
    /\ Insert(SelectSeatsArgs(req[r].booking))
    /\ Respond(r)
    /\ UNCHANGED <<dbVars, txVars, pgVars, faults>>

-----------------------------------------------------------------------------
(* The request ends early and rolls back what it has not committed: its    *)
(* write is refused with SQLITE_BUSY, or a call fails, an insert fails     *)
(* (which NotifyPayment* only log) or the client has gone.                 *)
AbortRequest(r) ==
    /\ ~IsIdle(r)
    /\ \/ InPhase(r, "gateway") /\ ~CanWrite(r) /\ NoFault
       \/ Fault
    /\ EndUnchanged(r)
    /\ Respond(r)
    /\ UNCHANGED <<dbVars, jobs, pgVars>>

HttpStep(r) ==
    RecordPayment(r) \/ CommitCancel(r) \/ EnqueueRefund(r)
    \/ EnqueueCancel(r) \/ EnqueueSelect(r) \/ AbortRequest(r)
=============================================================================
