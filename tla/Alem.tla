-------------------------------- MODULE Alem --------------------------------
(***************************************************************************)
(* The whole backend: the HTTP handlers and the River workers over the     *)
(* main database, the job queue, the event provider and the payment        *)
(* gateway, with crashes of the server process.                            *)
(***************************************************************************)
EXTENDS HttpServer, Workers

vars == <<dbVars, txVars, jobs, epVars, pgVars, req, work, faults>>

TypeOK ==
    /\ SqlcTypeOK /\ SqliteTypeOK /\ RiverTypeOK /\ EpTypeOK /\ PgTypeOK
    /\ HttpTypeOK /\ WorkersTypeOK
    /\ faults \in 0..MaxFaults

Init ==
    /\ SqlcInit /\ SqliteInit /\ RiverInit /\ EpInit /\ PgInit
    /\ HttpInit /\ WorkersInit /\ FaultsInit

-----------------------------------------------------------------------------
Api ==
    \/ \E u \in Users :
         \/ CreateBooking(u)
         \/ \E b \in Bookings, s \in Seats : SelectSeat(u, b, s)
         \/ \E s \in Seats : ReleaseSeat(u, s)
         \/ \E r \in Requests, b \in Bookings :
              \/ InitiatePayment(r, u, b)
              \/ CancelCreatedBooking(r, u, b)
              \/ CancelConfirmedBooking(r, u, b)
    \/ \E r \in Requests :
         \/ HttpStep(r)
         \/ \E p \in PayIds : NotifyPaymentFailed(r, p) \/ NotifyPaymentCompleted(r, p)

(* A customer who was redirected to the page of a payment tries to pay.    *)
Customer(p) ==
    /\ IsPayment(p)
    /\ Decline(p) \/ Capture(p)
    /\ UNCHANGED <<dbVars, txVars, jobs, req, faults>>

Queue(j) == StartWork(j) \/ WorkStep(j) \/ Rescue(j)

(* The process dies and is started again: the open transactions, the       *)
(* requests and the running workers are gone, the databases remain.        *)
Crash ==
    /\ Fault
    /\ CloseAll
    /\ req' = [r \in Requests |-> Idle]
    /\ work' = [j \in Jobs |-> NotWorking]
    /\ UNCHANGED <<dbVars, jobs, epVars, pgVars>>

Next ==
    \/ Api /\ UNCHANGED <<epVars, work>>
    \/ (\E p \in PayIds : Customer(p)) /\ UNCHANGED <<epVars, work>>
    \/ (\E j \in Jobs : Queue(j)) /\ UNCHANGED req
    \/ Crash

Spec == Init /\ [][Next]_vars

(* A request that is being served goes on, a worker goes on, and River     *)
(* fetches an available job sooner or later, the oldest first, and rescues *)
(* the ones a crash left behind.  Users, customers and the gateway may     *)
(* stop at any time.                                                       *)
Fairness ==
    /\ \A r \in Requests : WF_vars(HttpStep(r) /\ UNCHANGED <<epVars, work>>)
    /\ \A j \in Jobs :
         /\ SF_vars(StartWork(j) /\ UNCHANGED req)
         /\ WF_vars(WorkStep(j) /\ UNCHANGED req)
         /\ WF_vars(Rescue(j) /\ UNCHANGED req)

FairSpec == Spec /\ Fairness

-----------------------------------------------------------------------------
(* Safety                                                                  *)

Held(s) == \E r \in bookingSeats : r.seat = s

(* The two places that say who has a seat agree: booking_seats has at most *)
(* one row for a seat, a seat with a row is not FREE, a SOLD seat has one, *)
(* and apart from the seats that were taken when they were loaded a seat   *)
(* without a row is FREE.  SelectSeat, ReleaseSeat and two workers update  *)
(* both tables, the workers from what they read several steps before.      *)
SeatLedger ==
    /\ \A r, q \in bookingSeats : r.seat = q.seat => r = q
    /\ \A s \in Seats :
         /\ Held(s) => seatStatus[s] # "FREE"
         /\ seatStatus[s] = "SOLD" => Held(s)
         /\ s \notin Taken /\ seatStatus[s] # "FREE" => Held(s)

(* The booking that has a seat.                                            *)
HolderOf(s) ==
    IF Held(s) THEN (CHOOSE r \in bookingSeats : r.seat = s).booking ELSE None

(* The seats that were not taken when they were loaded.                    *)
ForSale == Seats \ Taken

Inventory == INSTANCE SeatInventory WITH
    Seats <- ForSale,
    holder <- [s \in ForSale |-> HolderOf(s)],
    status <- [s \in ForSale |-> seatStatus[s]]

(* For the seats that are for sale, every step of the handlers and the     *)
(* workers, with all that happens between their reads and their writes, is *)
(* one of the inventory's steps or changes nothing of it: only a FREE seat *)
(* is taken, none passes from one booking to another, and the seats of a   *)
(* booking are sold and given back together.                               *)
SeatsAreInventory == Inventory!Spec

(* A booking has at most one payment, and the statuses of the two go       *)
(* together, whatever the interleaving of InitiatePayment, CancelBooking,  *)
(* the reports of the gateway and the refund worker.                       *)
PaymentLedger ==
    \A b \in Bookings :
      LET of == PaymentsOfBooking(b)
          status == bookings[b].status
      IN /\ \A p, q \in of : p = q
         /\ status \in {"none", "CREATED"} => of = {}
         /\ status = "PAYMENT_INITIATED" => \E p \in of : payments[p].status = "INIT"
         /\ status = "CONFIRMED" =>
              \E p \in of : payments[p].status \in {"SUCCESS", "REFUNDED"}
         /\ status = "CANCELLED" => \A p \in of : payments[p].status = "FAIL"

(* A seat is SOLD only if the event provider has confirmed an order that   *)
(* booking_orders records for the booking that has the seat.               *)
SoldIsConfirmed ==
    \A r \in bookingSeats :
      seatStatus[r.seat] = "SOLD" =>
        \E i \in DOMAIN orders : /\ orders[i].booking = r.booking
                                 /\ epOrder[orders[i].order] = "CONFIRMED"

Paid(b) == \E p \in PaymentsOfBooking(b) : "captured" \in gateway[p]

(* An order that was submitted to the event provider is recorded for a     *)
(* booking whose payment the gateway has captured: nothing is bought for   *)
(* nobody, or for somebody who has not paid.  The reports are taken to be  *)
(* the gateway's: main.go:136 lets anybody send them.                      *)
SubmittedIsPaid ==
    \A o \in Orders :
      epOrder[o] \in {"SUBMITTED", "CONFIRMED"} =>
        \E i \in DOMAIN orders : orders[i].order = o /\ Paid(orders[i].booking)

(* The write lock is held only where a later step of its holder releases   *)
(* it: no error path returns with the transaction open.                    *)
LockDiscipline ==
    writer # None =>
      \/ writer \in Requests /\ req[writer].phase \in {"commit", "refund"}
      \/ writer \in Jobs /\ \/ At(writer, "booking.select_seats", "selectPlaces")
                            \/ At(writer, "booking.confirm_order", "confirm")

(* The references between the tables, the requests and the jobs.           *)
PaymentReferences == \A p \in PayIds : IsPayment(p) => payments[p].booking \in Bookings
RequestReferences == \A r \in Requests : ~IsIdle(r) => req[r].booking \in Bookings
JobReferences ==
    \A j \in Jobs :
      /\ jobs[j].state # "none" => jobs[j].booking \in Bookings
      /\ /\ jobs[j].kind = "booking.select_seats"
         /\ work[j].step \in {"insertOrder", "selectPlaces", "enqueue"}
         => work[j].order \in Orders

RefundReferences ==
    \A j \in Jobs : work[j].step = "refund" => work[j].pay \in PayIds /\ IsPayment(work[j].pay)

References ==
    PaymentReferences /\ RequestReferences /\ JobReferences /\ RefundReferences

(* A worker runs only for a running job, and an available job has an       *)
(* attempt left.                                                           *)
QueueOK ==
    \A j \in Jobs : /\ work[j].step # "idle" => jobs[j].state = "running"
                    /\ jobs[j].state = "available" => jobs[j].attempt < MaxAttempts

(* What an open transaction has read is what the tables say as long as its *)
(* snapshot is the current one.                                            *)
SnapshotsCurrent ==
    /\ \A j \in Jobs :
         j \in fresh /\ At(j, "booking.release_seats", "releaseSeats") =>
           work[j].seats = GetBookingSeats(jobs[j].booking)
    /\ \A r \in Requests :
         r \in fresh /\ InPhase(r, "gateway") =>
           req[r].amount = GetBookingTotal(req[r].booking)

(* The inductive strengthening of SeatLedger and LockDiscipline: the two   *)
(* workers and the handler that write what they read earlier are right     *)
(* only because a stale snapshot cannot be written from.                   *)
Inductive ==
    /\ TypeOK /\ References /\ QueueOK
    /\ LockDiscipline /\ SnapshotsCurrent /\ SeatLedger

(* Whoever is at a step between a first write and the commit has the lock. *)
LockHolders ==
    /\ \A r \in Requests : InPhase(r, "commit") \/ InPhase(r, "refund") => writer = r
    /\ \A j \in Jobs : At(j, "booking.select_seats", "selectPlaces") => writer = j

(* The gateway knows the order id of every payment, recorded or still      *)
(* being recorded, so the id is not given out again; no two requests       *)
(* record the same one.                                                    *)
PaymentIds ==
    /\ \A p \in PayIds : IsPayment(p) => gateway[p] # {}
    /\ \A r \in Requests : InPhase(r, "gateway") =>
         /\ req[r].pay \in PayIds /\ ~IsPayment(req[r].pay) /\ gateway[req[r].pay] # {}
         /\ \A q \in Requests : InPhase(q, "gateway") /\ req[q].pay = req[r].pay => q = r

(* What a handler or a worker has found before it writes still holds while *)
(* it may write.                                                           *)
StatusSnapshots ==
    /\ \A r \in Requests :
         (r \in fresh /\ InPhase(r, "gateway")) \/ InPhase(r, "commit") =>
           bookings[req[r].booking].status = "CREATED"
    /\ \A j \in Jobs :
         j \in fresh /\ At(j, "payment.refund", "refund") =>
           payments[work[j].pay].status = "SUCCESS"

(* SUCCESS comes from a report of the gateway.                             *)
SuccessIsCaptured ==
    \A p \in PayIds :
      payments[p].status \in {"SUCCESS", "REFUNDED"} => "captured" \in gateway[p]

(* The inductive strengthening of PaymentLedger.                           *)
PaymentInductive ==
    /\ Inductive
    /\ LockHolders /\ PaymentIds /\ StatusSnapshots /\ PaymentLedger
    /\ SuccessIsCaptured

HasOrder(b, o) == \E i \in DOMAIN orders : orders[i].booking = b /\ orders[i].order = o

(* From the report of a captured payment to the confirmation of an order,  *)
(* through two jobs and the table booking_orders, everybody works for a    *)
(* booking that has been paid, and whoever is to confirm an order finds it *)
(* recorded for the booking.                                               *)
FulfilmentChain ==
    /\ \A r \in Requests : InPhase(r, "enqueueSelect") => Paid(req[r].booking)
    /\ \A j \in Jobs :
         /\ jobs[j].kind \in {"booking.select_seats", "booking.confirm_order"} =>
              Paid(jobs[j].booking)
         /\ jobs[j].kind = "booking.confirm_order" => HasOrder(jobs[j].booking, jobs[j].order)
         /\ At(j, "booking.select_seats", "enqueue") => HasOrder(jobs[j].booking, work[j].order)
    /\ \A i \in DOMAIN orders : Paid(orders[i].booking)

(* The inductive strengthening of SoldIsConfirmed and SubmittedIsPaid.     *)
FulfilmentInductive ==
    /\ PaymentInductive
    /\ FulfilmentChain /\ SoldIsConfirmed /\ SubmittedIsPaid

-----------------------------------------------------------------------------
(* What a step may never do                                                *)

(* A payment is recorded with the total of the seats the booking has at    *)
(* that moment, although the total was read before the call to the gateway *)
(* and SelectSeat and ReleaseSeat do not look at the booking's status.     *)
AmountIsCurrent ==
    [][\A p \in PayIds :
         ~IsPayment(p) /\ IsPayment(p)' =>
           payments'[p].amount = GetBookingSeats(payments'[p].booking)]_vars

(* A refund is recorded only over SUCCESS, for a payment the gateway has   *)
(* captured, and only while the booking it belongs to is CONFIRMED: a      *)
(* report of a failure that arrives between the worker's read and its      *)
(* update is not overwritten.                                              *)
OnlyPaidIsRefunded ==
    [][\A p \in PayIds :
         payments[p].status # "REFUNDED" /\ payments'[p].status = "REFUNDED" =>
           /\ payments[p].status = "SUCCESS" /\ "captured" \in gateway[p]
           /\ bookings[payments[p].booking].status = "CONFIRMED"]_vars

-----------------------------------------------------------------------------
(* Liveness                                                                *)

(* Every job leaves the queue, completed or discarded, through any retries *)
(* and crashes: no worker waits forever for the write lock or for a slot.  *)
JobsSettle == \A j \in Jobs : jobs[j].state # "none" ~> jobs[j].state = "none"

(* Whoever has the write lock gives it back.                               *)
LockIsReleased == writer # None ~> writer = None
=============================================================================
