----------------------------- MODULE SeatProofs ------------------------------
(***************************************************************************)
(* The write lock, the snapshots and the ledger of the seats, for every    *)
(* value of the constants.  SeatLedger is not inductive: ReleaseSeats and  *)
(* RecordPayment write what their transaction has read several steps       *)
(* before.  It becomes inductive with SnapshotsCurrent (what a transaction *)
(* with a current snapshot has read is still true) and LockDiscipline (a   *)
(* transaction that may write and does not hold the lock has a current     *)
(* snapshot).                                                              *)
(***************************************************************************)
EXTENDS TypeProofs

(* A job inserted by a handler takes a slot that no worker is busy with.   *)
LEMMA InsertFrame ==
    ASSUME TypeInv, NEW job, Insert(job), NEW i \in Jobs
    PROVE  jobs'[i] = jobs[i] \/ work[i].step = "idle"
BY DEF Insert, FreeSlots, TypeInv, QueueInv, RiverTypeOK, QueueOK

-----------------------------------------------------------------------------
(* The write lock.                                                         *)

(* The steps of a worker in which it holds the write lock.                 *)
Writing(j) ==
    \/ At(j, "booking.select_seats", "selectPlaces")
    \/ At(j, "booking.confirm_order", "confirm")

(* What a step of a worker does with the lock.                             *)
LEMMA WorkerLock ==
    ASSUME TypeInv, LockDiscipline, NEW j \in Jobs, Queue(j)
    PROVE  \/ writer' = None
           \/ writer' = writer /\ writer # j
           \/ writer' = j /\ Writing(j)'
<1> USE DEF Writing, At
<1>1. writer = j => Writing(j)
  BY ParametersAssumption DEF LockDiscipline
<1>2. writer = j => jobs[j].state = "running"
  BY <1>1 DEF TypeInv, QueueInv, QueueOK
<1> USE DEF CommitChanges, BeginRead, EndUnchanged, Fail, FailAfterCall, AnswerLost, Refused,
            txVars
<1>3. CASE StartWork(j) \/ FinishWork(j) \/ Rescue(j) \/ Interrupted(j)
  BY <1>1, <1>2, <1>3 DEF StartWork, Fetch, FinishWork, Rescue, Interrupted
<1>4. CASE ReadForRelease(j) \/ ReleaseSeats(j) \/ ReadForRefund(j) \/ CallCancelPayment(j)
  BY <1>1, <1>4 DEF ReadForRelease, ReleaseSeats, ReadForRefund, CallCancelPayment
<1>5. CASE ReadForSelect(j) \/ CommitOrder(j) \/ EnqueueConfirm(j) \/ EnqueueRelease(j)
  BY <1>1, <1>5 DEF ReadForSelect, CommitOrder, EnqueueConfirm, EnqueueRelease, EnqueueNext
<1>6. CASE LockForSelect(j)
  BY <1>6 DEF LockForSelect, Lock, TypeInv, QueueInv, WorkersTypeOK, Local
<1>7. CASE CallSelectPlace(j)
  <2>1. CASE UNCHANGED <<jobs, txVars>>
    BY <1>1, <1>7, <2>1 DEF CallSelectPlace, TypeInv, QueueInv, WorkersTypeOK, Local
  <2> QED BY <1>7, <2>1 DEF CallSelectPlace
<1>8. CASE CallGetOrder(j) \/ CallConfirmOrder(j)
  BY <1>1, <1>8 DEF CallGetOrder, CallConfirmOrder
<1>9. CASE CallSubmitOrder(j)
  BY <1>9 DEF CallSubmitOrder, Lock, GoTo, TypeInv, QueueInv, WorkersTypeOK, Local
<1>10. CASE ReadForCancel(j) \/ CallReleasePlace(j) \/ CallCancelOrder(j)
  BY <1>1, <1>10 DEF ReadForCancel, CallReleasePlace, CallCancelOrder
<1> QED
  BY <1>3, <1>4, <1>5, <1>6, <1>7, <1>8, <1>9, <1>10 DEF Queue, WorkStep

(* What a step of a request does with the lock and with the requests.      *)
LEMMA ApiLock ==
    ASSUME TypeInv, LockDiscipline, Api
    PROVE  \/ writer' = None
           \/ /\ writer' = writer
              /\ writer \in Requests => req'[writer] = req[writer]
           \/ writer' \in Requests /\ req'[writer'].phase \in {"commit", "refund"}
<1> USE DEF TypeInv, RequestsInv, HttpTypeOK, InPhase, IsIdle, txVars
<1>1. \A r \in Requests : req[r].phase \notin {"commit", "refund"} => writer # r
  BY ParametersAssumption DEF LockDiscipline
<1>3. ASSUME NEW r \in Requests, NEW u \in Users, NEW b \in Bookings, InitiatePayment(r, u, b)
      PROVE  writer' = writer /\ (writer \in Requests => req'[writer] = req[writer])
  BY <1>1, <1>3 DEF InitiatePayment, BeginRead
<1>4. ASSUME NEW r \in Requests, NEW u \in Users, NEW b \in Bookings,
             CancelCreatedBooking(r, u, b) \/ CancelConfirmedBooking(r, u, b)
      PROVE  writer' \in Requests /\ req'[writer'].phase \in {"commit", "refund"}
  BY <1>4 DEF CancelCreatedBooking, CancelConfirmedBooking, Lock, Enter, Idle
<1>5. ASSUME NEW r \in Requests, HttpStep(r)
      PROVE  \/ writer' = None
             \/ writer' = writer /\ (writer \in Requests => req'[writer] = req[writer])
  <2>1. CASE EnqueueCancel(r) \/ EnqueueSelect(r)
    BY <1>1, <2>1 DEF EnqueueCancel, EnqueueSelect, Respond
  <2>2. CASE RecordPayment(r) \/ CommitCancel(r)
    BY <2>2 DEF RecordPayment, CommitCancel, CommitChanges
  <2>3. CASE EnqueueRefund(r) \/ AbortRequest(r)
    BY <2>3 DEF EnqueueRefund, AbortRequest, EndUnchanged, Respond
  <2> QED BY <1>5, <2>1, <2>2, <2>3 DEF HttpStep
<1>6. ASSUME NEW r \in Requests, NEW p \in PayIds,
             NotifyPaymentFailed(r, p) \/ NotifyPaymentCompleted(r, p)
      PROVE  writer' = None
  BY <1>6 DEF NotifyPaymentFailed, NotifyPaymentCompleted, CommitChanges
<1>7. CASE \E u \in Users : CreateBooking(u)
  BY <1>7 DEF CreateBooking, CommitChanges
<1>8. CASE \E u \in Users, s \in Seats : ReleaseSeat(u, s)
  BY <1>8 DEF ReleaseSeat, CommitChanges
<1>9. CASE \E u \in Users, b \in Bookings, s \in Seats : SelectSeat(u, b, s)
  BY <1>9 DEF SelectSeat, CommitChanges
<1>10. CASE \E u \in Users, r \in Requests, b \in Bookings : InitiatePayment(r, u, b)
  BY <1>3, <1>10
<1>11. CASE \E u \in Users, r \in Requests, b \in Bookings :
              CancelCreatedBooking(r, u, b) \/ CancelConfirmedBooking(r, u, b)
  BY <1>4, <1>11
<1>12. CASE \E r \in Requests : HttpStep(r)
  BY <1>5, <1>12
<1>13. CASE \E r \in Requests, p \in PayIds :
              NotifyPaymentFailed(r, p) \/ NotifyPaymentCompleted(r, p)
  BY <1>6, <1>13
<1> HIDE DEF InPhase, IsIdle
<1> QED
  BY <1>7, <1>8, <1>9, <1>10, <1>11, <1>12, <1>13 DEF Api

(* A handler leaves the jobs alone that a worker is busy with.             *)
LEMMA ApiFrame ==
    ASSUME TypeInv, Api, NEW i \in Jobs
    PROVE  jobs'[i] = jobs[i] \/ work[i].step = "idle"
BY InsertFrame DEF Api, CreateBooking, SelectSeat, ReleaseSeat, InitiatePayment,
   CancelCreatedBooking, CancelConfirmedBooking, HttpStep, RecordPayment, CommitCancel,
   EnqueueRefund, EnqueueCancel, EnqueueSelect, AbortRequest, NotifyPaymentFailed,
   NotifyPaymentCompleted

LEMMA NextLock ==
    ASSUME TypeInv, LockDiscipline, Next
    PROVE  LockDiscipline'
<1> USE DEF LockDiscipline, Writing, At
<1>1. ASSUME writer' = writer, NEW i \in Jobs, writer = i,
             work'[i] = work[i], jobs'[i] = jobs[i] \/ work[i].step = "idle"
      PROVE  LockDiscipline'
  BY <1>1, ParametersAssumption
<1>2. CASE Api /\ UNCHANGED <<epVars, work>>
  <2>1. CASE writer' = writer /\ writer \in Jobs
    BY <1>1, <1>2, <2>1, ApiFrame
  <2>2. CASE writer' = writer /\ writer \in Requests /\ req'[writer] = req[writer]
    BY <2>2, ParametersAssumption
  <2>3. CASE writer' \in Requests /\ req'[writer'].phase \in {"commit", "refund"}
    BY <2>3
  <2> QED BY <1>2, <2>1, <2>2, <2>3, ApiLock DEF TypeInv, SqliteTypeOK, Txs
<1>3. ASSUME NEW j \in Jobs, Queue(j), UNCHANGED req PROVE LockDiscipline'
  <2>1. CASE writer' = writer /\ writer \in Jobs /\ writer # j
    BY <1>1, <1>3, <2>1, QueueFrame
  <2>2. CASE writer' = writer /\ writer \in Requests
    BY <1>3, <2>2, ParametersAssumption
  <2>3. CASE writer' = j /\ Writing(j)'
    BY <2>3
  <2> QED BY <1>3, <2>1, <2>2, <2>3, WorkerLock DEF TypeInv, SqliteTypeOK, Txs
<1>4. CASE (\E p \in PayIds : Customer(p)) /\ UNCHANGED <<epVars, work>>
  BY <1>4 DEF Customer, txVars
<1>5. CASE Crash
  BY <1>5 DEF Crash, CloseAll
<1> QED
  BY <1>2, <1>3, <1>4, <1>5 DEF Next

-----------------------------------------------------------------------------
(* The snapshots.                                                          *)

(* A worker that writes what it has read writes what is still true.        *)
LEMMA ReleaseReadsCurrent ==
    ASSUME TypeInv, LockDiscipline, SnapshotsCurrent, NEW j \in Jobs, ReleaseSeats(j)
    PROVE  work[j].seats = GetBookingSeats(BookingOf(j))
<1>1. writer # j
  BY ParametersAssumption DEF ReleaseSeats, At, LockDiscipline
<1>2. j \in fresh
  BY <1>1 DEF ReleaseSeats, CanWrite
<1> QED
  BY <1>2 DEF ReleaseSeats, SnapshotsCurrent, BookingOf

(* Whoever changes booking_seats outdates all snapshots.                   *)
LEMMA WorkerSnapshot ==
    ASSUME TypeInv, LockDiscipline, SnapshotsCurrent, NEW j \in Jobs, Queue(j)
    PROVE  fresh' = {} \/ (UNCHANGED bookingSeats /\ fresh' \subseteq fresh \cup {j})
<1> USE DEF dbVars, txVars, CommitChanges, BeginRead, Lock, EndUnchanged, Fail, FailAfterCall,
            AnswerLost, Refused
<1>1. CASE StartWork(j) \/ FinishWork(j) \/ Rescue(j) \/ Interrupted(j)
  BY <1>1 DEF StartWork, FinishWork, Rescue, Interrupted
<1>2. CASE ReleaseSeats(j)
  <2>1. CASE work[j].seats = {}
    <3>1. RowsOfBooking(BookingOf(j)) = {}
      BY <1>2, <2>1, ReleaseReadsCurrent DEF GetBookingSeats
    <3> QED BY <1>2, <2>1, <3>1 DEF ReleaseSeats, DeleteBookingSeats
  <2> QED BY <1>2, <2>1 DEF ReleaseSeats
<1>3. CASE ReadForRelease(j) \/ ReadForRefund(j) \/ CallCancelPayment(j)
  BY <1>3 DEF ReadForRelease, ReadForRefund, CallCancelPayment
<1>4. CASE ReadForSelect(j) \/ LockForSelect(j) \/ CallSelectPlace(j) \/ CommitOrder(j)
  BY <1>4 DEF ReadForSelect, LockForSelect, CallSelectPlace, CommitOrder
<1>5. CASE CallGetOrder(j) \/ CallSubmitOrder(j) \/ CallConfirmOrder(j)
  BY <1>5 DEF CallGetOrder, CallSubmitOrder, CallConfirmOrder
<1>6. CASE ReadForCancel(j) \/ CallReleasePlace(j) \/ CallCancelOrder(j)
  BY <1>6 DEF ReadForCancel, CallReleasePlace, CallCancelOrder
<1>7. CASE EnqueueConfirm(j) \/ EnqueueRelease(j)
  BY <1>7 DEF EnqueueConfirm, EnqueueRelease, EnqueueNext
<1> QED
  BY <1>1, <1>2, <1>3, <1>4, <1>5, <1>6, <1>7 DEF Queue, WorkStep

LEMMA ApiSnapshot ==
    ASSUME TypeInv, Api, SnapshotsCurrent
    PROVE  \/ fresh' = {}
           \/ /\ UNCHANGED bookingSeats
              /\ \A i \in Jobs : i \in fresh' => i \in fresh
              /\ \A q \in Requests :
                   q \in fresh' /\ InPhase(q, "gateway")' =>
                     req'[q].amount = GetBookingTotal(req'[q].booking)
<1> USE DEF dbVars, txVars, InPhase, IsIdle, TypeInv, RequestsInv, HttpTypeOK
<1>1. CASE \E u \in Users, b \in Bookings, s \in Seats : SelectSeat(u, b, s)
  BY <1>1 DEF SelectSeat, CommitChanges
<1>2. CASE \E u \in Users : CreateBooking(u) \/ \E s \in Seats : ReleaseSeat(u, s)
  BY <1>2 DEF ReleaseSeat, CreateBooking, CommitChanges
<1>3. ASSUME NEW r \in Requests, NEW u \in Users, NEW b \in Bookings, InitiatePayment(r, u, b)
      PROVE  /\ UNCHANGED bookingSeats
             /\ \A i \in Jobs : i \in fresh' => i \in fresh
             /\ \A q \in Requests :
                  q \in fresh' /\ InPhase(q, "gateway")' =>
                    req'[q].amount = GetBookingTotal(req'[q].booking)
  <2>1. UNCHANGED bookingSeats /\ fresh' = fresh \cup {r}
    BY <1>3 DEF InitiatePayment, BeginRead
  <2>2. req'[r].booking = b /\ req'[r].amount = GetBookingTotal(b)
    BY <1>3 DEF InitiatePayment
  <2>3. \A q \in Requests \ {r} : req'[q] = req[q]
    BY <1>3 DEF InitiatePayment
  <2> QED BY <2>1, <2>2, <2>3, ParametersAssumption DEF SnapshotsCurrent
<1>4. ASSUME NEW r \in Requests, UNCHANGED bookingSeats, fresh' \subseteq fresh,
             Respond(r) \/ \E phase \in Phases \ {"gateway"} : \E b : Enter(r, phase, b)
      PROVE  /\ UNCHANGED bookingSeats
             /\ \A i \in Jobs : i \in fresh' => i \in fresh
             /\ \A q \in Requests :
                  q \in fresh' /\ InPhase(q, "gateway")' =>
                    req'[q].amount = GetBookingTotal(req'[q].booking)
  <2>1. req'[r].phase # "gateway"
    <3>1. CASE Respond(r)
      BY <3>1 DEF Respond, Idle
    <3>2. ASSUME NEW phase \in Phases \ {"gateway"}, NEW b, Enter(r, phase, b)
          PROVE  req'[r].phase # "gateway"
      BY <3>2 DEF Enter, Idle
    <3> QED BY <1>4, <3>1, <3>2
  <2>2. \A q \in Requests \ {r} : req'[q] = req[q]
    BY <1>4 DEF Enter, Respond
  <2> QED BY <1>4, <2>1, <2>2 DEF SnapshotsCurrent
<1>5. CASE \E r \in Requests, u \in Users, b \in Bookings :
             CancelCreatedBooking(r, u, b) \/ CancelConfirmedBooking(r, u, b)
  BY <1>4, <1>5 DEF CancelCreatedBooking, CancelConfirmedBooking, Lock, Phases
<1>6. CASE \E r \in Requests : HttpStep(r)
  <2>1. PICK r \in Requests : HttpStep(r)
    BY <1>6
  <2>2. CASE RecordPayment(r) \/ CommitCancel(r)
    BY <2>2 DEF RecordPayment, CommitCancel, CommitChanges
  <2>3. CASE EnqueueRefund(r) \/ EnqueueCancel(r) \/ EnqueueSelect(r) \/ AbortRequest(r)
    BY <1>4, <2>3 DEF EnqueueRefund, EnqueueCancel, EnqueueSelect, AbortRequest,
                      EndUnchanged
  <2> QED BY <2>1, <2>2, <2>3 DEF HttpStep
<1>7. CASE \E r \in Requests, p \in PayIds :
             NotifyPaymentFailed(r, p) \/ NotifyPaymentCompleted(r, p)
  BY <1>7 DEF NotifyPaymentFailed, NotifyPaymentCompleted, CommitChanges
<1>8. CASE \E r \in Requests, u \in Users, b \in Bookings : InitiatePayment(r, u, b)
  BY <1>3, <1>8
<1> HIDE DEF InPhase, IsIdle
<1> QED
  BY <1>1, <1>2, <1>5, <1>6, <1>7, <1>8 DEF Api

(* The step of a release worker between its read and its write is reached  *)
(* from the read only.                                                     *)
LEMMA ReleaseStep ==
    ASSUME TypeInv, NEW j \in Jobs, Queue(j), work'[j].step = "releaseSeats"
    PROVE  /\ work'[j].seats = GetBookingSeats(BookingOf(j))
           /\ BeginRead(j) /\ UNCHANGED <<jobs, bookingSeats>>
<1>1. work \in [Jobs -> Local] /\ NotWorking.step = "idle"
  BY DEF TypeInv, QueueInv, WorkersTypeOK, NotWorking
<1> USE DEF Return, GoTo, Fail, FailAfterCall, AnswerLost, Refused, Local
<1>2. ReadForRelease(j)
  <2>1. CASE StartWork(j) \/ FinishWork(j) \/ Interrupted(j)
    BY <1>1, <2>1 DEF StartWork, FinishWork, Interrupted
  <2>2. CASE Rescue(j)
    BY <2>2 DEF Rescue
  <2>3. CASE ReleaseSeats(j) \/ ReadForRefund(j) \/ CallCancelPayment(j)
    BY <1>1, <2>3 DEF ReleaseSeats, ReadForRefund, CallCancelPayment
  <2>4. CASE ReadForSelect(j) \/ LockForSelect(j) \/ CommitOrder(j)
    BY <1>1, <2>4 DEF ReadForSelect, LockForSelect, CommitOrder
  <2>5. CASE CallSelectPlace(j) \/ CallReleasePlace(j)
    <3>1. work[j].step \in {"selectPlaces", "releasePlaces"}
      BY <2>5 DEF CallSelectPlace, CallReleasePlace, At
    <3> QED BY <1>1, <2>5, <3>1 DEF CallSelectPlace, CallReleasePlace, Local
  <2>6. CASE CallGetOrder(j) \/ CallSubmitOrder(j) \/ CallConfirmOrder(j)
    BY <1>1, <2>6 DEF CallGetOrder, CallSubmitOrder, CallConfirmOrder
  <2>7. CASE ReadForCancel(j) \/ CallCancelOrder(j)
    BY <1>1, <2>7 DEF ReadForCancel, CallCancelOrder
  <2>8. CASE EnqueueConfirm(j) \/ EnqueueRelease(j)
    BY <1>1, <2>8 DEF EnqueueConfirm, EnqueueRelease, EnqueueNext
  <2> QED BY <2>1, <2>2, <2>3, <2>4, <2>5, <2>6, <2>7, <2>8 DEF Queue, WorkStep
<1> QED
  BY <1>1, <1>2 DEF ReadForRelease, dbVars, Local

LEMMA NextSnapshots ==
    ASSUME TypeInv, LockDiscipline, SnapshotsCurrent, Next
    PROVE  SnapshotsCurrent'
<1> USE DEF At, InPhase, GetBookingTotal, GetBookingSeats, RowsOfBooking
<1>1. CASE fresh' = {}
  BY <1>1 DEF SnapshotsCurrent
<1>2. CASE fresh' # {} /\ Api /\ UNCHANGED <<epVars, work>>
  <2>1. UNCHANGED bookingSeats /\ \A i \in Jobs : i \in fresh' => i \in fresh
    BY <1>2, ApiSnapshot
  <2>2. \A q \in Requests : q \in fresh' /\ InPhase(q, "gateway")' =>
          req'[q].amount = GetBookingTotal(req'[q].booking)
    BY <1>2, ApiSnapshot
  <2>3. \A i \in Jobs : jobs'[i] = jobs[i] \/ work[i].step = "idle"
    BY <1>2, ApiFrame
  <2> QED BY <1>2, <2>1, <2>2, <2>3 DEF SnapshotsCurrent
<1>3. ASSUME fresh' # {}, NEW j \in Jobs, Queue(j), UNCHANGED req PROVE SnapshotsCurrent'
  <2>1. UNCHANGED bookingSeats /\ fresh' \subseteq fresh \cup {j}
    BY <1>3, WorkerSnapshot
  <2>2. \A i \in Jobs \ {j} : work'[i] = work[i] /\ (jobs'[i] = jobs[i] \/ work[i].step = "idle")
    BY <1>3, QueueFrame
  <2>3. work'[j].step = "releaseSeats" =>
          work'[j].seats = GetBookingSeats(jobs'[j].booking)
    BY <1>3, ReleaseStep DEF BookingOf
  <2>4. \A i \in Jobs : i \in fresh' /\ At(i, "booking.release_seats", "releaseSeats")' =>
          work'[i].seats = GetBookingSeats(jobs'[i].booking)
    BY <2>1, <2>2, <2>3 DEF SnapshotsCurrent
  <2>5. \A r \in Requests : r \in fresh' => r \in fresh
    BY <2>1, ParametersAssumption
  <2> QED BY <1>3, <2>1, <2>4, <2>5 DEF SnapshotsCurrent
<1>4. CASE (\E p \in PayIds : Customer(p)) /\ UNCHANGED <<epVars, work>>
  BY <1>4 DEF Customer, dbVars, txVars, SnapshotsCurrent
<1>5. CASE Crash
  BY <1>1, <1>5 DEF Crash, CloseAll
<1> QED
  BY <1>1, <1>2, <1>3, <1>4, <1>5 DEF Next

-----------------------------------------------------------------------------
(* The ledger.                                                             *)

LEMMA UnchangedLedger ==
    ASSUME SeatLedger, UNCHANGED <<bookingSeats, seatStatus>>
    PROVE  SeatLedger'
BY DEF SeatLedger, Held

LEMMA SelectSeatLedger ==
    ASSUME TypeInv, SeatLedger, NEW u \in Users, NEW b \in Bookings, NEW s \in Seats,
           SelectSeat(u, b, s)
    PROVE  SeatLedger'
<1> DEFINE row == [user |-> u, booking |-> b, seat |-> s]
<1>1. bookingSeats' = bookingSeats \cup {row} /\ row.seat = s
  BY DEF SelectSeat, InsertBookingSeat
<1>2. \A r \in bookingSeats : r.seat # s
  BY DEF SelectSeat, CanInsertBookingSeat
<1>3. seatStatus' = [seatStatus EXCEPT ![s] = "RESERVED"] /\ seatStatus \in [Seats -> SeatStatus]
  BY DEF SelectSeat, UpdateSeatStatus, TypeInv, TablesInv, SqlcTypeOK
<1> HIDE DEF row
<1> QED
  BY <1>1, <1>2, <1>3 DEF SeatLedger, Held

LEMMA ReleaseSeatLedger ==
    ASSUME TypeInv, SeatLedger, NEW u \in Users, NEW s \in Seats, ReleaseSeat(u, s)
    PROVE  SeatLedger'
BY DEF ReleaseSeat, SeatLedger, Held, RowsOfSeatAndUser, DeleteBookingSeat,
       UpdateSeatStatus, TypeInv, TablesInv, SqlcTypeOK

LEMMA ReleaseSeatsLedger ==
    ASSUME TypeInv, SeatLedger, LockDiscipline, SnapshotsCurrent, NEW j \in Jobs, ReleaseSeats(j)
    PROVE  SeatLedger'
<1>1. seatStatus' = UpdateSeatsStatusByIDs(GetBookingSeats(BookingOf(j)), "FREE")
  BY ReleaseReadsCurrent DEF ReleaseSeats
<1>2. bookingSeats' = bookingSeats \ RowsOfBooking(BookingOf(j))
  BY DEF ReleaseSeats, DeleteBookingSeats
<1> QED
  BY <1>1, <1>2 DEF SeatLedger, Held, GetBookingSeats, RowsOfBooking, UpdateSeatsStatusByIDs

LEMMA ConfirmLedger ==
    ASSUME TypeInv, SeatLedger, NEW j \in Jobs, CallConfirmOrder(j)
    PROVE  SeatLedger'
<1>1. UNCHANGED bookingSeats
  BY DEF CallConfirmOrder
<1>2. CASE UNCHANGED seatStatus
  BY <1>1, <1>2, UnchangedLedger
<1>3. CASE seatStatus' = UpdateSeatsStatusByIDs(GetBookingSeats(BookingOf(j)), "SOLD")
  BY <1>1, <1>3 DEF SeatLedger, Held, GetBookingSeats, RowsOfBooking, UpdateSeatsStatusByIDs
<1> QED
  BY <1>2, <1>3 DEF CallConfirmOrder

(* The four actions that write booking_seats or seats.status.              *)
LEMMA SeatWriters ==
    ASSUME Next
    PROVE  \/ \E u \in Users, b \in Bookings, s \in Seats : SelectSeat(u, b, s)
           \/ \E u \in Users, s \in Seats : ReleaseSeat(u, s)
           \/ \E j \in Jobs : ReleaseSeats(j) \/ CallConfirmOrder(j)
           \/ UNCHANGED <<bookingSeats, seatStatus>>
<1> SUFFICES ASSUME ~ \E u \in Users, b \in Bookings, s \in Seats : SelectSeat(u, b, s),
                    ~ \E u \in Users, s \in Seats : ReleaseSeat(u, s),
                    ~ \E j \in Jobs : ReleaseSeats(j) \/ CallConfirmOrder(j)
             PROVE  UNCHANGED <<bookingSeats, seatStatus>>
  OBVIOUS
<1>1. CASE Api
  BY <1>1 DEF Api, CreateBooking, InitiatePayment, CancelCreatedBooking,
     CancelConfirmedBooking, HttpStep, RecordPayment, CommitCancel, EnqueueRefund,
     EnqueueCancel, EnqueueSelect, AbortRequest, NotifyPaymentFailed,
     NotifyPaymentCompleted, dbVars
<1>2. CASE \E j \in Jobs : Queue(j)
  BY <1>2 DEF Queue, StartWork, WorkStep, Rescue, FinishWork, Interrupted,
     ReadForRelease, ReadForSelect, LockForSelect, CallSelectPlace, CommitOrder,
     EnqueueConfirm, CallGetOrder, CallSubmitOrder, ReadForCancel, CallReleasePlace,
     CallCancelOrder, EnqueueRelease, ReadForRefund, CallCancelPayment, EnqueueNext,
     dbVars
<1>3. CASE \E q \in PayIds : Customer(q)
  BY <1>3 DEF Customer, dbVars
<1>4. CASE Crash
  BY <1>4 DEF Crash, dbVars
<1> QED
  BY <1>1, <1>2, <1>3, <1>4 DEF Next

LEMMA NextLedger ==
    ASSUME TypeInv, LockDiscipline, SnapshotsCurrent, SeatLedger, Next
    PROVE  SeatLedger'
<1>1. CASE \E u \in Users, b \in Bookings, s \in Seats : SelectSeat(u, b, s)
  BY <1>1, SelectSeatLedger
<1>2. CASE \E u \in Users, s \in Seats : ReleaseSeat(u, s)
  BY <1>2, ReleaseSeatLedger
<1>3. CASE \E j \in Jobs : ReleaseSeats(j) \/ CallConfirmOrder(j)
  BY <1>3, ReleaseSeatsLedger, ConfirmLedger
<1>4. CASE UNCHANGED <<bookingSeats, seatStatus>>
  BY <1>4, UnchangedLedger
<1> QED
  BY <1>1, <1>2, <1>3, <1>4, SeatWriters

-----------------------------------------------------------------------------
(* The theorems.                                                           *)

LEMMA InductiveParts ==
    Inductive <=> /\ TypeInv /\ RefundReferences
                  /\ LockDiscipline /\ SnapshotsCurrent /\ SeatLedger
BY DEF Inductive, TypeInv, TablesInv, RequestsInv, QueueInv, TypeOK, References

LEMMA InitInductive == Init => Inductive
<1> SUFFICES ASSUME Init PROVE Inductive
  OBVIOUS
<1>1. LockDiscipline /\ SnapshotsCurrent
  BY DEF Init, SqliteInit, LockDiscipline, SnapshotsCurrent
<1>2. SeatLedger
  BY DEF Init, SqlcInit, SeatLedger, Held
<1> QED
  BY <1>1, <1>2, InitTypes, InductiveParts

LEMMA NextInductive == Inductive /\ [Next]_vars => Inductive'
<1> SUFFICES ASSUME Inductive, [Next]_vars PROVE Inductive'
  OBVIOUS
<1> USE InductiveParts
<1>1. CASE Next
  <2>1. TypeInv' /\ RefundReferences'
    BY <1>1, NextTypes
  <2>2. LockDiscipline' /\ SnapshotsCurrent' /\ SeatLedger'
    BY <1>1, NextLock, NextSnapshots, NextLedger
  <2>3. /\ TypeOK' /\ References' /\ QueueOK'
    BY <2>1 DEF TypeInv, TablesInv, RequestsInv, QueueInv, TypeOK, References
  <2> QED BY <2>2, <2>3 DEF Inductive
<1>2. CASE UNCHANGED vars
  <2> USE <1>2 DEF vars, dbVars, txVars, epVars, pgVars
  <2>1. TypeInv' /\ RefundReferences'
    BY UnchangedTypes DEF TypeInv, RefundReferences, IsPayment
  <2>2. TypeOK' /\ References' /\ QueueOK'
    BY <2>1 DEF TypeInv, TablesInv, RequestsInv, QueueInv, TypeOK, References
  <2>3. LockDiscipline' /\ SnapshotsCurrent'
    BY DEF LockDiscipline, SnapshotsCurrent, At, InPhase, GetBookingTotal, GetBookingSeats,
           RowsOfBooking
  <2>4. SeatLedger'
    BY UnchangedLedger
  <2> QED BY <2>2, <2>3, <2>4 DEF Inductive
<1> QED
  BY <1>1, <1>2

(* The inductive invariant holds of every reachable state.                 *)
THEOREM Invariance == Spec => []Inductive
BY InitInductive, NextInductive, PTL DEF Spec

(* booking_seats and seats.status agree about every seat: no seat is given *)
(* to two bookings, sold or reserved for nobody, or offered while someone  *)
(* has it, although the release worker and ConfirmOrder update both tables *)
(* from what they read before other transactions committed.                *)
THEOREM SeatsAgree == Spec => []SeatLedger
BY Invariance, PTL DEF Inductive

(* No handler and no worker returns with the write lock: whoever has it is *)
(* at a step from which CommitCancel, EnqueueRefund, the commit of the     *)
(* worker or its deferred Rollback gives it back.                          *)
THEOREM LockIsHeldToRelease == Spec => []LockDiscipline
BY Invariance, PTL DEF Inductive

(* RecordPayment is the only step that adds a payment.                     *)
LEMMA NewPayment ==
    ASSUME TypeInv, RefundReferences, Next, NEW p \in PayIds, ~ IsPayment(p), IsPayment(p)'
    PROVE  \E r \in Requests : RecordPayment(r) /\ UNCHANGED work /\ p = req[r].pay
<1>types. payments \in [PayIds -> Payment]
  BY DEF TypeInv, TablesInv, SqlcTypeOK
<1>1. PICK r \in Requests : RecordPayment(r) /\ UNCHANGED work
  <2>1. CASE Api /\ UNCHANGED work /\ ~ \E r \in Requests : RecordPayment(r)
    <3>1. \/ UNCHANGED payments
          \/ \E q \in PayIds : IsPayment(q) /\ \E st : payments' = UpdateBookingPaymentStatus(q, st)
      BY <2>1 DEF Api, CreateBooking, SelectSeat, ReleaseSeat, InitiatePayment,
           CancelCreatedBooking, CancelConfirmedBooking, HttpStep, CommitCancel,
           EnqueueRefund, EnqueueCancel, EnqueueSelect, AbortRequest, NotifyPaymentFailed,
           NotifyPaymentCompleted, dbVars
    <3> QED BY <1>types, <3>1 DEF IsPayment, UpdateBookingPaymentStatus, Payment
  <2>2. ASSUME NEW j \in Jobs, Queue(j) PROVE FALSE
    <3>1. CASE CallCancelPayment(j)
      <4>1. work[j].pay \in PayIds /\ IsPayment(work[j].pay)
        BY <3>1 DEF CallCancelPayment, At, RefundReferences
      <4>2. payments' = payments \/ payments' = UpdateBookingPaymentStatus(work[j].pay, "REFUNDED")
        BY <3>1 DEF CallCancelPayment
      <4> QED BY <1>types, <4>1, <4>2 DEF IsPayment, UpdateBookingPaymentStatus, Payment
    <3>2. CASE ~ CallCancelPayment(j)
      <4>1. UNCHANGED payments
        BY <2>2, <3>2 DEF Queue, StartWork, WorkStep, Rescue, FinishWork, Interrupted,
             ReadForRelease, ReleaseSeats, ReadForSelect, LockForSelect, CallSelectPlace,
             CommitOrder, EnqueueConfirm, CallGetOrder, CallSubmitOrder, CallConfirmOrder,
             ReadForCancel, CallReleasePlace, CallCancelOrder, EnqueueRelease,
             ReadForRefund, EnqueueNext, dbVars
      <4> QED BY <4>1 DEF IsPayment
    <3> QED BY <3>1, <3>2
  <2>3. CASE Crash \/ \E q \in PayIds : Customer(q)
    BY <2>3 DEF Crash, Customer, dbVars, IsPayment
  <2> QED BY <2>1, <2>2, <2>3 DEF Next
<1>2. p = req[r].pay
  BY <1>1, <1>types DEF RecordPayment, InsertBookingPayment, IsPayment
<1> QED
  BY <1>1, <1>2

LEMMA RecordedAmount ==
    ASSUME Inductive, Next, NEW p \in PayIds, ~ IsPayment(p), IsPayment(p)'
    PROVE  payments'[p].amount = GetBookingSeats(payments'[p].booking)
<1> USE InductiveParts
<1>1. PICK r \in Requests : RecordPayment(r) /\ p = req[r].pay
  BY NewPayment
<1>2. writer # r
  BY <1>1, ParametersAssumption DEF RecordPayment, InPhase, LockDiscipline
<1>3. req[r].amount = GetBookingSeats(req[r].booking)
  BY <1>1, <1>2 DEF RecordPayment, CanWrite, SnapshotsCurrent, GetBookingTotal
<1> QED
  BY <1>1, <1>3 DEF RecordPayment, InsertBookingPayment, TypeInv, TablesInv, SqlcTypeOK

(* InitiatePayment records the total of the seats the booking has at that  *)
(* moment, although it summed them before it called the payment gateway.   *)
THEOREM AmountsAreCurrent == Spec => AmountIsCurrent
<1> DEFINE Recorded ==
      \A p \in PayIds : ~ IsPayment(p) /\ IsPayment(p)' =>
        payments'[p].amount = GetBookingSeats(payments'[p].booking)
<1>1. Inductive /\ [Next]_vars => [Recorded]_vars
  BY RecordedAmount
<1> QED
  BY <1>1, Invariance, PTL DEF Spec, AmountIsCurrent
=============================================================================
