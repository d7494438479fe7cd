--------------------------- MODULE PaymentProofs ----------------------------
(***************************************************************************)
(* The ledger of the payments and the refunds, for every value of the      *)
(* constants.  PaymentLedger is not inductive: RecordPayment, CommitCancel *)
(* and CallCancelPayment write over a status they read several steps       *)
(* before.  That is right because a request or a worker that may write     *)
(* has read what is still true (StatusSnapshots), which needs that the     *)
(* holder of the write lock keeps it until it is done (LockHolders), and   *)
(* because no order id of a payment is used twice (PaymentIds).            *)
(***************************************************************************)
EXTENDS SeatProofs

-----------------------------------------------------------------------------
(* The steps of a request.                                                 *)

RequestStep(r) ==
    \/ HttpStep(r)
    \/ \E u \in Users, b \in Bookings :
         InitiatePayment(r, u, b) \/ CancelCreatedBooking(r, u, b) \/ CancelConfirmedBooking(r, u, b)
    \/ \E p \in PayIds : NotifyPaymentFailed(r, p) \/ NotifyPaymentCompleted(r, p)

(* The handlers that are one step.                                         *)
ShortStep ==
    \E u \in Users : \/ CreateBooking(u)
                     \/ \E b \in Bookings, s \in Seats : SelectSeat(u, b, s)
                     \/ \E s \in Seats : ReleaseSeat(u, s)

LEMMA ApiSteps == Api <=> ShortStep \/ \E r \in Requests : RequestStep(r)
BY Zenon DEF Api, ShortStep, RequestStep

LEMMA RequestFrame ==
    ASSUME TypeInv, NEW r \in Requests, RequestStep(r), NEW q \in Requests, q # r
    PROVE  req'[q] = req[q]
<1> USE DEF TypeInv, RequestsInv, HttpTypeOK
<1>1. CASE HttpStep(r)
  BY <1>1 DEF HttpStep, RecordPayment, CommitCancel, EnqueueRefund, EnqueueCancel,
     EnqueueSelect, AbortRequest, Respond
<1>2. ASSUME NEW u \in Users, NEW b \in Bookings,
             \/ InitiatePayment(r, u, b)
             \/ CancelCreatedBooking(r, u, b) \/ CancelConfirmedBooking(r, u, b)
      PROVE  req'[q] = req[q]
  BY <1>2 DEF InitiatePayment, CancelCreatedBooking, CancelConfirmedBooking, Enter
<1>3. ASSUME NEW p \in PayIds, NotifyPaymentFailed(r, p) \/ NotifyPaymentCompleted(r, p)
      PROVE  req'[q] = req[q]
  BY <1>3 DEF NotifyPaymentFailed, NotifyPaymentCompleted, Enter
<1> QED
  BY <1>1, <1>2, <1>3 DEF RequestStep

-----------------------------------------------------------------------------
(* The lock stays with its holder.                                         *)

(* A step of a request takes the lock from nobody, and has it when it ends *)
(* between a first write and the commit.                                   *)
LEMMA RequestLock ==
    ASSUME TypeInv, LockHolders, NEW r \in Requests, RequestStep(r)
    PROVE  /\ writer' = writer \/ writer \in {None, r}
           /\ req'[r].phase \in {"commit", "refund"} => writer' = r
<1> USE DEF TypeInv, RequestsInv, HttpTypeOK, InPhase, IsIdle, LockHolders
<1>1. CASE RecordPayment(r) \/ CommitCancel(r)
  BY <1>1 DEF RecordPayment, CommitCancel, CanWrite, LockFree, Respond, Idle
<1>2. CASE EnqueueRefund(r) \/ AbortRequest(r)
  BY <1>2 DEF EnqueueRefund, AbortRequest, EndUnchanged, Respond, Idle
<1>3. CASE EnqueueCancel(r) \/ EnqueueSelect(r)
  BY <1>3 DEF EnqueueCancel, EnqueueSelect, Respond, Idle, txVars
<1>4. ASSUME NEW u \in Users, NEW b \in Bookings, InitiatePayment(r, u, b)
      PROVE  writer' = writer /\ req'[r].phase = "gateway"
  BY <1>4 DEF InitiatePayment, BeginRead
<1>5. ASSUME NEW u \in Users, NEW b \in Bookings,
             CancelCreatedBooking(r, u, b) \/ CancelConfirmedBooking(r, u, b)
      PROVE  writer = None /\ writer' = r
  BY <1>5 DEF CancelCreatedBooking, CancelConfirmedBooking, Lock, LockFree
<1>6. ASSUME NEW p \in PayIds, NotifyPaymentFailed(r, p) \/ NotifyPaymentCompleted(r, p)
      PROVE  writer = None /\ req'[r].phase \in {"enqueueCancel", "enqueueSelect"}
  BY <1>6 DEF NotifyPaymentFailed, NotifyPaymentCompleted, LockFree, Enter, Idle
<1> HIDE DEF InPhase, IsIdle
<1> QED
  BY <1>1, <1>2, <1>3, <1>4, <1>5, <1>6 DEF RequestStep, HttpStep

(* The same of a worker.                                                   *)
LEMMA WorkerKeepsLock ==
    ASSUME TypeInv, LockHolders, NEW j \in Jobs, Queue(j)
    PROVE  /\ writer' = writer \/ writer \in {None, j}
           /\ At(j, "booking.select_seats", "selectPlaces")' => writer' = j
<1> USE DEF TypeInv, QueueInv, WorkersTypeOK, Local, LockHolders, At, CanWrite, LockFree,
            CommitChanges, BeginRead, EndUnchanged, Fail, FailAfterCall, AnswerLost, Refused,
            Return, GoTo, txVars, NotWorking
<1>1. CASE StartWork(j) \/ FinishWork(j) \/ Interrupted(j)
  BY <1>1 DEF StartWork, FinishWork, Interrupted
<1>2. CASE Rescue(j)
  BY <1>2 DEF Rescue
<1>3. CASE ReadForRelease(j) \/ ReleaseSeats(j)
  BY <1>3 DEF ReadForRelease, ReleaseSeats
<1>4. CASE ReadForRefund(j) \/ CallCancelPayment(j)
  BY <1>4 DEF ReadForRefund, CallCancelPayment
<1>5. CASE ReadForSelect(j)
  <2>1. writer' = writer \/ writer = j
    BY <1>5 DEF ReadForSelect
  <2>2. work'[j].step \in {"insertOrder", "idle"}
    <3>1. CASE Fail(j)
      BY <3>1
    <3>2. CASE \E o, seats : work' = [work EXCEPT ![j] = [work[j] EXCEPT !.step = "insertOrder",
                                                                       !.order = o, !.seats = seats]]
      BY <3>2
    <3> QED BY <1>5, <3>1, <3>2, Zenon DEF ReadForSelect
  <2> QED BY <2>1, <2>2
<1>13. CASE CommitOrder(j)
  BY <1>13 DEF CommitOrder
<1>6. CASE LockForSelect(j)
  BY <1>6 DEF LockForSelect, Lock
<1>7. CASE CallSelectPlace(j)
  BY <1>7 DEF CallSelectPlace
<1>8. CASE CallGetOrder(j) \/ CallConfirmOrder(j)
  BY <1>8 DEF CallGetOrder, CallConfirmOrder
<1>9. CASE CallSubmitOrder(j)
  BY <1>9 DEF CallSubmitOrder, Lock
<1>10. CASE ReadForCancel(j) \/ CallCancelOrder(j)
  BY <1>10 DEF ReadForCancel, CallCancelOrder
<1>11. CASE CallReleasePlace(j)
  BY <1>11 DEF CallReleasePlace
<1>12. CASE EnqueueConfirm(j) \/ EnqueueRelease(j)
  BY <1>12 DEF EnqueueConfirm, EnqueueRelease, EnqueueNext
<1> QED
  BY <1>1, <1>2, <1>3, <1>4, <1>5, <1>6, <1>7, <1>8, <1>9, <1>10, <1>11, <1>12, <1>13
     DEF Queue, WorkStep

LEMMA NextLockHolders ==
    ASSUME TypeInv, LockHolders, Next
    PROVE  LockHolders'
<1> USE DEF InPhase
<1>1. CASE ShortStep /\ UNCHANGED work
  <2>1. writer = None /\ UNCHANGED <<req, jobs>>
    BY <1>1 DEF ShortStep, CreateBooking, SelectSeat, ReleaseSeat, LockFree
  <2> QED BY <1>1, <2>1, ParametersAssumption DEF LockHolders, At
<1>2. ASSUME NEW r \in Requests, RequestStep(r), UNCHANGED work PROVE LockHolders'
  <2>1. writer' = writer \/ writer \in {None, r}
    BY <1>2, RequestLock
  <2>2. \A q \in Requests : req'[q].phase \in {"commit", "refund"} => writer' = q
    BY <1>2, <2>1, RequestLock, RequestFrame, ParametersAssumption DEF LockHolders
  <2>3. \A i \in Jobs : At(i, "booking.select_seats", "selectPlaces")' => writer = i
    BY <1>2, ApiSteps, ApiFrame DEF LockHolders, At
  <2>4. \A i \in Jobs : i \notin {None, r}
    BY ParametersAssumption
  <2> QED BY <2>1, <2>2, <2>3, <2>4 DEF LockHolders
<1>3. ASSUME NEW j \in Jobs, Queue(j), UNCHANGED req PROVE LockHolders'
  <2>1. writer' = writer \/ writer \in {None, j}
    BY <1>3, WorkerKeepsLock
  <2>2. \A i \in Jobs \ {j} : At(i, "booking.select_seats", "selectPlaces")' => writer = i
    BY <1>3, QueueFrame DEF LockHolders, At
  <2>3. \A i \in Jobs : i # None
    BY ParametersAssumption
  <2>4. \A r \in Requests : r \notin {None, j}
    BY ParametersAssumption
  <2>5. At(j, "booking.select_seats", "selectPlaces")' => writer' = j
    BY <1>3, WorkerKeepsLock
  <2> QED BY <1>3, <2>1, <2>2, <2>3, <2>4, <2>5 DEF LockHolders
<1>4. CASE (\E p \in PayIds : Customer(p)) /\ UNCHANGED <<epVars, work>>
  BY <1>4 DEF Customer, txVars, LockHolders, At
<1>5. CASE Crash
  BY <1>5 DEF Crash, LockHolders, At, Idle, NotWorking
<1> QED
  BY <1>1, <1>2, <1>3, <1>4, <1>5, ApiSteps DEF Next

-----------------------------------------------------------------------------
(* Who writes bookings and payments.                                       *)

LEMMA MoneyWriters ==
    ASSUME Next
    PROVE  \/ /\ \E u \in Users : CreateBooking(u)
              /\ UNCHANGED <<req, work>>
           \/ \E r \in Requests :
                /\ \/ RecordPayment(r) \/ CommitCancel(r)
                   \/ \E p \in PayIds : NotifyPaymentFailed(r, p) \/ NotifyPaymentCompleted(r, p)
                /\ UNCHANGED work
           \/ \E j \in Jobs : CallCancelPayment(j)
           \/ UNCHANGED <<bookings, payments>>
<1>1. CASE Api /\ UNCHANGED work
  <2> SUFFICES ASSUME ~ \E u \in Users : CreateBooking(u),
                      ~ \E r \in Requests : RecordPayment(r) \/ CommitCancel(r),
                      ~ \E r \in Requests, p \in PayIds :
                          NotifyPaymentFailed(r, p) \/ NotifyPaymentCompleted(r, p)
               PROVE  UNCHANGED <<bookings, payments>>
    BY <1>1 DEF CreateBooking
  <2> QED
    BY <1>1 DEF Api, SelectSeat, ReleaseSeat, InitiatePayment, CancelCreatedBooking,
       CancelConfirmedBooking, HttpStep, EnqueueRefund, EnqueueCancel, EnqueueSelect,
       AbortRequest, dbVars
<1>2. ASSUME NEW j \in Jobs, Queue(j)
      PROVE  CallCancelPayment(j) \/ UNCHANGED <<bookings, payments>>
  BY <1>2 DEF Queue, StartWork, WorkStep, Rescue, FinishWork, Interrupted,
     ReadForRelease, ReleaseSeats, ReadForSelect, LockForSelect, CallSelectPlace,
     CommitOrder, EnqueueConfirm, CallGetOrder, CallSubmitOrder, CallConfirmOrder,
     ReadForCancel, CallReleasePlace, CallCancelOrder, EnqueueRelease, ReadForRefund,
     EnqueueNext, dbVars
<1>3. CASE Crash \/ \E q \in PayIds : Customer(q)
  BY <1>3 DEF Crash, Customer, dbVars
<1> QED
  BY <1>1, <1>2, <1>3 DEF Next

(* They outdate every snapshot.                                            *)
LEMMA MoneyOutdates ==
    ASSUME Next
    PROVE  fresh' = {} \/ UNCHANGED <<bookings, payments>>
<1>1. ASSUME NEW j \in Jobs, CallCancelPayment(j)
      PROVE  fresh' = {} \/ UNCHANGED <<bookings, payments>>
  BY <1>1 DEF CallCancelPayment, CommitChanges
<1>2. ASSUME NEW r \in Requests,
             \/ RecordPayment(r) \/ CommitCancel(r)
             \/ \E p \in PayIds : NotifyPaymentFailed(r, p) \/ NotifyPaymentCompleted(r, p)
      PROVE  fresh' = {}
  BY <1>2 DEF RecordPayment, CommitCancel, NotifyPaymentFailed, NotifyPaymentCompleted,
     CommitChanges
<1>3. ASSUME NEW u \in Users, CreateBooking(u) PROVE fresh' = {}
  BY <1>3 DEF CreateBooking, CommitChanges
<1> QED
  BY <1>1, <1>2, <1>3, MoneyWriters

(* What the gateway knows of a payment it never forgets.                   *)
LEMMA GatewayGrows ==
    ASSUME TypeInv, RefundReferences, Next, NEW p \in PayIds
    PROVE  gateway[p] \subseteq gateway'[p]
<1> USE DEF TypeInv, PgTypeOK
<1>1. CASE UNCHANGED gateway
  BY <1>1
<1>2. ASSUME NEW q \in PayIds, NEW event, Record(q, event)
      PROVE  gateway[p] \subseteq gateway'[p]
  BY <1>2 DEF Record
<1>3. CASE \E q \in PayIds : Customer(q)
  BY <1>2, <1>3 DEF Customer, Decline, Capture
<1>4. CASE Api
  <2>1. ASSUME NEW r \in Requests, NEW u \in Users, NEW b \in Bookings, InitiatePayment(r, u, b)
        PROVE  gateway[p] \subseteq gateway'[p]
    BY <1>2, <2>1 DEF InitiatePayment, InitPayment, UnusedPayIds
  <2>2. CASE ~ \E r \in Requests, u \in Users, b \in Bookings : InitiatePayment(r, u, b)
    BY <1>1, <1>4, <2>2 DEF Api, CreateBooking, SelectSeat, ReleaseSeat, CancelCreatedBooking,
       CancelConfirmedBooking, HttpStep, RecordPayment, CommitCancel, EnqueueRefund,
       EnqueueCancel, EnqueueSelect, AbortRequest, NotifyPaymentFailed,
       NotifyPaymentCompleted, Report, pgVars
  <2> QED BY <2>1, <2>2
<1>5. ASSUME NEW j \in Jobs, Queue(j) PROVE gateway[p] \subseteq gateway'[p]
  <2>1. CASE CallCancelPayment(j)
    <3>1. work[j].pay \in PayIds
      BY <2>1 DEF CallCancelPayment, At, RefundReferences
    <3>2. UNCHANGED gateway \/ Record(work[j].pay, "cancelled")
      BY <2>1 DEF CallCancelPayment, CancelPayment, DeclineToCancel, pgVars
    <3> QED BY <1>1, <1>2, <3>1, <3>2
  <2>2. CASE ~ CallCancelPayment(j)
    BY <1>1, <1>5, <2>2 DEF Queue, StartWork, WorkStep, Rescue, FinishWork, Interrupted,
       ReadForRelease, ReleaseSeats, ReadForSelect, LockForSelect, CallSelectPlace,
       CommitOrder, EnqueueConfirm, CallGetOrder, CallSubmitOrder, CallConfirmOrder,
       ReadForCancel, CallReleasePlace, CallCancelOrder, EnqueueRelease, ReadForRefund,
       EnqueueNext, pgVars
  <2> QED BY <2>1, <2>2
<1>6. CASE Crash
  BY <1>1, <1>6 DEF Crash, pgVars
<1> QED
  BY <1>3, <1>4, <1>5, <1>6 DEF Next

-----------------------------------------------------------------------------
(* The order ids of payments.                                              *)

LEMMA GatewayPhase ==
    ASSUME TypeInv, Next, NEW r \in Requests, InPhase(r, "gateway")'
    PROVE  \/ req'[r] = req[r]
           \/ \E u \in Users, b \in Bookings : InitiatePayment(r, u, b) /\ UNCHANGED work
<1> USE DEF InPhase
<1>1. CASE UNCHANGED req
  BY <1>1
<1>2. ASSUME NEW q \in Requests, RequestStep(q), q # r PROVE req'[r] = req[r]
  BY <1>2, RequestFrame
<1>3. CASE RequestStep(r) /\ UNCHANGED work
  <2> USE DEF TypeInv, RequestsInv, HttpTypeOK
  <2>1. CASE HttpStep(r)
    BY <2>1 DEF HttpStep, RecordPayment, CommitCancel, EnqueueRefund, EnqueueCancel,
       EnqueueSelect, AbortRequest, Respond, Idle
  <2>2. ASSUME NEW u \in Users, NEW b \in Bookings,
               CancelCreatedBooking(r, u, b) \/ CancelConfirmedBooking(r, u, b)
        PROVE  FALSE
    BY <2>2 DEF CancelCreatedBooking, CancelConfirmedBooking, Enter, Idle
  <2>3. ASSUME NEW p \in PayIds, NotifyPaymentFailed(r, p) \/ NotifyPaymentCompleted(r, p)
        PROVE  FALSE
    BY <2>3 DEF NotifyPaymentFailed, NotifyPaymentCompleted, Enter, Idle
  <2> QED BY <1>3, <2>1, <2>2, <2>3 DEF RequestStep
<1>4. CASE Crash
  BY <1>4 DEF Crash, Idle
<1>5. CASE ShortStep
  BY <1>5 DEF ShortStep, CreateBooking, SelectSeat, ReleaseSeat
<1> QED
  BY <1>1, <1>2, <1>3, <1>4, <1>5, ApiSteps DEF Next, Customer

LEMMA NextPaymentIds ==
    ASSUME TypeInv, RefundReferences, PaymentIds, Next
    PROVE  PaymentIds'
<1> USE DEF InPhase
<1> DEFINE Unused(p) == payments'[p].status = "none" /\ gateway'[p] # {}
<1>1. \A p \in PayIds : gateway[p] # {} => gateway'[p] # {}
  BY GatewayGrows
<1>2. \A p \in PayIds : payments[p].status = "none" /\ payments'[p].status # "none" =>
        \E r \in Requests : RecordPayment(r) /\ p = req[r].pay
  BY NewPayment DEF IsPayment
<1>3. \A p \in PayIds : payments'[p].status # "none" => gateway'[p] # {}
  BY <1>1, <1>2 DEF PaymentIds, RecordPayment, IsPayment
(* A request that was waiting before the step.                             *)
<1>4. ASSUME NEW r \in Requests, InPhase(r, "gateway"), req'[r] = req[r]
      PROVE  req[r].pay \in PayIds /\ Unused(req[r].pay)
  <2>1. PICK p \in PayIds : p = req[r].pay
    BY <1>4 DEF PaymentIds
  <2>2. payments[p].status = "none" /\ gateway[p] # {}
    BY <1>4, <2>1 DEF PaymentIds, IsPayment
  <2>3. ASSUME payments'[p].status # "none" PROVE FALSE
    <3>1. PICK q \in Requests : RecordPayment(q) /\ p = req[q].pay
      BY <1>2, <2>2, <2>3
    <3>2. q = r
      BY <1>4, <2>1, <3>1 DEF PaymentIds, RecordPayment
    <3>3. req'[r].phase # "gateway"
      BY <3>1, <3>2 DEF RecordPayment, Respond, Idle, TypeInv, RequestsInv, HttpTypeOK
    <3> QED BY <1>4, <3>3
  <2> QED BY <1>1, <2>1, <2>2, <2>3
(* A request that begins to wait.                                          *)
<1>5. ASSUME NEW r \in Requests, NEW u \in Users, NEW b \in Bookings, InitiatePayment(r, u, b)
      PROVE  /\ req'[r].pay \in PayIds /\ gateway[req'[r].pay] = {}
             /\ Unused(req'[r].pay)
             /\ \A q \in Requests \ {r} : req'[q] = req[q]
  <2>1. PICK p \in UnusedPayIds : /\ InitPayment(p) /\ req'[r].pay = p
                                  /\ \A q \in Requests \ {r} : req'[q] = req[q]
    <3>1. (CHOOSE q \in UnusedPayIds : TRUE) \in UnusedPayIds
      BY <1>5 DEF InitiatePayment
    <3> QED BY <1>5, <3>1 DEF InitiatePayment, TypeInv, RequestsInv, HttpTypeOK
  <2>2. p \in PayIds /\ gateway[p] = {} /\ payments'[p] = payments[p]
    BY <1>5, <2>1 DEF InitiatePayment, UnusedPayIds, dbVars
  <2>3. gateway'[p] # {}
    BY <2>1, <2>2 DEF InitPayment, Record, TypeInv, PgTypeOK
  <2>4. payments'[p].status = "none"
    BY <2>2 DEF PaymentIds, IsPayment
  <2> QED BY <2>1, <2>2, <2>3, <2>4
<1>6. ASSUME \A r \in Requests : req'[r].phase = "gateway" =>
               req'[r].pay \in PayIds /\ Unused(req'[r].pay),
             \A r, q \in Requests :
               req'[r].phase = "gateway" /\ req'[q].phase = "gateway"
               /\ req'[q].pay = req'[r].pay => q = r
      PROVE  PaymentIds'
  BY <1>3, <1>6 DEF PaymentIds, IsPayment
<1>7. CASE \E r \in Requests, u \in Users, b \in Bookings : InitiatePayment(r, u, b)
  <2>1. PICK r \in Requests, u \in Users, b \in Bookings : InitiatePayment(r, u, b)
    BY <1>7
  <2>2. \A q \in Requests \ {r} : req'[q].phase = "gateway" =>
          /\ req'[q] = req[q] /\ gateway[req'[q].pay] # {}
          /\ req'[q].pay \in PayIds /\ Unused(req'[q].pay)
    BY <1>4, <1>5, <2>1 DEF PaymentIds
  <2>3. /\ req'[r].pay \in PayIds /\ Unused(req'[r].pay)
        /\ gateway[req'[r].pay] = {}
    BY <1>5, <2>1
  <2> HIDE DEF Unused
  <2>4. \A q1, q2 \in Requests :
          req'[q1].phase = "gateway" /\ req'[q2].phase = "gateway"
          /\ req'[q2].pay = req'[q1].pay => q2 = q1
    BY <2>2, <2>3 DEF PaymentIds
  <2> QED BY <1>6, <2>2, <2>3, <2>4
<1>8. CASE ~ \E r \in Requests, u \in Users, b \in Bookings : InitiatePayment(r, u, b)
  <2>1. \A q \in Requests : req'[q].phase = "gateway" => req'[q] = req[q]
    BY <1>8, GatewayPhase
  <2>2. \A q \in Requests : req'[q].phase = "gateway" =>
          req'[q].pay \in PayIds /\ Unused(req'[q].pay)
    BY <1>4, <2>1
  <2> HIDE DEF Unused
  <2>3. \A q1, q2 \in Requests :
          req'[q1].phase = "gateway" /\ req'[q2].phase = "gateway"
          /\ req'[q2].pay = req'[q1].pay => q2 = q1
    BY <2>1 DEF PaymentIds
  <2> QED BY <1>6, <2>2, <2>3
<1> QED
  BY <1>7, <1>8

-----------------------------------------------------------------------------
(* What has been read before a write.                                      *)

(* Only InitiatePayment gives a request a snapshot.                        *)
LEMMA FreshRequest ==
    ASSUME TypeInv, LockDiscipline, SnapshotsCurrent, Next, NEW r \in Requests, r \in fresh'
    PROVE  r \in fresh \/ \E u \in Users, b \in Bookings : InitiatePayment(r, u, b)
<1>1. CASE ShortStep
  BY <1>1 DEF ShortStep, CreateBooking, SelectSeat, ReleaseSeat, CommitChanges
<1>2. ASSUME NEW q \in Requests, RequestStep(q)
      PROVE  r \in fresh \/ \E u \in Users, b \in Bookings : InitiatePayment(r, u, b)
  <2>1. CASE HttpStep(q)
    BY <2>1 DEF HttpStep, RecordPayment, CommitCancel, EnqueueRefund, EnqueueCancel,
       EnqueueSelect, AbortRequest, EndUnchanged, CommitChanges, txVars
  <2>2. ASSUME NEW u \in Users, NEW b \in Bookings, InitiatePayment(q, u, b)
        PROVE  fresh' = fresh \cup {q}
    BY <2>2 DEF InitiatePayment, BeginRead
  <2>3. ASSUME NEW u \in Users, NEW b \in Bookings,
               CancelCreatedBooking(q, u, b) \/ CancelConfirmedBooking(q, u, b)
        PROVE  fresh' = fresh
    BY <2>3 DEF CancelCreatedBooking, CancelConfirmedBooking, Lock
  <2>4. ASSUME NEW p \in PayIds, NotifyPaymentFailed(q, p) \/ NotifyPaymentCompleted(q, p)
        PROVE  fresh' = {}
    BY <2>4 DEF NotifyPaymentFailed, NotifyPaymentCompleted, CommitChanges
  <2> QED BY <1>2, <2>1, <2>2, <2>3, <2>4 DEF RequestStep
<1>3. ASSUME NEW j \in Jobs, Queue(j) PROVE r \in fresh
  BY <1>3, WorkerSnapshot, ParametersAssumption
<1>4. CASE Crash \/ \E p \in PayIds : Customer(p)
  BY <1>4 DEF Crash, CloseAll, Customer, txVars
<1> QED
  BY <1>1, <1>2, <1>3, <1>4, ApiSteps DEF Next

(* A request between the insert of its job and its commit began with       *)
(* CancelCreatedBooking.                                                   *)
LEMMA CommitPhase ==
    ASSUME TypeInv, Next, NEW r \in Requests, InPhase(r, "commit")'
    PROVE  \/ req'[r] = req[r]
           \/ \E u \in Users, b \in Bookings : CancelCreatedBooking(r, u, b)
<1> USE DEF InPhase
<1>1. CASE UNCHANGED req
  BY <1>1
<1>2. ASSUME NEW q \in Requests, RequestStep(q), q # r PROVE req'[r] = req[r]
  BY <1>2, RequestFrame
<1>3. CASE RequestStep(r)
  <2> USE DEF TypeInv, RequestsInv, HttpTypeOK
  <2>1. CASE HttpStep(r)
    BY <2>1 DEF HttpStep, RecordPayment, CommitCancel, EnqueueRefund, EnqueueCancel,
       EnqueueSelect, AbortRequest, Respond, Idle
  <2>2. ASSUME NEW u \in Users, NEW b \in Bookings,
               InitiatePayment(r, u, b) \/ CancelConfirmedBooking(r, u, b)
        PROVE  FALSE
    <3>1. CASE InitiatePayment(r, u, b)
      <4>1. req'[r].phase = "gateway"
        BY <3>1 DEF InitiatePayment
      <4> QED BY <4>1
    <3>2. CASE CancelConfirmedBooking(r, u, b)
      BY <3>2 DEF CancelConfirmedBooking, Enter, Idle
    <3> QED BY <2>2, <3>1, <3>2
  <2>3. ASSUME NEW p \in PayIds, NotifyPaymentFailed(r, p) \/ NotifyPaymentCompleted(r, p)
        PROVE  FALSE
    BY <2>3 DEF NotifyPaymentFailed, NotifyPaymentCompleted, Enter, Idle
  <2> QED BY <1>3, <2>1, <2>2, <2>3 DEF RequestStep
<1>4. CASE Crash
  BY <1>4 DEF Crash, Idle
<1>5. CASE ShortStep
  BY <1>5 DEF ShortStep, CreateBooking, SelectSeat, ReleaseSeat
<1> QED
  BY <1>1, <1>2, <1>3, <1>4, <1>5, ApiSteps DEF Next, Customer

(* While a request is between its job and its commit nobody else writes.   *)
LEMMA CommitKeepsBookings ==
    ASSUME TypeInv, LockHolders, Next, NEW r \in Requests, InPhase(r, "commit"),
           req'[r] = req[r]
    PROVE  UNCHANGED bookings
<1> USE DEF InPhase, TypeInv, RequestsInv, HttpTypeOK
<1>1. writer = r /\ r # None
  BY ParametersAssumption DEF LockHolders
<1>2. ASSUME NEW u \in Users, CreateBooking(u) PROVE FALSE
  BY <1>1, <1>2 DEF CreateBooking, LockFree
<1>3. ASSUME NEW q \in Requests, RecordPayment(q) \/ CommitCancel(q) PROVE FALSE
  <2>1. q = r
    BY <1>1, <1>3 DEF RecordPayment, CommitCancel, CanWrite, LockFree
  <2> QED BY <1>3, <2>1 DEF RecordPayment, CommitCancel, Respond, Idle
<1>4. ASSUME NEW q \in Requests, NEW p \in PayIds,
             NotifyPaymentFailed(q, p) \/ NotifyPaymentCompleted(q, p)
      PROVE  FALSE
  BY <1>1, <1>4 DEF NotifyPaymentFailed, NotifyPaymentCompleted, LockFree
<1>5. ASSUME NEW j \in Jobs, CallCancelPayment(j) PROVE UNCHANGED bookings
  BY <1>5 DEF CallCancelPayment
<1> QED
  BY <1>2, <1>3, <1>4, <1>5, MoneyWriters

LEMMA NextStatusSnapshots ==
    ASSUME TypeInv, LockDiscipline, SnapshotsCurrent, LockHolders, StatusSnapshots, Next
    PROVE  StatusSnapshots'
<1> USE DEF InPhase, At
<1>1. ASSUME NEW r \in Requests, InPhase(r, "commit")'
      PROVE  bookings'[req'[r].booking].status = "CREATED"
  <2>1. CASE req'[r] = req[r]
    BY <1>1, <2>1, CommitKeepsBookings DEF StatusSnapshots
  <2>2. ASSUME NEW u \in Users, NEW b \in Bookings, CancelCreatedBooking(r, u, b)
        PROVE  bookings'[req'[r].booking].status = "CREATED"
    BY <2>2 DEF CancelCreatedBooking, Enter, Idle, dbVars, TypeInv, RequestsInv, HttpTypeOK
  <2> QED BY <1>1, <2>1, <2>2, CommitPhase
<1>2. ASSUME NEW r \in Requests, r \in fresh', InPhase(r, "gateway")'
      PROVE  bookings'[req'[r].booking].status = "CREATED"
  <2>1. UNCHANGED bookings
    BY <1>2, MoneyOutdates
  <2>2. ASSUME NEW u \in Users, NEW b \in Bookings, InitiatePayment(r, u, b)
        PROVE  bookings'[req'[r].booking].status = "CREATED"
    <3>1. req'[r].booking = b /\ bookings[b].status = "CREATED"
      BY <2>2 DEF InitiatePayment, TypeInv, RequestsInv, HttpTypeOK
    <3> QED BY <2>1, <3>1
  <2>3. CASE req'[r] = req[r] /\ r \in fresh
    BY <1>2, <2>1, <2>3 DEF StatusSnapshots
  <2> QED BY <1>2, <2>2, <2>3, GatewayPhase, FreshRequest
<1>3. ASSUME NEW j \in Jobs, j \in fresh', At(j, "payment.refund", "refund")'
      PROVE  payments'[work'[j].pay].status = "SUCCESS"
  <2>1. UNCHANGED payments
    BY <1>3, MoneyOutdates
  <2>2. CASE Queue(j)
    <3>1. PICK p \in PaymentsOfBooking(BookingOf(j)) :
            /\ payments[p].status = "SUCCESS"
            /\ work' = [work EXCEPT ![j].step = "refund", ![j].pay = p]
      BY <1>3, <2>2, RefundStep
         DEF ReadForRefund, Return, GoTo, TypeInv, QueueInv, WorkersTypeOK, Local
    <3> QED BY <2>1, <3>1 DEF TypeInv, QueueInv, WorkersTypeOK, Local
  <2>3. CASE ~ Queue(j)
    <3>1. work'[j] = work[j] /\ (jobs'[j] = jobs[j] \/ work[j].step = "idle")
      BY <1>3, <2>3, QueueFrame, ApiFrame DEF Next, Customer, Crash, CloseAll
    <3>2. j \in fresh
      BY <1>3, <2>3, WorkerSnapshot, ApiSnapshot DEF Next, Customer, Crash, CloseAll, txVars
    <3> QED BY <1>3, <2>1, <3>1, <3>2 DEF StatusSnapshots
  <2> QED BY <2>2, <2>3
<1> QED
  BY <1>1, <1>2, <1>3 DEF StatusSnapshots

-----------------------------------------------------------------------------
(* The ledger.                                                             *)

(* The ledger of one booking.                                              *)
LedgerOf(b) ==
    LET of == PaymentsOfBooking(b)
        status == bookings[b].status
    IN /\ \A p, q \in of : p = q
       /\ status \in {"none", "CREATED"} => of = {}
       /\ status = "PAYMENT_INITIATED" => \E p \in of : payments[p].status = "INIT"
       /\ status = "CONFIRMED" =>
            \E p \in of : payments[p].status \in {"SUCCESS", "REFUNDED"}
       /\ status = "CANCELLED" => \A p \in of : payments[p].status = "FAIL"

LEMMA LedgerIsOfBookings ==
    /\ PaymentLedger <=> \A b \in Bookings : LedgerOf(b)
    /\ PaymentLedger' <=> \A b \in Bookings : LedgerOf(b)'
BY DEF PaymentLedger, LedgerOf

(* It depends on the row of the booking and on the rows of its payments.   *)
LEMMA LedgerFrame ==
    ASSUME NEW b \in Bookings, LedgerOf(b), bookings'[b] = bookings[b],
           \A p \in PayIds :
             \/ payments'[p] = payments[p]
             \/ /\ payments[p].status = "none" \/ payments[p].booking # b
                /\ payments'[p].booking # b
    PROVE  LedgerOf(b)'
<1>1. /\ PaymentsOfBooking(b)' = PaymentsOfBooking(b)
      /\ \A p \in PaymentsOfBooking(b) : payments'[p] = payments[p]
  BY DEF PaymentsOfBooking, IsPayment
<1> QED
  BY <1>1 DEF LedgerOf

LEMMA CreateBookingMoney ==
    ASSUME TypeInv, PaymentLedger, NEW u \in Users, CreateBooking(u)
    PROVE  PaymentLedger'
<1>1. PICK b0 \in Bookings : /\ bookings[b0].status = "none"
                             /\ bookings' = CreateBookingRow(b0, u)
  BY DEF CreateBooking, UnusedBookings
<1>2. UNCHANGED payments /\ bookings \in [Bookings -> Booking]
  BY DEF CreateBooking, TypeInv, TablesInv, SqlcTypeOK
<1>3. ASSUME NEW b \in Bookings, b # b0 PROVE LedgerOf(b)'
  BY <1>1, <1>2, <1>3, LedgerFrame, LedgerIsOfBookings DEF CreateBookingRow
<1>4. LedgerOf(b0)'
  <2>1. PaymentsOfBooking(b0) = {}
    BY <1>1 DEF PaymentLedger
  <2>2. PaymentsOfBooking(b0)' = {}
    BY <1>2, <2>1 DEF PaymentsOfBooking, IsPayment
  <2>3. bookings'[b0].status = "CREATED"
    BY <1>1, <1>2 DEF CreateBookingRow
  <2> QED BY <2>2, <2>3 DEF LedgerOf
<1> QED
  BY <1>3, <1>4, LedgerIsOfBookings

(* What RecordPayment writes: a first payment for a CREATED booking.       *)
LEMMA RecordedForCreated ==
    ASSUME LockDiscipline, StatusSnapshots, PaymentIds, NEW r \in Requests, RecordPayment(r)
    PROVE  /\ bookings[req[r].booking].status = "CREATED"
           /\ req[r].pay \in PayIds /\ payments[req[r].pay].status = "none"
<1>1. writer # r
  BY ParametersAssumption DEF RecordPayment, InPhase, LockDiscipline
<1>2. r \in fresh
  BY <1>1 DEF RecordPayment, CanWrite
<1> QED
  BY <1>2 DEF RecordPayment, StatusSnapshots, PaymentIds, IsPayment

LEMMA RecordPaymentMoney ==
    ASSUME TypeInv, LockDiscipline, StatusSnapshots, PaymentIds, PaymentLedger,
           NEW r \in Requests, RecordPayment(r)
    PROVE  PaymentLedger'
<1>1. PICK b0 \in Bookings, p0 \in PayIds :
        /\ req[r].booking = b0 /\ req[r].pay = p0
        /\ bookings[b0].status = "CREATED" /\ payments[p0].status = "none"
  BY RecordedForCreated DEF RecordPayment, TypeInv, RequestsInv, RequestReferences, IsIdle, InPhase
<1>2. /\ payments' = [payments EXCEPT ![p0] = [booking |-> b0, status |-> "INIT",
                                              amount |-> req[r].amount]]
      /\ bookings' = [bookings EXCEPT ![b0].status = "PAYMENT_INITIATED"]
      /\ payments \in [PayIds -> Payment] /\ bookings \in [Bookings -> Booking]
  BY <1>1 DEF RecordPayment, InsertBookingPayment, UpdateBookingStatus, TypeInv, TablesInv,
     SqlcTypeOK
<1>3. ASSUME NEW b \in Bookings, b # b0 PROVE LedgerOf(b)'
  BY <1>1, <1>2, <1>3, LedgerFrame, LedgerIsOfBookings
<1>4. LedgerOf(b0)'
  <2>1. PaymentsOfBooking(b0) = {}
    BY <1>1 DEF PaymentLedger
  <2>2. PaymentsOfBooking(b0)' = {p0} /\ payments'[p0].status = "INIT"
    BY <1>1, <1>2, <2>1 DEF PaymentsOfBooking, IsPayment
  <2>3. bookings'[b0].status = "PAYMENT_INITIATED"
    BY <1>2 DEF Booking
  <2> QED BY <2>2, <2>3 DEF LedgerOf
<1> QED
  BY <1>3, <1>4, LedgerIsOfBookings

LEMMA CommitCancelMoney ==
    ASSUME TypeInv, StatusSnapshots, PaymentLedger, NEW r \in Requests, CommitCancel(r)
    PROVE  PaymentLedger'
<1>1. PICK b0 \in Bookings : req[r].booking = b0 /\ bookings[b0].status = "CREATED"
  BY DEF CommitCancel, StatusSnapshots, TypeInv, RequestsInv, RequestReferences, IsIdle, InPhase
<1>2. /\ UNCHANGED payments
      /\ bookings' = [bookings EXCEPT ![b0].status = "CANCELLED"]
      /\ bookings \in [Bookings -> Booking]
  BY <1>1 DEF CommitCancel, CancelBookingRow, TypeInv, TablesInv, SqlcTypeOK
<1>3. ASSUME NEW b \in Bookings, b # b0 PROVE LedgerOf(b)'
  BY <1>2, <1>3, LedgerFrame, LedgerIsOfBookings
<1>4. LedgerOf(b0)'
  <2>1. PaymentsOfBooking(b0) = {}
    BY <1>1 DEF PaymentLedger
  <2>2. PaymentsOfBooking(b0)' = {}
    BY <1>2, <2>1 DEF PaymentsOfBooking, IsPayment
  <2>3. bookings'[b0].status = "CANCELLED"
    BY <1>2 DEF Booking
  <2> QED BY <2>2, <2>3 DEF LedgerOf
<1> QED
  BY <1>3, <1>4, LedgerIsOfBookings

(* A report of the gateway, delivered late or twice, moves the booking and *)
(* its one payment together.                                               *)
LEMMA ReportMoney ==
    ASSUME TypeInv, PaymentLedger, NEW r \in Requests, NEW p0 \in PayIds,
           NotifyPaymentFailed(r, p0) \/ NotifyPaymentCompleted(r, p0)
    PROVE  PaymentLedger'
<1>1. PICK b0 \in Bookings : payments[p0].booking = b0 /\ IsPayment(p0)
  BY DEF NotifyPaymentFailed, NotifyPaymentCompleted, TypeInv, TablesInv, PaymentReferences
<1>2. PICK pst \in {"FAIL", "SUCCESS"}, bst \in {"CANCELLED", "CONFIRMED"} :
        /\ payments' = [payments EXCEPT ![p0].status = pst]
        /\ bookings' = [bookings EXCEPT ![b0].status = bst]
        /\ bst = "CANCELLED" <=> pst = "FAIL"
  BY <1>1 DEF NotifyPaymentFailed, NotifyPaymentCompleted, UpdateBookingPaymentStatus,
     UpdateBookingStatus, GetBookingByPaymentOrderID
<1>3. payments \in [PayIds -> Payment] /\ bookings \in [Bookings -> Booking]
  BY DEF TypeInv, TablesInv, SqlcTypeOK
<1>4. ASSUME NEW b \in Bookings, b # b0 PROVE LedgerOf(b)'
  BY <1>1, <1>2, <1>3, <1>4, LedgerFrame, LedgerIsOfBookings DEF Payment
<1>5. LedgerOf(b0)'
  <2>1. PaymentsOfBooking(b0) = {p0}
    BY <1>1 DEF PaymentLedger, PaymentsOfBooking
  <2>2. PaymentsOfBooking(b0)' = {p0} /\ payments'[p0].status = pst
    BY <1>1, <1>2, <1>3, <2>1 DEF PaymentsOfBooking, IsPayment, Payment
  <2>3. bookings'[b0].status = bst
    BY <1>2, <1>3 DEF Booking
  <2> QED BY <1>2, <2>2, <2>3 DEF LedgerOf
<1> QED
  BY <1>4, <1>5, LedgerIsOfBookings

(* The refund worker writes over a payment that is still captured.         *)
LEMMA RefundsCaptured ==
    ASSUME LockDiscipline, RefundReferences, StatusSnapshots, PaymentLedger, TypeInv,
           NEW j \in Jobs, CallCancelPayment(j), ~ UNCHANGED payments
    PROVE  \E p \in PayIds, b \in Bookings :
             /\ work[j].pay = p /\ payments[p].booking = b /\ PaymentsOfBooking(b) = {p}
             /\ payments[p].status = "SUCCESS" /\ bookings[b].status = "CONFIRMED"
             /\ payments' = [payments EXCEPT ![p].status = "REFUNDED"]
<1> USE DEF At
<1>1. work[j].step = "refund" /\ jobs[j].kind = "payment.refund"
  BY DEF CallCancelPayment
<1>2. writer # j
  BY <1>1, ParametersAssumption DEF LockDiscipline
<1>3. j \in fresh
  BY <1>2 DEF CallCancelPayment, CanWrite
<1>4. PICK p \in PayIds : p = work[j].pay /\ IsPayment(p) /\ payments[p].status = "SUCCESS"
  BY <1>1, <1>3 DEF RefundReferences, StatusSnapshots
<1>5. PICK b \in Bookings : payments[p].booking = b
  BY <1>4 DEF TypeInv, TablesInv, PaymentReferences
<1>6. PaymentsOfBooking(b) = {p}
  BY <1>4, <1>5 DEF PaymentLedger, PaymentsOfBooking
<1>7. bookings[b].status \in BookingStatus \cup {"none"}
  BY DEF TypeInv, TablesInv, SqlcTypeOK, Booking
<1>8. bookings[b].status = "CONFIRMED"
  BY <1>4, <1>6, <1>7 DEF PaymentLedger, BookingStatus
<1> QED
  BY <1>4, <1>5, <1>6, <1>8 DEF CallCancelPayment, UpdateBookingPaymentStatus

LEMMA RefundMoney ==
    ASSUME TypeInv, LockDiscipline, RefundReferences, StatusSnapshots, PaymentLedger,
           NEW j \in Jobs, CallCancelPayment(j)
    PROVE  PaymentLedger'
<1> USE DEF TypeInv, TablesInv, SqlcTypeOK
<1>1. UNCHANGED bookings
  BY DEF CallCancelPayment
<1>2. CASE UNCHANGED payments
  BY <1>1, <1>2, LedgerFrame, LedgerIsOfBookings
<1>3. CASE ~ UNCHANGED payments
  <2>1. PICK p0 \in PayIds, b0 \in Bookings :
          /\ payments[p0].booking = b0 /\ PaymentsOfBooking(b0) = {p0}
          /\ payments[p0].status = "SUCCESS" /\ bookings[b0].status = "CONFIRMED"
          /\ payments' = [payments EXCEPT ![p0].status = "REFUNDED"]
    BY <1>3, RefundsCaptured
  <2>2. ASSUME NEW b \in Bookings, b # b0 PROVE LedgerOf(b)'
    BY <1>1, <2>1, <2>2, LedgerFrame, LedgerIsOfBookings DEF Payment
  <2>3. PaymentsOfBooking(b0)' = {p0} /\ payments'[p0].status = "REFUNDED"
    BY <2>1 DEF PaymentsOfBooking, IsPayment, Payment
  <2>4. LedgerOf(b0)'
    BY <1>1, <2>1, <2>3 DEF LedgerOf
  <2> QED BY <2>2, <2>4, LedgerIsOfBookings
<1> QED
  BY <1>2, <1>3

LEMMA NextPaymentLedger ==
    ASSUME TypeInv, LockDiscipline, RefundReferences, PaymentIds, StatusSnapshots,
           PaymentLedger, Next
    PROVE  PaymentLedger'
<1>1. CASE UNCHANGED <<bookings, payments>>
  BY <1>1, LedgerFrame, LedgerIsOfBookings
<1> QED
  BY <1>1, MoneyWriters, CreateBookingMoney, RecordPaymentMoney, CommitCancelMoney,
     ReportMoney, RefundMoney

(* SUCCESS is written by a report only, REFUNDED over SUCCESS only.        *)
LEMMA NextSuccessIsCaptured ==
    ASSUME TypeInv, LockDiscipline, RefundReferences, StatusSnapshots, PaymentLedger,
           SuccessIsCaptured, Next
    PROVE  SuccessIsCaptured'
<1> DEFINE Good(status) == status \in {"SUCCESS", "REFUNDED"}
<1> USE DEF TypeInv, TablesInv, SqlcTypeOK
<1> SUFFICES ASSUME NEW p \in PayIds, Good(payments'[p].status)
             PROVE  "captured" \in gateway'[p]
  BY DEF SuccessIsCaptured
<1>1. CASE Good(payments[p].status)
  BY <1>1, GatewayGrows DEF SuccessIsCaptured
<1>2. CASE ~ Good(payments[p].status)
  <2>1. ASSUME NEW r \in Requests, RecordPayment(r) \/ CommitCancel(r) PROVE FALSE
    BY <1>2, <2>1 DEF RecordPayment, CommitCancel, InsertBookingPayment
  <2>2. ASSUME NEW r \in Requests, NEW q \in PayIds,
               NotifyPaymentFailed(r, q) \/ NotifyPaymentCompleted(r, q)
        PROVE  "captured" \in gateway[p]
    BY <1>2, <2>2 DEF NotifyPaymentFailed, NotifyPaymentCompleted, UpdateBookingPaymentStatus,
       Report, Payment
  <2>3. ASSUME NEW j \in Jobs, CallCancelPayment(j) PROVE FALSE
    <3>1. ~ UNCHANGED payments
      BY <1>2
    <3>2. PICK q \in PayIds : /\ payments[q].status = "SUCCESS"
                              /\ payments' = [payments EXCEPT ![q].status = "REFUNDED"]
      BY <2>3, <3>1, RefundsCaptured
    <3> QED BY <1>2, <3>2 DEF Payment
  <2>4. ~ UNCHANGED payments /\ \A u \in Users : ~ CreateBooking(u)
    BY <1>2 DEF CreateBooking
  <2> QED BY <2>1, <2>2, <2>3, <2>4, MoneyWriters, GatewayGrows
<1> QED
  BY <1>1, <1>2

-----------------------------------------------------------------------------
(* The theorems.                                                           *)

LEMMA InitPaymentInductive == Init => PaymentInductive
<1> SUFFICES ASSUME Init PROVE PaymentInductive
  OBVIOUS
<1>1. Inductive
  BY InitInductive
<1>2. LockHolders /\ StatusSnapshots
  BY DEF Init, HttpInit, WorkersInit, SqliteInit, Idle, NotWorking, InPhase, At, LockHolders,
     StatusSnapshots
<1>3. PaymentIds
  BY DEF Init, HttpInit, SqlcInit, Idle, InPhase, IsPayment, PaymentIds
<1>4. PaymentLedger
  BY DEF Init, SqlcInit, PaymentLedger, PaymentsOfBooking, IsPayment
<1>5. SuccessIsCaptured
  BY DEF Init, SqlcInit, SuccessIsCaptured
<1> QED
  BY <1>1, <1>2, <1>3, <1>4, <1>5 DEF PaymentInductive

LEMMA NextPaymentInductive == PaymentInductive /\ [Next]_vars => PaymentInductive'
<1> SUFFICES ASSUME PaymentInductive, [Next]_vars PROVE PaymentInductive'
  OBVIOUS
<1>1. Inductive'
  BY NextInductive DEF PaymentInductive
<1>2. /\ TypeInv /\ RefundReferences /\ LockDiscipline /\ SnapshotsCurrent
      /\ LockHolders /\ PaymentIds /\ StatusSnapshots /\ PaymentLedger
      /\ SuccessIsCaptured
  BY InductiveParts DEF PaymentInductive
<1>3. CASE Next
  BY <1>1, <1>2, <1>3, NextLockHolders, NextPaymentIds, NextStatusSnapshots, NextPaymentLedger,
     NextSuccessIsCaptured DEF PaymentInductive
<1>4. CASE UNCHANGED vars
  <2> USE <1>2, <1>4 DEF vars, dbVars, txVars, epVars, pgVars
  <2>1. LockHolders' /\ StatusSnapshots'
    BY DEF LockHolders, StatusSnapshots, InPhase, At
  <2>2. PaymentIds'
    BY DEF PaymentIds, InPhase, IsPayment
  <2>3. PaymentLedger'
    BY LedgerFrame, LedgerIsOfBookings
  <2>4. SuccessIsCaptured'
    BY DEF SuccessIsCaptured
  <2> QED BY <1>1, <2>1, <2>2, <2>3, <2>4 DEF PaymentInductive
<1> QED
  BY <1>3, <1>4

(* With any number of payments, requests and jobs: what a request or a     *)
(* worker has read is still so or it will be refused its write, and the    *)
(* payment a request is about to record has an id nobody else uses.        *)
THEOREM PaymentInvariance == Spec => []PaymentInductive
BY InitPaymentInductive, NextPaymentInductive, PTL DEF Spec

(* A booking has at most one payment, and the statuses of the two move     *)
(* together, although InitiatePayment, CancelBooking and the refund worker *)
(* check a status in one statement and write over it in a later one, with  *)
(* a call to the gateway or to the queue in between.                       *)
THEOREM PaymentsAgree == Spec => []PaymentLedger
BY PaymentInvariance, PTL DEF PaymentInductive

(* The worker records a refund only over SUCCESS, for a payment that the   *)
(* gateway has captured and whose booking is CONFIRMED at that moment: a   *)
(* report of a failure that comes between its read and its write is not    *)
(* overwritten.  That the gateway has cancelled the payment is not said:   *)
(* the code does not look (see RefundedAtGateway in Claims).               *)
THEOREM RefundsAreOfPaid == Spec => OnlyPaidIsRefunded
<1> DEFINE OfPaid ==
      \A p \in PayIds :
        payments[p].status # "REFUNDED" /\ payments'[p].status = "REFUNDED" =>
          /\ payments[p].status = "SUCCESS" /\ "captured" \in gateway[p]
          /\ bookings[payments[p].booking].status = "CONFIRMED"
<1>1. ASSUME PaymentInductive, [Next]_vars PROVE [OfPaid]_vars
  <2> SUFFICES ASSUME Next, NEW p \in PayIds,
                      payments[p].status # "REFUNDED", payments'[p].status = "REFUNDED"
               PROVE  /\ payments[p].status = "SUCCESS" /\ "captured" \in gateway[p]
                      /\ bookings[payments[p].booking].status = "CONFIRMED"
    BY <1>1
  <2> USE InductiveParts, <1>1 DEF PaymentInductive
  <2>1. PICK j \in Jobs : CallCancelPayment(j)
    <3>1. ASSUME NEW r \in Requests,
                 \/ RecordPayment(r) \/ CommitCancel(r)
                 \/ \E q \in PayIds : NotifyPaymentFailed(r, q) \/ NotifyPaymentCompleted(r, q)
          PROVE  FALSE
      BY <3>1 DEF RecordPayment, CommitCancel, NotifyPaymentFailed, NotifyPaymentCompleted,
         InsertBookingPayment, UpdateBookingPaymentStatus, TypeInv, TablesInv, SqlcTypeOK, Payment
    <3>2. \A u \in Users : ~ CreateBooking(u)
      BY DEF CreateBooking
    <3> QED BY <3>1, <3>2, MoneyWriters
  <2>2. PICK q \in PayIds, b \in Bookings :
          /\ payments[q].booking = b /\ bookings[b].status = "CONFIRMED"
          /\ payments[q].status = "SUCCESS"
          /\ payments' = [payments EXCEPT ![q].status = "REFUNDED"]
    BY <2>1, RefundsCaptured
  <2>3. p = q
    BY <2>2 DEF TypeInv, TablesInv, SqlcTypeOK
  <2> QED BY <2>2, <2>3 DEF SuccessIsCaptured
<1> QED
  BY <1>1, PaymentInvariance, PTL DEF Spec, OnlyPaidIsRefunded
=============================================================================
