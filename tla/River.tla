------------------------------- MODULE River --------------------------------
(***************************************************************************)
(* The job queue: River v0.23 on a database of its own, as InitRiverClient *)
(* configures it.  A job is worked by one worker at a time; an attempt     *)
(* that returns an error (or panics: River recovers) is retried after a    *)
(* backoff until MaxAttempts, then the job is discarded.  A job whose      *)
(* worker disappeared in a crash stays "running" until it is rescued.      *)
(* Completed and discarded jobs have no further effect: their slot is      *)
(* free again.                                                             *)
(***************************************************************************)
EXTENDS Environment

CONSTANTS MaxAttempts, \* River's default is 25
          MaxWorkers   \* config.go: 5

ASSUME RiverAssumption == MaxAttempts \in Nat \ {0} /\ MaxWorkers \in Nat \ {0}

VARIABLE jobs

JobKinds == {"booking.release_seats", "booking.select_seats",
             "booking.confirm_order", "booking.cancel", "payment.refund"}

Job == [kind: JobKinds \cup {"none"},
        booking: Bookings \cup {None},
        order: Orders \cup {None},
        expectedPlaces: Nat,
        statusEq: {None, "CREATED"},
        state: {"none", "available", "running"},
        attempt: 0..MaxAttempts]

JobOf(kind, b) ==
    [kind |-> kind, booking |-> b, order |-> None, expectedPlaces |-> 0,
     statusEq |-> None, state |-> "available", attempt |-> 0]

ReleaseSeatsArgs(b, status) ==
    [JobOf("booking.release_seats", b) EXCEPT !.statusEq = status]
SelectSeatsArgs(b) == JobOf("booking.select_seats", b)
ConfirmOrderArgs(b, o, n) ==
    [JobOf("booking.confirm_order", b) EXCEPT !.order = o, !.expectedPlaces = n]
CancelBookingArgs(b) == JobOf("booking.cancel", b)
RefundPaymentArgs(b) == JobOf("payment.refund", b)

NoJob == [JobOf("none", None) EXCEPT !.state = "none"]

RiverTypeOK == jobs \in [Jobs -> Job]
RiverInit == jobs = [j \in Jobs |-> NoJob]

FreeSlots == {j \in Jobs : jobs[j].state = "none"}
Running == {j \in Jobs : jobs[j].state = "running"}

Insert(job) ==
    /\ FreeSlots # {}
    /\ jobs' = [jobs EXCEPT ![CHOOSE j \in FreeSlots : TRUE] = job]

Fetch(j) ==
    /\ jobs[j].state = "available"
    /\ Cardinality(Running) < MaxWorkers
    /\ jobs' = [jobs EXCEPT ![j].state = "running", ![j].attempt = @ + 1]

Complete(j) == jobs' = [jobs EXCEPT ![j] = NoJob]

(* The attempt failed, or was found abandoned: retry, or discard the job.  *)
Retry(j) ==
    jobs' = [jobs EXCEPT ![j] =
               IF @.attempt < MaxAttempts THEN [@ EXCEPT !.state = "available"]
                                          ELSE NoJob]

(* Jobs whose worker inserts another job before it returns.                *)
Parents == {j \in Jobs : jobs[j].kind \in {"booking.select_seats", "booking.cancel"}}
=============================================================================
