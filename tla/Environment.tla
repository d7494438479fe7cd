---------------------------- MODULE Environment ----------------------------
(***************************************************************************)
(* The parameters that every module of the project shares, and the budget  *)
(* of faults: a failing HTTP call, a lost answer, a failing insert into    *)
(* the job database, a cancelled request context or a crash of the server. *)
(***************************************************************************)
EXTENDS Naturals, FiniteSets

CONSTANTS
    Users,        \* callers of the API (rows of the table users)
    Seats,        \* rows of the table seats
    External,     \* the seats whose external_id is not NULL
    Taken,        \* the seats whose place was not free when they were loaded
    Bookings,     \* the ids that rows of the table bookings can get
    PayIds,       \* the order ids given to the payment gateway
    Orders,       \* the ids the event provider gives to orders
    Requests,     \* the HTTP requests that can be in flight at a time
    Jobs,         \* the jobs the queue can hold at a time
    None,         \* "no booking", "no order", "no transaction", ...
    MaxFaults,    \* bound: faults injected in a behaviour
    MaxDeliveries \* bound: callbacks delivered for one payment

ASSUME ParametersAssumption ==
    /\ External \subseteq Seats /\ Taken \subseteq External
    /\ IsFiniteSet(Seats) /\ IsFiniteSet(Jobs)
    /\ None \notin Users \cup Seats \cup Bookings \cup PayIds \cup Orders
                     \cup Requests \cup Jobs
    /\ Requests \cap Jobs = {}
    /\ MaxFaults \in Nat /\ MaxDeliveries \in Nat

VARIABLE faults

FaultsInit == faults = 0

(* One of the faults happens.                                              *)
Fault == faults < MaxFaults /\ faults' = faults + 1
NoFault == UNCHANGED faults
=============================================================================
