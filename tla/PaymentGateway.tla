--------------------------- MODULE PaymentGateway ---------------------------
(***************************************************************************)
(* The external payment gateway, by the use src/ makes of it: a payment is *)
(* initiated under an order id, the customer's attempts to pay are         *)
(* declined or captured, and a captured payment can be cancelled, which    *)
(* refunds it.  The gateway reports through the SuccessURL and the FailURL *)
(* of the payment; a report may be repeated, delayed and overtaken.        *)
(***************************************************************************)
EXTENDS Environment

VARIABLES
    gateway,   \* what has happened to each payment
    deliveries \* reports delivered for each payment

pgVars == <<gateway, deliveries>>

PgTypeOK ==
    /\ gateway \in [PayIds -> SUBSET {"initiated", "declined", "captured", "cancelled"}]
    /\ deliveries \in [PayIds -> 0..MaxDeliveries]

PgInit ==
    /\ gateway = [p \in PayIds |-> {}]
    /\ deliveries = [p \in PayIds |-> 0]

Record(p, event) == gateway' = [gateway EXCEPT ![p] = @ \cup {event}]

(* The ids time.Now().UnixNano() has not returned yet.                     *)
UnusedPayIds == {p \in PayIds : gateway[p] = {}}
InitPayment(p) == Record(p, "initiated") /\ UNCHANGED deliveries

Decline(p) == "captured" \notin gateway[p] /\ Record(p, "declined") /\ UNCHANGED deliveries
Capture(p) == Record(p, "captured") /\ UNCHANGED deliveries

(* A captured payment can be cancelled; the gateway may decline to cancel  *)
(* any payment, with an error status or with success = false in an answer  *)
(* of status 200.                                                          *)
CancelPaymentOK(p) == "captured" \in gateway[p]
CancelPayment(p) == Record(p, "cancelled") /\ UNCHANGED deliveries
DeclineToCancel == UNCHANGED pgVars

(* A report of the event is delivered.                                     *)
Report(p, event) ==
    /\ event \in gateway[p]
    /\ deliveries[p] < MaxDeliveries
    /\ deliveries' = [deliveries EXCEPT ![p] = @ + 1]
    /\ UNCHANGED gateway
=============================================================================
