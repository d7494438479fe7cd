--------------------------- MODULE EventProvider ----------------------------
(***************************************************************************)
(* The external ticket provider, by the contract its clients in src/ rely  *)
(* on (pkg/eventprovider): an order goes STARTED, SUBMITTED, CONFIRMED or  *)
(* is CANCELLED, which frees its places; places are selected for and       *)
(* released from STARTED orders only.                                      *)
(***************************************************************************)
EXTENDS Environment

VARIABLES
    epOrder, \* the status of each order ("none": the id is not used yet)
    epPlace  \* who has the place of a seat: an order, None, or "foreign"
             \* (an order of another client)

epVars == <<epOrder, epPlace>>

EpTypeOK ==
    /\ epOrder \in [Orders -> {"none", "STARTED", "SUBMITTED", "CONFIRMED", "CANCELLED"}]
    /\ epPlace \in [Seats -> Orders \cup {None, "foreign"}]

EpInit ==
    /\ epOrder = [o \in Orders |-> "none"]
    /\ epPlace = [s \in Seats |-> IF s \in Taken THEN "foreign" ELSE None]

PlacesOf(o) == {s \in Seats : epPlace[s] = o}

UnusedOrders == {o \in Orders : epOrder[o] = "none"}
StartOrder(o) == epOrder' = [epOrder EXCEPT ![o] = "STARTED"] /\ UNCHANGED epPlace

(* What places_count of an order may be: the contract leaves open whether  *)
(* a cancelled order still reports the places it had.                      *)
PlacesCounts(o) == IF epOrder[o] = "CANCELLED" THEN 0..Cardinality(Seats)
                   ELSE {Cardinality(PlacesOf(o))}

(* What GetOrder decodes: the order, or the zero values that the body of   *)
(* an error leaves.                                                        *)
ErrorBody == [places_count |-> 0, status |-> None]
GetOrderAnswers(o) ==
    {[places_count |-> n, status |-> epOrder[o]] : n \in PlacesCounts(o)} \cup {ErrorBody}

SelectPlaceOK(s, o) == epOrder[o] = "STARTED" /\ epPlace[s] = None
SelectPlace(s, o) == epPlace' = [epPlace EXCEPT ![s] = o] /\ UNCHANGED epOrder

ReleasePlaceOK(s) == epPlace[s] \in Orders /\ epOrder[epPlace[s]] = "STARTED"
ReleasePlace(s) == epPlace' = [epPlace EXCEPT ![s] = None] /\ UNCHANGED epOrder

SubmitOrderOK(o) == epOrder[o] = "STARTED" /\ PlacesOf(o) # {}
SubmitOrder(o) == epOrder' = [epOrder EXCEPT ![o] = "SUBMITTED"] /\ UNCHANGED epPlace

ConfirmOrderOK(o) == epOrder[o] = "SUBMITTED"
ConfirmOrder(o) == epOrder' = [epOrder EXCEPT ![o] = "CONFIRMED"] /\ UNCHANGED epPlace

(* Cancelling a cancelled order may succeed or be refused.                 *)
CancelOrderOK(o) == epOrder[o] \in {"STARTED", "SUBMITTED", "CANCELLED"}
CancelOrderRefused(o) == epOrder[o] \in {"CONFIRMED", "CANCELLED"}
CancelOrder(o) ==
    /\ epOrder' = [epOrder EXCEPT ![o] = "CANCELLED"]
    /\ epPlace' = [s \in Seats |-> IF epPlace[s] = o THEN None ELSE epPlace[s]]
=============================================================================
