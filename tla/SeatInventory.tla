--------------------------- MODULE SeatInventory ---------------------------
(***************************************************************************)
(* What the backend promises about seats, whatever tables, transactions,   *)
(* jobs and services it uses for it: a seat is nobody's or in one booking; *)
(* it is taken when it is FREE and nobody's; a booking gives back one seat *)
(* or all it has, and all its seats are sold in one step.  Who has a seat  *)
(* and its status never disagree.                                          *)
(***************************************************************************)
CONSTANTS
    Seats,
    Bookings,
    None \* no booking

VARIABLES
    holder, \* the booking that has a seat, or None
    status  \* its status

SeatsOf(b) == {s \in Seats : holder[s] = b}

Init ==
    /\ holder = [s \in Seats |-> None]
    /\ status = [s \in Seats |-> "FREE"]

Set(f, seats, value) == [s \in Seats |-> IF s \in seats THEN value ELSE f[s]]

Take(b, s) ==
    /\ holder[s] = None /\ status[s] = "FREE"
    /\ holder' = Set(holder, {s}, b)
    /\ status' = Set(status, {s}, "RESERVED")

GiveBack(seats) ==
    /\ holder' = Set(holder, seats, None)
    /\ status' = Set(status, seats, "FREE")

Sell(b) ==
    /\ status' = Set(status, SeatsOf(b), "SOLD")
    /\ UNCHANGED holder

Next ==
    \E b \in Bookings :
      \/ \E s \in Seats : Take(b, s)
      \/ \E s \in SeatsOf(b) : GiveBack({s})
      \/ GiveBack(SeatsOf(b))
      \/ Sell(b)

Spec == Init /\ [][Next]_<<holder, status>>
=============================================================================
