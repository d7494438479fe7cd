-------------------------------- MODULE Sqlc --------------------------------
(***************************************************************************)
(* The tables of the main database and the statements of internal/sqlc.    *)
(* Each statement is an operator: a query returns what it reads, a         *)
(* statement that writes returns the new table.                            *)
(***************************************************************************)
EXTENDS Environment, Sequences

VARIABLES
    bookings,     \* bookings: owner and status ("none": no such row)
    bookingSeats, \* booking_seats: a set of rows
    seatStatus,   \* seats.status
    payments,     \* booking_payments, by order_id; the amount is the set of
                  \* seats it was summed over
    orders        \* booking_orders, in the order of their ids

dbVars == <<bookings, bookingSeats, seatStatus, payments, orders>>

BookingStatus == {"CREATED", "PAYMENT_INITIATED", "CONFIRMED", "CANCELLED"}
SeatStatus == {"FREE", "RESERVED", "SOLD"}
PaymentStatus == {"INIT", "SUCCESS", "FAIL", "REFUNDED"}
OrderStatus == {"STARTED", "SUBMITTED", "CONFIRMED", "CANCELLED"}

Booking == [user: Users \cup {None}, status: BookingStatus \cup {"none"}]
BookingSeat == [user: Users, booking: Bookings, seat: Seats]
Payment == [booking: Bookings \cup {None},
            status: PaymentStatus \cup {"none"},
            amount: SUBSET Seats]
BookingOrder == [booking: Bookings, order: Orders, status: OrderStatus]

SqlcTypeOK ==
    /\ bookings \in [Bookings -> Booking]
    /\ bookingSeats \subseteq BookingSeat
    /\ seatStatus \in [Seats -> SeatStatus]
    /\ payments \in [PayIds -> Payment]
    /\ orders \in Seq(BookingOrder)

(* The tables after a reset: only seats has rows, and a seat whose place   *)
(* was not free at the event provider is RESERVED.                         *)
SqlcInit ==
    /\ bookings = [b \in Bookings |-> [user |-> None, status |-> "none"]]
    /\ bookingSeats = {}
    /\ seatStatus = [s \in Seats |-> IF s \in Taken THEN "RESERVED" ELSE "FREE"]
    /\ payments = [p \in PayIds |->
                     [booking |-> None, status |-> "none", amount |-> {}]]
    /\ orders = << >>

-----------------------------------------------------------------------------
(* bookings                                                                *)

IsBooking(b) == b \in Bookings /\ bookings[b].status # "none"

(* The ids no row has used (AUTOINCREMENT never uses an id twice).         *)
UnusedBookings == {b \in Bookings : bookings[b].status = "none"}

CreateBookingRow(b, u) ==
    [bookings EXCEPT ![b] = [user |-> u, status |-> "CREATED"]]

CancelBookingRow(b, u) ==
    IF /\ bookings[b].user = u
       /\ bookings[b].status \in {"CREATED", "PAYMENT_INITIATED"}
    THEN [bookings EXCEPT ![b].status = "CANCELLED"]
    ELSE bookings

UpdateBookingStatus(b, status) == [bookings EXCEPT ![b].status = status]

-----------------------------------------------------------------------------
(* booking_seats and seats                                                 *)

RowsOfBooking(b) == {r \in bookingSeats : r.booking = b}

GetBookingSeats(b) == {r.seat : r \in RowsOfBooking(b)}

(* The foreign keys, and UNIQUE (seat_id), which covers the primary key.   *)
CanInsertBookingSeat(b, s) ==
    IsBooking(b) /\ \A r \in bookingSeats : r.seat # s

InsertBookingSeat(u, b, s) ==
    bookingSeats \cup {[user |-> u, booking |-> b, seat |-> s]}

RowsOfSeatAndUser(s, u) == {r \in bookingSeats : r.seat = s /\ r.user = u}

DeleteBookingSeat(s, u) == bookingSeats \ RowsOfSeatAndUser(s, u)

DeleteBookingSeats(b) == bookingSeats \ RowsOfBooking(b)

UpdateSeatStatus(s, status) == [seatStatus EXCEPT ![s] = status]

UpdateSeatsStatusByIDs(ids, status) ==
    [s \in Seats |-> IF s \in ids THEN status ELSE seatStatus[s]]

(* Every price is positive, so the total is 0 only when no seat is summed. *)
GetBookingTotal(b) == GetBookingSeats(b)

-----------------------------------------------------------------------------
(* booking_payments                                                        *)

InsertBookingPayment(p, b, amount) ==
    [payments EXCEPT ![p] = [booking |-> b, status |-> "INIT", amount |-> amount]]

UpdateBookingPaymentStatus(p, status) == [payments EXCEPT ![p].status = status]

IsPayment(p) == payments[p].status # "none"

GetBookingByPaymentOrderID(p) == payments[p].booking

PaymentsOfBooking(b) == {p \in PayIds : IsPayment(p) /\ payments[p].booking = b}

-----------------------------------------------------------------------------
(* booking_orders                                                          *)

InsertBookingOrder(b, o, status) ==
    Append(orders, [booking |-> b, order |-> o, status |-> status])

UpdateBookingOrderStatus(b, status) ==
    [i \in DOMAIN orders |->
        IF orders[i].booking = b THEN [orders[i] EXCEPT !.status = status]
                                 ELSE orders[i]]

OrderRowsOfBooking(b) == {i \in DOMAIN orders : orders[i].booking = b}

(* QueryRow scans the first row only: the one with the smallest id.        *)
GetBookingOrder(b) ==
    IF OrderRowsOfBooking(b) = {} THEN None
    ELSE orders[CHOOSE i \in OrderRowsOfBooking(b) :
                   \A k \in OrderRowsOfBooking(b) : i <= k].order
=============================================================================
