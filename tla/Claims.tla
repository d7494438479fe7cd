------------------------------- MODULE Claims -------------------------------
(***************************************************************************)
(* What the README, the API description and the comments of the code say   *)
(* the backend does.  None of these holds of the code: each is checked by  *)
(* a run of its own, which shows how it fails.                             *)
(***************************************************************************)
EXTENDS Alem

(* transport_http.go:243, CancelBooking: "Если CREATED -> Освободить       *)
(* места".  A booking cancelled before any payment gives its seats back.   *)
CancelledGivesSeatsBack ==
    \A b \in Bookings :
      (bookings[b].status = "CANCELLED" /\ PaymentsOfBooking(b) = {})
        ~> GetBookingSeats(b) = {}

(* README.md:146, after a successful payment: "Места переходят в статус    *)
(* SOLD".                                                                  *)
PaidSeatsAreSold ==
    \A p \in PayIds :
      payments[p].status = "SUCCESS"
        ~> \A s \in GetBookingSeats(payments[p].booking) : seatStatus[s] = "SOLD"

(* portriver_eventprovider_confirm.go:123: "Get all seats for this booking *)
(* and update them to SOLD".  When the confirming worker returns nil and   *)
(* the event provider has confirmed the order, every seat of the booking   *)
(* is SOLD.                                                                *)
ConfirmedIsSold ==
    [][\A j \in Jobs :
         /\ jobs[j].kind = "booking.confirm_order"
         /\ work[j].step # "returned" /\ work'[j].step = "returned"
         /\ epOrder'[jobs[j].order] = "CONFIRMED"
         => \A r \in bookingSeats' :
              r.booking = jobs[j].booking => seatStatus'[r.seat] = "SOLD"]_vars

(* portriver_payment_refund.go:95: "Parse cancel response to check if it   *)
(* was successful", before the payment is updated to REFUNDED.  A REFUNDED *)
(* payment has been cancelled at the gateway.                              *)
RefundedAtGateway ==
    \A p \in PayIds : payments[p].status = "REFUNDED" => "cancelled" \in gateway[p]

(* internal/ports/openapi.json:565, payments/fail: "Бронь отменяется и     *)
(* места освобождаются, становясь доступными другим пользователям".        *)
FailedPaymentFreesSeats ==
    \A p \in PayIds :
      payments[p].status = "FAIL" ~> GetBookingSeats(payments[p].booking) = {}
=============================================================================
