-------------------------- MODULE InventoryProofs ---------------------------
(***************************************************************************)
(* Alem implements SeatInventory: under the mapping of Alem every step of  *)
(* the handlers and the workers is a step of the inventory or leaves it    *)
(* alone.  That needs the whole of Inductive: a seat has one row, so that  *)
(* its holder is determined; the releasing worker frees the seats its      *)
(* booking has now.                                                        *)
(***************************************************************************)
EXTENDS SeatProofs

HolderBar == [s \in ForSale |-> HolderOf(s)]
StatusBar == [s \in ForSale |-> seatStatus[s]]

-----------------------------------------------------------------------------
(* The mapping.                                                            *)

(* The holder is the booking of the only row there is for a seat.          *)
RowsHold ==
    /\ \A r \in bookingSeats : HolderOf(r.seat) = r.booking
    /\ \A s : ~ Held(s) => HolderOf(s) = None

LEMMA HolderHasRow == TypeInv /\ SeatLedger => RowsHold
<1> SUFFICES ASSUME TypeInv, SeatLedger PROVE RowsHold
  OBVIOUS
<1>1. \A r \in bookingSeats : HolderOf(r.seat) = r.booking
  <2> SUFFICES ASSUME NEW r \in bookingSeats PROVE HolderOf(r.seat) = r.booking
    OBVIOUS
  <2>1. Held(r.seat)
    BY DEF Held
  <2>2. (CHOOSE q \in bookingSeats : q.seat = r.seat) = r
    BY DEF SeatLedger
  <2> QED BY <2>1, <2>2 DEF HolderOf
<1>2. \A s : ~ Held(s) => HolderOf(s) = None
  BY DEF HolderOf
<1> QED
  BY <1>1, <1>2 DEF RowsHold

LEMMA HolderHasRowNext == TypeInv' /\ SeatLedger' => RowsHold'
BY HolderHasRow, PTL

LEMMA SeatsOfBooking ==
    ASSUME TypeInv, SeatLedger, NEW b \in Bookings
    PROVE  Inventory!SeatsOf(b) = GetBookingSeats(b) \cap ForSale
<1>1. \A r \in bookingSeats : r.seat \in Seats
  BY DEF TypeInv, TablesInv, SqlcTypeOK, BookingSeat
<1>2. \A s \in Seats : HolderOf(s) = b <=> s \in GetBookingSeats(b)
  BY HolderHasRow, ParametersAssumption DEF RowsHold, Held, GetBookingSeats, RowsOfBooking
<1>3. GetBookingSeats(b) \subseteq Seats
  BY <1>1 DEF GetBookingSeats, RowsOfBooking
<1> QED
  BY <1>2, <1>3 DEF Inventory!SeatsOf, ForSale

-----------------------------------------------------------------------------
(* The four writers.                                                       *)

LEMMA SelectSeatTakes ==
    ASSUME TypeInv, SeatLedger, SeatLedger', NEW u \in Users, NEW b \in Bookings,
           NEW s \in Seats, SelectSeat(u, b, s), TypeInv'
    PROVE  \/ s \in ForSale /\ Inventory!Take(b, s)
           \/ UNCHANGED <<HolderBar, StatusBar>>
<1> DEFINE row == [user |-> u, booking |-> b, seat |-> s]
<1>1. bookingSeats' = bookingSeats \cup {row} /\ row.seat = s /\ row.booking = b
  BY DEF SelectSeat, InsertBookingSeat
<1>2. HolderOf(s) = None
  BY HolderHasRow DEF RowsHold, SelectSeat, CanInsertBookingSeat, Held
<1> HIDE DEF row
<1>3. HolderOf(s)' = b
  BY <1>1, HolderHasRowNext DEF RowsHold
<1>4. \A t \in Seats \ {s} : HolderOf(t)' = HolderOf(t)
  <2> SUFFICES ASSUME NEW t \in Seats, t # s PROVE HolderOf(t)' = HolderOf(t)
    OBVIOUS
  <2>1. CASE Held(t)
    <3>1. PICK r \in bookingSeats : r.seat = t
      BY <2>1 DEF Held
    <3>2. HolderOf(t) = r.booking
      BY <3>1, HolderHasRow DEF RowsHold
    <3>3. r \in bookingSeats'
      BY <1>1
    <3>4. HolderOf(t)' = r.booking
      BY <3>1, <3>3, HolderHasRowNext DEF RowsHold
    <3> QED BY <3>2, <3>4
  <2>2. CASE ~ Held(t)
    <3>1. ~ Held(t)'
      BY <1>1, <2>2 DEF Held
    <3> QED BY <2>2, <3>1, HolderHasRow, HolderHasRowNext DEF RowsHold
  <2> QED BY <2>1, <2>2
<1>5. HolderBar' = [t \in ForSale |-> IF t \in {s} THEN b ELSE HolderBar[t]]
  BY <1>3, <1>4 DEF HolderBar, ForSale
<1>6. StatusBar' = [t \in ForSale |-> IF t \in {s} THEN "RESERVED" ELSE StatusBar[t]]
  BY DEF SelectSeat, UpdateSeatStatus, TypeInv, TablesInv, SqlcTypeOK, ForSale, StatusBar
<1>7. CASE s \in ForSale
  <2>1. seatStatus[s] = "FREE"
    BY <1>7 DEF SeatLedger, SelectSeat, CanInsertBookingSeat, Held, ForSale
  <2> QED BY <1>2, <1>5, <1>6, <1>7, <2>1 DEF Inventory!Take, Inventory!Set, HolderBar, StatusBar
<1>8. CASE s \notin ForSale
  BY <1>5, <1>6, <1>8 DEF HolderBar, StatusBar
<1> QED
  BY <1>7, <1>8

(* Rows go, and the seats they were for are freed: what is left of the     *)
(* others is as it was.                                                    *)
LEMMA RowsGoBack ==
    ASSUME TypeInv, SeatLedger, TypeInv', SeatLedger', NEW gone,
           bookingSeats' = bookingSeats \ gone, gone \subseteq bookingSeats,
           seatStatus' = UpdateSeatsStatusByIDs({r.seat : r \in gone}, "FREE")
    PROVE  Inventory!GiveBack({r.seat : r \in gone} \cap ForSale)
<1> DEFINE seats == {r.seat : r \in gone}
<1>1. \A t \in seats : HolderOf(t)' = None
  <2> SUFFICES ASSUME NEW r \in gone PROVE HolderOf(r.seat)' = None
    OBVIOUS
  <2>1. ~ Held(r.seat)'
    BY DEF Held, SeatLedger
  <2> QED BY <2>1, HolderHasRowNext DEF RowsHold
<1>2. \A t \in Seats \ seats : HolderOf(t)' = HolderOf(t)
  <2> SUFFICES ASSUME NEW t \in Seats, t \notin seats PROVE HolderOf(t)' = HolderOf(t)
    OBVIOUS
  <2>1. CASE Held(t)
    <3>1. PICK r \in bookingSeats : r.seat = t
      BY <2>1 DEF Held
    <3>2. r \in bookingSeats'
      BY <3>1
    <3> QED BY <3>1, <3>2, HolderHasRow, HolderHasRowNext DEF RowsHold
  <2>2. CASE ~ Held(t)
    <3>1. ~ Held(t)'
      BY <2>2 DEF Held
    <3> QED BY <2>2, <3>1, HolderHasRow, HolderHasRowNext DEF RowsHold
  <2> QED BY <2>1, <2>2
<1> HIDE DEF seats
<1>3. HolderBar' = [t \in ForSale |-> IF t \in seats \cap ForSale THEN None ELSE HolderBar[t]]
  BY <1>1, <1>2 DEF HolderBar, ForSale
<1>4. StatusBar' = [t \in ForSale |-> IF t \in seats \cap ForSale THEN "FREE" ELSE StatusBar[t]]
  BY DEF UpdateSeatsStatusByIDs, seats, StatusBar, ForSale
<1>5. Inventory!GiveBack(seats \cap ForSale)
  BY <1>3, <1>4 DEF Inventory!GiveBack, Inventory!Set, HolderBar, StatusBar
<1> QED
  BY <1>5 DEF seats

LEMMA ReleaseSeatGivesBack ==
    ASSUME TypeInv, SeatLedger, TypeInv', SeatLedger', NEW u \in Users, NEW s \in Seats,
           ReleaseSeat(u, s)
    PROVE  \/ \E b \in Bookings : s \in Inventory!SeatsOf(b) /\ Inventory!GiveBack({s})
           \/ s \notin ForSale /\ Inventory!GiveBack({})
<1>1. PICK r \in bookingSeats : r.seat = s /\ r.user = u
  BY DEF ReleaseSeat, RowsOfSeatAndUser
<1>2. r.booking \in Bookings /\ s \in GetBookingSeats(r.booking)
  BY <1>1 DEF TypeInv, TablesInv, SqlcTypeOK, BookingSeat, GetBookingSeats, RowsOfBooking
<1>3. {q.seat : q \in RowsOfSeatAndUser(s, u)} = {s}
  BY <1>1 DEF RowsOfSeatAndUser
<1>4. /\ bookingSeats' = bookingSeats \ RowsOfSeatAndUser(s, u)
      /\ RowsOfSeatAndUser(s, u) \subseteq bookingSeats
  BY DEF ReleaseSeat, DeleteBookingSeat, RowsOfSeatAndUser
<1>5. seatStatus' = UpdateSeatsStatusByIDs({s}, "FREE")
  BY DEF ReleaseSeat, UpdateSeatStatus, UpdateSeatsStatusByIDs, TypeInv, TablesInv, SqlcTypeOK
<1>6. Inventory!GiveBack({s} \cap ForSale)
  BY <1>3, <1>4, <1>5, RowsGoBack
<1>7. CASE s \in ForSale
  <2>1. {s} \cap ForSale = {s} /\ s \in Inventory!SeatsOf(r.booking)
    BY <1>2, <1>7, SeatsOfBooking
  <2> QED BY <1>2, <1>6, <2>1
<1>8. CASE s \notin ForSale
  <2>1. {s} \cap ForSale = {}
    BY <1>8
  <2> QED BY <1>6, <1>8, <2>1
<1> QED
  BY <1>7, <1>8

LEMMA ReleaseSeatsGivesBack ==
    ASSUME TypeInv, SeatLedger, LockDiscipline, SnapshotsCurrent, TypeInv', SeatLedger',
           NEW j \in Jobs, ReleaseSeats(j)
    PROVE  \E b \in Bookings : Inventory!GiveBack(Inventory!SeatsOf(b))
<1>1. PICK b \in Bookings : b = BookingOf(j)
  BY DEF ReleaseSeats, At, BookingOf, TypeInv, QueueInv, QueueOK, JobReferences
<1>2. seatStatus' = UpdateSeatsStatusByIDs(GetBookingSeats(b), "FREE")
  BY <1>1, ReleaseReadsCurrent DEF ReleaseSeats
<1>3. PICK gone : gone = RowsOfBooking(b)
  OBVIOUS
<1>4. PICK back : back = {r.seat : r \in gone}
  OBVIOUS
<1>5. back = GetBookingSeats(b)
  BY <1>3, <1>4 DEF GetBookingSeats
<1>6. bookingSeats' = bookingSeats \ gone /\ gone \subseteq bookingSeats
  BY <1>1, <1>3 DEF ReleaseSeats, DeleteBookingSeats, RowsOfBooking
<1>7. seatStatus' = UpdateSeatsStatusByIDs({r.seat : r \in gone}, "FREE")
  BY <1>2, <1>4, <1>5
<1>8. Inventory!GiveBack({r.seat : r \in gone} \cap ForSale)
  BY <1>6, <1>7, RowsGoBack
<1>9. {r.seat : r \in gone} \cap ForSale = Inventory!SeatsOf(b)
  BY <1>4, <1>5, SeatsOfBooking
<1> QED
  BY <1>8, <1>9 DEF Inventory!GiveBack, Inventory!Set

(* Giving back nothing changes nothing.                                    *)
LEMMA NothingGoesBack == Inventory!GiveBack({}) => UNCHANGED <<HolderBar, StatusBar>>
BY DEF Inventory!GiveBack, Inventory!Set, HolderBar, StatusBar

LEMMA UnchangedHolders == UNCHANGED bookingSeats => UNCHANGED HolderBar
BY DEF HolderBar, HolderOf, Held

LEMMA UnchangedStatus == UNCHANGED seatStatus => UNCHANGED StatusBar
BY DEF StatusBar

LEMMA ConfirmSells ==
    ASSUME TypeInv, SeatLedger, NEW j \in Jobs, CallConfirmOrder(j)
    PROVE  \/ UNCHANGED <<HolderBar, StatusBar>>
           \/ \E b \in Bookings : Inventory!Sell(b)
<1>1. PICK b \in Bookings : b = BookingOf(j)
  BY DEF CallConfirmOrder, At, BookingOf, TypeInv, QueueInv, QueueOK, JobReferences
<1>2. UNCHANGED HolderBar
  BY UnchangedHolders DEF CallConfirmOrder
<1>3. CASE UNCHANGED seatStatus
  BY <1>2, <1>3, UnchangedStatus
<1>4. CASE seatStatus' = UpdateSeatsStatusByIDs(GetBookingSeats(b), "SOLD")
  <2>1. \A s \in ForSale : s \in Inventory!SeatsOf(b) <=> s \in GetBookingSeats(b)
    BY SeatsOfBooking
  <2>2. StatusBar' =
          [s \in ForSale |-> IF s \in Inventory!SeatsOf(b) THEN "SOLD" ELSE StatusBar[s]]
    BY <1>4, <2>1 DEF UpdateSeatsStatusByIDs, StatusBar, ForSale
  <2>3. Inventory!Sell(b)
    BY <1>2, <2>2 DEF Inventory!Sell, Inventory!Set, HolderBar, StatusBar
  <2> QED BY <2>3
<1> QED
  BY <1>1, <1>3, <1>4 DEF CallConfirmOrder

-----------------------------------------------------------------------------
LEMMA StepOfInventory ==
    ASSUME Inductive, Inductive', [Next]_vars
    PROVE  [Inventory!Next]_<<HolderBar, StatusBar>>
<1> USE DEF Inventory!Next
<1>types. /\ TypeInv /\ LockDiscipline /\ SnapshotsCurrent /\ SeatLedger
          /\ TypeInv' /\ SeatLedger'
  BY DEF Inductive, TypeInv, TablesInv, RequestsInv, QueueInv, TypeOK, References
<1>1. CASE \E u \in Users, b \in Bookings, s \in Seats : SelectSeat(u, b, s)
  BY <1>1, <1>types, SelectSeatTakes
<1>2. CASE \E u \in Users, s \in Seats : ReleaseSeat(u, s)
  BY <1>2, <1>types, ReleaseSeatGivesBack, NothingGoesBack
<1>3. CASE \E j \in Jobs : ReleaseSeats(j)
  BY <1>3, <1>types, ReleaseSeatsGivesBack
<1>4. CASE \E j \in Jobs : CallConfirmOrder(j)
  BY <1>4, <1>types, ConfirmSells
<1>5. CASE UNCHANGED <<bookingSeats, seatStatus>>
  BY <1>5, UnchangedHolders, UnchangedStatus
<1>6. CASE UNCHANGED vars
  BY <1>6, UnchangedHolders, UnchangedStatus DEF vars, dbVars
<1> QED
  BY <1>1, <1>2, <1>3, <1>4, <1>5, <1>6, SeatWriters

(* Of the seats that are for sale, no step of the backend takes one that   *)
(* is not FREE, gives one from one booking to another, sells a part of a   *)
(* booking or gives back more or less than it has: the handlers, the       *)
(* workers with their old reads, retries and crashes do to booking_seats   *)
(* and seats.status what the inventory allows.                             *)
THEOREM InventoryIsImplemented == Spec => SeatsAreInventory
<1>1. Init => Inventory!Init
  BY DEF Init, SqlcInit, Inventory!Init, HolderOf, Held, ForSale
<1>2. Inductive /\ Inductive' /\ [Next]_vars => [Inventory!Next]_<<HolderBar, StatusBar>>
  BY StepOfInventory
<1>3. Inductive /\ Inductive' /\ [Next]_vars =>
        [Inventory!Next]_<<[s \in ForSale |-> HolderOf(s)], [s \in ForSale |-> seatStatus[s]]>>
  BY <1>2 DEF HolderBar, StatusBar
<1> QED
  BY <1>1, <1>3, Invariance, PTL DEF Spec, SeatsAreInventory, Inventory!Spec
=============================================================================
