---------------------------- MODULE BookingStore ----------------------------
(***************************************************************************)
(* The two MySQL tables a booking lives in, and the statements the server  *)
(* runs on them.  Every function of booking.c and detail.c opens its own   *)
(* connection (connect_db), runs one autocommitted statement and closes    *)
(* the connection, so each call is one atomic step on the tables or, when  *)
(* the connection, the statement or a foreign key fails, no step at all.   *)
(*                                                                         *)
(* Left out: booking_time, status and the timestamps of a row (no property *)
(* depends on them), the type column of booking_details (a function of the *)
(* seat code, GetSeatClass of FlightSearch) and its auto-increment key:    *)
(* details is the set of (booking_id, seat_code) pairs the table holds.    *)
(***************************************************************************)
EXTENDS Naturals

CONSTANTS
  User,       \* the rows of table users, by user_id
  Flight,     \* the rows of table flights, by flight_id
  Price,      \* the prices a client may send
  Seat        \* the seat codes of a plane

VARIABLES
  bookings,   \* table bookings: a set of rows
  details,    \* table booking_details: a set of (booking_id, seat_code)
  nextId      \* the AUTO_INCREMENT counter of bookings

storeVars == <<bookings, details, nextId>>

BookingId == Nat \ {0}

BookingRow == [id : BookingId, user : User, price : Price, flight : Flight]

DetailRow(SeatText) == [booking : BookingId, seat : SeatText]

StoreInit ==
  /\ bookings = {}
  /\ details = {}
  /\ nextId = 1

BookingIds == {b.id : b \in bookings}

(***************************************************************************)
(* insert_booking, when the INSERT succeeds.  The foreign keys demand that *)
(* the user and the flight exist.                                          *)
(***************************************************************************)
InsertBooking(user, price, flight) ==
  /\ user \in User
  /\ flight \in Flight
  /\ bookings' = bookings \cup
       {[id |-> nextId, user |-> user, price |-> price, flight |-> flight]}
  /\ nextId' = nextId + 1
  /\ UNCHANGED details

DeleteBookingOnly(id) ==     \* variant: booking_details without ON DELETE CASCADE
  /\ bookings' = {b \in bookings : b.id # id}
  /\ UNCHANGED <<details, nextId>>

\* DELETE FROM bookings WHERE booking_id = id; the rows of booking_details
\* that refer to it go with it (ON DELETE CASCADE).
DeleteBooking(id) ==
  /\ bookings' = {b \in bookings : b.id # id}
  /\ details' = {d \in details : d.booking # id}
  /\ UNCHANGED nextId

\* insert_booking_detail, when the INSERT succeeds: the booking must exist,
\* and nothing says that the seat must be free.
InsertDetail(id, seat) ==
  /\ id \in BookingIds
  /\ details' = details \cup {[booking |-> id, seat |-> seat]}
  /\ UNCHANGED <<bookings, nextId>>

\* A call that fails to connect, or whose statement is refused.
StatementFails == UNCHANGED storeVars

\* The seats the flight page shows as taken (get_seat_codes_by_flight_id).
SeatsOfFlight(flight) ==
  {d.seat : d \in {e \in details :
                     \E b \in bookings : b.id = e.booking /\ b.flight = flight}}

-----------------------------------------------------------------------------

(* No seat of a deleted booking stays behind, and no seat is attached to a *)
(* booking that was never made (db.sql:129).                               *)
DetailsReferToBookings == \A d \in details : d.booking \in BookingIds

=============================================================================
