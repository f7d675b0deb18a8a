----------------------------- MODULE PaidOrders -----------------------------
(***************************************************************************)
(* What the checkout promises to a customer, without screens, globals,     *)
(* flags or pages: an order is a value that does not change once it is     *)
(* placed.  A customer places one order after the other and pays some of   *)
(* them; the shop waits for the payment of the last one only.  An order    *)
(* whose payment it has noted is booked as it was placed, once, or         *)
(* refused; it is not forgotten.  Seats are given to the booking just made *)
(* and are seats of its order, though not always all.                      *)
(***************************************************************************)
EXTENDS BookingStore, Sequences

VARIABLES
  orders,     \* the orders placed, the present one last
  paid,       \* the places of those that are paid
  made,       \* for each order the bookings made for it
  refused,    \* the places of those the service has refused
  stage,      \* what the shop is doing about the last order
  noted       \* it knows that the last order is paid

orderVars == <<orders, paid, made, refused>>
vars == <<storeVars, orderVars, stage, noted>>

Order == [user : User, flight : Flight, seats : (SUBSET Seat) \ {{}}, price : Price]

Present == Len(orders)

Init ==
  /\ StoreInit
  /\ orders = <<>> /\ paid = {} /\ made = <<>> /\ refused = {}
  /\ stage = "open" /\ noted = FALSE

\* The shop waits, or cannot even begin to, and the order is left at that.
Place(order) ==
  /\ stage = "open"
  /\ orders' = Append(orders, order)
  /\ made' = Append(made, {})
  /\ noted' = FALSE
  /\ stage' \in {"open", "waiting"}
  /\ UNCHANGED <<storeVars, paid, refused>>

\* Any order, also one that nobody waits for any more.
Pay(i) ==
  /\ i \notin paid
  /\ paid' = paid \cup {i}
  /\ UNCHANGED <<storeVars, orders, made, refused, stage, noted>>

Note ==
  /\ stage = "waiting"
  /\ Present \in paid
  /\ noted' = TRUE
  /\ UNCHANGED <<storeVars, orderVars, stage>>

\* The wait is over.
GoOn ==
  /\ stage = "waiting"
  /\ stage' = IF noted THEN "booking" ELSE "open"
  /\ UNCHANGED <<storeVars, orderVars, noted>>

Book ==
  /\ stage = "booking"
  /\ made[Present] = {}
  /\ LET order == orders[Present] IN InsertBooking(order.user, order.price, order.flight)
  /\ made' = [made EXCEPT ![Present] = {nextId}]
  /\ stage' = "seating"
  /\ UNCHANGED <<orders, paid, refused, noted>>

Refuse ==
  /\ stage = "booking"
  /\ refused' = refused \cup {Present}
  /\ stage' = "mailing"
  /\ UNCHANGED <<storeVars, orders, paid, made, noted>>

GiveSeats ==
  /\ stage = "seating"
  /\ \E rows \in SUBSET [booking : made[Present], seat : orders[Present].seats] :
       details' = details \cup rows
  /\ stage' = "mailing"
  /\ UNCHANGED <<bookings, nextId, orderVars, noted>>

Mail ==
  /\ stage = "mailing"
  /\ stage' = "open"
  /\ UNCHANGED <<storeVars, orderVars, noted>>

Next ==
  \/ \E order \in Order : Place(order)
  \/ \E i \in DOMAIN orders : Pay(i)
  \/ Note \/ GoOn \/ Book \/ Refuse \/ GiveSeats \/ Mail

Spec == Init /\ [][Next]_vars
=============================================================================
