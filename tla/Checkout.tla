------------------------------ MODULE Checkout ------------------------------
(***************************************************************************)
(* One client application from the search to the e-mail: frontend list.c,  *)
(* ticket_detail.c, book_seat.c, payment.c, my_account.c and the payment   *)
(* part of global.c, against the tables and the customer's browser.        *)
(*                                                                         *)
(* The program has one GUI thread; a handler that waits for the server     *)
(* blocks it.  The exception is the wait for VNPAY: it runs a nested GTK   *)
(* loop, so every handler of every screen may run in the middle of         *)
(* on_button_press, while a thread of the HTTP daemon sets the two flags   *)
(* the wait looks at.                                                      *)
(*                                                                         *)
(* The server is taken as BookingLedger has it: it serves one request at a *)
(* time, may refuse, and ignores a client that is not logged in, which     *)
(* then waits for an answer for ever.  Searching is module FlightSearch;   *)
(* here the list shows some flight.                                        *)
(***************************************************************************)
EXTENDS BookingStore, Integers, SequencesExt

CONSTANTS
  Class,        \* the classes of the combo box on the home page
  FlightPrice,  \* price of a flight, as GET FLIGHTS sends it
  Capacity,     \* capacity of its airplane
  MaxPages,     \* bound: payment pages ever opened, so also bookings made
  MaxIdle,      \* bound: callbacks g_idle_add holds at a time
  IntMax,       \* the largest int
  None          \* no user, no class, no flight

ASSUME ClassAssumption == Class \subseteq {"First Class", "Business", "Economy"}
ASSUME SeatAssumption  == Seat \subseteq (0..29) \X (0..5)   \* row and column
ASSUME FareAssumption  == FlightPrice \in [Flight -> Nat] /\ Capacity \in [Flight -> Nat]
ASSUME NoneAssumption  == None \notin User \cup Class \cup Flight
ASSUME IntAssumption   == IntMax \in Nat
ASSUME PriceAssumption == 0 \in Price /\ Price \subseteq Nat
ASSUME BoundAssumption == MaxPages \in Nat /\ MaxIdle \in Nat

VARIABLES
  screen,        \* the content of the window
  user_id,       \* global: the user, 0 (None) after a logout
  session,       \* the user the server has for this connection
  class,         \* global: the class chosen on the home page
  detail_flight, \* global: the flight chosen from the list
  ordered,       \* seats known as taken: seats_array, and ordered made from it
  selected,      \* the seats whose flag selected is set
  temp_seats,    \* global: the labels of the seats, in the order of the clicks
  price,         \* global: the sum so far
  final_price,   \* global: the amount of the last payment page
  booking_id,    \* global: the id the server last answered, 0 before
  idle,          \* callbacks g_idle_add holds, oldest first
  timer,         \* g_timeout_add holds safe_switch_to_account_view
  loop,          \* where receive_result_from_vnpay is; "events": nowhere
  stop_server, is_payment_success,   \* the flags of the wait
  pages,         \* external: the payment pages of the browser, in order, each
                 \* with what it asks for and (history) what was to be paid for
                 \* and what it bought
  credit         \* history: the page whose redirect set is_payment_success

selection == <<class, detail_flight, ordered, selected, temp_seats, price>>
payment   == <<final_price, booking_id, loop, stop_server, is_payment_success, pages,
               credit>>
pending == <<idle, timer>>
vars == <<storeVars, screen, user_id, session, selection, pending, payment>>

-----------------------------------------------------------------------------
(* The seat map *)

ROWS == 30

ActualRows(flight) == IF Capacity[flight] \div 10 > ROWS THEN ROWS ELSE Capacity[flight] \div 10

IsRowInClass(row, c) ==
  CASE c = "First Class" -> row = 0
    [] c = "Business"    -> row \in {1, 2}
    [] c = "Economy"     -> row >= 3

\* Twice get_price_multiplier.
Multiplier(c) == CASE c = "First Class" -> 4 [] c = "Business" -> 3 [] c = "Economy" -> 2

SeatPrice(flight, c) == (FlightPrice[flight] * Multiplier(c)) \div 2

AddString(array, s) == IF Contains(array, s) THEN array ELSE Append(array, s)

RemoveStringLast(array, s) ==     \* variant: the last label goes, not the one found
  IF Contains(array, s) THEN Front(array) ELSE array
\* remove_string_from_array: the first string equal to s goes.
RemoveString(array, s) ==
  IF Contains(array, s)
  THEN RemoveAt(array, CHOOSE i \in DOMAIN array :
                         array[i] = s /\ \A j \in 1..(i - 1) : array[j] # s)
  ELSE array

Chosen == ToSet(temp_seats)

-----------------------------------------------------------------------------

Init ==
  /\ StoreInit
  /\ screen = "login" /\ user_id = None /\ session = None
  /\ class = None /\ detail_flight = None
  /\ ordered = {} /\ selected = {} /\ temp_seats = <<>> /\ price = 0
  /\ idle = <<>> /\ timer = FALSE
  /\ final_price = 0 /\ booking_id = 0
  /\ loop = "events" /\ stop_server = FALSE /\ is_payment_success = FALSE
  /\ pages = <<>> /\ credit = 0

\* A click on a screen: the GUI thread is in one of its two event loops.
Click(s) ==
  /\ loop \in {"events", "wait"}
  /\ screen = s

Show(s) == screen' = s

\* A handler that sends a request and waits for the answer.
Answered == session # None
Hangs ==
  /\ session = None
  /\ loop' = "hung"

\* fetch_tickets reads a NULL pointer when a booking of the user has no seat:
\* the server is gone, and with it the connection this program lives on.
ListingFails ==
  \E b \in bookings : b.user = user_id /\ \A d \in details : d.booking # b.id

\* get_list_tickets_ordered, and create_booklist_window when it has a list,
\* whose contents are module MyBookings'.
GetListTickets(next) ==
  IF ListingFails
  THEN loop' = "hung" /\ UNCHANGED screen
  ELSE Show("booklist") /\ loop' = next

-----------------------------------------------------------------------------
(* login.c, my_account.c, component.c *)

OnLoginClicked(u) ==
  /\ Click("login")
  /\ session' = u /\ user_id' = u
  /\ Show("home")
  /\ UNCHANGED <<storeVars, selection, pending, payment>>

Later(callback) ==
  /\ Len(idle) < MaxIdle
  /\ idle' = Append(idle, callback)

OnNavClicked(to) ==
  /\ \/ to = "home" /\ \E s \in {"list", "booklist", "account"} : Click(s)
     \/ to = "account" /\ \E s \in {"list", "booklist"} : Click(s)
  /\ Later(to)
  /\ UNCHANGED <<storeVars, screen, user_id, session, selection, timer,
                 payment>>

\* The home page uses a timeout of 150 ms instead.
OnMyAccountClicked ==
  /\ Click("home")
  /\ timer' = TRUE
  /\ UNCHANGED <<storeVars, screen, user_id, session, selection, idle, payment>>

\* LOGOUT is sent at once and not answered.
OnLogoutClicked ==
  /\ Click("account")
  /\ session' = None
  /\ Later("login")
  /\ UNCHANGED <<storeVars, screen, user_id, selection, timer, payment>>

UserAfterKept(callbacks) == user_id     \* variant: safe_switch_to_login forgets nothing
UserAfter(callbacks) == IF Contains(callbacks, "login") THEN None ELSE user_id

\* safe_switch_to_home, safe_switch_to_account, safe_switch_to_login: one
\* iteration of the main loop runs all the callbacks that wait, in order.
SafeSwitch ==
  /\ loop \in {"events", "wait"}
  /\ idle # <<>>
  /\ idle' = <<>>
  /\ Show(Last(idle))
  /\ user_id' = UserAfter(idle)
  /\ UNCHANGED <<storeVars, session, selection, timer, payment>>

SafeSwitchToAccountView ==
  /\ loop \in {"events", "wait"}
  /\ timer
  /\ timer' = FALSE
  /\ Show("account")
  /\ UNCHANGED <<storeVars, user_id, session, selection, idle, payment>>

ShowListTickets ==
  /\ \E s \in {"home", "list"} : Click(s)
  /\ \/ Answered /\ GetListTickets(loop)
     \/ Hangs /\ UNCHANGED screen
  /\ UNCHANGED <<storeVars, user_id, session, selection, pending, final_price, booking_id,
                 stop_server, is_payment_success, pages, credit>>

-----------------------------------------------------------------------------
(* homepage.c, list.c, ticket_detail.c, book_seat.c *)

OnListLinkClick(c) ==
  /\ Click("home")
  /\ \/ /\ Answered
        /\ class' = c
        /\ Show("list")
        /\ UNCHANGED loop
     \/ Hangs /\ UNCHANGED <<class, screen>>
  /\ UNCHANGED <<storeVars, user_id, session, detail_flight, ordered, selected, temp_seats,
                 price, pending, final_price, booking_id, stop_server,
                 is_payment_success, pages, credit>>

OnDetailLinkClick(flight) ==
  /\ Click("list")
  /\ detail_flight' = flight
  /\ Show("ticket_detail")
  /\ UNCHANGED <<storeVars, user_id, session, class, ordered, selected, temp_seats, price, pending, payment>>

\* GET ORDERED SEATS: a database that fails and a flight without seats get
\* the same answer, NOTHING.
ConfirmFlight ==
  /\ Click("ticket_detail")
  /\ \/ /\ Answered
        /\ ordered' \in {SeatsOfFlight(detail_flight), {}}
        /\ Show("book_seat")
        /\ UNCHANGED loop
     \/ Hangs /\ UNCHANGED <<ordered, screen>>
  /\ UNCHANGED <<storeVars, user_id, session, class, detail_flight, selected, temp_seats,
                 price, pending, final_price, booking_id, stop_server,
                 is_payment_success, pages, credit>>

\* The buttons that only change the screen.
Back ==
  /\ \/ Click("ticket_detail") /\ Show("list")
     \/ Click("book_seat") /\ Show("ticket_detail")
     \/ Click("payment") /\ Show("book_seat")
     \/ Click("book_seat") /\ temp_seats # <<>> /\ Show("payment")
  /\ UNCHANGED <<storeVars, user_id, session, selection, pending, payment>>

\* A click on a seat of the chosen class that is not marked as taken.  Price
\* bounds the sum: a click that takes it beyond, or below 0 (a seat chosen on
\* one flight and taken back on a dearer one), is left out.
ClickSeat(seat) ==
  /\ Click("book_seat")
  /\ seat[1] < ActualRows(detail_flight)
  /\ IsRowInClass(seat[1], class)
  /\ seat \notin ordered
  /\ IF seat \in selected
     THEN /\ selected' = selected \ {seat}
          /\ temp_seats' = RemoveString(temp_seats, seat)
          /\ price' = price - SeatPrice(detail_flight, class)
     ELSE /\ selected' = selected \cup {seat}
          /\ temp_seats' = AddString(temp_seats, seat)
          /\ price' = price + SeatPrice(detail_flight, class)
  /\ price' \in Price
  /\ UNCHANGED <<storeVars, screen, user_id, session, class, detail_flight, ordered, pending, payment>>

-----------------------------------------------------------------------------
(* payment.c, receive_result_from_vnpay *)

FlagsKept == UNCHANGED <<stop_server, is_payment_success, credit>>     \* variant
\* Lines 505 and 506.
ResetFlags == stop_server' = FALSE /\ is_payment_success' = FALSE /\ credit' = 0

\* What the payment page is about.
Order == [user |-> user_id, flight |-> detail_flight, seats |-> Chosen, price |-> price]

\* What the build makes of an int beyond the largest one.
AsInt(n) == ((n + IntMax + 1) % (2 * IntMax + 2)) - IntMax - 1

OpenPageEarly ==     \* variant: before final_price is set
  pages' = Append(pages, [asked |-> AsInt(final_price * 100), order |-> Order, state |-> "open",
                          bought |-> {}, refused |-> FALSE])
\* vnp_Amount is in hundredths.  What VNPAY makes of a negative one is its own.
OpenPage ==
  pages' = Append(pages, [asked |-> AsInt(final_price' * 100), order |-> Order, state |-> "open",
                          bought |-> {}, refused |-> FALSE])

AmountOfLast == IF final_price = 0 THEN price ELSE final_price   \* variant: set only once
Amount == price

\* Pay: the browser opens a page for the amount, the flags are reset and the
\* daemon starts, unless its port is taken, by an earlier wait of this very
\* program for one.
OnButtonPressPay ==
  /\ Click("payment")
  /\ Len(pages) < MaxPages
  /\ final_price' = Amount
  /\ OpenPage
  /\ ResetFlags
  /\ \/ loop = "events" /\ loop' = "wait"
     \/ UNCHANGED loop
  /\ UNCHANGED <<storeVars, screen, user_id, session, selection, pending,
                 booking_id>>

\* External: the customer pays on a page; VNPAY will redirect the browser to
\* the daemon.
PayInBrowser(i) ==
  /\ pages[i].state = "open"
  /\ pages' = [pages EXCEPT ![i].state = "paid"]
  /\ UNCHANGED <<storeVars, screen, user_id, session, selection, pending,
                 final_price, booking_id, loop, stop_server, is_payment_success, credit>>

HandleRequestAnyCode(i, code) ==     \* variant: the code is not compared
  /\ loop \in {"wait", "stopping"}
  /\ IF is_payment_success THEN UNCHANGED <<stop_server, is_payment_success, credit>>
     ELSE stop_server' = TRUE /\ is_payment_success' = TRUE /\ credit' = i
  /\ UNCHANGED <<storeVars, screen, user_id, session, selection, pending,
                 final_price, booking_id, loop>>

\* handle_request and iterate_querystring, in the daemon's thread.  Nothing
\* but vnp_ResponseCode is looked at.
HandleRequest(i, code) ==
  /\ loop \in {"wait", "stopping"}
  /\ IF code # "00" \/ is_payment_success
     THEN UNCHANGED <<stop_server, is_payment_success, credit>>
     ELSE stop_server' = TRUE /\ is_payment_success' = TRUE /\ credit' = i
  /\ UNCHANGED <<storeVars, screen, user_id, session, selection, pending,
                 final_price, booking_id, loop>>

\* VNPAY sends the browser back: paid, or not, and then the customer may
\* try again.
Redirect(i) ==
  \/ /\ pages[i].state = "paid"
     /\ HandleRequest(i, "00")
     /\ pages' = [pages EXCEPT ![i].state = "told"]
  \/ /\ pages[i].state = "open"
     /\ HandleRequest(i, "24")
     /\ UNCHANGED pages

\* The customer reloads the page of an earlier redirect.
Reload(i) ==
  /\ pages[i].state = "told"
  /\ HandleRequest(i, "00")
  /\ UNCHANGED pages

\* The wait ends: the flag is seen, or 15 minutes are over.
LeaveWait ==
  /\ loop = "wait"
  /\ loop' = "stopping"
  /\ UNCHANGED <<storeVars, screen, user_id, session, selection, pending,
                 final_price, booking_id, stop_server, is_payment_success, pages, credit>>

DaemonStoppedReset ==     \* variant: the flags are reset behind the wait, not before it
  /\ loop = "stopping"
  /\ stop_server' = FALSE /\ is_payment_success' = FALSE
  /\ loop' = IF is_payment_success' THEN "create" ELSE "events"
  /\ UNCHANGED <<storeVars, screen, user_id, session, selection, pending,
                 final_price, booking_id, pages, credit>>

\* MHD_stop_daemon has returned: a redirect that came in before that counts.
DaemonStopped ==
  /\ loop = "stopping"
  /\ loop' = IF is_payment_success THEN "create" ELSE "events"
  /\ UNCHANGED <<storeVars, screen, user_id, session, selection, pending,
                 final_price, booking_id, stop_server, is_payment_success, pages, credit>>

AnsweredIdUnread == booking_id     \* variant: the id is scanned from the wrong place
\* "SUCCESS BOOKING_ID: %d", as scanned.
AnsweredId == nextId

\* CREATE NEW BOOKING, and its answer.  Refused or not, the e-mail follows.
CreateNewBooking ==
  /\ loop = "create"
  /\ \/ /\ Answered
        /\ InsertBooking(user_id, final_price, detail_flight)
        /\ booking_id' = AnsweredId
        /\ pages' = [pages EXCEPT ![credit].bought = @ \cup {nextId}]
        /\ loop' = "detail"
     \/ /\ Answered
        /\ StatementFails
        /\ pages' = [pages EXCEPT ![credit].refused = TRUE]
        /\ loop' = "mail"
        /\ UNCHANGED booking_id
     \/ /\ Hangs
        /\ UNCHANGED <<storeVars, booking_id, pages>>
  /\ UNCHANGED <<screen, user_id, session, selection, pending, final_price,
                 stop_server, is_payment_success, credit>>

\* CREATE DETAIL BOOKING: any of the rows may fail to go in, and a request
\* that names no seat is not even parsed.
CreateDetailBooking ==
  /\ loop = "detail"
  /\ \E s \in SUBSET Chosen :
       details' = details \cup {[booking |-> booking_id, seat |-> x] : x \in s}
  /\ loop' = "mail"
  /\ UNCHANGED <<bookings, nextId, screen, user_id, session, selection,
                 pending, final_price, booking_id, stop_server, is_payment_success, pages,
                 credit>>

\* What the e-mail and its ticket say, from the globals as they are now.
Mail == [booking |-> booking_id, flight |-> detail_flight, seats |-> Chosen, price |-> final_price]

\* send_email, of Mail (it may fail, to no effect), and then the list of bookings.
SendEmail ==
  /\ loop = "mail"
  /\ GetListTickets("events")
  /\ UNCHANGED <<storeVars, user_id, session, selection, pending, final_price, booking_id,
                 stop_server, is_payment_success, pages, credit>>

-----------------------------------------------------------------------------

Gui ==
  \/ \E u \in User : OnLoginClicked(u)
  \/ \E to \in {"home", "account"} : OnNavClicked(to)
  \/ OnMyAccountClicked \/ OnLogoutClicked \/ SafeSwitch \/ SafeSwitchToAccountView
  \/ ShowListTickets
  \/ \E c \in Class : OnListLinkClick(c)
  \/ \E f \in Flight : OnDetailLinkClick(f)
  \/ ConfirmFlight \/ Back
  \/ \E s \in Seat : ClickSeat(s)
  \/ OnButtonPressPay

Wait == LeaveWait \/ DaemonStopped
Purchase == CreateNewBooking \/ CreateDetailBooking \/ SendEmail
Browser(i) == PayInBrowser(i) \/ Redirect(i) \/ Reload(i)

Next == Gui \/ Wait \/ Purchase \/ \E i \in DOMAIN pages : Browser(i)
Spec == Init /\ [][Next]_vars

\* A customer who touches nothing while the program waits, and whose browser
\* tells of the page just opened only, and once.  The wait is bounded by the
\* clock (RUNTIME_SECONDS) and nothing between the requests of a purchase
\* blocks but the server, which answers: that is the fairness.
PatientNext ==
  \/ loop = "events" /\ Gui
  \/ Wait \/ Purchase
  \/ \E i \in DOMAIN pages : PayInBrowser(i) \/ (i = Len(pages) /\ Redirect(i))
PatientSpec == Init /\ [][PatientNext]_vars /\ WF_vars(Wait) /\ WF_vars(Purchase)

-----------------------------------------------------------------------------
(* Properties *)

Page == [asked : Int,
         order : [user : User \cup {None}, flight : Flight, seats : SUBSET Seat,
                  price : Price],
         state : {"open", "paid", "told"},
         bought : SUBSET BookingId,
         refused : BOOLEAN]

TypeOK ==
  /\ bookings \subseteq BookingRow
  /\ details \subseteq DetailRow(Seat)
  /\ nextId \in BookingId
  /\ screen \in {"login", "home", "account", "booklist", "list", "ticket_detail",
                 "book_seat", "payment"}
  /\ user_id \in User \cup {None} /\ session \in User \cup {None}
  /\ class \in Class \cup {None} /\ detail_flight \in Flight \cup {None}
  /\ screen \in {"list", "ticket_detail", "book_seat", "payment"} => class # None
  /\ screen \in {"ticket_detail", "book_seat", "payment"} => detail_flight # None
  /\ ordered \subseteq Seat /\ selected \subseteq Seat /\ temp_seats \in Seq(Seat)
  /\ price \in Price /\ final_price \in Price
  /\ booking_id \in Nat
  /\ idle \in Seq({"home", "account", "login"}) /\ timer \in BOOLEAN
  /\ loop \in {"events", "wait", "stopping", "create", "detail", "mail", "hung"}
  /\ stop_server \in BOOLEAN /\ is_payment_success \in BOOLEAN
  /\ pages \in Seq(Page)
  /\ credit \in 0..Len(pages)

(* The list of labels that is priced, sent and mailed names each seat that *)
(* is drawn as selected exactly once, in whatever order seats are clicked, *)
(* on however many flights (book_seat.c:329-341, global.c:212-234).        *)
SelectionAgrees ==
  /\ Chosen = selected
  /\ Len(temp_seats) = Cardinality(selected)

(* The program and the server agree on who is logged in, except while the  *)
(* callback of a logout waits (my_account.c:34-56).                        *)
SessionAgrees == user_id = session \/ Contains(idle, "login")

(* A booking is made only for a page the customer has paid, whatever the   *)
(* customer clicks during the wait and whenever a redirect arrives         *)
(* (global.c:464-477, 505-534).                                            *)
BookedOnPayment == \A i \in DOMAIN pages : pages[i].bought # {} => pages[i].state = "told"

(* No seat of a flight is sold to two bookings: a seat marked as taken     *)
(* cannot be chosen (book_seat.c:327).                                     *)
SeatSoldOnce ==
  \A d, e \in details : \A b, c \in bookings :
    (d.booking = b.id /\ e.booking = c.id /\ d.seat = e.seat /\ b.flight = c.flight)
      => b = c

(* What is booked is what was paid for: user, flight and amount of the     *)
(* page, and no seat that is not on it (global.c:536-549).                 *)
BookedAsPaid ==
  \A i \in DOMAIN pages : \A b \in bookings : b.id \in pages[i].bought =>
    /\ b.user = pages[i].order.user
    /\ b.flight = pages[i].order.flight
    /\ b.price = pages[i].order.price
    /\ \A d \in details : d.booking = b.id => d.seat \in pages[i].order.seats

(* And it is paid in full: the page asked for the price of the booking, as  *)
(* long as a hundred times the price is an int (global.c:425, 537,          *)
(* payment.c:297).                                                          *)
PaidInFull ==
  \A i \in DOMAIN pages : \A b \in bookings :
    b.id \in pages[i].bought /\ b.price * 100 <= IntMax => pages[i].asked = b.price * 100

(* Unless the server refused the booking, the e-mail that says it is        *)
(* confirmed names the booking just paid for, by the id the server gave it, *)
(* with the flight, the seats and the amount of the page, although it is    *)
(* written from globals after two more requests (email.c:233-325,           *)
(* global.c:537-555).                                                       *)
MailIsTrue ==
  [][loop = "mail" /\ loop' # "mail" /\ ~pages[credit].refused =>
       LET order == pages[credit].order IN
       /\ Mail.booking \in pages[credit].bought
       /\ Mail.flight = order.flight /\ Mail.seats = order.seats /\ Mail.price = order.price]_vars

(* A payment buys one booking, and nothing is booked twice or unpaid       *)
(* (global.c:533).                                                         *)
PaymentBuysOneBooking ==
  /\ \A i \in DOMAIN pages : Cardinality(pages[i].bought) <= 1
  /\ BookedOnPayment

(* A payment the program has noted is booked, or the server refuses it:    *)
(* also when the redirect arrives as the time runs out (global.c:518-534). *)
Resolved(i) == i \in DOMAIN pages /\ (pages[i].bought # {} \/ pages[i].refused)
NotedPaymentIsBooked == \A i \in 1..MaxPages : credit = i ~> Resolved(i)

-----------------------------------------------------------------------------
(* The sale this program is meant to be.  A page is an order, and what the  *)
(* GUI thread does is about the last one.                                   *)

Promise == INSTANCE PaidOrders WITH
  orders  <- [i \in DOMAIN pages |-> pages[i].order],
  paid    <- {i \in DOMAIN pages : pages[i].state # "open"},
  made    <- [i \in DOMAIN pages |-> pages[i].bought],
  refused <- {i \in DOMAIN pages : pages[i].refused},
  stage   <- CASE loop \in {"events", "hung"}   -> "open"
               [] loop \in {"wait", "stopping"} -> "waiting"
               [] loop = "create"               -> "booking"
               [] loop = "detail"               -> "seating"
               [] loop = "mail"                 -> "mailing",
  noted   <- is_payment_success

(* To a customer who touches nothing while it waits, the program keeps the  *)
(* promise of PaidOrders although it reads every part of an order from a    *)
(* global when it needs it: an order has a user and seats, is booked as it  *)
(* was placed, once, and is not forgotten when its payment is noted         *)
(* (receive_result_from_vnpay, global.c:501-563).                           *)
PaidOrdersSpec == Promise!Spec
=============================================================================
