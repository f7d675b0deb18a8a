# Verification of the airline booking system

TLA+ models of the flight booking program in `src/` (a threaded C server on
MySQL and a GTK client that pays through VNPAY), the TLC runs that check them
and the TLAPS proofs about them. Paths and line numbers are those of `src/`.

## 1. The system and its parts

| part | state | operations | interacts with |
|---|---|---|---|
| **Tables** `backend/sql/db.sql`, `booking/booking.c`, `bookingDetail/detail.c`, `flight/flight.c`, `ticket/ticket.c` | rows of `bookings`, `booking_details`, `users`, `flights` | one autocommitted statement per function, each on a connection of its own that may fail | called by the server's threads |
| **Server** `backend/server.c` | per thread: `is_logged_in`, `user_id`, `buffer`; **shared, unlocked**: `token`, `booking_id`, `flight_id`, `total_price`, `seat_list`, `tickets`, `count_ticket`, …, and `strtok`'s position | accept, REGISTER, LOGIN, LOGOUT, GET FLIGHTS / ORDERED SEATS / LIST TICKETS / ANNOUNCES, CREATE NEW / DETAIL BOOKING, DELETE BOOKING | one thread per connection, text messages over TCP |
| **Accounts** `backend/auth`, `backend/user`, `frontend/register`, `frontend/auth` | table `users`, a shared array of all of them | check e-mail, register, log in | server, tables |
| **Client: search** `homepage.c`, `list.c`, filters of `global.c` | `flights`, `tem_flights`, class, date | search, filter, sort, choose | server |
| **Client: checkout** `ticket_detail.c`, `book_seat.c`, `payment.c`, `global.c`, `email.c` | `detail_flight`, `class`, `temp_seats`, `price`, `final_price`, `booking_id`, the flags of the wait | choose seats, pay, wait, book, mail | server, browser, an HTTP daemon thread |
| **Client: my bookings** `booklist.c`, `component.c` | `list_tickets`, `ticket_count`, the cards on screen | show, notifications, cancel | server |
| **Announcements** `backend/announce`, `component.c` | `list_announces` | fetch, filter by booked flights | server |

What is hard about it: threads that parse into shared globals; a tokenizer with
one static position; answers read back from globals; failing statements whose
result is ignored; processes and connections that die between two requests of
one purchase; a client whose payment wait runs a *nested* event loop, so that
every screen can act in the middle of a purchase; redirects of a browser that
arrive late, twice or for an older page; pointers into an array that is
refetched under them. `PROJECT.json` lists each hazard at its line.

What correctness means, per part:

- *Tables*: seats belong to existing bookings; no seat is sold twice.
- *Server*: each request has the effect it names, for its own connection and user,
  and answers with it, whatever other connections do.
- *Checkout*: the selection shown, priced, sent and booked is one selection; what
  is paid is booked, once, as it was when it was paid.
- *My bookings*: the screen shows the user's bookings and Cancel cancels the one
  on the card.
- *Search*: a flight is listed exactly if it fits; *Accounts*: one user per e-mail.

## 2. Modules

`BookingStore` — the two tables and the statements on them; `BookingServer`, `BookingLedger`, `Checkout`, `PaidOrders` and `MyBookings` EXTEND it, the other modules stand alone.

`BookingServer` (EXTENDS `BookingStore`) — the server's threads for the requests
that change tables or sessions. An action is one step between two accesses to
shared state: `sscanf` into a global, the evaluation of a call's arguments, one
SQL statement, one `strtok`. `pc[t]` names the place in `handle_client`; the
variables carry the C names. `seat_list` is kept byte by byte (`Size` of them), and a
seat is the row of bytes of its code: codes are `"%d%c"` (book_seat.c:246) and have
different widths. `strtok` is what the C library does to those bytes (`TokenFrom`,
`NoTokenFrom`, `CutAt`), and `WriteSeatList` overwrites the beginning of the array and
leaves the rest. So a pointer or a position of one thread may, after another thread's
`sscanf`, be at its NUL, at its comma or in the middle of its code, and the text that
goes into the query (`TextsRead`) may be empty, a piece of a code, several codes
(`Junk` for all of these) or another seat. A process crash (`Killed`, or
a NULL token in LOGIN) clears threads and globals and keeps the tables;
`Disconnect` covers closed connections, with the thread that parses its last
message for ever when it was not logged in. A LOGIN of the application is padded to
4096 bytes, of which the server reads 1024 at a time: `ReadPadding` is the zeros that
replace a refused LOGIN in `buffer`, after which a disconnect leaves a spinning thread;
it crashes the server only when the padding has not come.

`BookingLedger` (EXTENDS `BookingStore`) — what the service promises, without
threads or parsing: a client is signed in as somebody, has one order under way,
is told its outcome. Orders may be refused and clients forgotten; a booking is
made for an order only, and seats are attached to the booking the order names. An order
for seats is a set of them; the list of codes that asks for it is the server's.
`BookingServer` maps to it with `Ledger == INSTANCE BookingLedger WITH …`
(`asked` is the buffer while a request is handled, with a list of codes read as the set
of seats it names (`OrderOf`); `made` is the id of the row that is in but not yet
answered).

`BookingServerProofs` — the theorems about `BookingServer`: under every interleaving,
and in its second part that the server implements the ledger, and what else holds
while requests do not overlap (section 5).

`Checkout` (EXTENDS `BookingStore`) — one client from login to the list of
bookings. The GUI thread is in the main loop (`loop = "events"`), in the payment
wait (`"wait"`, where all GUI actions are enabled too), or in one of the blocking
steps behind it. `pages` are the VNPAY pages in the browser; each remembers the
order it was opened for and the bookings credited to it (history variables, as
is `credit`). `idle` and `timer` are the callbacks of `g_idle_add` and
`g_timeout_add`. `hung` is a client that waits for an answer the server will not
send (a command after LOGOUT is ignored) or whose server has died. `asked` in a
page is the amount sent to VNPAY, `final_price * 100` as an int of the build
(`AsInt`: above `IntMax` it is another number); a mail is an event (`Mail`) with the
order as `send_email` is given it and the id that was read from the answer.

`PaidOrders` (EXTENDS `BookingStore`) — what the checkout promises, without screens,
globals, flags or pages: orders are values that do not change once placed; the shop waits
for the payment of the last one; once it has noted it, the order is booked as it was placed,
or refused, and seats of the order are given to that booking, before the next order. `Checkout`
maps to it with `Promise == INSTANCE PaidOrders WITH …`: a page is an order, `stage` is
where the GUI thread is, `noted` is `is_payment_success`; the selection and the other
globals do not appear. Mails are not part of its state: what they say is `MailIsTrue`.

`CheckoutProofs` — the theorems about any customer, then those about a customer who
touches nothing during the wait, with the refinement of `PaidOrders`.

`Accounts` — REGISTER and LOGIN step by step, over the table `users` and the one
array (`user`, `countUser`) into which every thread fetches that table before it
looks something up. `user.cell` holds the rows copied so far (`None` is what
`malloc` left), `freed` and `misused` say what became of the array: an access
that C leaves undefined sets `misused`, and what it reads is any outcome. The
i-th row of `users` has id i (AUTO_INCREMENT, rows are never deleted), and
`SELECT * FROM users` returns them in that order. `stage` says which of the up to
three lookups of a request is under way. `alone` and `failures` are history
variables: whether a request overlapped another one, and how many of its
statements failed. `ReadPadding` is as in `BookingServer`. `misused` stays set, so
`MisuseNeedsOverlap` speaks of the first misuse in a process: what a program does after
undefined behaviour is not modelled.

`AccountsProofs` — the theorems about `Accounts` (section 5).

`MyBookings` (EXTENDS `BookingStore`) — GET LIST TICKETS on the server, step by
step over the shared `tickets` and `count_ticket`, and the screen with its cards,
Cancel dialogs and queued cancellations. The text of lists is abstracted to ids.
`RowsOf` is the order of the rows: the SELECT has no ORDER BY, so it is a constant
of which nothing is assumed but that it lists each row once. `MyBookingsProofs` — the
theorems about it.

`Notifications` — the button Notification: the bookings, then GET ANNOUNCES over the
server's unlocked `announces` and `count_announce`, step by step as in
`fetch_announces`, and the filter by booked flights. The application's array keeps
the elements of a longer list before it. `posted` and `clean` are history: the table
as the SELECT found it, and whether the SELECT worked and no other one came before
the answer. `NotificationsProofs` — the theorems about it.

`Wire` — what a `recv` returns. Bytes are counted in cells of 512, in the order TCP
keeps; a recv takes any number of cells up to its buffer (2 in the server, 7 in the
application). LOGIN and REGISTER are 8 cells of which the first says something;
LOGOUT has no answer; lists come behind a number, in one piece with it or not. No
bookings and no announcements have a text; no flights have none (server.c:67-91), so
behind the number `zero` the application waits for ever (`hung`). The
application's second recv for the taken seats depends on what the first returned
(ticket_detail.c:85); the server sends NOTHING when no seat is taken and also when the
query of them failed (server.c:250), and `ordered` tells the two apart (`"all"`,
`"unread"`). `cut` and `hasty` are history: the network delivered a part of
a message although there was room for more of it, and the user sent something while
LOGOUT was on its way. `WireProofs` — the theorems about it.

`FlightSearch` — from the search form to the page of one flight. A callback is one
action; `OnListLinkClick` includes the request GET FLIGHTS, with the counts of
seats by class that may fail one by one. `served` is the server's array, `flights`
the client's, `tem_flights` both the chosen flights and the cards, which are drawn
from it whenever it changes. `days`, `marked` and `combo` are the five day buttons,
the one pressed and the order. Others book seats, give them back and search. Rows
have `RowSize` seats in the server's arithmetic (10 in flight.c); the class a seat
is filed under is computed from its row as utils.c does, and `ClassOnMap`, the seat
map's idea of it, belongs to the property. A C variable that nothing reads before
it is written again (`selected_day_index`, `detail_flight` off its page) is left out
or reset. `SortFlights` is the exchange sort of list.c, with its two loops as two
folds. `FlightSearchProofs` — the theorems about it.

`Lists` (EXTENDed by `FlightSearch` and `Notifications`) — `Kept`, the loop that both of
the application's filters are: a fold that appends what passes. `ListTheorems` — what
this loop computes for sequences of every length.

`MCBookingServer`, `MCCheckout`, `MCMyBookings`, `MCAccounts`, `MCFlightSearch`,
`MCNotifications` and `MCWire` give constants and symmetry sets for TLC. An operator whose comment begins with *variant* is a definition as a
plausible bug would have it; it is used by no specification, and putting it in
place of the definition after it breaks a property.

## 3. Runs

| run | instance | shows |
|---|---|---|
| `booking_race` | 2 threads, 2 users, 1 flight, seats 2A and 12A, three lists of them, 1 booking, one life of the server | under every interleaving: foreign key, owner of bookings, issued ids, no text read behind `seat_list` |
| `booking_serial` | 2 threads, 2 users, 2 flights, seats 2A and 12A, four lists of them, 2 bookings | when requests do not overlap, `BookingServer` implements `BookingLedger`; every change is the one asked for |
| `accounts` | 2 threads, 2 e-mails, 2 passwords, 2 accounts | under every interleaving: array = table, logins own; without overlap: no misuse, true answers, no duplicate unless two lookups fail |
| `flight_search` | 4 flights (3 of one day, one with rows beyond 9), 9 ways to fill in the form, 1 seat booked at a time, 1 failing count | the page shows exactly the flights that fit, truly as long as nothing was booked since and no class is misfiled; orders sort; the opened flight fits |
| `checkout` | 2 users, 1 flight, 2 seats, 2 pages | selection = labels, session = user, nothing booked unpaid: any clicks, redirects and reloads |
| `checkout_patient` | 1 user, 2 flights, 2 seats, 2 pages | without clicks during the wait and with redirects of the present page only: booked as paid, paid in full, one booking per payment, every noted payment booked or refused, true mails; implements `PaidOrders` |
| `sold_twice` | as `checkout` | *violation*: one customer books the same seat twice |
| `paid_order` | 1 user, 2 flights | *violation*: booked is not what was paid |
| `my_bookings` | 2 applications of one user, bookings of 2 users, 2 bookings | accurate and own lists that arrive, cancels of own bookings |
| `notifications` | 2 applications, 2 flights, 2 announcements that come and go, up to 2 bookings | undisturbed lists are the table; exactly the announcements about booked flights are shown; every click is answered or the server has died |
| `wire` | lists of 1 and 7 cells, no flights, seats of 1 and 2 cells, none or unread, 8 requests | without a cut no mix-up, and no seat missing unless the query failed; ends agree on the session and requests are answered, unless the network cuts, the user is hasty or (answers only) there are no flights |
| `cancel_shown` | as `my_bookings` | *violation*: Cancel cancels another booking than the one asked about |

*Why the bounds suffice.* The races need two threads and one value each to
confuse: with two users, seat lists of different lengths and one booking every
pair of overlapping requests occurs, and a second booking adds the stale id
(`booking_serial`). The codes 2A and 12A, alone and in both orders, are the shortest whose
bytes do not line up: `2A,12A` cut by one thread and overwritten with `12A,2A` by another
puts the first one's pointer at a comma, at a NUL or inside a code. `Size` = 7 is the
longest list with its NUL, `SeatLists` the lists that are sent, `Char` the bytes of
codes; `MaxId` bounds bookings ever made, `MaxPages` the payments (two: an older and the present page),
`MaxIdle` queued callbacks, `Price` the sum a selection reaches in `Checkout`; `IntMax`
lies between the amounts of one seat and of two, so both sides of the overflow occur.
Two seats suffice for selection order; two bookings for a list that shifts.
In `wire` 7 cells is the longest list the application's buffer holds (4095 bytes),
2 cells of seats do not fit one cell with their number, and 8 requests allow
sessions to be opened and closed around each kind. `MixUpNeedsCut` fails, without any
cut, once a list is longer than the buffer (`TextCells` with 8): that lists fit is
an assumption, as the buffers are on the server's side. In `notifications` two
announcements suffice for a list that shrinks under an array that keeps its old end.
Symmetry sets contain only interchangeable model values and are used with safety
properties only.

`booking_race` covers one life of the server (`OneLifeSpec`: it may crash, by
itself in LOGIN too, but is not started again); `Restart` and `Killed` are part of
`booking_serial` and of the proofs, which are about the full `Spec`. `MaxUsers` = 2
allows two accounts of one e-mail, the least that a duplicate needs. In
`flight_search` one booked seat moves a class across the number asked for, so
`MaxBooked` = 1 is enough; three flights on a day exercise the exchange sort with
ties, and two airports share the name "Chu Lai" as in the table.

Four facts that no run shows, each found by putting the other specification into a
cfg: `OnlyAskedDeletions` fails under the full `Spec` of `BookingServer` (the shared
`booking_id`), `OwnBookingsOnly` fails under `FailingSpec` of `MyBookings` (the
previous answer is sent after a failing SELECT), and both it and `ScreenIsAccurate`
fail under `Spec` of `MyBookings` (two lists under way). So does `SeatsAsAsked` under
`Spec` of `BookingServer`: strtok keeps within the list, but the seats inserted are then
empty texts, pieces of codes or seats of the other request.

*Types.* `TypeOK` is proved of every module; a run checks it in `flight_search` only,
where it includes the order that the page opens with.

*Deadlock* is checked for `BookingServer` (`booking_serial`) and `Accounts`, which
can always take a connection or be restarted, and for `FlightSearch`, where others
go on when the application hangs. The other models may really stop: a client that waits for an
answer that never comes, a server process nobody restarts.

*Fairness.* `checkout_patient` assumes that the wait goes on (it is bounded by
`RUNTIME_SECONDS`, global.c:519) and that the steps of a purchase are taken;
nothing is assumed of the customer, the browser, or VNPAY. `my_bookings` assumes
that a server thread with a request to handle runs, as does `notifications`; `wire`
that a `recv` returns when there is something to receive. All hold for threads under
a preemptive scheduler and TCP without a lost connection. The assumptions about *behaviour* are separate: no
overlap of requests (`SerialSpec`, `CalmSpec`), a database that answers and has
seats for each booking (`CalmSpec`), a patient customer (`PatientSpec`). The code
enforces none of them, and the violation runs show what happens without them.

## 4. Where code and documentation disagree

The three violation runs are findings: the selection that is never cleared
(book_seat.c:327), the globals that are read after the nested loop (global.c:537) and
the pointer read after the dialog (booklist.c:338). `PROJECT.json` quotes the lines
they contradict.

## 5. Proofs

`BookingServerProofs` proves, for any sets of threads, users, flights, prices,
seats, with codes of any widths, and any size of `seat_list`, of the unrestricted `Spec`:
`TypeCorrect` (`TypeOK`), `StrtokSafety` (`StrtokStaysInList`), `DetailIntegrity`
(`DetailsReferToBookings`), `AnswersAreIssued` (`AnsweredIdWasIssued`) and
`BookingsAreOwn` (the action property `BookingUserIsRequester`). Assumptions:
`CharAssumption` (a code has no comma and no NUL), `SeatAssumption` (it is not empty),
`SeatListsAssumption` (a list is codes with one comma between two, and fits `seat_list`
with its NUL), `SizeAssumption`, `MaxIdAssumption`, and `MarksAssumption` and
`TokensAssumption` (the marks `Junk` and `None` are no ids, users, seats, threads or
tokens); TLC evaluates them in both runs.

None of the invariants is inductive alone. `IInv` adds to them:

- `SessionHasUser`: a logged-in thread has a user, and a request to create a
  booking carries that user — the reason `insert_booking` gets the right owner
  although price and flight may be another's;
- `IdsWereIssued`: every place an answered id can come from (`booking_id`, the
  value on its way through `insert_booking`, the ids of requests) is below the
  auto-increment counter;
- `PriceIsParsed`: a thread that is about to insert has seen a price and a
  flight parsed, so the row is well typed.

- `PlacesInside`: the last byte of `seat_list` is NUL, and every position and pointer is
  a byte of it. The NUL is never overwritten, since a list and its own NUL fit; `CutAt`
  moves the position behind a comma only, which is not the last byte
  (`CutKeepsPlaces`). Nothing is needed of where codes begin, so `StrtokStaysInList`
  follows whatever the widths are.

There is one lemma per action
(`<Action>KeepsIInv`), collected by `NextKeepsIInv`, and `Invariance` closes with
temporal logic. `IInv` was model-checked on the race instance first.

`AccountsProofs` proves, for any threads, e-mails, passwords and `MaxUsers`, of
`Spec`: `TypeCorrect`, `ArrayIsTable` (`CellsAreUsers`), `LoginsAreOwn` (`LoginIsOwn`),
`MisuseIsARace` (`MisuseNeedsOverlap`), `DuplicatesAreExplained`
(`DuplicateNeedsOverlapOrFailures`) and `AnswersAreTrue` (`AnswersTrue`), from
`AccountsAssumption`. Its `IInv` adds to `TypeOK` and `CellsAreUsers`:

- `ResultsAreUsers`: the result set a thread holds is a prefix of the table as it
  was, so whatever array it is copied into, row i lands in cell i;
- `StageFits`: which lookup a thread can be in at each `pc`, for either request;
- `AloneFits`: what a request that is alone has established so far at each step:
  the array is its own and not freed, as long as its `countUser`, filled before
  it is scanned; and what the lookups behind it, those that did not fail, have
  shown about the e-mail. That earlier overlaps leave no trace is the point: each
  lookup fetches anew, so a thread that is alone depends on nothing in the globals.

The index of the first match exists by `WellFoundedInduction`'s least element;
no recursion is needed.

The second part of `BookingServerProofs` proves of `SerialSpec`, from the same assumptions, `ImplementsLedger`
(`LedgerSpec`) and from the same invariant the action properties of `booking_serial`:
`BookingsAreAsAsked`, `DeletionsAreAsked`, `SeatsAreAsAsked`, `AnswersNameOwnBooking`
and `SessionsAreOwn`. `SerialInv` says that one thread at most is not waiting, and what
the globals hold for that one at each `pc`: the tokens of its own LOGIN copied so far
(`AuthFits`, `CopyFits`, `CheckFits`), the price and flight of its request
(`CreateFits`), the id of its insert (`MadeFits`), and for the seats that the list is
that of the request but for commas cut before the present place (`ListHolds`), the
present seat is a whole code of it, cut off from the next, and strtok's position is
behind it (`SeatFits`). What strtok finds in such a list is again a whole code
(`TokenIsCode`), and what the query reads there is a seat the request names
(`ReadsNamedSeat`). Nothing is said of the globals while all wait: every
request parses what it uses. A lemma `<Action>IsLedger` per action shows that it keeps
`SerialInv` and is a step of the ledger or leaves it alone; a thread's step changes
the ledger's functions at that thread only (`OnlyAskedChanges`), and a crash is the
ledger's `Forget(Thread)`.

`CheckoutProofs` proves of `Spec`: `TypeCorrect`, `SelectionsAgree` (`SelectionAgrees`),
`SessionsAgree` (`SessionAgrees`) and `BookingsArePaid` (`BookedOnPayment`).
`SelectionFits` adds that the list of labels has no repetitions, which makes removing
the clicked one from it the same as unmarking it; `SessionFits` what each screen and
`hung` say of the session; `PaymentFits` that a success noted while the wait is on was
told by a page. The second part proves of `PatientSpec`: `BookingsAreAsPaid`
(`BookedAsPaid`), `BookingsArePaidInFull` (`PaidInFull`), `OneBookingPerPayment`
(`PaymentBuysOneBooking`) and `MailsAreTrue` (`MailIsTrue`). Its `PInv` adds that the
globals are the order of the last page while it is waited for (`OrderFits`), which
steps of the purchase are behind (`StageFits`), that the ids read are those given
(`IdsFit`), and that a page asks for the price it was opened with (`PagesAskPrice`).

`ImplementsPaidOrders` (`PaidOrdersSpec`) is the refinement, for the same customer. It needs
`CustomerFits` besides: who is not signed in comes no further than the home page, and
nobody comes to the payment without a seat. So every order has a user and seats, and a
request to book is always answered: `hung` is not reached between a noted payment and its
booking. A lemma `<Action>IsPromise` shows that each action is a step of `PaidOrders` or
leaves it alone.

`NotificationsProofs` proves of `Spec`: `TypeCorrect`, `ListsAreTheTable`
(`ListIsTable`) and `NotificationsAreExact` (`NotifiedExactly`), for every order of rows
and any number of announcements. `CleanFits` says what holds of an undisturbed
request at each step: the globals are its own array, with the rows copied so far. Of the
application's array, which may be longer, the filter then reads exactly the table.

`ListTheorems` is about loops over data, and needs induction. The library's induction
theorems take a predicate as a parameter, which no installed prover can instantiate;
here the predicate is a *set*. `LeastNatural`, from the library's
`NatLessThanWellFounded` and `WFMin`, gives `InductionOverSets`: a set that has 0 and,
with a number, the next one has every natural. A fold is defined by `CHOOSE` of a
function on all parts of 1..n that satisfies a recursion; `FoldExists` builds that
function, by induction on n, for any step that keeps its values in a set, and
the lemma `FoldSteps` concludes that the fold goes through n stages, each the step
applied to the stage before. From this follow the results about the code:
`KeptIsSelection` (`Kept` has the elements that pass, and none twice if the list had
none twice) and `KeptAgrees`.

`FlightSearchProofs` proves of `Spec`, from `SearchAssumption`: `SearchTypeCorrect`
(`TypeOK`), `ListsAreSelections` (`ListIsSelection`), `ListsAreTrue` (`ListIsTrue`),
`OpenedFlightsFit` (`OpenedFits`) and `SortingSorts` (the action property `SortSorts`),
for any table, forms, rows and bookings.

- The sort: `SortPlaceSteps` and `SortFlightsSteps` unfold the two loops into stages.
  The invariant of the outer loop is `Placed(o, s, k)`, that none of the flights behind
  the first k places comes before a flight in them; that of the inner loop adds
  `Leads(o, s, i, m)`, that none of the next m comes before the one at i. One exchange
  keeps both because `Before` is asymmetric and a flight before one that no other
  precedes is preceded by none of those either (`BeforeIsOrder`), ties included. That
  nothing is lost or repeated is `Shuffles`.
- The invariant: `ListIsSelection` and `OpenedFits` need each other. Cancel leads from
  the page of a flight back to a list of the middle day, which exists because
  `OpenedFits` puts the flight on one of the days. `NoRepeats`: no fetch brings a
  flight twice (ids are unique). `Asked`: the query of an open page was not refused, so
  its number is one.
- `ListIsTrue` follows from the selection: the seats left are those of the class less
  the bookings filed under it, and below row 10 the server files as the seat map does
  (`ClassesAgree`).

`WireProofs` proves of `Spec`: `TypeCorrect`, `MixUpsNeedACut` (`MixUpNeedsCut`),
`SeatsAreComplete` (`SeatsComplete`: every taken seat the server read is known; none
is when its query failed) and `EndsAgree` (`SessionsAgree`), each from
`ListsFit`, that lists fit the application's buffer. `OneRequest`: at most one request
and one LOGOUT before it are on their way; `AnswerFits`: what is on its way back is one
answer, or the end of one behind its number; `Aligned`: the zeros behind a LOGIN come
in an even number of cells, so that the server's reads of two end where the LOGIN ends
and never swallow the request behind it; `SessionFits`: how the ends differ as long as
something is on its way.

`MyBookingsProofs` proves of `CalmSpec`: `TypeCorrect`, `BookingsShownAreOwn`
(`OwnBookingsOnly`), `CancelsAreOwn` (`OwnerCancels`) and `ScreensAreAccurate`
(`ScreenIsAccurate`), for every order of rows. The invariant: `OneAtATime`; `Fetched`,
that the globals hold the rows of the one request under way as far as copied; and
`AllOwn`, that every id an application keeps (array, cards, dialog, queued callback) is
none of another user's bookings, now or later, since ids are not given twice.

Only model-checked is liveness, which is out of reach of the prover:
`NotedPaymentIsBooked`, `ListArrives`, `NotificationsOpen` and `Answered`, and the three
properties that the code violates. Every invariant and action property of a passing run
is a theorem.

## 6. Not modelled

- Drawing and layout, with `cardinfo.c`, which no screen reaches; the PDF ticket and
  the MIME text of mails; VNPAY's URL and signature.
- The standalone programs `vnpay.c`, `receive.c`, `connect.c`.
- What a write past the end of a text buffer does: the texts of lists are assumed to
  fit the server's 1024 bytes and the application's 4095.
- The race of two GET ORDERED SEATS over `seat_code` and `seat_count`, and of two GET
  FLIGHTS: each is one step (in `Checkout`, `FlightSearch`). The pattern, an array and
  its count replaced under a thread that reads them, is modelled three times (`Accounts`,
  `MyBookings`, `Notifications`).
- In `Checkout`, a click that takes the price of a selection out of `Price`: below 0,
  when a seat chosen on one flight is taken back on a dearer one (book_seat.c:338-341
  allows it), or beyond the bound.
- In `BookingServer`, two library calls that overlap: a `strtok` or `sscanf` is one step,
  and those of two threads are not interleaved byte by byte (a data race in C). Lists of
  seats are what the application sends, codes with commas between, that fit `seat_list`.
- In `Accounts`, what the program does after the first undefined access to the array.
- The format checks of the registration form, names and phones.
- Losing the connection in the middle of a purchase; closing the window during the
  wait.

## 7. Plan

Done: all components of section 1 have a module, and every model has proofs. Left, in
this order:

1. GET ORDERED SEATS step by step over `seat_code` and `seat_count`, with the property
   that its loops stay in the array unless requests overlap.
2. Losing the connection during a purchase, in `Checkout`.
