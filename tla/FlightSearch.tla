---------------------------- MODULE FlightSearch ----------------------------
(***************************************************************************)
(* Searching for a flight: the request GET FLIGHTS with its seat counts    *)
(* (backend/flight/flight.c:19-135, backend/utils/utils.c:31-39), the      *)
(* search form (homepage.c:38-103), the page of flights with its days and  *)
(* its order (list.c) and the page of one flight (ticket_detail.c:150-157).*)
(*                                                                         *)
(* One application searches while others book and cancel.  A request is    *)
(* one step, and so is a callback of the application.  An airplane has     *)
(* rows of RowSize seats as the server counts them (10 in flight.c:82-84); *)
(* dates are numbers.  The counts of a fetch are one step; no property    *)
(* compares two of them.                                                   *)
(***************************************************************************)
EXTENDS Integers, FiniteSets, Lists

CONSTANTS
  Table,      \* the rows of flights, joined with their airplanes and airports
  Name,       \* the name of an airport: "Chu Lai" in "VCL - Chu Lai - Quang Nam"
  Form,       \* the ways the user may fill in the search form
  Bookable,   \* bound: the seats others book and give back
  MaxBooked,  \* bound: how many of them at a time
  MayFail,    \* bound: the counts, of a flight and a class, that may fail
  RowSize,
  None

Class == {"Economy", "Business", "First Class"}

\* A form with an empty field is None, a number or date that is none is None.
Query == [from : DOMAIN Name, to : DOMAIN Name, class : Class,
          date : Int \cup {None}, number : Int \cup {None}]

ASSUME SearchAssumption ==
  /\ Table \in Seq([flight_id : STRING, departure_airport : DOMAIN Name,
                    arrival_airport : DOMAIN Name, date : Int, price : Int,
                    duration_minutes : Int, capacity : Nat])
  /\ \A i, j \in DOMAIN Table : Table[i].flight_id = Table[j].flight_id => i = j
  /\ IsFiniteSet(Bookable) /\ \A s \in Bookable : s.row \in 1..99
  /\ RowSize \in Nat /\ MaxBooked \in Nat
  /\ Form \subseteq Query \cup {None}
  /\ None \notin Int \cup Query

VARIABLES
  booked,         \* the seats in booking_details
  served,         \* server: the globals flights and count_flight
  flights,        \* client: flights and flight_count
  tem_flights,    \* client: tem_flights and tem_flight_count, shown as cards
  query,          \* client: airport_from, airport_to, class, date, number
  days,           \* client: days and num_days, the labels of the day buttons
  marked,         \* the day button that is pressed
  combo,          \* the entry of the combo box for the order
  detail_flight,  \* the flight of the open page; None elsewhere, where it is not read
  screen          \* the page shown; hung when the application is stuck in recv

server == <<booked, served>>
search == <<flights, tem_flights, query, days>>
page   == <<marked, combo, detail_flight, screen>>
vars   == <<server, search, page>>

-----------------------------------------------------------------------------
(* The server: GET FLIGHTS *)

FirstDigit(row) == IF row < 10 THEN row ELSE row \div 10

\* The class of a seat in booking_details.type, by the first digit of its code.
GetSeatClass(row) ==
  CASE FirstDigit(row) = 1       -> "First Class"
    [] FirstDigit(row) \in {2, 3} -> "Business"
    [] OTHER                     -> "Economy"

Count(flight, class, failing) ==
  IF <<flight, class>> \in failing THEN -1
  ELSE Cardinality({s \in booked : s.flight = flight /\ GetSeatClass(s.row) = class})

SeatsOf(row, class) ==
  CASE class = "Economy"  -> row.capacity - 3 * RowSize
    [] class = "Business" -> 2 * RowSize
    [] OTHER              -> RowSize

\* A flight as it is sent: the row without the capacity.
Flight == [flight_id : STRING, departure_airport : DOMAIN Name, arrival_airport : DOMAIN Name,
           date : Int, price : Int, duration_minutes : Int, available : [Class -> Int]]

Fetched(row, failing) ==
  [flight_id |-> row.flight_id, departure_airport |-> row.departure_airport,
   arrival_airport |-> row.arrival_airport, date |-> row.date, price |-> row.price,
   duration_minutes |-> row.duration_minutes,
   available |-> [c \in Class |-> SeatsOf(row, c) - Count(row.flight_id, c, failing)]]

FetchFlights(failing) == [i \in DOMAIN Table |-> Fetched(Table[i], failing)]

\* A fetch that fails leaves the flights of the one before, and they are sent.
GetFlights ==
  \/ \E failing \in {{}} \cup {{p} : p \in MayFail} : served' = FetchFlights(failing)
  \/ UNCHANGED served

-----------------------------------------------------------------------------
(* The application: choosing the flights to show *)

CheckHaveSeatMore(f, class, number) == f.available[class] > number     \* variant: > for >=

CheckHaveSeat(f, class, number) == f.available[class] >= number

FilterFlights(fs, q, date) ==
  Kept(fs, {f \in ToSet(fs) : /\ Name[f.departure_airport] = Name[q.from]
                              /\ Name[f.arrival_airport] = Name[q.to]
                              /\ f.date = date
                              /\ CheckHaveSeat(f, q.class, q.number)})

\* strptime refuses a text that is no date, and the days stay as they were.
GenerateNext5Days(date) ==
  IF date = None THEN days ELSE [i \in 1..5 |-> date - 3 + i]

\* The order that entry o of the combo box stands for.
Before(o, f, g) ==
  CASE o = 0 -> f.price < g.price
    [] o = 1 -> f.price > g.price
    [] o = 2 -> f.duration_minutes < g.duration_minutes
    [] o = 3 -> f.duration_minutes > g.duration_minutes

Exchange(o, fs, i, j) ==
  IF Before(o, fs[j], fs[i]) THEN [fs EXCEPT ![i] = fs[j], ![j] = fs[i]] ELSE fs

NextOf(i, n) == [k \in 1..Min({1, n - i}) |-> i + k]     \* variant: one pass over neighbours

\* The places that the inner loop compares with place i.
Behind(i, n) == [k \in 1..(n - i) |-> i + k]

SortPlace(o, fs, i) == FoldLeft(LAMBDA s, j : Exchange(o, s, i, j), fs, Behind(i, Len(fs)))

SortFlights(o, fs) == FoldLeft(LAMBDA s, i : SortPlace(o, s, i), fs, [i \in 1..Len(fs) |-> i])

-----------------------------------------------------------------------------
(* The application: callbacks *)

\* The five days of the date asked for, the middle one pressed.
CreateDaySelector(q) == days' = GenerateNext5Days(q.date) /\ marked' = 3

CreateFilterBoxUnset == combo' = -1     \* variant: without gtk_combo_box_set_active

CreateFilterBox == combo' = 0

CreateListWindowUnfiltered(q, shown) ==     \* variant: without the filter for days[2]
  /\ screen' = "list"
  /\ CreateDaySelector(q)
  /\ CreateFilterBox
  /\ tem_flights' = IF days' = <<>> THEN shown ELSE FilterFlights(flights', q, days'[1])

\* Pressing the middle day makes GTK report a click on the first one: its
\* flights are chosen, and replaced by those of the middle day.  Without
\* any days what is shown stays.
CreateListWindow(q, shown) ==
  /\ screen' = "list"
  /\ CreateDaySelector(q)
  /\ CreateFilterBox
  /\ tem_flights' = IF days' = <<>> THEN shown ELSE FilterFlights(flights', q, days'[3])

\* The fields of each flight are written out by send_flights and read back;
\* the text of all flights fits into the buffer.  With the count 0 nothing
\* is sent after it, and recv waits for ever.
ReceiveFlights == flights' = served'

\* "Search" on the home page.  The flights are fetched before the form is
\* read, and the globals of the query are set before it is refused.
Refused == {f \in Form : f = None \/ f.number = None \/ f.from = f.to}

OnListLinkClick(f) ==
  /\ screen = "home"
  /\ GetFlights
  /\ ReceiveFlights
  /\ query' = IF served' = <<>> \/ f = None THEN query ELSE f
  /\ UNCHANGED <<booked, detail_flight>>
  /\ \/ /\ served' = <<>>
        /\ screen' = "hung"
        /\ UNCHANGED <<tem_flights, days, marked, combo>>
     \/ /\ served' # <<>> /\ f \in Refused
        /\ UNCHANGED <<tem_flights, days, marked, combo, screen>>
     \/ /\ served' # <<>> /\ f \notin Refused
        /\ CreateListWindow(f, FilterFlights(served', f, f.date))

OnDayButtonClick(i) ==
  /\ screen = "list"
  /\ i \in DOMAIN days
  /\ marked' = i
  /\ tem_flights' = FilterFlights(flights, query, days[i])
  /\ UNCHANGED <<server, flights, query, days, combo, detail_flight, screen>>

OnSortChanged(i) ==
  /\ screen = "list"
  /\ i # combo
  /\ combo' = i
  /\ tem_flights' = SortFlights(i, tem_flights)
  /\ UNCHANGED <<server, flights, query, days, marked, detail_flight, screen>>

\* The widgets of a page are destroyed with it.
NoList == marked' = 3 /\ combo' = 0

OnDetailLinkClickByPlace(i) ==     \* variant: the place of the card taken for one in flights
  /\ screen = "list"
  /\ i \in DOMAIN tem_flights
  /\ detail_flight' = flights[i]
  /\ screen' = "detail"
  /\ NoList
  /\ UNCHANGED <<server, search>>

\* The card names the flight's id, and ids are unique.
OnDetailLinkClick(i) ==
  /\ screen = "list"
  /\ i \in DOMAIN tem_flights
  /\ detail_flight' = tem_flights[i]
  /\ screen' = "detail"
  /\ NoList
  /\ UNCHANGED <<server, search>>

\* Cancel on the page of a flight.  Nothing is fetched.
OnCancel ==
  /\ screen = "detail"
  /\ detail_flight' = None
  /\ UNCHANGED <<server, flights, query>>
  /\ CreateListWindow(query, tem_flights)

OnNavHomeClicked ==
  /\ screen = "list"
  /\ screen' = "home"
  /\ NoList
  /\ UNCHANGED <<server, search, detail_flight>>

-----------------------------------------------------------------------------
(* Others *)

BookSeat(s) ==
  /\ s \notin booked /\ Cardinality(booked) < MaxBooked
  /\ booked' = booked \cup {s}
  /\ UNCHANGED <<served, search, page>>

ReleaseSeat(s) ==
  /\ s \in booked
  /\ booked' = booked \ {s}
  /\ UNCHANGED <<served, search, page>>

\* Another application sends GET FLIGHTS.
OtherSearch == GetFlights /\ UNCHANGED <<booked, search, page>>

Init ==
  /\ booked = {} /\ served = <<>>
  /\ flights = <<>> /\ tem_flights = <<>> /\ query = None /\ days = <<>>
  /\ marked = 3 /\ combo = 0 /\ detail_flight = None /\ screen = "home"

Next ==
  \/ \E f \in Form : OnListLinkClick(f)
  \/ \E i \in 1..5 : OnDayButtonClick(i)
  \/ \E i \in 0..3 : OnSortChanged(i)
  \/ \E i \in DOMAIN tem_flights : OnDetailLinkClick(i)
  \/ OnCancel \/ OnNavHomeClicked
  \/ \E s \in Bookable : BookSeat(s) \/ ReleaseSeat(s)
  \/ OtherSearch

Spec == Init /\ [][Next]_vars

-----------------------------------------------------------------------------
(* Properties *)

TypeOK ==
  /\ booked \subseteq Bookable
  /\ {served, flights, tem_flights} \subseteq Seq(Flight)
  /\ query \in Query \cup {None}
  /\ days = <<>> \/ days \in [1..5 -> Int]
  /\ marked \in 1..5
  /\ combo \in 0..3
  /\ detail_flight \in Flight \cup {None}
  /\ screen \in {"home", "list", "detail", "hung"}

OnRoute(f) ==
  /\ Name[f.departure_airport] = Name[query.from]
  /\ Name[f.arrival_airport] = Name[query.to]

(* The page of flights shows each flight, as last fetched, of the route and *)
(* the class, with enough seats, that leaves on the day whose button is     *)
(* pressed, and no other; without day buttons it is empty.  Sorting, a look *)
(* at one flight and back, a refused search before, GTK's click on the      *)
(* first day (list.c:264) and a date that is none (global.c:321) change     *)
(* nothing in that.                                                         *)
ListIsSelection ==
  screen = "list" =>
    /\ IsInjective(tem_flights)
    /\ ToSet(tem_flights) =
         {f \in ToSet(flights) : /\ OnRoute(f)
                                /\ days # <<>> /\ f.date = days[marked]
                                /\ f.available[query.class] >= query.number}

\* The class of a row on the seat map (book_seat.c:40-54).
ClassOnMap(row) ==
  CASE row = 1         -> "First Class"
    [] row \in {2, 3} -> "Business"
    [] OTHER           -> "Economy"

(* As long as the flights are those a fetch without failures would bring,   *)
(* and no seat is booked in the rows that get_seat_class takes for another  *)
(* class than the seat map does (10 and above), a flight of the route and   *)
(* the day is on the page exactly if the seats of the class, less those     *)
(* booked in the rows of the class, are enough (flight.c:82-84,             *)
(* utils.c:31-39, global.c:179-198).                                        *)
ListIsTrue ==
  screen = "list" /\ days # <<>> /\ flights = FetchFlights({})
    /\ (\A s \in booked : s.row < 10) =>
    \A i \in DOMAIN Table : OnRoute(Table[i]) /\ Table[i].date = days[marked] =>
      LET class == query.class
          taken == {s \in booked : /\ s.flight = Table[i].flight_id
                                   /\ ClassOnMap(s.row) = class}
      IN (\E j \in DOMAIN tem_flights : tem_flights[j].flight_id = Table[i].flight_id)
           <=> SeatsOf(Table[i], class) - Cardinality(taken) >= query.number

(* Choosing another order sorts the cards by it, and changes neither which  *)
(* flights are shown nor anything about them (list.c:183-196, 429-453).     *)
SortSorts ==
  [][combo' # combo /\ screen = "list" /\ screen' = "list" =>
       /\ \A i, j \in DOMAIN tem_flights' :
            i < j => ~Before(combo', tem_flights'[j], tem_flights'[i])
       /\ IsInjective(tem_flights')
       /\ ToSet(tem_flights') = ToSet(tem_flights)]_vars

(* The flight whose page is open, and whose seats are sold from there, is   *)
(* one of the route asked for, on a day offered, with enough seats in the   *)
(* class when it was fetched (list.c:170-181).                              *)
OpenedFits ==
  screen = "detail" =>
    /\ OnRoute(detail_flight)
    /\ detail_flight.date \in ToSet(days)
    /\ detail_flight.available[query.class] >= query.number
=============================================================================
