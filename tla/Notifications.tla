---------------------------- MODULE Notifications ----------------------------
(***************************************************************************)
(* The button Notification, from both ends: show_notification (frontend    *)
(* component.c) asks for the user's bookings, then for all announcements,  *)
(* and shows those about a booked flight; the handler of GET ANNOUNCES     *)
(* (backend/server.c) with fetch_announces (backend/announce/announce.c)   *)
(* keeps its result in the globals announces and count_announce, which     *)
(* every thread of the server uses and nothing locks or resets.            *)
(*                                                                         *)
(* A client is an application with the user logged in at it.  The list of  *)
(* bookings is module MyBookings'; here it is any list of flights.  The    *)
(* text of the announcements fits the buffer (1024 bytes).  Variables that *)
(* nothing reads before they are written again are reset or left out.      *)
(***************************************************************************)
EXTENDS Integers, FiniteSets, Lists

CONSTANTS
  Client,
  Flight,
  Announcement,  \* ids of announcements, in the order of AUTO_INCREMENT
  FlightOf,      \* the flight each is about
  RowsOf,        \* the order in which SELECT * returns a table; it asks for none
  MaxBooked,     \* bound: bookings of a user
  None           \* a cell of an array nobody has written

ASSUME AnnouncementAssumption ==
  /\ IsFiniteSet(Announcement) /\ Announcement = 1..Cardinality(Announcement)
  /\ FlightOf \in [Announcement -> Flight]
  /\ None \notin Announcement
  /\ \A ids \in SUBSET Announcement :
       /\ RowsOf[ids] \in [1..Cardinality(ids) -> ids]
       /\ IsInjective(RowsOf[ids])

VARIABLES
  table,          \* table announces: the ids of its rows
  nextId,         \* and its AUTO_INCREMENT counter
  up,             \* the server process runs
  announces,      \* server, global: the last array fetch_announces allocated
  count_announce, \* server, global
  pc,             \* what the client waits for; "idle": for a click
  rows,           \* locals of fetch_announces: the rows of res
  copied,         \* and how many of them are copied, i
  list_tickets,   \* application, global: flights of the user's bookings
  announce_count, \* application, global
  list_announces, \* application, global: an array
  posted,         \* history: the announcements when they were read
  clean           \* history: the SELECT did not fail, and no other one came
                  \* between it and the answer; posted is kept while so

tables  == <<table, nextId>>
server  == <<announces, count_announce, rows, copied>>
app     == <<list_tickets, announce_count, list_announces>>
history == <<posted, clean>>
vars    == <<tables, up, pc, server, app, history>>

Place == 1..Cardinality(Announcement)

Init ==
  /\ table = {} /\ nextId = 1
  /\ up = TRUE
  /\ announces = <<>> /\ count_announce = 0
  /\ pc = [c \in Client |-> "idle"]
  /\ rows = [c \in Client |-> <<>>] /\ copied = [c \in Client |-> 0]
  /\ list_tickets = [c \in Client |-> <<>>]
  /\ announce_count = [c \in Client |-> 0]
  /\ list_announces = [c \in Client |-> [i \in Place |-> None]]
  /\ posted = [c \in Client |-> <<>>]
  /\ clean = [c \in Client |-> TRUE]

-----------------------------------------------------------------------------
(* The airline's staff write announcements with an SQL client. *)

Announce ==
  /\ nextId \in Announcement
  /\ table' = table \cup {nextId}
  /\ nextId' = nextId + 1
  /\ UNCHANGED <<up, pc, server, app, history>>

Withdraw(a) ==
  /\ a \in table
  /\ table' = table \ {a}
  /\ UNCHANGED <<nextId, up, pc, server, app, history>>

-----------------------------------------------------------------------------
(* The application's click, and GET LIST TICKETS *)

\* show_notification
ShowNotification(c) ==
  /\ up /\ pc[c] = "idle"
  /\ pc' = [pc EXCEPT ![c] = "tickets"]
  /\ UNCHANGED <<tables, up, server, app, history>>

\* The flights of a user's bookings.
Bookings == UNION {[1..n -> Flight] : n \in 0..MaxBooked}

\* The client stores the list and asks for the announcements.
GetListTickets(c) ==
  /\ up /\ pc[c] = "tickets"
  /\ \E flights \in Bookings : list_tickets' = [list_tickets EXCEPT ![c] = flights]
  /\ pc' = [pc EXCEPT ![c] = "query"]
  /\ UNCHANGED <<tables, up, server, announce_count, list_announces, history>>

-----------------------------------------------------------------------------
(* GET ANNOUNCES, the thread of c *)

UnderWay(c) == pc[c] \in {"copy", "count", "list"}

\* A SELECT replaces the array and the count of every request under way, and
\* is disturbed itself by one that still copies.
Disturbed(c) ==
  LET others == Client \ {c} IN
  {o \in others : UnderWay(o)} \cup {x \in {c} : \E o \in others : pc[o] = "copy"}

\* *count and *announces, and the loop starts.
QueryAnnounces(c) ==
  /\ up /\ pc[c] = "query"
  /\ rows' = [rows EXCEPT ![c] = RowsOf[table]]
  /\ count_announce' = Cardinality(table)
  /\ announces' = [i \in 1..Cardinality(table) |-> None]
  /\ pc' = [pc EXCEPT ![c] = "copy"]
  /\ clean' = [o \in Client |-> clean[o] /\ o \notin Disturbed(c)]
  /\ posted' = [o \in Client |->
       IF o \in Disturbed(c) THEN <<>> ELSE IF o = c THEN rows'[c] ELSE posted[o]]
  /\ UNCHANGED <<tables, up, copied, app>>

\* fetch_announces returns 1, 2 or 3, which is printed only.
FetchAnnouncesFails(c) ==
  /\ up /\ pc[c] = "query"
  /\ pc' = [pc EXCEPT ![c] = "count"]
  /\ clean' = [clean EXCEPT ![c] = FALSE]
  /\ UNCHANGED <<tables, up, server, app, posted>>

\* One turn of the loop; (*announces)[i] may be an element of a later array by
\* now, and of one too short, which is overrun.
CopyRow(c) ==
  LET i == copied[c] + 1 IN
  /\ up /\ pc[c] = "copy"
  /\ i \in DOMAIN rows[c]
  /\ \/ i \in DOMAIN announces /\ announces' = [announces EXCEPT ![i] = rows[c][i]]
     \/ i \notin DOMAIN announces /\ UNCHANGED announces
  /\ copied' = [copied EXCEPT ![c] = i]
  /\ UNCHANGED <<tables, up, pc, count_announce, rows, app, history>>

\* Overrunning the array may kill the process as well.
CopyRowDies(c) ==
  LET i == copied[c] + 1 IN
  /\ up /\ pc[c] = "copy"
  /\ i \in DOMAIN rows[c]
  /\ i \notin DOMAIN announces
  /\ up' = FALSE
  /\ UNCHANGED <<tables, pc, server, app, history>>

CopyDone(c) ==
  /\ up /\ pc[c] = "copy"
  /\ copied[c] = Len(rows[c])
  /\ rows' = [rows EXCEPT ![c] = <<>>] /\ copied' = [copied EXCEPT ![c] = 0]
  /\ pc' = [pc EXCEPT ![c] = "count"]
  /\ UNCHANGED <<tables, up, announces, count_announce, app, history>>

\* The application stores what it receives: announce_count first.
SendCount(c) ==
  /\ up /\ pc[c] = "count"
  /\ announce_count' = [announce_count EXCEPT ![c] = count_announce]
  /\ pc' = [pc EXCEPT ![c] = "list"]
  /\ UNCHANGED <<tables, up, server, list_tickets, list_announces, history>>

SentOneShort ==     \* variant: i < count_announce - 1
  [i \in 1..(count_announce - 1) |-> IF i \in DOMAIN announces THEN announces[i] ELSE None]
\* send_announces(announces, count_announce): a shorter array is overrun.
Sent == [i \in 1..count_announce |-> IF i \in DOMAIN announces THEN announces[i] ELSE None]

\* parse_buffer_to_announces writes as many elements as the text has; NO
\* ANNOUNCES, which is parsed too, is one line of four and writes none.
Parsed(c) == [i \in Place |-> IF i \in DOMAIN Sent THEN Sent[i] ELSE list_announces[c][i]]

About(a, flights) == a \in Announcement /\ Contains(flights, FlightOf[a])

FilterTwice(array, count, flights) ==     \* variant: no break after a match
  FlattenSeq([i \in 1..count |->
    [j \in 1..Cardinality({k \in DOMAIN flights : About(array[i], <<flights[k]>>)}) |-> array[i]]])
\* filter_announces_by_tickets: an element nobody has written matches no flight.
Filter(array, count, flights) ==
  Kept(SubSeq(array, 1, count), {a \in Announcement : About(a, flights)})

\* What the popover shows.
Shown(c) == Filter(Parsed(c), announce_count[c], list_tickets[c])

SilentWhenNone == count_announce # 0     \* variant: no text for an empty list
HasText == TRUE

\* The list, or NO ANNOUNCES; the application parses it, filters it with the
\* list of bookings, and opens the popover.
SendList(c) ==
  /\ up /\ pc[c] = "list"
  /\ HasText
  /\ list_announces' = [list_announces EXCEPT ![c] = Parsed(c)]
  /\ pc' = [pc EXCEPT ![c] = "idle"]
  /\ list_tickets' = [list_tickets EXCEPT ![c] = <<>>]
  /\ announce_count' = [announce_count EXCEPT ![c] = 0]
  /\ posted' = [posted EXCEPT ![c] = <<>>]
  /\ clean' = [clean EXCEPT ![c] = TRUE]
  /\ UNCHANGED <<tables, up, server>>

-----------------------------------------------------------------------------

Answer(c) ==
  \/ GetListTickets(c)
  \/ QueryAnnounces(c) \/ FetchAnnouncesFails(c)
  \/ CopyRow(c) \/ CopyRowDies(c) \/ CopyDone(c)
  \/ SendCount(c) \/ SendList(c)

Staff == Announce \/ \E a \in Announcement : Withdraw(a)

Next == Staff \/ \E c \in Client : ShowNotification(c) \/ Answer(c)

\* A thread that has work to do gets to run.
Spec == Init /\ [][Next]_vars /\ \A c \in Client : WF_vars(Answer(c))

-----------------------------------------------------------------------------
(* Properties *)

Cell == Announcement \cup {None}

TypeOK ==
  /\ nextId \in Nat \ {0} /\ table \subseteq 1..(nextId - 1)
  /\ up \in BOOLEAN
  /\ announces \in Seq(Cell) /\ count_announce \in Nat
  /\ pc \in [Client -> {"idle", "tickets", "query", "copy", "count", "list"}]
  /\ rows \in [Client -> Seq(Announcement)]
  /\ \A c \in Client : copied[c] \in 0..Len(rows[c])
  /\ list_tickets \in [Client -> Seq(Flight)]
  /\ announce_count \in [Client -> 0..Cardinality(Announcement)]
  /\ list_announces \in [Client -> [Place -> Cell]]
  /\ posted \in [Client -> Seq(Announcement)]
  /\ clean \in [Client -> BOOLEAN]

(* Unless the SELECT failed or another list of announcements was fetched   *)
(* meanwhile, what the application has when it filters is the table as it  *)
(* was read, whatever earlier requests, of anybody, left in the server's   *)
(* globals and in its own array, whose elements behind the new list are    *)
(* still the old ones (announce.c:7-41, server.c:274-288,                  *)
(* server_com.c:184-215).                                                  *)
ListIsTable ==
  \A c \in Client : pc[c] = "list" /\ clean[c] =>
    /\ announce_count[c] = Len(posted[c])
    /\ \A i \in DOMAIN posted[c] : Parsed(c)[i] = posted[c][i]

(* Then the popover shows each announcement about a flight the user has    *)
(* booked, once and in order, and no other (component.c:43-57,             *)
(* global.c:306-317).                                                      *)
NotifiedExactly ==
  \A c \in Client : pc[c] = "list" /\ clean[c] =>
    Shown(c) = Kept(posted[c], {a \in Announcement : Contains(list_tickets[c], FlightOf[a])})

(* A click on Notification is answered, also when there are no             *)
(* announcements or a SELECT fails, unless the server dies: the            *)
(* application, which blocks meanwhile, goes on (server.c:274-288).        *)
NotificationsOpen == \A c \in Client : pc[c] = "tickets" ~> pc[c] = "idle" \/ ~up
=============================================================================
