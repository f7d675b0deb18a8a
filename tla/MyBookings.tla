----------------------------- MODULE MyBookings -----------------------------
(***************************************************************************)
(* The list of bookings, from both ends: the handler of GET LIST TICKETS   *)
(* in backend/server.c with fetch_tickets (backend/ticket/ticket.c), and   *)
(* the screen MY BOOKINGS of the application (frontend booklist.c,         *)
(* component.c, get_list_tickets_ordered) with its Cancel buttons.         *)
(*                                                                         *)
(* The handler keeps its result in the globals tickets and count_ticket,   *)
(* which every thread of the server uses and nothing locks or resets.  The *)
(* application keeps it in the global array list_tickets; a card on the    *)
(* screen holds a pointer to its element, not a copy of it.                *)
(*                                                                         *)
(* An entry of a list is the booking's id.  DELETE BOOKING and the two     *)
(* requests of a new booking are single steps here: module BookingServer   *)
(* has their threads.  The text of a list fits the buffer (1024 bytes).    *)
(***************************************************************************)
EXTENDS BookingStore, SequencesExt

CONSTANTS
  Client,    \* the applications, each with a connection and a server thread
  Owner,     \* the user logged in at each
  RowsOf,    \* the order in which the SELECT returns bookings; it asks for none
  MaxId,     \* bound: the number of bookings ever made
  Garbage    \* the id read from memory nobody has written

ASSUME OwnerAssumption == Owner \in [Client -> User]

ASSUME RowsAssumption ==
  /\ MaxId \in Nat /\ Garbage \notin 0..MaxId
  /\ \A ids \in SUBSET (1..MaxId) :
       RowsOf[ids] \in [1..Cardinality(ids) -> ids] /\ IsInjective(RowsOf[ids])

VARIABLES
  up,            \* the server process runs
  tickets,       \* server, global: the last array fetch_tickets allocated
  count_ticket,  \* server, global
  pc,            \* where the thread is in GET LIST TICKETS; "idle": in recv
  rows,          \* locals of fetch_tickets: the rows of res
  copied,        \* and how many of them are copied, i
  then,          \* what the application does with the answer
  ticket_count,  \* application, global
  list_tickets,  \* application, global: an array, 0 where it was never written
  cards,         \* the ids on the cards on screen; card i points to element i
  dialog,        \* the element the open Cancel dialog is about, 0: no dialog,
                 \* and (history) the id on its card
  cancel         \* callbacks execute_cancel_on_main_thread: the id to delete
                 \* and (history) the id on the card

server == <<tickets, count_ticket, rows, copied>>
app    == <<ticket_count, list_tickets, cards, dialog, cancel>>
vars   == <<storeVars, up, pc, then, server, app>>

Index == 1..MaxId

NoDialog == [at |-> 0, card |-> 0]

OwnIds(u) == {b.id : b \in {x \in bookings : x.user = u}}

HasSeats(id) == \E d \in details : d.booking = id

Init ==
  /\ StoreInit
  /\ up = TRUE
  /\ tickets = <<>> /\ count_ticket = 0
  /\ pc = [c \in Client |-> "idle"] /\ then = [c \in Client |-> "show"]
  /\ rows = [c \in Client |-> <<>>] /\ copied = [c \in Client |-> 0]
  /\ ticket_count = [c \in Client |-> 0]
  /\ list_tickets = [c \in Client |-> [i \in Index |-> 0]]
  /\ cards = [c \in Client |-> <<>>]
  /\ dialog = [c \in Client |-> NoDialog]
  /\ cancel = [c \in Client |-> <<>>]

-----------------------------------------------------------------------------
(* Other requests, of these or other applications. *)

\* CREATE NEW BOOKING and CREATE DETAIL BOOKING; no seat row may have gone in.
NewBooking(u, price, f, seats) ==
  /\ up
  /\ nextId <= MaxId
  /\ bookings' = bookings \cup {[id |-> nextId, user |-> u, price |-> price, flight |-> f]}
  /\ details' = details \cup {[booking |-> nextId, seat |-> s] : s \in seats}
  /\ nextId' = nextId + 1
  /\ UNCHANGED <<up, pc, then, server, app>>

-----------------------------------------------------------------------------
(* The application.  It sends a request and blocks in recv until the answer. *)

Free(c) == up /\ pc[c] = "idle"

GetListTicketsOrdered(c, next) ==
  /\ pc' = [pc EXCEPT ![c] = "query"]
  /\ then' = [then EXCEPT ![c] = next]

\* show_list_tickets; no screen but the dialog's own takes clicks meanwhile.
ShowListTickets(c) ==
  /\ Free(c)
  /\ dialog[c] = NoDialog
  /\ GetListTicketsOrdered(c, "show")
  /\ UNCHANGED <<storeVars, up, server, app>>

\* show_notification fetches the list to filter the announcements, and leaves
\* the cards on screen.
ShowNotification(c) ==
  /\ Free(c)
  /\ dialog[c] = NoDialog
  /\ GetListTicketsOrdered(c, "keep")
  /\ UNCHANGED <<storeVars, up, server, app>>

OnCancelClicked(c, i) ==
  /\ Free(c)
  /\ dialog[c] = NoDialog
  /\ dialog' = [dialog EXCEPT ![c] = [at |-> i, card |-> cards[c][i]]]
  /\ UNCHANGED <<storeVars, up, pc, then, server, ticket_count, list_tickets, cards, cancel>>

CancelByPlace(c, i) == i     \* variant: the number of the card is sent
CancelId(c, i) == list_tickets[c][i]

\* The dialog is answered: with Yes, the id is read through the card's
\* pointer now and the callback is queued (bound: one at a time).
DialogAnswered(c) ==
  /\ Free(c)
  /\ dialog[c] # NoDialog
  /\ dialog' = [dialog EXCEPT ![c] = NoDialog]
  /\ \/ UNCHANGED cancel
     \/ /\ cancel[c] = <<>>
        /\ cancel' = [cancel EXCEPT ![c] =
             <<[id |-> CancelId(c, dialog[c].at), card |-> dialog[c].card]>>]
  /\ UNCHANGED <<storeVars, up, pc, then, server, ticket_count, list_tickets, cards>>

\* DELETE BOOKING, whose answer is not looked at, then the list again.  The
\* main loop of a dialog runs callbacks too.
ExecuteCancel(c) ==
  /\ Free(c)
  /\ cancel[c] # <<>>
  /\ cancel' = [cancel EXCEPT ![c] = <<>>]
  /\ DeleteBooking(Head(cancel[c]).id) \/ StatementFails
  /\ GetListTicketsOrdered(c, "show")
  /\ UNCHANGED <<up, server, ticket_count, list_tickets, cards, dialog>>

-----------------------------------------------------------------------------
(* The server's thread of c *)

ProcessDies ==
  /\ up' = FALSE
  /\ UNCHANGED <<storeVars, pc, then, server, app>>

\* *count and *tickets, and the loop starts.
StartCopy(c, ids) ==
  /\ up /\ pc[c] = "query"
  /\ rows' = [rows EXCEPT ![c] = RowsOf[ids]]
  /\ copied' = [copied EXCEPT ![c] = 0]
  /\ count_ticket' = Cardinality(ids)
  /\ tickets' = [i \in 1..Cardinality(ids) |-> Garbage]
  /\ pc' = [pc EXCEPT ![c] = "copy"]
  /\ UNCHANGED <<storeVars, up, then, app>>

QueryBookingsAll(c) == StartCopy(c, BookingIds)     \* variant: no WHERE user_id
\* fetch_tickets: the SELECT of the user's bookings.
QueryBookings(c) == StartCopy(c, OwnIds(Owner[c]))

\* The database fails: fetch_tickets returns 1, which is printed only.
FetchFails(c) ==
  /\ up /\ pc[c] = "query"
  /\ pc' = [pc EXCEPT ![c] = "count"]
  /\ UNCHANGED <<storeVars, up, then, server, app>>

CopyRowPastEnd(c) ==     \* variant: <= num_rows
  /\ up /\ pc[c] = "copy"
  /\ IF copied[c] = Len(rows[c]) THEN ProcessDies
     ELSE /\ tickets' = [tickets EXCEPT ![copied[c] + 1] = rows[c][copied[c] + 1]]
          /\ copied' = [copied EXCEPT ![c] = @ + 1]
          /\ UNCHANGED <<storeVars, up, pc, then, count_ticket, rows, app>>

\* One turn of the loop.  get_seat_codes_by_booking_id, on a connection of its
\* own, finds the seats; (*tickets)[i] may be an element of a later array by
\* now, and of one too short, which is overrun.
CopyRow(c) ==
  LET i == copied[c] + 1 IN
  /\ up /\ pc[c] = "copy"
  /\ i \in DOMAIN rows[c]
  /\ HasSeats(rows[c][i])
  /\ \/ /\ i \in DOMAIN tickets
        /\ tickets' = [tickets EXCEPT ![i] = rows[c][i]]
     \/ i \notin DOMAIN tickets /\ UNCHANGED tickets
  /\ copied' = [copied EXCEPT ![c] = i]
  /\ UNCHANGED <<storeVars, up, pc, then, count_ticket, rows, app>>

\* NULL for a booking without seats, or when its connection fails: strncpy
\* reads it.  Overrunning an array may kill the process as well.
CopyRowDies(c) ==
  LET i == copied[c] + 1 IN
  /\ up /\ pc[c] = "copy"
  /\ i \in DOMAIN rows[c]
  /\ ~HasSeats(rows[c][i]) \/ i \notin DOMAIN tickets
  /\ ProcessDies

\* The end of fetch_tickets.
CopyDone(c) ==
  /\ up /\ pc[c] = "copy"
  /\ copied[c] = Len(rows[c])
  /\ rows' = [rows EXCEPT ![c] = <<>>] /\ copied' = [copied EXCEPT ![c] = 0]
  /\ pc' = [pc EXCEPT ![c] = "count"]
  /\ UNCHANGED <<storeVars, up, then, tickets, count_ticket, app>>

\* The application stores what it receives: count_ticket first.
SendCount(c) ==
  /\ up /\ pc[c] = "count"
  /\ ticket_count' = [ticket_count EXCEPT ![c] = count_ticket]
  /\ pc' = [pc EXCEPT ![c] = "list"]
  /\ UNCHANGED <<storeVars, up, then, server, list_tickets, cards, dialog, cancel>>

SentOneShort ==     \* variant: i < count_ticket - 1
  [i \in 1..(count_ticket - 1) |-> IF i \in DOMAIN tickets THEN tickets[i] ELSE Garbage]
\* format_tickets_to_string(tickets, count_ticket): a shorter array is overrun.
Sent == [i \in 1..count_ticket |-> IF i \in DOMAIN tickets THEN tickets[i] ELSE Garbage]

\* parse_buffer_to_tickets writes as many elements as the text has; for NO
\* TICKETS it is not called.
Parsed(c) == [i \in Index |-> IF i \in DOMAIN Sent THEN Sent[i] ELSE list_tickets[c][i]]

\* The list, or NO TICKETS; then create_booklist_window, if the list was
\* asked for by the screen.
SendList(c) ==
  /\ up /\ pc[c] = "list"
  /\ list_tickets' = [list_tickets EXCEPT ![c] = Parsed(c)]
  /\ cards' = IF then[c] = "show"
              THEN [cards EXCEPT ![c] = SubSeq(Parsed(c), 1, ticket_count[c])]
              ELSE cards
  /\ pc' = [pc EXCEPT ![c] = "idle"]
  /\ UNCHANGED <<storeVars, up, then, server, ticket_count, dialog, cancel>>

-----------------------------------------------------------------------------

Ask(c) ==
  \/ ShowListTickets(c) \/ ShowNotification(c)
  \/ \E i \in DOMAIN cards[c] : OnCancelClicked(c, i)
  \/ DialogAnswered(c) \/ ExecuteCancel(c)

Answer(c) == CopyRow(c) \/ CopyDone(c) \/ SendCount(c) \/ SendList(c)

Book(seats) == \E u \in User, p \in Price, f \in Flight : NewBooking(u, p, f, seats)

Next ==
  \/ \E seats \in SUBSET Seat : Book(seats)
  \/ \E c \in Client :
       Ask(c) \/ QueryBookings(c) \/ FetchFails(c) \/ Answer(c) \/ CopyRowDies(c)
Spec == Init /\ [][Next]_vars

\* One request at a time, on a database that answers and has the seats of
\* every booking.
Alone(c) == \A o \in Client \ {c} : pc[o] = "idle"
CalmNext ==
  \/ (\A c \in Client : pc[c] = "idle") /\ \E seats \in (SUBSET Seat) \ {{}} : Book(seats)
  \/ \E c \in Client : Alone(c) /\ (Ask(c) \/ QueryBookings(c) \/ Answer(c))
\* A thread that has work to do gets to run.
CalmSpec == Init /\ [][CalmNext]_vars
              /\ \A c \in Client : WF_vars(QueryBookings(c) \/ Answer(c))

\* The same, on a database that may refuse a SELECT.
FailingSpec == Init /\ [][CalmNext \/ \E c \in Client : Alone(c) /\ FetchFails(c)]_vars

-----------------------------------------------------------------------------
(* Properties *)

TypeOK ==
  /\ bookings \subseteq BookingRow /\ details \subseteq DetailRow(Seat) /\ nextId \in BookingId
  /\ up \in BOOLEAN
  /\ tickets \in Seq(Index \cup {Garbage}) /\ count_ticket \in 0..MaxId
  /\ pc \in [Client -> {"idle", "query", "copy", "count", "list"}]
  /\ then \in [Client -> {"show", "keep"}]
  /\ rows \in [Client -> Seq(Index)]
  /\ \A c \in Client : copied[c] \in 0..Len(rows[c])
  /\ ticket_count \in [Client -> 0..MaxId]
  /\ list_tickets \in [Client -> [Index -> Index \cup {0, Garbage}]]
  /\ cards \in [Client -> Seq(Index \cup {0, Garbage})]
  /\ dialog \in [Client -> [at : 0..MaxId, card : Index \cup {0, Garbage}]]
  /\ cancel \in [Client -> Seq([id : Index \cup {0, Garbage}, card : Index \cup {0, Garbage}])]

(* What the screen shows when a list has been fetched for it is, booking   *)
(* by booking, the list of the user's bookings (ticket.c:24-76,            *)
(* global.c:294-304, booklist.c:513-530).                                  *)
ScreenIsAccurate ==
  [][\A c \in Client :
       pc[c] = "list" /\ pc'[c] = "idle" /\ then[c] = "show" =>
         cards'[c] = RowsOf[OwnIds(Owner[c])]]_vars

(* Nobody is shown a booking of another user (server.c:259-271).           *)
OwnBookingsOnly ==
  \A c \in Client, b \in bookings :
    b.user # Owner[c] => \A i \in DOMAIN cards[c] : cards[c][i] # b.id

(* Only the owner of a booking cancels it: the server does not check, and  *)
(* an id comes through a pointer into an array that changes under it       *)
(* (booklist.c:316, 338; server.c:290-292).                                *)
OwnerCancels ==
  \A c \in Client : \A b \in bookings :
    (cancel[c] # <<>> /\ Head(cancel[c]).id = b.id) => b.user = Owner[c]

(* The booking a dialog cancels is the one on the card it was opened for   *)
(* (booklist.c:328-343).                                                   *)
CancelsShown == \A c \in Client : cancel[c] # <<>> => Head(cancel[c]).id = Head(cancel[c]).card

(* A list that is asked for arrives (server.c:258-273).                    *)
ListArrives == \A c \in Client : pc[c] = "query" ~> up /\ pc[c] = "idle"
=============================================================================
