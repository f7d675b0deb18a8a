--------------------------------- MODULE Wire ---------------------------------
(***************************************************************************)
(* The bytes between one application and its thread of the server.  TCP    *)
(* keeps them in order but not the limits of messages, and neither end     *)
(* marks where a message ends: each takes what one recv returns for one    *)
(* message (backend/server.c; frontend login.c, homepage.c, component.c,   *)
(* ticket_detail.c, global.c, my_account.c).                               *)
(*                                                                         *)
(* Bytes are counted in cells of 512.  A request or a number is taken to   *)
(* fit one cell, and a cell to arrive as a whole.  What the requests do is *)
(* the other modules'; a request whose answer is one text is a CALL.       *)
(***************************************************************************)
EXTENDS Integers, SequencesExt

CONSTANTS
  TextCells,   \* sizes of the lists of flights, bookings and announcements
  SeatCells,   \* sizes of the lists of taken seats
  MaxAsked     \* bound: requests ever sent

ASSUME WireAssumption ==
  TextCells \subseteq Nat \ {0} /\ SeatCells \subseteq Nat \ {0} /\ MaxAsked \in Nat

VARIABLES
  toServer,      \* cells sent by the application and not yet received
  toClient,      \* cells sent by the server and not yet received
  is_logged_in,  \* server: local of handle_client
  logged_in,     \* application: its screen is one behind the login
  asked,         \* the request it sent last: its kind, and how many there were
  awaits,        \* the recv it is in; "none": the GUI's main loop; "hung": see RecvCount
  ordered,       \* what the seat map knows of the seats that are taken
  cut, hasty     \* history, see below

vars == <<toServer, toClient, is_logged_in, logged_in, asked, awaits, ordered, cut, hasty>>

AtLogin  == {"REGISTER", "LOGIN"}
LoggedIn == {"LOGOUT", "FLIGHTS", "LIST", "SEATS", "CALL"}
Lists    == {"FLIGHTS", "LIST"}    \* LIST: of bookings or of announcements
Kind     == AtLogin \cup LoggedIn

ServerRead == 2    \* BUFFER_SIZE, 1024
ClientRead == 7    \* sizeof(buffer) - 1, 4095

CellsUneven == 7   \* variant: the buffer is 512 bytes shorter
LoginCells == 8    \* sizeof(buffer), 4096: LOGIN and REGISTER are sent with it

Init ==
  /\ toServer = <<>> /\ toClient = <<>>
  /\ is_logged_in = FALSE /\ logged_in = FALSE
  /\ asked = [kind |-> "CALL", no |-> 0]
  /\ awaits = "none"
  /\ ordered = "all"
  /\ cut = FALSE /\ hasty = FALSE

-----------------------------------------------------------------------------
(* The application sends *)

\* The text of a request, and the zeros behind it that are sent as well.
Cells(kind) ==
  [i \in 1..(IF kind \in AtLogin THEN LoginCells ELSE 1) |-> IF i = 1 THEN kind ELSE "zeros"]

FirstRecv(kind) ==
  CASE kind = "LOGOUT" -> "none"
    [] kind \in Lists  -> "count"
    [] kind = "SEATS"  -> "head"
    [] OTHER           -> "text"

\* A history of haste: the request comes while LOGOUT, which nobody waits
\* for, is still on its way.
Send(kind) ==
  /\ awaits = "none"
  /\ asked.no < MaxAsked
  /\ kind \in (IF logged_in THEN LoggedIn ELSE AtLogin)
  /\ asked' = [kind |-> kind, no |-> asked.no + 1]
  /\ awaits' = FirstRecv(kind)
  /\ toServer' = toServer \o Cells(kind)
  /\ logged_in' = (logged_in /\ kind # "LOGOUT")
  /\ hasty' = (hasty \/ Contains(toServer, "LOGOUT"))
  /\ UNCHANGED <<toClient, is_logged_in, ordered, cut>>

-----------------------------------------------------------------------------
(* The server's thread *)

\* The cells of one send, of the answer to the present request.
Sent(part, n) == [i \in 1..n |-> [to |-> asked.no, part |-> part, last |-> i = n]]

\* Behind the number of flights there is a text only if it is not 0, while no
\* bookings and no announcements have a text of their own.  NOTHING is sent
\* when no seat is taken, and also ("unread") when the query of them failed.
Answers(kind) ==
  CASE kind = "FLIGHTS" -> {Sent("count", 1) \o Sent("text", n) : n \in TextCells}
                              \cup {Sent("zero", 1)}
    [] kind = "LIST"  -> {Sent("count", 1) \o Sent("text", n) : n \in TextCells}
    [] kind = "SEATS" -> {Sent("head", 1) \o Sent("text", n) : n \in SeatCells}
                            \cup {Sent(part, 1) : part \in {"NOTHING", "unread"}}
    [] kind = "CALL"  -> {Sent("text", 1)}

HandleAcknowledged(kind) ==     \* variant: LOGOUT is answered
  \/ /\ ~is_logged_in /\ kind \in AtLogin
     /\ \E ok \in BOOLEAN :
          /\ is_logged_in' = (ok /\ kind = "LOGIN")
          /\ toClient' = toClient \o Sent(IF is_logged_in' THEN "SUCCESS" ELSE "text", 1)
  \/ /\ is_logged_in /\ kind = "LOGOUT"
     /\ is_logged_in' = FALSE
     /\ toClient' = toClient \o Sent("text", 1)
  \/ /\ is_logged_in /\ kind \in LoggedIn \ {"LOGOUT"}
     /\ \E answer \in Answers(kind) : toClient' = toClient \o answer
     /\ UNCHANGED is_logged_in
  \/ /\ kind \notin (IF is_logged_in THEN LoggedIn ELSE AtLogin)
     /\ UNCHANGED <<is_logged_in, toClient>>
\* A refused LOGIN, and REGISTER, have an answer and change nothing here.
\* Requests of the other session, and zeros, are ignored.
Handle(kind) ==
  \/ /\ ~is_logged_in /\ kind \in AtLogin
     /\ \E ok \in BOOLEAN :
          /\ is_logged_in' = (ok /\ kind = "LOGIN")
          /\ toClient' = toClient \o Sent(IF is_logged_in' THEN "SUCCESS" ELSE "text", 1)
  \/ /\ is_logged_in /\ kind = "LOGOUT"
     /\ is_logged_in' = FALSE
     /\ UNCHANGED toClient
  \/ /\ is_logged_in /\ kind \in LoggedIn \ {"LOGOUT"}
     /\ \E answer \in Answers(kind) : toClient' = toClient \o answer
     /\ UNCHANGED is_logged_in
  \/ /\ kind \notin (IF is_logged_in THEN LoggedIn ELSE AtLogin)
     /\ UNCHANGED <<is_logged_in, toClient>>

Least(m, n) == IF m < n THEN m ELSE n

\* One recv, and the request that its first bytes name; what comes behind it
\* in the buffer is not looked at.  When recv returns fewer bytes than there
\* are and the buffer takes, the network has cut what was sent.
ServerRecv ==
  /\ toServer # <<>>
  /\ \E n \in 1..Least(ServerRead, Len(toServer)) :
       /\ toServer' = SubSeq(toServer, n + 1, Len(toServer))
       /\ cut' = (cut \/ n < Least(ServerRead, Len(toServer)))
  /\ Handle(Head(toServer))
  /\ UNCHANGED <<logged_in, asked, awaits, ordered, hasty>>

-----------------------------------------------------------------------------
(* The application receives *)

\* A recv returns the first n cells.  The network has cut what was sent when
\* they end inside a message and the buffer has room for more of it.
Take(n) ==
  /\ toClient' = SubSeq(toClient, n + 1, Len(toClient))
  /\ cut' = (cut \/ (n < ClientRead /\ ~toClient[n].last))

Ends(n) == toClient[n].last /\ toClient[n].part = "text"     \* with the whole list

Mine == toClient # <<>> /\ Head(toClient).to = asked.no
Takable == 1..Least(ClientRead, Len(toClient))

\* What is left of an older answer is taken for the one awaited.  From here
\* on the application shows anything, or has died of it.
RecvForeign ==
  /\ awaits \notin {"none", "lost"}
  /\ toClient # <<>> /\ ~Mine
  /\ awaits' = "lost"
  /\ UNCHANGED <<toServer, toClient, is_logged_in, logged_in, asked, ordered, cut, hasty>>

\* sizeof(int) bytes, and then a recv of the text, whatever the number is:
\* behind the 0 of no flights nothing comes.
RecvCount ==
  /\ awaits = "count" /\ Mine
  /\ Take(1)
  /\ awaits' = IF Head(toClient).part = "zero" THEN "hung" ELSE "text"
  /\ UNCHANGED <<toServer, is_logged_in, logged_in, asked, ordered, hasty>>

\* Half a list is shown, or ends the application (parse_flight_data scans on).
RecvText ==
  /\ awaits = "text" /\ Mine
  /\ \E n \in Takable :
       /\ Take(n)
       /\ ordered' = IF asked.kind # "SEATS" THEN ordered ELSE IF Ends(n) THEN "all" ELSE "some"
       /\ awaits' \in {"none"} \cup {lost \in {"lost"} : asked.kind \in Lists /\ ~Ends(n)}
  /\ logged_in' = (logged_in \/ Head(toClient).part = "SUCCESS")
  /\ UNCHANGED <<toServer, is_logged_in, asked, hasty>>

AlwaysElsewhere(n) == TRUE      \* variant: as before the fix, a second recv always
NeverElsewhere(n) == FALSE      \* variant: the list is always behind the number
ListIsElsewhere(n) == n = 1

\* on_mouse_click_ticket_detail: NOTHING, or the number of seats, behind which
\* the list may have come along; if not, it is received now.
RecvHead ==
  /\ awaits = "head" /\ Mine
  /\ \E n \in Takable :
       /\ Take(n)
       /\ \/ /\ Head(toClient).part \in {"NOTHING", "unread"}
             /\ ordered' = IF Head(toClient).part = "NOTHING" THEN "all" ELSE "unread"
             /\ awaits' = "none"
          \/ /\ Head(toClient).part = "head" /\ ListIsElsewhere(n)
             /\ ordered' = "some"
             /\ awaits' = "text"
          \/ /\ Head(toClient).part = "head" /\ ~ListIsElsewhere(n)
             /\ ordered' = IF Ends(n) THEN "all" ELSE "some"
             /\ awaits' = "none"
  /\ UNCHANGED <<toServer, is_logged_in, logged_in, asked, hasty>>

-----------------------------------------------------------------------------

ClientRecv == RecvCount \/ RecvText \/ RecvHead \/ RecvForeign

Next == (\E kind \in Kind : Send(kind)) \/ ServerRecv \/ ClientRecv

\* A recv returns when there is something to receive.
Spec == Init /\ [][Next]_vars /\ WF_vars(ServerRecv) /\ WF_vars(ClientRecv)

-----------------------------------------------------------------------------
(* Properties *)

TypeOK ==
  /\ toServer \in Seq(Kind \cup {"zeros"})
  /\ toClient \in Seq([to : 1..MaxAsked, last : BOOLEAN,
                       part : {"count", "zero", "text", "head", "NOTHING", "unread", "SUCCESS"}])
  /\ is_logged_in \in BOOLEAN /\ logged_in \in BOOLEAN
  /\ asked \in [kind : Kind, no : 0..MaxAsked]
  /\ awaits \in {"none", "count", "text", "head", "lost", "hung"}
  /\ awaits = "count" => asked.kind \in Lists
  /\ awaits = "head" => asked.kind = "SEATS"
  /\ awaits = "text" => asked.kind # "LOGOUT"
  /\ ordered \in {"all", "some", "unread"}
  /\ cut \in BOOLEAN /\ hasty \in BOOLEAN

(* Nothing separates one answer from the next, and a list may come in one  *)
(* piece with the number before it.  Still, unless the network cuts a      *)
(* message in two, the application never takes what is left of one answer  *)
(* for another, and never parses half a list (homepage.c:41-48,            *)
(* component.c:33-41, global.c:294-303, ticket_detail.c:82-138).           *)
MixUpNeedsCut == awaits = "lost" => cut

(* The seat map that opens knows every seat that was taken, whether the    *)
(* list came with its number or behind it, and never a part of them: a     *)
(* list of which a piece is lost would offer taken seats.  The exception   *)
(* is the server's query: when it fails the map is told what it is told    *)
(* when no seat is taken, and knows none (ticket_detail.c:86-138,          *)
(* server.c:215-252, flight.c:137-165).                                    *)
SeatsComplete == awaits = "none" /\ ~cut => ordered \in {"all", "unread"}

(* LOGIN is sent with 4096 bytes, of which the server takes 1024 at a time *)
(* and ignores what follows the first, and LOGOUT is not answered.  When   *)
(* everything has arrived, the two ends agree whether someone is logged    *)
(* in, unless the network cut a message or the user was faster than the    *)
(* server's reading of LOGOUT (login.c:81, my_account.c:50-51,             *)
(* server.c:130-145, 188-203).                                             *)
SessionsAgree ==
  awaits = "none" /\ toServer = <<>> /\ ~cut /\ ~hasty => logged_in = is_logged_in

(* A request gets its answer and the GUI goes on, under the same two       *)
(* conditions and one more: the list of flights was not answered with the  *)
(* number 0, behind which homepage.c:43 waits for ever.  In particular the *)
(* second recv of the seats is not entered when the list came along with   *)
(* the number, the hang that a comment calls fixed (ticket_detail.c:85).   *)
Answered ==
  awaits \in {"count", "text", "head"} ~>
    \/ awaits \in {"none", "lost"} \/ cut \/ hasty
    \/ awaits = "hung" /\ asked.kind = "FLIGHTS"
=============================================================================
