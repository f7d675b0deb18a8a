---------------------------- MODULE BookingServer ---------------------------
(***************************************************************************)
(* backend/server.c: main accepts connections and starts one thread per    *)
(* connection; every thread runs handle_client.  A thread keeps its        *)
(* session (is_logged_in, user_id) and the last message (buffer) on its    *)
(* own stack, but parses requests into the globals of lines 18-32 and      *)
(* tokenises with strtok, whose position is one static pointer of the C    *)
(* library.  Nothing locks them.                                           *)
(*                                                                         *)
(* One action is one step of a thread between two accesses to that shared  *)
(* state: a library call that writes a global (sscanf, strtok), the        *)
(* evaluation of a call's arguments, a statement on the tables.            *)
(*                                                                         *)
(* This module has the requests that change the tables or the session:     *)
(* LOGIN, LOGOUT, CREATE NEW BOOKING, CREATE DETAIL BOOKING and DELETE     *)
(* BOOKING.  seat_list is kept byte by byte: seat codes have two widths    *)
(* ("2A", "12A"), so another thread's text may put its NUL, its commas and *)
(* the middle of its codes where this thread's pointers are.               *)
(***************************************************************************)
EXTENDS BookingStore, Sequences

CONSTANTS
  Thread,     \* the connection slots, each served by one thread at a time
  Char,       \* the bytes seat codes are made of
  Size,       \* the bytes of seat_list (BUFFER_SIZE)
  SeatLists,  \* the lists the application sends: codes between commas
  MaxId,      \* bound: the number of bookings ever made
  Junk,       \* a text nobody meant: parts of another connection's message
  None        \* NULL; also the place of seat_list among the strtok buffers

\* A seat is the row of bytes its code is written with.
Comma == ","
NUL   == "NUL"
Byte  == Char \cup {Comma, NUL}

\* The bytes of m from i on are those of the code s.
Spelled(m, i, s) == \A k \in DOMAIN s : m[i + k - 1] = s[k]

\* m[i..j-1] is a whole code: a comma or an end of m on both sides.
IsCode(m, i, j) ==
  /\ i \in 1..Len(m) /\ j \in (i + 1)..(Len(m) + 1)
  /\ i = 1 \/ m[i - 1] = Comma
  /\ j = Len(m) + 1 \/ m[j] = Comma
  /\ \A k \in i..(j - 1) : m[k] # Comma

\* The list m names the seat s.
Names(m, s) ==
  \E i, j \in 1..(Len(m) + 1) : IsCode(m, i, j) /\ j = i + Len(s) /\ Spelled(m, i, s)

ASSUME CharAssumption == NUL \notin Char /\ Comma \notin Char
ASSUME SeatAssumption == Seat \subseteq Seq(Char) \ {<<>>}
ASSUME SizeAssumption == Size \in Nat \ {0}
ASSUME SeatListsAssumption ==
  \A m \in SeatLists :
    /\ m \in Seq(Char \cup {Comma}) /\ Len(m) \in 1..(Size - 1)
    /\ m[1] # Comma /\ m[Len(m)] # Comma
    /\ \A k \in 2..Len(m) : m[k - 1] = Comma => m[k] # Comma
    /\ \A i, j \in 1..(Len(m) + 1) :
         IsCode(m, i, j) => \E s \in Seat : j = i + Len(s) /\ Spelled(m, i, s)
ASSUME MaxIdAssumption    == MaxId \in Nat
ASSUME MarksAssumption    ==
  \A mark \in {Junk, None} :
    mark \notin User \cup Flight \cup Price \cup Thread \cup Nat /\ mark \notin Seat

VARIABLES
  up,           \* the server process runs
  pc,           \* where in handle_client the thread of a slot is
  is_logged_in, \* local of handle_client
  user_id,      \* local of handle_client (line 117 hides the global one)
  request,      \* buffer: the last message received on the connection
  reply,        \* what was sent in answer to it
  credential,   \* email and password, the locals LOGIN copies tokens to
  price_arg,    \* argument of a call under way: the price for insert_booking
  id_arg,       \* the id mysql_insert_id gave, or insert_booking_detail's
  seat,         \* seat: a place in seat_list, or a pointer elsewhere
  token,        \* global: what the last strtok of some LOGIN returned
  total_price,  \* global
  flight_id,    \* global
  booking_id,   \* global
  seat_list,    \* global: its bytes
  strtok        \* static pointer of strtok: buffer and position

session == <<is_logged_in, user_id>>
locals  == <<credential, price_arg, id_arg, seat>>
globals == <<token, total_price, flight_id, booking_id, seat_list, strtok>>
vars == <<storeVars, up, pc, session, request, reply, locals, globals>>

-----------------------------------------------------------------------------
(* Messages *)

LoginRequest  == [op : {"login"}, user : User]
CreateRequest == [op : {"create"}, user : User, price : Price, flight : Flight]
DetailRequest == [op : {"detail"}, booking : BookingId, seats : SeatLists]
DeleteRequest == [op : {"delete"}, booking : BookingId]
Request == LoginRequest \cup CreateRequest \cup DetailRequest
             \cup DeleteRequest \cup [op : {"logout", "none", "eof"}]

Reply == [kind : {"none", "ok", "failed"}] \cup [kind : {"created"}, id : Nat]
           \cup [kind : {"welcome"}, user : User]
NoReply == [kind |-> "none"]
NoRequest == [op |-> "none"]

\* What a pointer into a LOGIN message reads as, once copied.
Word == [field : {"email", "password"}, user : User] \cup {Junk}

SeatText == Seat \cup {Junk}

-----------------------------------------------------------------------------
(* strtok.  A position in seat_list is the number of a byte; in the        *)
(* message of a LOGIN, k is its k-th token.                                *)

LoginTokens == 2

ASSUME TokensAssumption ==
  \A mark \in {Junk, None} : mark \notin [of : Thread, at : 1..LoginTokens]

\* What strtok(., ",") finds from byte p of seat_list on: behind the commas
\* it skips, a token from byte i up to byte j, a comma or a NUL ...
TokenFrom(p, i, j) ==
  /\ p <= i /\ i < j
  /\ \A k \in p..(i - 1) : seat_list[k] = Comma
  /\ \A k \in i..(j - 1) : seat_list[k] \in Char
  /\ seat_list[j] \notin Char

\* ... or nothing but commas, up to the NUL at byte i.
NoTokenFrom(p, i) ==
  /\ p <= i
  /\ \A k \in p..(i - 1) : seat_list[k] = Comma
  /\ seat_list[i] = NUL

\* strtok returns what ends at byte j: a NUL is put there, and the position
\* is behind it, or stays on it when it ended the text already.
CutAt(j) ==
  /\ seat_list' = [seat_list EXCEPT ![j] = NUL]
  /\ strtok' = [buf |-> None, at |-> IF seat_list[j] = Comma THEN j + 1 ELSE j]

\* sscanf("%s") into seat_list overwrites its beginning, and only that.
WriteSeatList(m) ==
  seat_list' = [k \in 1..Size |-> IF k \in DOMAIN m THEN m[k]
                                  ELSE IF k = Len(m) + 1 THEN NUL ELSE seat_list[k]]

\* The text of a LOGIN is still in c's buffer.
InBuffer(c) == request[c].op = "login"

-----------------------------------------------------------------------------
(* The process and its connections *)

All(value) == [t \in Thread |-> value]

NoSeats == [k \in 1..Size |-> NUL]

AtEnd == [buf |-> None, at |-> Size]

Init ==
  /\ StoreInit
  /\ up = TRUE
  /\ pc = All("closed")
  /\ is_logged_in = All(FALSE) /\ user_id = All(None)
  /\ request = All(NoRequest) /\ reply = All(NoReply)
  /\ credential = All(<<>>) /\ price_arg = All(None)
  /\ id_arg = All(0) /\ seat = All(None)
  /\ token = None /\ total_price = None /\ flight_id = None /\ booking_id = 0
  /\ seat_list = NoSeats /\ strtok = AtEnd

Goto(t, here, there) ==
  /\ pc[t] = here
  /\ pc' = [pc EXCEPT ![t] = there]

\* The process dies, of a NULL pointer or killed: threads and globals are
\* gone, the tables stay.
ProcessDies ==
  /\ up' = FALSE
  /\ pc' = All("closed")
  /\ is_logged_in' = All(FALSE) /\ user_id' = All(None)
  /\ request' = All(NoRequest) /\ reply' = All(NoReply)
  /\ credential' = All(<<>>) /\ price_arg' = All(None)
  /\ id_arg' = All(0) /\ seat' = All(None)
  /\ token' = None /\ total_price' = None /\ flight_id' = None /\ booking_id' = 0
  /\ seat_list' = NoSeats /\ strtok' = AtEnd
  /\ UNCHANGED storeVars

Killed == up /\ ProcessDies

\* main: the server is started again.
Restart ==
  /\ ~up
  /\ up' = TRUE
  /\ UNCHANGED <<storeVars, pc, session, request, reply, locals, globals>>

\* accept and pthread_create: a thread with an empty session.
Accept(t) ==
  /\ up
  /\ Goto(t, "closed", "idle")
  /\ is_logged_in' = [is_logged_in EXCEPT ![t] = FALSE]
  /\ user_id' = [user_id EXCEPT ![t] = None]
  /\ request' = [request EXCEPT ![t] = NoRequest]
  /\ reply' = [reply EXCEPT ![t] = NoReply]
  /\ UNCHANGED <<storeVars, up, locals, globals>>

\* The application pads LOGIN to 4096 bytes (login.c:81) and the server has
\* read 1024 of them: the zeros of a later recv replace a refused LOGIN in
\* buffer, and are no command.
ReadPadding(t) ==
  /\ pc[t] = "idle" /\ ~is_logged_in[t]
  /\ request[t].op = "login"
  /\ request' = [request EXCEPT ![t] = NoRequest]
  /\ UNCHANGED <<storeVars, up, pc, session, reply, locals, globals>>

\* The client goes away.  Logged in, recv returns 0 and the thread ends.
\* Not logged in, the result of recv is not looked at and the last message
\* is parsed once more: for ever when it is no LOGIN.  A LOGIN whose padding
\* never came has been cut at its blank, so strtok starts at its end.
Disconnect(t) ==
  /\ UNCHANGED <<storeVars, up, session, reply, price_arg, id_arg, seat,
                 total_price, flight_id, booking_id, seat_list>>
  /\ \/ /\ is_logged_in[t]
        /\ Goto(t, "idle", "closed")
        /\ UNCHANGED <<request, token, strtok, credential>>
     \/ /\ ~is_logged_in[t]
        /\ request[t].op \in {"login", "eof"}
        /\ Goto(t, "idle", "auth")
        /\ request' = [request EXCEPT ![t] = [op |-> "eof"]]
        /\ token' = Junk
        /\ strtok' = [buf |-> t, at |-> LoginTokens + 1]
        /\ credential' = [credential EXCEPT ![t] = <<>>]
     \/ /\ ~is_logged_in[t]
        /\ request[t].op \notin {"login", "eof"}
        /\ Goto(t, "idle", "spin")
        /\ UNCHANGED <<request, token, strtok, credential>>

\* recv returns a message while the thread waits.
Receive(t, r, there) ==
  /\ Goto(t, "idle", there)
  /\ request[t].op # "eof"
  /\ request' = [request EXCEPT ![t] = r]
  /\ reply' = [reply EXCEPT ![t] = NoReply]

Answer(t, message) == reply' = [reply EXCEPT ![t] = message]

\* Back to recv; a thread that is logged in clears its buffer first.
Clear(t) == request' = [request EXCEPT ![t] = NoRequest]

-----------------------------------------------------------------------------
(* LOGIN and LOGOUT *)

\* recv, and strtok(buffer, " ") for the word LOGIN.
Login(t, u) ==
  /\ ~is_logged_in[t]
  /\ Receive(t, [op |-> "login", user |-> u], "auth")
  /\ strtok' = [buf |-> t, at |-> 1]
  /\ token' = Junk
  /\ credential' = [credential EXCEPT ![t] = <<>>]
  /\ UNCHANGED <<storeVars, up, session, price_arg, id_arg, seat, total_price,
                 flight_id, booking_id, seat_list>>

\* token = strtok(NULL, ":"), wherever strtok's position now points.
LoginToken(t) ==
  /\ Goto(t, "auth", "copy")
  /\ UNCHANGED <<storeVars, up, session, request, reply, locals, total_price,
                 flight_id, booking_id, seat_list>>
  /\ \/ /\ strtok.buf = None      \* in seat_list, which has no ":": up to a NUL
        /\ \E j \in strtok.at..Size :
             /\ seat_list[j] = NUL
             /\ \A k \in strtok.at..(j - 1) : seat_list[k] # NUL
             /\ token' = IF j = strtok.at THEN None ELSE Junk
             /\ strtok' = [buf |-> None, at |-> j]
     \/ \E c \in Thread :         \* inside the message of c, usually t itself
          /\ strtok.buf = c
          /\ IF InBuffer(c) /\ strtok.at <= LoginTokens
             THEN /\ token' = [of |-> c, at |-> strtok.at]
                  /\ strtok' = [buf |-> c, at |-> strtok.at + 1]
             ELSE /\ token' \in (IF InBuffer(c) \/ c = t THEN {None} ELSE {None, Junk})
                  /\ UNCHANGED strtok

\* What strcpy reads through token: the message it points into may be gone.
TokenText ==
  IF token = Junk \/ ~InBuffer(token.of) THEN Junk
  ELSE [field |-> IF token.at = 1 THEN "email" ELSE "password",
        user  |-> request[token.of].user]

\* strcpy(email, token), strcpy(password, token): token is read again, and
\* is NULL when a LOGIN had too few tokens.  Nothing reads token between
\* this and the next strtok of a LOGIN: the model forgets it.
CopyToken(t) ==
  /\ pc[t] = "copy"
  /\ \/ token = None /\ ProcessDies
     \/ /\ token # None
        /\ credential' = [credential EXCEPT ![t] = Append(@, TokenText)]
        /\ Goto(t, "copy", IF Len(credential[t]) + 1 = LoginTokens
                           THEN "check_login" ELSE "auth")
        /\ token' = IF \E o \in Thread \ {t} : pc[o] = "copy" THEN token ELSE None
        /\ UNCHANGED <<storeVars, up, session, request, reply, price_arg, id_arg, seat,
                       total_price, flight_id, booking_id, seat_list, strtok>>

CheckLoginAnyRow(t) ==     \* variant: strcmp of the email forgotten
  /\ Goto(t, "check_login", "idle")
  /\ credential' = [credential EXCEPT ![t] = <<>>]
  /\ UNCHANGED <<storeVars, up, price_arg, id_arg, seat, globals>>
  /\ \E u \in User :
       /\ is_logged_in' = [is_logged_in EXCEPT ![t] = TRUE]
       /\ user_id' = [user_id EXCEPT ![t] = u]
       /\ Answer(t, [kind |-> "welcome", user |-> u])
       /\ Clear(t)

\* checkEmailExist, login_user and the reply.  A wrong password and a
\* failing database refuse.
CheckLogin(t) ==
  /\ Goto(t, "check_login", "idle")
  /\ credential' = [credential EXCEPT ![t] = <<>>]
  /\ UNCHANGED <<storeVars, up, price_arg, id_arg, seat, globals>>
  /\ \/ /\ Answer(t, [kind |-> "failed"])
        /\ UNCHANGED <<session, request>>
     \/ \E u \in User :
          /\ credential[t] = <<[field |-> "email", user |-> u],
                               [field |-> "password", user |-> u]>>
          /\ is_logged_in' = [is_logged_in EXCEPT ![t] = TRUE]
          /\ user_id' = [user_id EXCEPT ![t] = u]
          /\ Answer(t, [kind |-> "welcome", user |-> u])
          /\ Clear(t)

\* LOGOUT is not answered.
Logout(t) ==
  /\ is_logged_in[t]
  /\ Receive(t, [op |-> "logout"], "idle")
  /\ is_logged_in' = [is_logged_in EXCEPT ![t] = FALSE]
  /\ user_id' = [user_id EXCEPT ![t] = None]
  /\ UNCHANGED <<storeVars, up, locals, globals>>

-----------------------------------------------------------------------------
(* CREATE NEW BOOKING *)

CreateNewBookingUnparsed(t, price, flight) ==     \* variant: sscanf forgotten
  /\ is_logged_in[t]
  /\ Receive(t, [op |-> "create", user |-> user_id[t], price |-> price,
                 flight |-> flight], "call_insert_booking")
  /\ flight_id' = IF flight_id = None THEN flight ELSE flight_id
  /\ UNCHANGED <<storeVars, up, session, locals, token, total_price, booking_id,
                 seat_list, strtok>>

\* recv, sscanf into total_price, the local user_id and flight_id.
CreateNewBooking(t, price, flight) ==
  /\ is_logged_in[t]
  /\ Receive(t, [op |-> "create", user |-> user_id[t], price |-> price,
                 flight |-> flight], "call_insert_booking")
  /\ total_price' = price
  /\ flight_id' = flight
  /\ UNCHANGED <<storeVars, up, session, locals, token, booking_id, seat_list,
                 strtok>>

\* The call copies total_price; flight_id is passed as a pointer.
CallInsertBooking(t) ==
  /\ Goto(t, "call_insert_booking", "insert_booking")
  /\ price_arg' = [price_arg EXCEPT ![t] = total_price]
  /\ UNCHANGED <<storeVars, up, session, request, reply, credential, id_arg, seat,
                 globals>>

\* The user argument of insert_booking is the local, not the global.
BookerGlobal(t) ==     \* variant: the local of line 117 is dropped
  IF \E o \in Thread \ {t} : user_id[o] # None
  THEN CHOOSE u \in User : \E o \in Thread \ {t} : u = user_id[o]
  ELSE user_id[t]
Booker(t) == user_id[t]

\* The query text is made from what flight_id holds now, and executed.
InsertNewBooking(t) ==
  /\ pc[t] = "insert_booking"
  /\ price_arg' = [price_arg EXCEPT ![t] = None]
  /\ UNCHANGED <<up, session, credential, seat, globals>>
  /\ \/ /\ InsertBooking(Booker(t), price_arg[t], flight_id)
        /\ id_arg' = [id_arg EXCEPT ![t] = nextId]
        /\ Goto(t, "insert_booking", "store_insert_id")
        /\ UNCHANGED <<request, reply>>
     \/ /\ StatementFails
        /\ Goto(t, "insert_booking", "idle")
        /\ Answer(t, [kind |-> "failed"])
        /\ Clear(t)
        /\ UNCHANGED id_arg

StoreInsertIdLost(t) ==     \* variant: the id stays in a local of insert_booking
  /\ Goto(t, "store_insert_id", "answer_booking")
  /\ UNCHANGED <<storeVars, up, session, request, reply, locals, globals>>

\* *insert_id = mysql_insert_id(conn), where insert_id points to booking_id.
StoreInsertId(t) ==
  /\ Goto(t, "store_insert_id", "answer_booking")
  /\ booking_id' = id_arg[t]
  /\ UNCHANGED <<storeVars, up, session, request, reply, locals, token, total_price,
                 flight_id, seat_list, strtok>>

\* snprintf of the answer reads booking_id again.
AnswerBooking(t) ==
  /\ Goto(t, "answer_booking", "idle")
  /\ Answer(t, [kind |-> "created", id |-> booking_id])
  /\ Clear(t)
  /\ id_arg' = [id_arg EXCEPT ![t] = 0]
  /\ UNCHANGED <<storeVars, up, session, credential, price_arg, seat, globals>>

-----------------------------------------------------------------------------
(* DELETE BOOKING *)

DeleteBookingUnparsed(t, id) ==     \* variant: sscanf forgotten
  /\ is_logged_in[t]
  /\ Receive(t, [op |-> "delete", booking |-> id], "call_delete_booking")
  /\ UNCHANGED <<storeVars, up, session, locals, globals>>

\* recv, sscanf into booking_id.
DeleteBookingRequest(t, id) ==
  /\ is_logged_in[t]
  /\ Receive(t, [op |-> "delete", booking |-> id], "call_delete_booking")
  /\ booking_id' = id
  /\ UNCHANGED <<storeVars, up, session, locals, token, total_price, flight_id,
                 seat_list, strtok>>

CallDeleteBookingBlind(t) ==     \* variant: affected rows not looked at
  /\ Goto(t, "call_delete_booking", "idle")
  /\ Clear(t)
  /\ UNCHANGED <<up, session, locals, globals>>
  /\ DeleteBooking(booking_id)
  /\ Answer(t, [kind |-> "ok"])

\* delete_booking(booking_id): no row affected counts as a failure.
CallDeleteBooking(t) ==
  /\ Goto(t, "call_delete_booking", "idle")
  /\ Clear(t)
  /\ UNCHANGED <<up, session, locals, globals>>
  /\ \/ /\ booking_id \in BookingIds
        /\ DeleteBooking(booking_id)
        /\ Answer(t, [kind |-> "ok"])
     \/ /\ StatementFails
        /\ Answer(t, [kind |-> "failed"])

-----------------------------------------------------------------------------
(* CREATE DETAIL BOOKING *)

CreateDetailStaleId(t, id, seats) ==     \* variant: the booking id is not parsed
  /\ is_logged_in[t]
  /\ Receive(t, [op |-> "detail", booking |-> id, seats |-> seats], "first_seat")
  /\ WriteSeatList(seats)
  /\ UNCHANGED <<storeVars, up, session, locals, token, total_price, flight_id,
                 booking_id, strtok>>

\* recv, sscanf into booking_id and seat_list.
CreateDetailBooking(t, id, seats) ==
  /\ is_logged_in[t]
  /\ Receive(t, [op |-> "detail", booking |-> id, seats |-> seats], "first_seat")
  /\ booking_id' = id
  /\ WriteSeatList(seats)
  /\ UNCHANGED <<storeVars, up, session, locals, token, total_price, flight_id, strtok>>

\* seat = strtok(seat_list, ",")
FirstSeat(t) ==
  /\ Goto(t, "first_seat", "call_insert_detail")
  /\ \E i, j \in 1..Size :
       /\ TokenFrom(1, i, j)
       /\ seat' = [seat EXCEPT ![t] = i]
       /\ CutAt(j)
  /\ UNCHANGED <<storeVars, up, session, request, reply, credential, price_arg,
                 id_arg, token, total_price, flight_id, booking_id>>

\* insert_booking_detail(booking_id, ..., seat) copies booking_id; seat is a
\* pointer.
CallInsertDetail(t) ==
  /\ Goto(t, "call_insert_detail", "insert_detail")
  /\ id_arg' = [id_arg EXCEPT ![t] = booking_id]
  /\ UNCHANGED <<storeVars, up, session, request, reply, credential, price_arg,
                 seat, globals>>

\* What the query text gets for seat, the bytes up to a NUL: a seat's code,
\* or Junk (a piece of a code, several codes, or no text at all).
SeatsRead(t) ==
  {s \in Seat : /\ seat[t] # Junk
                /\ seat[t] + Len(s) <= Size
                /\ Spelled(seat_list, seat[t], s) /\ seat_list[seat[t] + Len(s)] = NUL}

TextsRead(t) == IF SeatsRead(t) = {} THEN {Junk} ELSE SeatsRead(t)

\* A failed insert is logged, and the loop goes on.
InsertBookingDetail(t) ==
  /\ Goto(t, "insert_detail", "next_seat")
  /\ (\E text \in TextsRead(t) : InsertDetail(id_arg[t], text)) \/ StatementFails
  /\ id_arg' = [id_arg EXCEPT ![t] = 0]
  /\ UNCHANGED <<up, session, request, reply, credential, price_arg, seat, globals>>

EndOrRepeatUnchecked(t) ==     \* variant: the loop does not look for NULL
  Goto(t, "next_seat", "call_insert_detail") /\ UNCHANGED <<request, reply>>

\* SUCCESS is sent when there is no next seat, whatever happened in the loop.
EndOrRepeat(t) ==
  IF seat'[t] = None
  THEN Goto(t, "next_seat", "idle") /\ Answer(t, [kind |-> "ok"]) /\ Clear(t)
  ELSE Goto(t, "next_seat", "call_insert_detail") /\ UNCHANGED <<request, reply>>

\* seat = strtok(NULL, ","), wherever strtok's position now points.
NextSeat(t) ==
  /\ pc[t] = "next_seat"
  /\ \/ /\ strtok.buf = None
        /\ \E i, j \in 1..Size :
             /\ TokenFrom(strtok.at, i, j)
             /\ seat' = [seat EXCEPT ![t] = i]
             /\ CutAt(j)
     \/ /\ strtok.buf = None
        /\ \E i \in 1..Size :
             /\ NoTokenFrom(strtok.at, i)
             /\ seat' = [seat EXCEPT ![t] = None]
             /\ strtok' = [buf |-> None, at |-> i]
        /\ UNCHANGED seat_list
     \/ \E c \in Thread, p \in {None, Junk} :    \* inside another message
          /\ strtok.buf = c
          /\ InBuffer(c) => p = (IF strtok.at > LoginTokens THEN None ELSE Junk)
          /\ seat' = [seat EXCEPT ![t] = p]
          /\ strtok' = [buf |-> c, at |-> LoginTokens + 1]
          /\ UNCHANGED seat_list
  /\ EndOrRepeat(t)
  /\ UNCHANGED <<storeVars, up, session, credential, price_arg, id_arg,
                 token, total_price, flight_id, booking_id>>

-----------------------------------------------------------------------------
(* What clients send: the application asks for the seats of a booking right *)
(* after it is told the booking's id (global.c:536-549), and cancels        *)
(* bookings of its user's list, which may have gone since it was fetched.   *)

Told(t) == reply[t].kind = "created"

Cancellable(t) == {i \in 1..(nextId - 1) :
                     \A b \in bookings : b.id = i => b.user = user_id[t]}

Ask(t) ==
  \/ \E u \in User : Login(t, u)
  \/ ~Told(t) /\ Logout(t)
  \/ /\ ~Told(t)
     /\ nextId <= MaxId
     /\ \E p \in Price, f \in Flight : CreateNewBooking(t, p, f)
  \/ Told(t) /\ \E m \in SeatLists : CreateDetailBooking(t, reply[t].id, m)
  \/ ~Told(t) /\ \E i \in Cancellable(t) : DeleteBookingRequest(t, i)

Handle(t) ==
  \/ LoginToken(t) \/ CopyToken(t) \/ CheckLogin(t)
  \/ CallInsertBooking(t) \/ InsertNewBooking(t) \/ StoreInsertId(t) \/ AnswerBooking(t)
  \/ CallDeleteBooking(t)
  \/ FirstSeat(t) \/ CallInsertDetail(t) \/ InsertBookingDetail(t) \/ NextSeat(t)

Step(t) == Accept(t) \/ ReadPadding(t) \/ Disconnect(t) \/ Ask(t) \/ Handle(t)

Next == Killed \/ Restart \/ \E t \in Thread : Step(t)

Spec == Init /\ [][Next]_vars

\* One life of the server process: it may crash, and is not started again.
OneLifeNext == \E t \in Thread : Step(t)
OneLifeSpec == Init /\ [][OneLifeNext]_vars

\* The same server as long as no message arrives while another is handled.
Waiting(t) == pc[t] \in {"closed", "idle", "spin"}
SerialNext ==
  Killed \/ Restart \/ \E t \in Thread : (\A o \in Thread \ {t} : Waiting(o)) /\ Step(t)
SerialSpec == Init /\ [][SerialNext]_vars

-----------------------------------------------------------------------------
(* Properties *)

TypeOK ==
  /\ bookings \subseteq BookingRow
  /\ details \subseteq DetailRow(SeatText)
  /\ nextId \in BookingId
  /\ up \in BOOLEAN
  /\ pc \in [Thread -> {"closed", "idle", "spin", "auth", "copy", "check_login",
                        "call_insert_booking", "insert_booking", "store_insert_id",
                        "answer_booking", "call_delete_booking", "first_seat",
                        "call_insert_detail", "insert_detail", "next_seat"}]
  /\ is_logged_in \in [Thread -> BOOLEAN]
  /\ user_id \in [Thread -> User \cup {None}]
  /\ request \in [Thread -> Request]
  /\ reply \in [Thread -> Reply]
  /\ credential \in [Thread -> Seq(Word)]
  /\ price_arg \in [Thread -> Price \cup {None}]
  /\ id_arg \in [Thread -> Nat]
  /\ seat \in [Thread -> 1..Size \cup {None, Junk}]
  /\ token \in [of : Thread, at : 1..LoginTokens] \cup {None, Junk}
  /\ total_price \in Price \cup {None}
  /\ flight_id \in Flight \cup {None}
  /\ booking_id \in Nat
  /\ seat_list \in [1..Size -> Byte]
  /\ strtok \in [buf : Thread \cup {None}, at : Nat \ {0}]

\* The text read from byte p of seat_list on ends inside it.
EndsInside(p) == p \in 1..Size /\ \E k \in p..Size : seat_list[k] = NUL

(* However the threads overwrite and cut the one list, no text is read     *)
(* beyond it: strtok's position, and the seat that is about to be inserted *)
(* (never NULL, though it may be empty, a piece of a code or several       *)
(* codes), are on text that ends inside seat_list, and the first strtok of *)
(* a request finds a token there (server.c:313-326).                       *)
StrtokStaysInList ==
  /\ strtok.buf = None => EndsInside(strtok.at)
  /\ \A t \in Thread :
       /\ pc[t] = "first_seat" => seat_list[1] \in Char
       /\ pc[t] \in {"call_insert_detail", "insert_detail"} =>
            seat[t] = Junk \/ EndsInside(seat[t])

\* The thread that takes the step, when it is one of a handler.
Moves(t) == pc[t] # "idle" /\ pc'[t] # pc[t]

(* However requests interleave, a booking belongs to the user whose        *)
(* connection asked for it: user_id is the one field of CREATE NEW BOOKING *)
(* that is parsed into a local (server.c:117, 301).                        *)
BookingUserIsRequester ==
  [][\A b \in bookings' \ bookings : \E t \in Thread :
       Moves(t) /\ request[t].op = "create" /\ request[t].user = b.user]_vars

(* However requests interleave, CREATE NEW BOOKING answers with an id that *)
(* was given to some booking (server.c:303-305, booking.c:27).             *)
AnsweredIdWasIssued ==
  \A t \in Thread : Told(t) => reply[t].id \in 1..(nextId - 1)

(* CREATE NEW BOOKING answers with the id of the booking it has inserted   *)
(* (server.c:305).                                                         *)
AnswerNamesOwnBooking ==
  [][\A t \in Thread : Told(t)' /\ ~Told(t) => reply'[t].id = id_arg[t]]_vars

(* A booking carries the price and the flight of the request it was        *)
(* inserted for, not those of another one (server.c:301-303).              *)
BookingAsAsked ==
  [][\A b \in bookings' \ bookings : \E t \in Thread :
       Moves(t) /\ request[t] = [op |-> "create", user |-> b.user,
                                 price |-> b.price, flight |-> b.flight]]_vars

(* A booking gets only seats that CREATE DETAIL BOOKING names for it       *)
(* (server.c:313-326).                                                     *)
SeatsAsAsked ==
  [][\A d \in details' \ details : \E t \in Thread :
       /\ Moves(t)
       /\ request[t].op = "detail"
       /\ request[t].booking = d.booking
       /\ d.seat \in Seat /\ Names(request[t].seats, d.seat)]_vars

(* A booking disappears only when DELETE BOOKING names it                  *)
(* (server.c:290-292).                                                     *)
OnlyAskedDeletions ==
  [][\A b \in bookings \ bookings' : \E t \in Thread :
       Moves(t) /\ request[t] = [op |-> "delete", booking |-> b.id]]_vars

(* The user of a session is the one its LOGIN names (server.c:160-181).    *)
SessionIsOwn ==
  [][\A t \in Thread :
       is_logged_in'[t] /\ ~is_logged_in[t] =>
         request[t] = [op |-> "login", user |-> user_id'[t]]]_vars

-----------------------------------------------------------------------------
(* The ledger this server is meant to be: a request is under way from recv  *)
(* to the answer, and a booking is made for it once its row is in.          *)

SeatOrder == [op : {"detail"}, booking : BookingId, seats : SUBSET Seat]

\* The order a request is: a list of codes is the seats it names.
OrderOf(r) ==
  IF r.op = "detail"
  THEN [op |-> "detail", booking |-> r.booking, seats |-> {s \in Seat : Names(r.seats, s)}]
  ELSE r

Ledger == INSTANCE BookingLedger WITH
  Client <- Thread,
  Nobody <- None,
  Order  <- LoginRequest \cup CreateRequest \cup SeatOrder \cup DeleteRequest,
  who    <- user_id,
  asked  <- [t \in Thread |-> IF Waiting(t) \/ request[t].op = "eof"
                              THEN NoRequest ELSE OrderOf(request[t])],
  told   <- reply,
  made   <- [t \in Thread |-> IF pc[t] \in {"store_insert_id", "answer_booking"}
                              THEN id_arg[t] ELSE 0]

(* As long as requests do not overlap, the server is the ledger: every     *)
(* change of the tables, the sessions and the answers is the one that the  *)
(* order under way calls for (handle_client, server.c:128-334).            *)
LedgerSpec == Ledger!Spec
=============================================================================
