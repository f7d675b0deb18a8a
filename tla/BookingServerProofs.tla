------------------------ MODULE BookingServerProofs ------------------------
(***************************************************************************)
(* What holds of BookingServer for every number of threads, users, flights *)
(* and seats and for every interleaving of their requests: its types, the  *)
(* safety of strtok on the shared list, the references between the tables, *)
(* the ids that are answered and the owner of every booking.               *)
(***************************************************************************)
EXTENDS BookingServer, TLAPS

-----------------------------------------------------------------------------
(* The inductive invariant: the properties proved, and what they rest on.  *)

\* A session has a user, and only a session makes requests for one.
SessionHasUser ==
  \A t \in Thread :
    /\ is_logged_in[t] => user_id[t] \in User
    /\ pc[t] \in {"call_insert_booking", "insert_booking"} =>
         request[t].op = "create" /\ request[t].user = user_id[t]

\* Ids travel through id_arg and the global booking_id: all were issued.
IdsWereIssued ==
  /\ booking_id \in 0..(nextId - 1)
  /\ \A t \in Thread :
       /\ pc[t] = "store_insert_id" => id_arg[t] \in 1..(nextId - 1)
       /\ pc[t] = "answer_booking" => booking_id # 0

\* A price is parsed before it is used, by this request or by another one.
PriceIsParsed ==
  \A t \in Thread :
    /\ pc[t] = "call_insert_booking" => total_price \in Price
    /\ pc[t] = "insert_booking" => price_arg[t] \in Price

\* seat_list always ends in a NUL, so a text that starts inside ends inside.
PlacesInside ==
  /\ seat_list[Size] = NUL
  /\ strtok.buf = None => strtok.at \in 1..Size
  /\ \A t \in Thread :
       /\ pc[t] = "first_seat" => seat_list[1] \in Char
       /\ pc[t] \in {"call_insert_detail", "insert_detail"} =>
            seat[t] = Junk \/ seat[t] \in 1..Size

IInv ==
  /\ TypeOK
  /\ PlacesInside
  /\ DetailsReferToBookings
  /\ AnsweredIdWasIssued
  /\ SessionHasUser
  /\ IdsWereIssued
  /\ PriceIsParsed

-----------------------------------------------------------------------------

LEMMA InitIInv == Init => IInv
<1>1. SUFFICES ASSUME Init PROVE IInv
  OBVIOUS
<1>2. TypeOK
  BY <1>1, SizeAssumption
     DEF Init, StoreInit, All, NoSeats, AtEnd, TypeOK, BookingId, NoRequest, NoReply, Request, Reply,
         Byte
<1>3. PlacesInside
  BY <1>1, SizeAssumption DEF Init, All, NoSeats, AtEnd, PlacesInside
<1>4. SessionHasUser /\ PriceIsParsed
  BY <1>1 DEF Init, All, SessionHasUser, PriceIsParsed
<1>5. IdsWereIssued /\ AnsweredIdWasIssued /\ DetailsReferToBookings
  BY <1>1 DEF Init, StoreInit, All, IdsWereIssued, AnsweredIdWasIssued, Told,
              NoReply, DetailsReferToBookings
<1> QED
  BY <1>2, <1>3, <1>4, <1>5 DEF IInv

\* strtok cuts the shared list at a byte: its last NUL and its first byte stay.
LEMMA CutKeepsPlaces ==
  ASSUME TypeOK, PlacesInside, NEW j \in 2..Size, CutAt(j)
  PROVE  /\ seat_list' \in [1..Size -> Byte] /\ seat_list'[Size] = NUL
         /\ seat_list'[1] = seat_list[1]
         /\ strtok' \in [buf : {None}, at : 1..Size]
<1> USE SizeAssumption
<1>1. seat_list \in [1..Size -> Byte] /\ NUL \in Byte
  BY DEF TypeOK, Byte
<1>2. /\ seat_list' \in [1..Size -> Byte]
      /\ \A k \in 1..Size : seat_list'[k] = IF k = j THEN NUL ELSE seat_list[k]
  BY <1>1 DEF CutAt
<1>3. seat_list[j] = Comma => j # Size
  BY DEF PlacesInside, NUL, Comma
<1>4. strtok' \in [buf : {None}, at : 1..Size]
  BY <1>3 DEF CutAt
<1> QED
  BY <1>2, <1>4 DEF PlacesInside

LEMMA ProcessDiesKeepsIInv ==
  ASSUME IInv, ProcessDies
  PROVE  IInv'
<1> USE SizeAssumption, MarksAssumption DEF IInv, ProcessDies, All
<1>1. UNCHANGED <<bookings, details, nextId>>
  BY DEF storeVars
<1>2. \A t \in Thread : pc'[t] = "closed" /\ reply'[t].kind = "none" /\ ~is_logged_in'[t]
  BY DEF NoReply
<1>3. /\ seat_list' \in [1..Size -> Byte] /\ seat_list'[Size] = NUL
      /\ strtok'.at \in 1..Size
      /\ strtok' \in [buf : Thread \cup {None}, at : Nat \ {0}]
  BY DEF NoSeats, AtEnd, Byte
<1>4. TypeOK'
  <2>1. NoRequest \in Request /\ NoReply \in Reply /\ <<>> \in Seq(Word)
    BY DEF NoRequest, Request, NoReply, Reply
  <2> QED
    BY <1>1, <1>3, <2>1 DEF TypeOK
<1>5. PlacesInside'
  BY <1>2, <1>3 DEF PlacesInside
<1>6. IdsWereIssued' /\ AnsweredIdWasIssued'
  BY <1>1, <1>2 DEF IdsWereIssued, AnsweredIdWasIssued, Told, TypeOK, BookingId
<1> QED
  BY <1>1, <1>2, <1>4, <1>5, <1>6
     DEF DetailsReferToBookings, BookingIds, SessionHasUser, PriceIsParsed

LEMMA AcceptKeepsIInv ==
  ASSUME IInv, NEW t \in Thread, Accept(t)
  PROVE  IInv'
<1> USE SizeAssumption, MarksAssumption DEF IInv, Accept, Goto,
                                                storeVars, session, locals,
                                                globals, NoRequest, NoReply
<1>1. TypeOK'
  BY DEF TypeOK, Request, NoRequest, Reply, NoReply
<1>2. PlacesInside'
  BY DEF PlacesInside, TypeOK
<1> QED
  BY <1>1, <1>2
     DEF TypeOK, DetailsReferToBookings, BookingIds, AnsweredIdWasIssued,
         Told, SessionHasUser, IdsWereIssued, PriceIsParsed

LEMMA ReadPaddingKeepsIInv ==
  ASSUME IInv, NEW t \in Thread, ReadPadding(t)
  PROVE  IInv'
<1> USE SizeAssumption, MarksAssumption DEF IInv, ReadPadding, storeVars, session, locals,
                                            globals, NoRequest
<1>1. TypeOK'
  BY DEF TypeOK, Request
<1>2. PlacesInside'
  BY DEF PlacesInside, TypeOK
<1> QED
  BY <1>1, <1>2
     DEF TypeOK, DetailsReferToBookings, BookingIds, AnsweredIdWasIssued,
         Told, SessionHasUser, IdsWereIssued, PriceIsParsed

LEMMA DisconnectKeepsIInv ==
  ASSUME IInv, NEW t \in Thread, Disconnect(t)
  PROVE  IInv'
<1> USE SizeAssumption, MarksAssumption DEF IInv
<1>1. UNCHANGED <<storeVars, up, session, reply, price_arg, id_arg, seat,
                  total_price, flight_id, booking_id, seat_list>>
  BY DEF Disconnect
<1>2. \E there \in {"closed", "auth", "spin"} : Goto(t, "idle", there)
  BY DEF Disconnect
<1>3. CASE UNCHANGED <<request, token, strtok, credential>>
  <2>1. TypeOK' /\ PlacesInside'
    BY <1>1, <1>2, <1>3 DEF TypeOK, PlacesInside, Goto, storeVars, session
  <2> QED
    BY <1>1, <1>2, <1>3, <2>1
       DEF TypeOK, Goto, storeVars, session, DetailsReferToBookings, BookingIds,
           AnsweredIdWasIssued, Told, SessionHasUser, IdsWereIssued, PriceIsParsed
<1>4. CASE /\ request' = [request EXCEPT ![t] = [op |-> "eof"]]
           /\ token' = Junk
           /\ strtok' = [buf |-> t, at |-> LoginTokens + 1]
           /\ credential' = [credential EXCEPT ![t] = <<>>]
  <2>1. [op |-> "eof"] \in Request
    BY DEF Request
  <2>2. TypeOK' /\ PlacesInside'
    BY <1>1, <1>2, <1>4, <2>1
       DEF TypeOK, PlacesInside, Goto, LoginTokens, storeVars, session
  <2> QED
    BY <1>1, <1>2, <1>4, <2>2
       DEF TypeOK, Goto, storeVars, session, DetailsReferToBookings, BookingIds,
           AnsweredIdWasIssued, Told, SessionHasUser, IdsWereIssued, PriceIsParsed
<1> QED
  BY <1>3, <1>4 DEF Disconnect

LEMMA LoginKeepsIInv ==
  ASSUME IInv, NEW t \in Thread, NEW u \in User, Login(t, u)
  PROVE  IInv'
<1> USE SizeAssumption, MarksAssumption DEF IInv, Login, Receive, Goto,
                                                storeVars, session, locals,
                                                globals, NoReply
<1>1. TypeOK'
  BY DEF TypeOK, Request, LoginRequest, Reply
<1>2. PlacesInside'
  BY DEF PlacesInside, TypeOK
<1> QED
  BY <1>1, <1>2
     DEF TypeOK, DetailsReferToBookings, BookingIds, AnsweredIdWasIssued,
         Told, SessionHasUser, IdsWereIssued, PriceIsParsed

LEMMA CheckLoginKeepsIInv ==
  ASSUME IInv, NEW t \in Thread, CheckLogin(t)
  PROVE  IInv'
<1> USE SizeAssumption, MarksAssumption DEF IInv
<1>1. /\ Goto(t, "check_login", "idle")
      /\ credential' = [credential EXCEPT ![t] = <<>>]
      /\ UNCHANGED <<storeVars, up, price_arg, id_arg, seat, globals>>
  BY DEF CheckLogin
<1>2. CASE Answer(t, [kind |-> "failed"]) /\ UNCHANGED <<session, request>>
  <2>1. TypeOK' /\ PlacesInside'
    BY <1>1, <1>2
       DEF TypeOK, PlacesInside, Goto, Answer, Reply, storeVars, session, globals
  <2> QED
    BY <1>1, <1>2, <2>1
       DEF TypeOK, Goto, Answer, storeVars, session, globals, DetailsReferToBookings,
           BookingIds, AnsweredIdWasIssued, Told, SessionHasUser, IdsWereIssued,
           PriceIsParsed
<1>3. ASSUME NEW u \in User,
             is_logged_in' = [is_logged_in EXCEPT ![t] = TRUE],
             user_id' = [user_id EXCEPT ![t] = u],
             Answer(t, [kind |-> "welcome", user |-> u]),
             Clear(t)
      PROVE  IInv'
  <2>1. TypeOK' /\ PlacesInside'
    BY <1>1, <1>3
       DEF TypeOK, PlacesInside, Goto, Answer, Clear, Request, NoRequest, Reply,
           storeVars, globals
  <2> QED
    BY <1>1, <1>3, <2>1
       DEF TypeOK, Goto, Answer, Clear, storeVars, globals, DetailsReferToBookings,
           BookingIds, AnsweredIdWasIssued, Told, SessionHasUser, IdsWereIssued,
           PriceIsParsed
<1> QED
  BY <1>2, <1>3 DEF CheckLogin

LEMMA LogoutKeepsIInv ==
  ASSUME IInv, NEW t \in Thread, Logout(t)
  PROVE  IInv'
<1> USE SizeAssumption, MarksAssumption DEF IInv, Logout, Receive, Goto,
                                                storeVars, session, locals,
                                                globals, NoReply
<1>1. TypeOK'
  BY DEF TypeOK, Request, Reply
<1>2. PlacesInside'
  BY DEF PlacesInside, TypeOK
<1> QED
  BY <1>1, <1>2
     DEF TypeOK, DetailsReferToBookings, BookingIds, AnsweredIdWasIssued,
         Told, SessionHasUser, IdsWereIssued, PriceIsParsed

LEMMA CreateNewBookingKeepsIInv ==
  ASSUME IInv, NEW t \in Thread, NEW p \in Price, NEW f \in Flight,
         CreateNewBooking(t, p, f)
  PROVE  IInv'
<1> USE SizeAssumption, MarksAssumption DEF IInv, CreateNewBooking,
                                                Receive, Goto, storeVars,
                                                session, locals, globals,
                                                NoReply
<1>1. TypeOK'
  BY DEF TypeOK, SessionHasUser, Request, CreateRequest, Reply
<1>2. PlacesInside'
  BY DEF PlacesInside, TypeOK
<1> QED
  BY <1>1, <1>2
     DEF TypeOK, DetailsReferToBookings, BookingIds, AnsweredIdWasIssued,
         Told, SessionHasUser, IdsWereIssued, PriceIsParsed

LEMMA CallInsertBookingKeepsIInv ==
  ASSUME IInv, NEW t \in Thread, CallInsertBooking(t)
  PROVE  IInv'
<1> USE SizeAssumption, MarksAssumption DEF IInv, CallInsertBooking,
                                                Goto, storeVars, session,
                                                locals, globals
<1>1. TypeOK'
  BY DEF TypeOK
<1>2. PlacesInside'
  BY DEF PlacesInside, TypeOK
<1> QED
  BY <1>1, <1>2
     DEF TypeOK, DetailsReferToBookings, BookingIds, AnsweredIdWasIssued,
         Told, SessionHasUser, IdsWereIssued, PriceIsParsed

LEMMA StoreInsertIdKeepsIInv ==
  ASSUME IInv, NEW t \in Thread, StoreInsertId(t)
  PROVE  IInv'
<1> USE SizeAssumption, MarksAssumption DEF IInv, StoreInsertId, Goto,
                                                storeVars, session, locals,
                                                globals
<1>1. TypeOK'
  BY DEF TypeOK
<1>2. PlacesInside'
  BY DEF PlacesInside, TypeOK
<1> QED
  BY <1>1, <1>2
     DEF TypeOK, DetailsReferToBookings, BookingIds, AnsweredIdWasIssued,
         Told, SessionHasUser, IdsWereIssued, PriceIsParsed

LEMMA AnswerBookingKeepsIInv ==
  ASSUME IInv, NEW t \in Thread, AnswerBooking(t)
  PROVE  IInv'
<1> USE SizeAssumption, MarksAssumption DEF IInv, AnswerBooking, Answer,
                                                Clear, Goto, storeVars,
                                                session, locals, globals,
                                                NoRequest
<1>1. TypeOK'
  BY DEF TypeOK, Request, Reply
<1>2. PlacesInside'
  BY DEF PlacesInside, TypeOK
<1> QED
  BY <1>1, <1>2
     DEF TypeOK, DetailsReferToBookings, BookingIds, AnsweredIdWasIssued,
         Told, SessionHasUser, IdsWereIssued, PriceIsParsed

LEMMA DeleteBookingRequestKeepsIInv ==
  ASSUME IInv, NEW t \in Thread, NEW id \in 1..(nextId - 1),
         DeleteBookingRequest(t, id)
  PROVE  IInv'
<1> USE SizeAssumption, MarksAssumption DEF IInv, DeleteBookingRequest,
                                                Receive, Goto, storeVars,
                                                session, locals, globals,
                                                NoReply
<1>1. TypeOK'
  BY DEF TypeOK, Request, DeleteRequest, BookingId, Reply
<1>2. PlacesInside'
  BY DEF PlacesInside, TypeOK
<1> QED
  BY <1>1, <1>2
     DEF TypeOK, DetailsReferToBookings, BookingIds, AnsweredIdWasIssued,
         Told, SessionHasUser, IdsWereIssued, PriceIsParsed

LEMMA CallInsertDetailKeepsIInv ==
  ASSUME IInv, NEW t \in Thread, CallInsertDetail(t)
  PROVE  IInv'
<1> USE SizeAssumption, MarksAssumption DEF IInv, CallInsertDetail, Goto,
                                                storeVars, session, locals,
                                                globals
<1>1. TypeOK'
  BY DEF TypeOK
<1>2. PlacesInside'
  BY DEF PlacesInside, TypeOK
<1> QED
  BY <1>1, <1>2
     DEF TypeOK, DetailsReferToBookings, BookingIds, AnsweredIdWasIssued,
         Told, SessionHasUser, IdsWereIssued, PriceIsParsed

LEMMA InsertNewBookingKeepsIInv ==
  ASSUME IInv, NEW t \in Thread, InsertNewBooking(t)
  PROVE  IInv'
<1> USE SizeAssumption, MarksAssumption DEF IInv
<1>1. /\ pc[t] = "insert_booking"
      /\ price_arg' = [price_arg EXCEPT ![t] = None]
      /\ UNCHANGED <<up, session, credential, seat, globals>>
  BY DEF InsertNewBooking
<1>2. CASE /\ InsertBooking(Booker(t), price_arg[t], flight_id)
           /\ id_arg' = [id_arg EXCEPT ![t] = nextId]
           /\ Goto(t, "insert_booking", "store_insert_id")
           /\ UNCHANGED <<request, reply>>
  <2>1. bookings' \subseteq BookingRow /\ nextId' = nextId + 1 /\ nextId \in BookingId
        /\ details' = details /\ bookings \subseteq bookings'
    BY <1>1, <1>2 DEF InsertBooking, BookingRow, BookingId, TypeOK, PriceIsParsed
  <2>2. TypeOK'
    BY <1>1, <1>2, <2>1 DEF TypeOK, Goto, BookingId, session, globals
  <2>3. PlacesInside' /\ SessionHasUser' /\ PriceIsParsed'
    BY <1>1, <1>2
       DEF TypeOK, PlacesInside, SessionHasUser, PriceIsParsed, Goto, session, globals
  <2>4. DetailsReferToBookings'
    BY <2>1 DEF DetailsReferToBookings, BookingIds
  <2>5. IdsWereIssued' /\ AnsweredIdWasIssued'
    BY <1>1, <1>2, <2>1
       DEF TypeOK, IdsWereIssued, AnsweredIdWasIssued, Told, Goto, BookingId, globals
  <2> QED
    BY <2>2, <2>3, <2>4, <2>5
<1>3. CASE /\ StatementFails
           /\ Goto(t, "insert_booking", "idle")
           /\ Answer(t, [kind |-> "failed"])
           /\ Clear(t)
           /\ UNCHANGED id_arg
  <2>1. TypeOK' /\ PlacesInside'
    BY <1>1, <1>3
       DEF TypeOK, PlacesInside, StatementFails, storeVars, Goto, Answer, Clear,
           Request, NoRequest, Reply, session, globals
  <2> QED
    BY <1>1, <1>3, <2>1
       DEF TypeOK, StatementFails, storeVars, Goto, Answer, Clear, session, globals,
           DetailsReferToBookings, BookingIds, AnsweredIdWasIssued, Told, SessionHasUser,
           IdsWereIssued, PriceIsParsed
<1> QED
  BY <1>2, <1>3 DEF InsertNewBooking

LEMMA CallDeleteBookingKeepsIInv ==
  ASSUME IInv, NEW t \in Thread, CallDeleteBooking(t)
  PROVE  IInv'
<1> USE SizeAssumption, MarksAssumption DEF IInv
<1>1. /\ Goto(t, "call_delete_booking", "idle")
      /\ Clear(t)
      /\ UNCHANGED <<up, session, locals, globals>>
      /\ \E k \in {"ok", "failed"} : Answer(t, [kind |-> k])
  BY DEF CallDeleteBooking
<1>2. /\ bookings' \subseteq bookings /\ details' \subseteq details /\ nextId' = nextId
      /\ DetailsReferToBookings'
  BY DEF CallDeleteBooking, DeleteBooking, StatementFails, storeVars,
         DetailsReferToBookings, BookingIds
<1>3. TypeOK' /\ PlacesInside'
  BY <1>1, <1>2
     DEF TypeOK, PlacesInside, Goto, Answer, Clear, Request, NoRequest, Reply,
         session, locals, globals
<1> QED
  BY <1>1, <1>2, <1>3
     DEF TypeOK, Goto, Answer, Clear, session, locals, globals, AnsweredIdWasIssued, Told,
         SessionHasUser, IdsWereIssued, PriceIsParsed

\* A list fits into seat_list and starts with a byte of a code.
LEMMA ListFits ==
  ASSUME NEW m \in SeatLists
  PROVE  /\ Len(m) \in Nat /\ 1 <= Len(m) /\ Len(m) + 1 <= Size
         /\ DOMAIN m = 1..Len(m)
         /\ \A k \in 1..Len(m) : m[k] \in Char \cup {Comma}
         /\ m[1] \in Char /\ m[Len(m)] \in Char
<1>1. m \in Seq(Char \cup {Comma}) /\ Len(m) \in 1..(Size - 1) /\ m[1] # Comma /\ m[Len(m)] # Comma
  BY SeatListsAssumption
<1> QED
  BY <1>1, SizeAssumption

\* What sscanf leaves in seat_list.
LEMMA WrittenList ==
  ASSUME TypeOK, NEW m \in SeatLists, WriteSeatList(m)
  PROVE  /\ seat_list' \in [1..Size -> Byte]
         /\ \A k \in 1..Len(m) : seat_list'[k] = m[k]
         /\ seat_list'[Len(m) + 1] = NUL
         /\ seat_list[Size] = NUL => seat_list'[Size] = NUL
<1>1. /\ Len(m) \in Nat /\ 1 <= Len(m) /\ Len(m) + 1 <= Size
      /\ DOMAIN m = 1..Len(m)
      /\ \A k \in 1..Len(m) : m[k] \in Byte
      /\ seat_list \in [1..Size -> Byte] /\ NUL \in Byte /\ Size \in Nat
  BY ListFits, SizeAssumption DEF Byte, TypeOK
<1>2. seat_list' = [k \in 1..Size |-> IF k \in 1..Len(m) THEN m[k]
                                     ELSE IF k = Len(m) + 1 THEN NUL ELSE seat_list[k]]
  BY <1>1 DEF WriteSeatList
<1>3. seat_list' \in [1..Size -> Byte]
  BY <1>1, <1>2
<1> QED
  BY <1>1, <1>2, <1>3

LEMMA CreateDetailBookingKeepsIInv ==
  ASSUME IInv, NEW t \in Thread, Told(t), NEW m \in SeatLists,
         CreateDetailBooking(t, reply[t].id, m)
  PROVE  IInv'
<1> USE SizeAssumption, MarksAssumption DEF IInv
<1>1. /\ Goto(t, "idle", "first_seat")
      /\ request' = [request EXCEPT ![t] = [op |-> "detail", booking |-> reply[t].id,
                                           seats |-> m]]
      /\ reply' = [reply EXCEPT ![t] = NoReply]
      /\ booking_id' = reply[t].id
      /\ UNCHANGED <<storeVars, up, session, locals, token, total_price, flight_id, strtok>>
  BY DEF CreateDetailBooking, Receive
<1>2. reply[t].id \in 1..(nextId - 1)
  BY DEF AnsweredIdWasIssued
<1>3. /\ seat_list' \in [1..Size -> Byte] /\ seat_list'[Size] = NUL
      /\ seat_list'[1] \in Char
  <2>1. WriteSeatList(m)
    BY DEF CreateDetailBooking
  <2>2. 1 \in 1..Len(m) /\ m[1] \in Char
    BY ListFits
  <2> QED
    BY <2>1, <2>2, WrittenList DEF PlacesInside
<1>4. TypeOK'
  BY <1>1, <1>2, <1>3
     DEF TypeOK, Goto, Request, DetailRequest, BookingId, Reply, NoReply, storeVars, session,
         locals
<1>5. PlacesInside'
  BY <1>1, <1>3 DEF TypeOK, PlacesInside, Goto, locals
<1> QED
  BY <1>1, <1>2, <1>4, <1>5
     DEF TypeOK, Goto, NoReply, storeVars, session, locals, DetailsReferToBookings,
         BookingIds, AnsweredIdWasIssued, Told, SessionHasUser, IdsWereIssued, PriceIsParsed

LEMMA FirstSeatKeepsIInv ==
  ASSUME IInv, NEW t \in Thread, FirstSeat(t)
  PROVE  IInv'
<1> USE SizeAssumption, MarksAssumption DEF IInv
<1>1. /\ Goto(t, "first_seat", "call_insert_detail")
      /\ UNCHANGED <<storeVars, up, session, request, reply, credential, price_arg,
                     id_arg, token, total_price, flight_id, booking_id>>
  BY DEF FirstSeat
<1>2. PICK i \in 1..Size, j \in 1..Size :
        TokenFrom(1, i, j) /\ seat' = [seat EXCEPT ![t] = i] /\ CutAt(j)
  BY DEF FirstSeat
<1>3. j \in 2..Size
  BY <1>2 DEF TokenFrom
<1>4. /\ seat_list' \in [1..Size -> Byte] /\ seat_list'[Size] = NUL
      /\ seat_list'[1] = seat_list[1]
      /\ strtok' \in [buf : {None}, at : 1..Size]
  BY <1>2, <1>3, CutKeepsPlaces
<1>5. TypeOK'
  BY <1>1, <1>2, <1>4 DEF TypeOK, Goto, storeVars, session
<1>6. PlacesInside'
  BY <1>1, <1>2, <1>4 DEF TypeOK, PlacesInside, Goto
<1> QED
  BY <1>1, <1>5, <1>6
     DEF TypeOK, Goto, storeVars, session, DetailsReferToBookings, BookingIds,
         AnsweredIdWasIssued, Told, SessionHasUser, IdsWereIssued, PriceIsParsed

LEMMA InsertBookingDetailKeepsIInv ==
  ASSUME IInv, NEW t \in Thread, InsertBookingDetail(t)
  PROVE  IInv'
<1> USE SizeAssumption, MarksAssumption DEF IInv
<1>1. /\ Goto(t, "insert_detail", "next_seat")
      /\ id_arg' = [id_arg EXCEPT ![t] = 0]
      /\ UNCHANGED <<up, session, request, reply, credential, price_arg, seat, globals>>
      /\ bookings' = bookings /\ nextId' = nextId
  BY DEF InsertBookingDetail, InsertDetail, StatementFails, storeVars
<1>2. TextsRead(t) \subseteq SeatText
  BY DEF TextsRead, SeatsRead, SeatText
<1>3. details' \subseteq DetailRow(SeatText) /\ DetailsReferToBookings'
  BY <1>2
     DEF InsertBookingDetail, InsertDetail, StatementFails, storeVars, TypeOK, DetailRow,
         DetailsReferToBookings, BookingIds, BookingRow
<1>4. TypeOK' /\ PlacesInside'
  BY <1>1, <1>3 DEF TypeOK, PlacesInside, Goto, session, globals
<1> QED
  BY <1>1, <1>3, <1>4
     DEF TypeOK, Goto, session, globals, AnsweredIdWasIssued, Told, SessionHasUser,
         IdsWereIssued, PriceIsParsed

LEMMA LoginTokenKeepsIInv ==
  ASSUME IInv, NEW t \in Thread, LoginToken(t)
  PROVE  IInv'
<1> USE SizeAssumption, MarksAssumption DEF IInv
<1>1. /\ Goto(t, "auth", "copy")
      /\ UNCHANGED <<storeVars, up, session, request, reply, locals, total_price,
                     flight_id, booking_id, seat_list>>
  BY DEF LoginToken
<1>2. /\ token' \in [of : Thread, at : 1..LoginTokens] \cup {None, Junk}
      /\ strtok' \in [buf : Thread \cup {None}, at : Nat \ {0}]
      /\ strtok'.buf = None => strtok'.at \in 1..Size
  <2>1. ASSUME NEW j \in strtok.at..Size, strtok.buf = None,
               token' = IF j = strtok.at THEN None ELSE Junk,
               strtok' = [buf |-> None, at |-> j]
        PROVE  /\ token' \in {None, Junk}
               /\ strtok' \in [buf : Thread \cup {None}, at : Nat \ {0}]
               /\ strtok'.at \in 1..Size
    BY <2>1 DEF PlacesInside
  <2>3. ASSUME NEW c \in Thread, strtok.buf = c
        PROVE  IF InBuffer(c) /\ strtok.at <= LoginTokens
               THEN /\ token' = [of |-> c, at |-> strtok.at]
                    /\ strtok' = [buf |-> c, at |-> strtok.at + 1]
               ELSE token' \in {None, Junk} /\ UNCHANGED strtok
    BY <2>3 DEF LoginToken
  <2>4. ASSUME NEW c \in Thread, strtok.buf = c,
               IF InBuffer(c) /\ strtok.at <= LoginTokens
               THEN /\ token' = [of |-> c, at |-> strtok.at]
                    /\ strtok' = [buf |-> c, at |-> strtok.at + 1]
               ELSE token' \in {None, Junk} /\ UNCHANGED strtok
        PROVE  /\ token' \in [of : Thread, at : 1..LoginTokens] \cup {None, Junk}
               /\ strtok' \in [buf : Thread \cup {None}, at : Nat \ {0}]
               /\ strtok'.buf # None
    BY <2>4 DEF TypeOK, LoginTokens
  <2>5. CASE strtok.buf = None
    <3>1. PICK j \in strtok.at..Size :
            /\ token' = IF j = strtok.at THEN None ELSE Junk
            /\ strtok' = [buf |-> None, at |-> j]
      BY <2>5 DEF LoginToken
    <3> QED
      BY <2>1, <2>5, <3>1
  <2>6. CASE strtok.buf \in Thread
    BY <2>3, <2>4, <2>6
  <2> QED
    BY <2>5, <2>6 DEF TypeOK
<1>3. TypeOK' /\ PlacesInside'
  <2>1. pc' \in [Thread -> {"closed", "idle", "spin", "auth", "copy", "check_login",
                        "call_insert_booking", "insert_booking", "store_insert_id",
                        "answer_booking", "call_delete_booking", "first_seat",
                        "call_insert_detail", "insert_detail", "next_seat"}]
    BY <1>1 DEF TypeOK, Goto
  <2>2. TypeOK'
    BY <1>1, <1>2, <2>1 DEF TypeOK, storeVars, session, locals
  <2>3. PlacesInside'
    BY <1>1, <1>2 DEF TypeOK, PlacesInside, Goto, locals
  <2> QED
    BY <2>2, <2>3
<1> QED
  BY <1>1, <1>3
     DEF TypeOK, Goto, storeVars, session, locals, DetailsReferToBookings, BookingIds,
         AnsweredIdWasIssued, Told, SessionHasUser, IdsWereIssued, PriceIsParsed

LEMMA CopyTokenKeepsIInv ==
  ASSUME IInv, NEW t \in Thread, CopyToken(t), token # None
  PROVE  IInv'
<1> USE SizeAssumption, MarksAssumption DEF IInv
<1>1. /\ credential' = [credential EXCEPT ![t] = Append(@, TokenText)]
      /\ \E there \in {"check_login", "auth"} : Goto(t, "copy", there)
      /\ token' \in {token, None}
      /\ UNCHANGED <<storeVars, up, session, request, reply, price_arg, id_arg, seat,
                     total_price, flight_id, booking_id, seat_list, strtok>>
  BY DEF CopyToken
<1>2. TokenText \in Word
  BY DEF TokenText, Word, TypeOK, InBuffer, Request, LoginRequest, CreateRequest,
         DetailRequest, DeleteRequest
<1>3. TypeOK' /\ PlacesInside'
  BY <1>1, <1>2 DEF TypeOK, PlacesInside, Goto, storeVars, session
<1> QED
  BY <1>1, <1>3
     DEF TypeOK, Goto, storeVars, session, DetailsReferToBookings, BookingIds,
         AnsweredIdWasIssued, Told, SessionHasUser, IdsWereIssued, PriceIsParsed

LEMMA NextSeatKeepsIInv ==
  ASSUME IInv, NEW t \in Thread, NextSeat(t)
  PROVE  IInv'
<1> USE SizeAssumption, MarksAssumption DEF IInv, NextSeat
<1>1. ASSUME NEW i \in 1..Size, NEW j \in 1..Size, TokenFrom(strtok.at, i, j),
             strtok.buf = None, seat' = [seat EXCEPT ![t] = i], CutAt(j)
      PROVE  IInv'
  <2>1. j \in 2..Size
    BY <1>1 DEF TokenFrom
  <2>2. /\ seat_list' \in [1..Size -> Byte] /\ seat_list'[Size] = NUL
        /\ seat_list'[1] = seat_list[1]
        /\ strtok' \in [buf : {None}, at : 1..Size]
    BY <1>1, <2>1, CutKeepsPlaces
  <2>3. seat'[t] = i /\ seat'[t] # None
    BY <1>1 DEF TypeOK
  <2>4. Goto(t, "next_seat", "call_insert_detail") /\ UNCHANGED <<request, reply>>
    BY <2>3 DEF EndOrRepeat
  <2>5. TypeOK'
    BY <1>1, <2>2, <2>4 DEF TypeOK, Goto, storeVars, session
  <2>6. PlacesInside'
    BY <1>1, <2>2, <2>4 DEF PlacesInside, Goto, TypeOK
  <2> QED
    BY <2>4, <2>5, <2>6
       DEF TypeOK, Goto, storeVars, session, DetailsReferToBookings, BookingIds,
           AnsweredIdWasIssued, Told, SessionHasUser, IdsWereIssued, PriceIsParsed
<1>2. ASSUME NEW i \in 1..Size, strtok.buf = None, seat' = [seat EXCEPT ![t] = None],
             strtok' = [buf |-> None, at |-> i], UNCHANGED seat_list
      PROVE  IInv'
  <2>1. seat'[t] = None
    BY <1>2 DEF TypeOK
  <2>2. Goto(t, "next_seat", "idle") /\ Answer(t, [kind |-> "ok"]) /\ Clear(t)
    BY <2>1 DEF EndOrRepeat
  <2>3. TypeOK'
    BY <1>2, <2>2 DEF TypeOK, Goto, Answer, Clear, NoRequest, Request, Reply, storeVars, session
  <2>4. PlacesInside'
    BY <1>2, <2>2 DEF PlacesInside, Goto, TypeOK
  <2> QED
    BY <2>2, <2>3, <2>4
       DEF TypeOK, Goto, Answer, Clear, storeVars, session, DetailsReferToBookings, BookingIds,
           AnsweredIdWasIssued, Told, SessionHasUser, IdsWereIssued, PriceIsParsed
<1>3. ASSUME NEW c \in Thread, NEW p \in {None, Junk}, strtok.buf = c,
             seat' = [seat EXCEPT ![t] = p],
             strtok' = [buf |-> c, at |-> LoginTokens + 1],
             UNCHANGED seat_list
      PROVE  IInv'
  <2>1. seat'[t] = p
    BY <1>3 DEF TypeOK
  <2>2. CASE p = None
    <3>1. Goto(t, "next_seat", "idle") /\ Answer(t, [kind |-> "ok"]) /\ Clear(t)
      BY <2>1, <2>2 DEF EndOrRepeat
    <3>2. TypeOK'
      BY <1>3, <2>2, <3>1
         DEF TypeOK, Goto, Answer, Clear, NoRequest, Request, Reply, storeVars, session,
             LoginTokens
    <3>3. PlacesInside'
      BY <1>3, <3>1 DEF PlacesInside, Goto, TypeOK
    <3>4. DetailsReferToBookings' /\ AnsweredIdWasIssued'
      BY <3>1 DEF TypeOK, Goto, Answer, Clear, storeVars, session, DetailsReferToBookings,
                  BookingIds, AnsweredIdWasIssued, Told
    <3>5. SessionHasUser' /\ IdsWereIssued' /\ PriceIsParsed'
      BY <3>1 DEF TypeOK, Goto, Answer, Clear, storeVars, session, SessionHasUser,
                  IdsWereIssued, PriceIsParsed
    <3> QED
      BY <3>2, <3>3, <3>4, <3>5
  <2>3. CASE p = Junk /\ p # None
    <3>1. Goto(t, "next_seat", "call_insert_detail") /\ UNCHANGED <<request, reply>>
      BY <2>1, <2>3 DEF EndOrRepeat
    <3>2. TypeOK'
      BY <1>3, <2>3, <3>1 DEF TypeOK, Goto, storeVars, session, LoginTokens
    <3>3. PlacesInside'
      BY <1>3, <2>1, <2>3, <3>1 DEF PlacesInside, Goto, TypeOK
    <3> QED
      BY <3>1, <3>2, <3>3
         DEF TypeOK, Goto, storeVars, session, DetailsReferToBookings, BookingIds,
             AnsweredIdWasIssued, Told, SessionHasUser, IdsWereIssued, PriceIsParsed
  <2> QED
    BY <2>2, <2>3
<1> QED
  BY <1>1, <1>2, <1>3

-----------------------------------------------------------------------------
(* Every step keeps the invariant.                                         *)

LEMMA AskKeepsIInv ==
  ASSUME IInv, NEW t \in Thread, Ask(t)
  PROVE  IInv'
<1>1. ASSUME NEW u \in User, Login(t, u) PROVE IInv'
  BY <1>1, LoginKeepsIInv
<1>2. CASE Logout(t)
  BY <1>2, LogoutKeepsIInv
<1>3. ASSUME NEW p \in Price, NEW f \in Flight, CreateNewBooking(t, p, f) PROVE IInv'
  BY <1>3, CreateNewBookingKeepsIInv
<1>4. ASSUME NEW m \in SeatLists, Told(t), CreateDetailBooking(t, reply[t].id, m) PROVE IInv'
  BY <1>4, CreateDetailBookingKeepsIInv
<1>5. ASSUME NEW i \in Cancellable(t), DeleteBookingRequest(t, i) PROVE IInv'
  <2>1. i \in 1..(nextId - 1)
    BY DEF Cancellable
  <2> QED
    BY <1>5, <2>1, DeleteBookingRequestKeepsIInv
<1> QED
  BY <1>1, <1>2, <1>3, <1>4, <1>5 DEF Ask

LEMMA HandleKeepsIInv ==
  ASSUME IInv, NEW t \in Thread, Handle(t)
  PROVE  IInv'
<1>1. CASE LoginToken(t) \/ CheckLogin(t)
  BY <1>1, LoginTokenKeepsIInv, CheckLoginKeepsIInv
<1>2. CASE CopyToken(t)
  <2>1. CASE token = None
    BY <1>2, <2>1, ProcessDiesKeepsIInv DEF CopyToken
  <2>2. CASE token # None
    BY <1>2, <2>2, CopyTokenKeepsIInv
  <2> QED
    BY <2>1, <2>2
<1>3. CASE CallInsertBooking(t) \/ InsertNewBooking(t) \/ StoreInsertId(t) \/ AnswerBooking(t)
  BY <1>3, CallInsertBookingKeepsIInv, InsertNewBookingKeepsIInv, StoreInsertIdKeepsIInv,
     AnswerBookingKeepsIInv
<1>4. CASE CallDeleteBooking(t)
  BY <1>4, CallDeleteBookingKeepsIInv
<1>5. CASE FirstSeat(t) \/ CallInsertDetail(t) \/ InsertBookingDetail(t) \/ NextSeat(t)
  BY <1>5, FirstSeatKeepsIInv, CallInsertDetailKeepsIInv, InsertBookingDetailKeepsIInv,
     NextSeatKeepsIInv
<1> QED
  BY <1>1, <1>2, <1>3, <1>4, <1>5 DEF Handle

LEMMA IdleKeepsIInv ==
  ASSUME IInv, UNCHANGED vars \/ Restart
  PROVE  IInv'
<1>1. UNCHANGED <<storeVars, pc, session, request, reply, locals, globals>> /\ up' \in BOOLEAN
  BY DEF vars, Restart, IInv, TypeOK
<1>2. TypeOK' /\ PlacesInside'
  BY <1>1 DEF IInv, TypeOK, PlacesInside, storeVars, session, locals, globals
<1> QED
  BY <1>1, <1>2
     DEF IInv, storeVars, session, locals, globals, DetailsReferToBookings, BookingIds,
         AnsweredIdWasIssued, Told, SessionHasUser, IdsWereIssued, PriceIsParsed

LEMMA NextKeepsIInv == IInv /\ [Next]_vars => IInv'
<1> SUFFICES ASSUME IInv, [Next]_vars PROVE IInv'
  OBVIOUS
<1>1. CASE UNCHANGED vars \/ Restart
  BY <1>1, IdleKeepsIInv
<1>2. CASE Killed
  BY <1>2, ProcessDiesKeepsIInv DEF Killed
<1>3. ASSUME NEW t \in Thread, Step(t) PROVE IInv'
  BY <1>3, AcceptKeepsIInv, ReadPaddingKeepsIInv, DisconnectKeepsIInv, AskKeepsIInv, HandleKeepsIInv DEF Step
<1> QED
  BY <1>1, <1>2, <1>3 DEF Next

-----------------------------------------------------------------------------
(* Theorems                                                                *)

LEMMA Invariance == Spec => []IInv
<1> QED
  BY InitIInv, NextKeepsIInv, PTL DEF Spec

(* Whatever the threads do to each other's globals, every variable keeps   *)
(* its type: no price, flight or seat is used before one is parsed.        *)
THEOREM TypeCorrect == Spec => []TypeOK
<1>1. IInv => TypeOK
  BY DEF IInv
<1> QED
  BY Invariance, <1>1, PTL

(* strtok, called by many threads on one list, never leaves the list, and  *)
(* no seat is inserted whose text does not end inside it                   *)
(* (server.c:313-326).                                                     *)
THEOREM StrtokSafety == Spec => []StrtokStaysInList
<1>1. IInv => StrtokStaysInList
  <2> SUFFICES ASSUME IInv PROVE StrtokStaysInList
    OBVIOUS
  <2>1. \A p \in 1..Size : EndsInside(p)
    BY SizeAssumption DEF IInv, PlacesInside, EndsInside
  <2> QED
    BY <2>1 DEF IInv, PlacesInside, StrtokStaysInList
<1> QED
  BY Invariance, <1>1, PTL

(* No row of booking_details outlives its booking or precedes it           *)
(* (detail.c, booking.c, db.sql:129).                                      *)
THEOREM DetailIntegrity == Spec => []DetailsReferToBookings
<1>1. IInv => DetailsReferToBookings
  BY DEF IInv
<1> QED
  BY Invariance, <1>1, PTL

(* CREATE NEW BOOKING answers with an id that was issued, even when it is  *)
(* another request's (server.c:303-305).                                   *)
THEOREM AnswersAreIssued == Spec => []AnsweredIdWasIssued
<1>1. IInv => AnsweredIdWasIssued
  BY DEF IInv
<1> QED
  BY Invariance, <1>1, PTL

(* A booking is never made in the name of a user who did not ask for it,   *)
(* in spite of the shared globals (server.c:117, 301-303).                 *)
THEOREM BookingsAreOwn == Spec => BookingUserIsRequester
<1> DEFINE Owned == \A b \in bookings' \ bookings : \E t \in Thread :
              Moves(t) /\ request[t].op = "create" /\ request[t].user = b.user
<1>1. ASSUME IInv, [Next]_vars PROVE Owned
  <2> SUFFICES ASSUME bookings' # bookings PROVE Owned
    OBVIOUS
  <2>1. PICK t \in Thread : Step(t)
    BY <1>1 DEF Next, vars, storeVars, Restart, Killed, ProcessDies
  <2>2. InsertNewBooking(t) \/ CallDeleteBooking(t)
    BY <2>1
       DEF Step, Accept, ReadPadding, Disconnect, Ask, Login, Logout, CreateNewBooking,
           CreateDetailBooking, DeleteBookingRequest, Handle, LoginToken, CopyToken,
           ProcessDies, CheckLogin, CallInsertBooking, StoreInsertId, AnswerBooking,
           FirstSeat, CallInsertDetail, InsertBookingDetail, InsertDetail, StatementFails,
           NextSeat, storeVars
  <2>3. CASE CallDeleteBooking(t)
    BY <2>3 DEF CallDeleteBooking, DeleteBooking, StatementFails, storeVars
  <2>4. CASE InsertNewBooking(t)
    <3>1. /\ pc[t] = "insert_booking"
          /\ Goto(t, "insert_booking", "store_insert_id")
          /\ bookings' = bookings \cup {[id |-> nextId, user |-> user_id[t],
                                         price |-> price_arg[t], flight |-> flight_id]}
      BY <2>4 DEF InsertNewBooking, InsertBooking, Booker, StatementFails, storeVars
    <3>2. Moves(t)
      BY <1>1, <3>1 DEF Moves, Goto, IInv, TypeOK
    <3>3. request[t].op = "create" /\ request[t].user = user_id[t]
      BY <1>1, <3>1 DEF IInv, SessionHasUser
    <3> QED
      BY <3>1, <3>2, <3>3
  <2> QED
    BY <2>2, <2>3, <2>4
<1>2. IInv /\ [Next]_vars => [Owned]_vars
  BY <1>1
<1> QED
  BY Invariance, <1>2, PTL DEF Spec, BookingUserIsRequester

-----------------------------------------------------------------------------
(***************************************************************************)
(* As long as requests do not overlap, the server implements the booking   *)
(* ledger: every step of SerialSpec is a step of the ledger or leaves it   *)
(* alone. The properties of single requests follow from the same invariant.*)
(***************************************************************************)

(* The invariant: what the thread of the one request under way has parsed  *)
(* into the globals is still there, so the globals are as good as locals.  *)

Others(t) == \A o \in Thread \ {t} : Waiting(o)

OneAtATime == \A t \in Thread : Waiting(t) \/ Others(t)

EmailOf(u)    == [field |-> "email", user |-> u]
PasswordOf(u) == [field |-> "password", user |-> u]
LoginOf(t, u) == request[t] = [op |-> "login", user |-> u]

\* strtok is in the thread's own message, a LOGIN whose first k - 1 tokens are
\* copied; a client that has gone leaves nothing to parse.
AuthFits(t) ==
  /\ strtok.buf = t
  /\ \/ request[t] = [op |-> "eof"] /\ strtok.at = LoginTokens + 1
     \/ \E u \in User :
          /\ LoginOf(t, u)
          /\ \/ strtok.at = 1 /\ credential[t] = <<>>
             \/ strtok.at = 2 /\ credential[t] = <<EmailOf(u)>>

CopyFits(t) ==
  \/ token = None
  \/ \E u \in User :
       /\ LoginOf(t, u) /\ strtok.buf = t
       /\ \/ token = [of |-> t, at |-> 1] /\ strtok.at = 2 /\ credential[t] = <<>>
          \/ token = [of |-> t, at |-> 2] /\ credential[t] = <<EmailOf(u)>>

CheckFits(t) ==
  \E u \in User : LoginOf(t, u) /\ credential[t] = <<EmailOf(u), PasswordOf(u)>>

CreateFits(t, price) ==
  request[t] = [op |-> "create", user |-> user_id[t], price |-> price, flight |-> flight_id]

MadeFits(t) ==
  /\ request[t].op = "create"
  /\ id_arg[t] # 0
  /\ pc[t] = "answer_booking" => booking_id = id_arg[t]

DetailOf(t, m) ==
  /\ m \in SeatLists
  /\ request[t] = [op |-> "detail", booking |-> booking_id, seats |-> m]

\* seat_list holds the list m, of whose commas only some before byte p are cut.
ListHolds(m, p) ==
  /\ seat_list[Len(m) + 1] = NUL
  /\ \A k \in 1..Len(m) :
       seat_list[k] = m[k] \/ (k < p /\ m[k] = Comma /\ seat_list[k] = NUL)

Behind(m, j) == IF j = Len(m) + 1 THEN j ELSE j + 1

\* seat is a code of the list asked for, cut off at byte j from the next, and
\* strtok's position is behind it.
SeatFits(t) ==
  \E m \in SeatLists, j \in Nat :
    /\ DetailOf(t, m)
    /\ IsCode(m, seat[t], j)
    /\ seat_list[j] = NUL
    /\ strtok = [buf |-> None, at |-> Behind(m, j)]
    /\ ListHolds(m, Behind(m, j))

RequestFits(t) ==
  /\ pc[t] = "auth" => AuthFits(t)
  /\ pc[t] = "copy" => CopyFits(t)
  /\ pc[t] = "check_login" => CheckFits(t)
  /\ pc[t] = "call_insert_booking" => CreateFits(t, total_price)
  /\ pc[t] = "insert_booking" => CreateFits(t, price_arg[t])
  /\ pc[t] \in {"store_insert_id", "answer_booking"} => MadeFits(t)
  /\ pc[t] = "call_delete_booking" => request[t] = [op |-> "delete", booking |-> booking_id]
  /\ pc[t] = "first_seat" => \E m \in SeatLists : DetailOf(t, m) /\ ListHolds(m, 1)
  /\ pc[t] \in {"call_insert_detail", "insert_detail", "next_seat"} => SeatFits(t)
  /\ pc[t] = "insert_detail" => id_arg[t] = booking_id

SerialInv == OneAtATime /\ \A t \in Thread : RequestFits(t)

-----------------------------------------------------------------------------
(* The ledger's variables, as the server's state defines them.             *)

Asked == [t \in Thread |-> IF Waiting(t) \/ request[t].op = "eof"
                           THEN NoRequest ELSE OrderOf(request[t])]
Made  == [t \in Thread |-> IF pc[t] \in {"store_insert_id", "answer_booking"}
                           THEN id_arg[t] ELSE 0]

LedgerVars == <<storeVars, user_id, Asked, reply, Made>>

\* A step of t's request: pc, request and id_arg of the others stay.
Only(t) ==
  \A o \in Thread \ {t} : pc'[o] = pc[o] /\ request'[o] = request[o] /\ id_arg'[o] = id_arg[o]

\* The others go on waiting; the new state has to fit t's request only.
LEMMA StepKeepsOthers ==
  ASSUME NEW t \in Thread, Others(t), Only(t), RequestFits(t)'
  PROVE  SerialInv'
<1>1. \A o \in Thread \ {t} : pc'[o] = pc[o] /\ pc[o] \in {"closed", "idle", "spin"}
  BY DEF Only, Others, Waiting
<1>2. \A o \in Thread \ {t} : RequestFits(o)'
  BY <1>1 DEF RequestFits
<1>3. OneAtATime'
  BY <1>1 DEF OneAtATime, Others, Waiting
<1> QED
  BY <1>2, <1>3 DEF SerialInv

LEMMA OnlyAskedChanges ==
  ASSUME NEW t \in Thread, Only(t)
  PROVE  Asked' = [Asked EXCEPT ![t] = Asked'[t]] /\ Made' = [Made EXCEPT ![t] = Made'[t]]
<1>1. \A o \in Thread \ {t} : Asked'[o] = Asked[o] /\ Made'[o] = Made[o]
  BY DEF Only, Asked, Made, Waiting
<1> QED
  BY <1>1 DEF Asked, Made

LEMMA OthersAskNothing ==
  ASSUME NEW t \in Thread, Others(t)
  PROVE  \A o \in Thread \ {t} : Asked[o] = NoRequest /\ Made[o] = 0
BY DEF Asked, Made, Others, Waiting

LEMMA QuietAsked ==
  ASSUME NEW t \in Thread, Only(t)
  PROVE  /\ Asked'[t] = Asked[t] => Asked' = Asked
         /\ Made'[t] = Made[t] => Made' = Made
<1>1. Asked = [o \in Thread |-> Asked[o]] /\ Made = [o \in Thread |-> Made[o]]
  BY DEF Asked, Made
<1>2. Asked' = [Asked EXCEPT ![t] = Asked'[t]] /\ Made' = [Made EXCEPT ![t] = Made'[t]]
  BY OnlyAskedChanges
<1> QED
  BY <1>1, <1>2

\* A step that the ledger does not see.
LEMMA QuietStep ==
  ASSUME NEW t \in Thread, Only(t), Asked'[t] = Asked[t], Made'[t] = Made[t],
         UNCHANGED <<storeVars, user_id, reply>>
  PROVE  UNCHANGED LedgerVars
BY QuietAsked DEF LedgerVars

Orders == LoginRequest \cup CreateRequest \cup SeatOrder \cup DeleteRequest

\* A request that arrives.
LEMMA AskStep ==
  ASSUME NEW t \in Thread, Others(t), Only(t), pc[t] = "idle",
         pc'[t] \in {"auth", "call_insert_booking", "first_seat", "call_delete_booking"},
         OrderOf(request'[t]) \in Orders,
         request'[t].op = "create" => request'[t].user = user_id[t],
         reply' = [reply EXCEPT ![t] = NoReply],
         UNCHANGED <<storeVars, user_id>>
  PROVE  Ledger!Next
<1>1. request'[t].op # "eof"
  BY DEF Orders, LoginRequest, CreateRequest, SeatOrder, DeleteRequest, OrderOf
<1>2. /\ Asked[t] = NoRequest /\ Asked'[t] = OrderOf(request'[t])
      /\ Made[t] = 0 /\ Made'[t] = 0
      /\ Asked'[t].op = "create" => Asked'[t].user = user_id[t]
  <2>1. Asked'[t] = OrderOf(request'[t])
    BY <1>1 DEF Asked, Waiting
  <2>2. OrderOf(request'[t]).op = "create" => OrderOf(request'[t]).user = user_id[t]
    BY DEF OrderOf
  <2> QED
    BY <2>1, <2>2 DEF Asked, Made, Waiting
<1>3. Made' = Made /\ Asked' = [Asked EXCEPT ![t] = Asked'[t]]
  BY <1>2, OnlyAskedChanges DEF Made
<1>4. \A o \in Thread \ {t} : Asked'[o] = NoRequest /\ Asked[o] = NoRequest
  BY <1>3, OthersAskNothing DEF Asked
<1>5. Asked' \in [Thread -> Orders \cup {NoRequest}]
  BY <1>2, <1>4 DEF Asked
<1>6. Ledger!Ask(t)
  BY <1>2, <1>3, <1>4, <1>5
     DEF Ledger!Ask, Ledger!Idle, Ledger!Silence, Ledger!storeVars, storeVars, NoRequest,
         NoReply, Orders, Asked, Made
<1> QED
  BY <1>6 DEF Ledger!Next

LEMMA AppendToOne ==
  ASSUME NEW x, NEW y
  PROVE  Append(<<x>>, y) = <<x, y>>
<1> DEFINE s == Append(<<x>>, y)
<1>1. s \in Seq({x, y}) /\ Len(s) = 2 /\ s[1] = x /\ s[2] = y
  <2>1. <<x>> \in Seq({x, y})
    OBVIOUS
  <2> QED
    BY <2>1
<1> HIDE DEF s
<1>2. s = <<x, y>>
  BY <1>1
<1> QED
  BY <1>2, Zenon DEF s

-----------------------------------------------------------------------------
(* One lemma for each action.                                              *)

LEMMA ProcessDiesIsLedger ==
  ASSUME ProcessDies
  PROVE  SerialInv' /\ Ledger!Next
<1> USE DEF ProcessDies, All
<1>1. \A t \in Thread : pc'[t] = "closed"
  OBVIOUS
<1>2. SerialInv'
  BY <1>1 DEF SerialInv, OneAtATime, Waiting, RequestFits
<1>3. Ledger!Forget(Thread)
  BY <1>1
     DEF Ledger!Forget, Ledger!Idle, Ledger!Silence, Ledger!storeVars, storeVars, NoRequest,
         NoReply, Waiting
<1> QED
  BY <1>2, <1>3 DEF Ledger!Next

LEMMA AcceptIsLedger ==
  ASSUME IInv, NEW t \in Thread, Others(t), Accept(t)
  PROVE  SerialInv' /\ Ledger!Next
<1> USE DEF IInv
<1>1. /\ pc[t] = "closed" /\ pc'[t] = "idle" /\ Only(t)
      /\ UNCHANGED storeVars
  BY DEF Accept, Goto, locals, Only, TypeOK
<1>2. SerialInv'
  BY <1>1, StepKeepsOthers DEF RequestFits
<1>3. Ledger!Forget({t})
  <2>1. /\ user_id' = [o \in Thread |-> IF o \in {t} THEN None ELSE user_id[o]]
        /\ reply' = [o \in Thread |-> IF o \in {t} THEN NoReply ELSE reply[o]]
    BY DEF Accept, TypeOK
  <2>2. Asked'[t] = NoRequest /\ Made'[t] = 0
    BY <1>1 DEF Asked, Made, Waiting
  <2>3. /\ Asked' = [o \in Thread |-> IF o \in {t} THEN NoRequest ELSE Asked[o]]
        /\ Made' = [o \in Thread |-> IF o \in {t} THEN 0 ELSE Made[o]]
    BY <1>1, <2>2, OnlyAskedChanges DEF Asked, Made
  <2> QED
    BY <1>1, <2>1, <2>3
       DEF Ledger!Forget, Ledger!Idle, Ledger!Silence, Ledger!storeVars, storeVars,
           NoRequest, NoReply, Asked, Made
<1> QED
  BY <1>2, <1>3 DEF Ledger!Next

LEMMA ReadPaddingIsLedger ==
  ASSUME IInv, NEW t \in Thread, Others(t), ReadPadding(t)
  PROVE  SerialInv' /\ UNCHANGED LedgerVars
<1> USE DEF IInv
<1>1. pc[t] = "idle" /\ pc'[t] = "idle" /\ Only(t) /\ UNCHANGED <<storeVars, user_id, reply>>
  BY DEF ReadPadding, session, locals, Only, TypeOK
<1>2. RequestFits(t)'
  BY <1>1 DEF RequestFits
<1>3. Asked'[t] = Asked[t] /\ Made'[t] = Made[t]
  BY <1>1 DEF Asked, Made, Waiting
<1> QED
  BY <1>1, <1>2, <1>3, StepKeepsOthers, QuietStep

LEMMA DisconnectIsLedger ==
  ASSUME IInv, NEW t \in Thread, Others(t), Disconnect(t)
  PROVE  SerialInv' /\ UNCHANGED LedgerVars
<1> USE DEF IInv
<1>1. pc[t] = "idle" /\ Only(t) /\ UNCHANGED <<storeVars, user_id, reply, id_arg>>
  BY DEF Disconnect, Goto, session, Only, TypeOK
<1>2. \/ pc'[t] \in {"closed", "spin"}
      \/ /\ pc'[t] = "auth" /\ request'[t] = [op |-> "eof"]
         /\ strtok' = [buf |-> t, at |-> LoginTokens + 1]
  BY DEF Disconnect, Goto, TypeOK
<1>3. RequestFits(t)'
  BY <1>2 DEF RequestFits, AuthFits
<1>4. Asked'[t] = Asked[t] /\ Made'[t] = Made[t]
  BY <1>1, <1>2 DEF Asked, Made, Waiting
<1> QED
  BY <1>1, <1>3, <1>4, StepKeepsOthers, QuietStep

LEMMA LoginIsLedger ==
  ASSUME IInv, NEW t \in Thread, Others(t), NEW u \in User, Login(t, u)
  PROVE  SerialInv' /\ Ledger!Next
<1> USE DEF IInv
<1>1. /\ pc[t] = "idle" /\ pc'[t] = "auth" /\ Only(t)
      /\ request'[t] = [op |-> "login", user |-> u]
      /\ strtok' = [buf |-> t, at |-> 1]
      /\ credential'[t] = <<>>
      /\ reply' = [reply EXCEPT ![t] = NoReply]
      /\ UNCHANGED <<storeVars, user_id>>
  BY DEF Login, Receive, Goto, session, Only, TypeOK
<1>2. RequestFits(t)'
  BY <1>1 DEF RequestFits, AuthFits, LoginOf
<1>3. OrderOf(request'[t]) \in Orders /\ request'[t].op # "create"
  BY <1>1 DEF Orders, OrderOf, LoginRequest
<1> QED
  BY <1>1, <1>2, <1>3, StepKeepsOthers, AskStep

LEMMA LoginTokenIsLedger ==
  ASSUME IInv, SerialInv, NEW t \in Thread, Others(t), LoginToken(t)
  PROVE  SerialInv' /\ UNCHANGED LedgerVars
<1> USE DEF IInv
<1>1. /\ pc[t] = "auth" /\ pc'[t] = "copy" /\ Only(t)
      /\ UNCHANGED <<storeVars, user_id, request, reply, id_arg, credential>>
  BY DEF LoginToken, Goto, session, locals, Only, TypeOK
<1>2. AuthFits(t)
  BY <1>1 DEF SerialInv, RequestFits
<1>3. IF InBuffer(t) /\ strtok.at <= LoginTokens
      THEN token' = [of |-> t, at |-> strtok.at] /\ strtok' = [buf |-> t, at |-> strtok.at + 1]
      ELSE token' = None
  BY <1>2, MarksAssumption DEF LoginToken, AuthFits
<1>4. CopyFits(t)'
  <2>1. CASE request[t] = [op |-> "eof"]
    BY <1>3, <2>1 DEF CopyFits, InBuffer
  <2>2. ASSUME NEW u \in User, LoginOf(t, u),
               \/ strtok.at = 1 /\ credential[t] = <<>>
               \/ strtok.at = 2 /\ credential[t] = <<EmailOf(u)>>
        PROVE  CopyFits(t)'
    <3>1. /\ token' = [of |-> t, at |-> strtok.at]
          /\ strtok' = [buf |-> t, at |-> strtok.at + 1]
      BY <1>3, <2>2 DEF InBuffer, LoginOf, LoginTokens
    <3> QED
      BY <1>1, <2>2, <3>1 DEF CopyFits, LoginOf
  <2> QED
    BY <1>2, <2>1, <2>2 DEF AuthFits
<1>5. SerialInv'
  BY <1>1, <1>4, StepKeepsOthers DEF RequestFits
<1>6. Asked'[t] = Asked[t] /\ Made'[t] = Made[t]
  BY <1>1 DEF Asked, Made, Waiting
<1> QED
  BY <1>1, <1>5, <1>6, QuietStep

LEMMA CopyTokenIsLedger ==
  ASSUME IInv, SerialInv, NEW t \in Thread, Others(t), CopyToken(t), token # None
  PROVE  SerialInv' /\ UNCHANGED LedgerVars
<1> USE DEF IInv
<1>1. /\ pc[t] = "copy" /\ Only(t)
      /\ pc'[t] = IF Len(credential[t]) + 1 = LoginTokens THEN "check_login" ELSE "auth"
      /\ credential'[t] = Append(credential[t], TokenText)
      /\ UNCHANGED <<storeVars, user_id, request, reply, id_arg, strtok>>
  BY DEF CopyToken, Goto, session, Only, TypeOK
<1>2. PICK u \in User :
        /\ LoginOf(t, u) /\ strtok.buf = t
        /\ \/ token = [of |-> t, at |-> 1] /\ strtok.at = 2 /\ credential[t] = <<>>
           \/ token = [of |-> t, at |-> 2] /\ credential[t] = <<EmailOf(u)>>
  BY <1>1 DEF SerialInv, RequestFits, CopyFits
<1>3. token.of = t /\ token # Junk
  BY <1>2, TokensAssumption DEF LoginTokens
<1>4. TokenText = IF token.at = 1 THEN EmailOf(u) ELSE PasswordOf(u)
  BY <1>2, <1>3 DEF TokenText, InBuffer, LoginOf, EmailOf, PasswordOf
<1>5. RequestFits(t)'
  <2>1. CASE token = [of |-> t, at |-> 1] /\ strtok.at = 2 /\ credential[t] = <<>>
    <3>1. pc'[t] = "auth" /\ credential'[t] = <<EmailOf(u)>>
      BY <1>1, <1>4, <2>1 DEF LoginTokens
    <3> QED
      BY <1>1, <1>2, <2>1, <3>1 DEF RequestFits, AuthFits, LoginOf
  <2>2. CASE token = [of |-> t, at |-> 2] /\ credential[t] = <<EmailOf(u)>>
    <3>1. TokenText = PasswordOf(u) /\ Len(credential[t]) = 1
      BY <1>4, <2>2
    <3>2. Append(<<EmailOf(u)>>, PasswordOf(u)) = <<EmailOf(u), PasswordOf(u)>>
      BY AppendToOne
    <3>3. pc'[t] = "check_login" /\ credential'[t] = <<EmailOf(u), PasswordOf(u)>>
      BY <1>1, <2>2, <3>1, <3>2 DEF LoginTokens
    <3> QED
      BY <1>1, <1>2, <3>3 DEF RequestFits, CheckFits, LoginOf
  <2> QED
    BY <1>2, <2>1, <2>2
<1>6. SerialInv'
  BY <1>1, <1>5, StepKeepsOthers
<1>7. Asked'[t] = Asked[t] /\ Made'[t] = Made[t]
  BY <1>1 DEF Asked, Made, Waiting
<1> QED
  BY <1>1, <1>6, <1>7, QuietStep

LEMMA CheckLoginIsLedger ==
  ASSUME IInv, SerialInv, NEW t \in Thread, Others(t), CheckLogin(t)
  PROVE  SerialInv' /\ Ledger!Next
<1> USE DEF IInv
<1>1. /\ pc[t] = "check_login" /\ pc'[t] = "idle" /\ Only(t)
      /\ UNCHANGED <<storeVars, id_arg>>
  BY DEF CheckLogin, Clear, Goto, Only, session, TypeOK
<1>2. SerialInv'
  BY <1>1, StepKeepsOthers DEF RequestFits
<1>3. PICK u \in User : LoginOf(t, u) /\ credential[t] = <<EmailOf(u), PasswordOf(u)>>
  BY <1>1 DEF SerialInv, RequestFits, CheckFits
<1>4. /\ Asked[t] = [op |-> "login", user |-> u] /\ Asked'[t] = NoRequest
      /\ Made[t] = 0 /\ Made'[t] = 0
  BY <1>1, <1>3 DEF LoginOf, OrderOf, Waiting, Asked, Made
<1>5. Made' = Made /\ Asked' = [Asked EXCEPT ![t] = NoRequest]
  BY <1>1, <1>4, OnlyAskedChanges DEF Made
<1> USE DEF Ledger!Tell, Ledger!Idle, Ledger!storeVars, Answer, session, storeVars, NoRequest,
            Asked, Made
<1>6. CASE Answer(t, [kind |-> "failed"]) /\ UNCHANGED <<session, request>>
  <2>1. Ledger!Refuse(t)
    BY <1>1, <1>4, <1>5, <1>6 DEF Ledger!Refuse
  <2> QED
    BY <1>2, <2>1 DEF Ledger!Next
<1>7. ASSUME NEW v \in User,
             credential[t] = <<[field |-> "email", user |-> v],
                               [field |-> "password", user |-> v]>>,
             user_id' = [user_id EXCEPT ![t] = v],
             Answer(t, [kind |-> "welcome", user |-> v])
      PROVE  SerialInv' /\ Ledger!Next
  <2>1. u = v
    BY <1>3, <1>7 DEF EmailOf
  <2>2. Asked[t].op = "login" /\ Asked[t].user = v
    BY <1>4, <2>1
  <2>3. Ledger!SignIn(t)
    BY <1>1, <1>5, <1>7, <2>2 DEF Ledger!SignIn
  <2> QED
    BY <1>2, <2>3 DEF Ledger!Next
<1> QED
  BY <1>6, <1>7 DEF CheckLogin

LEMMA LogoutIsLedger ==
  ASSUME IInv, NEW t \in Thread, Others(t), Logout(t)
  PROVE  SerialInv' /\ Ledger!Next
<1> USE DEF IInv
<1>1. /\ pc[t] = "idle" /\ pc'[t] = "idle" /\ Only(t)
      /\ user_id' = [user_id EXCEPT ![t] = None]
      /\ reply' = [reply EXCEPT ![t] = NoReply]
      /\ UNCHANGED storeVars
  BY DEF Logout, Receive, Goto, locals, Only, TypeOK
<1>2. SerialInv'
  BY <1>1, StepKeepsOthers DEF RequestFits
<1>3. Asked[t] = NoRequest /\ Asked'[t] = Asked[t] /\ Made'[t] = Made[t]
  BY <1>1 DEF Asked, Made, Waiting
<1>4. Asked' = Asked /\ Made' = Made
  BY <1>1, <1>3, QuietAsked
<1>5. Ledger!SignOut(t)
  BY <1>1, <1>3, <1>4
     DEF Ledger!SignOut, Ledger!Idle, Ledger!Silence, Ledger!storeVars, storeVars, NoRequest,
         NoReply, Asked, Made
<1> QED
  BY <1>2, <1>5 DEF Ledger!Next

LEMMA CreateNewBookingIsLedger ==
  ASSUME IInv, NEW t \in Thread, Others(t), NEW p \in Price, NEW f \in Flight,
         CreateNewBooking(t, p, f)
  PROVE  SerialInv' /\ Ledger!Next
<1> USE DEF IInv
<1>1. /\ is_logged_in[t] /\ pc[t] = "idle" /\ pc'[t] = "call_insert_booking" /\ Only(t)
      /\ request'[t] = [op |-> "create", user |-> user_id[t], price |-> p, flight |-> f]
      /\ total_price' = p /\ flight_id' = f
      /\ reply' = [reply EXCEPT ![t] = NoReply]
      /\ UNCHANGED <<storeVars, user_id>>
  BY DEF CreateNewBooking, Receive, Goto, session, locals, Only, TypeOK
<1>2. RequestFits(t)'
  BY <1>1 DEF RequestFits, CreateFits
<1>3. user_id[t] \in User
  BY <1>1 DEF SessionHasUser
<1>4. OrderOf(request'[t]) \in Orders /\ request'[t].user = user_id[t]
  BY <1>1, <1>3 DEF Orders, OrderOf, CreateRequest
<1> QED
  BY <1>1, <1>2, <1>4, StepKeepsOthers, AskStep

LEMMA CallInsertBookingIsLedger ==
  ASSUME IInv, SerialInv, NEW t \in Thread, Others(t), CallInsertBooking(t)
  PROVE  SerialInv' /\ UNCHANGED LedgerVars
<1> USE DEF IInv
<1>1. /\ pc[t] = "call_insert_booking" /\ pc'[t] = "insert_booking" /\ Only(t)
      /\ price_arg'[t] = total_price
      /\ UNCHANGED <<storeVars, user_id, request, reply, flight_id>>
  BY DEF CallInsertBooking, Goto, session, globals, Only, TypeOK
<1>2. RequestFits(t)'
  BY <1>1 DEF SerialInv, RequestFits, CreateFits
<1>3. Asked'[t] = Asked[t] /\ Made'[t] = Made[t]
  BY <1>1 DEF Asked, Made, Waiting
<1> QED
  BY <1>1, <1>2, <1>3, StepKeepsOthers, QuietStep

LEMMA InsertNewBookingIsLedger ==
  ASSUME IInv, SerialInv, NEW t \in Thread, Others(t), InsertNewBooking(t)
  PROVE  SerialInv' /\ Ledger!Next
<1> USE DEF IInv
<1>1. pc[t] = "insert_booking" /\ UNCHANGED user_id
  BY DEF InsertNewBooking, session
<1> DEFINE order == [op |-> "create", user |-> user_id[t], price |-> price_arg[t],
                    flight |-> flight_id]
<1>2. request[t] = order /\ Asked[t] = order /\ Made[t] = 0
  <2>1. request[t] = order
    BY <1>1 DEF SerialInv, RequestFits, CreateFits
  <2> QED
    BY <1>1, <2>1 DEF OrderOf, Asked, Made, Waiting
<1>3. CASE /\ InsertBooking(Booker(t), price_arg[t], flight_id)
           /\ id_arg' = [id_arg EXCEPT ![t] = nextId]
           /\ Goto(t, "insert_booking", "store_insert_id")
           /\ UNCHANGED <<request, reply>>
  <2>1. /\ pc'[t] = "store_insert_id" /\ Only(t) /\ id_arg'[t] = nextId
        /\ nextId # 0 /\ request'[t] = request[t]
    BY <1>3 DEF Goto, Only, TypeOK, BookingId
  <2>2. RequestFits(t)'
    BY <1>2, <2>1 DEF RequestFits, MadeFits
  <2>3. Asked'[t] = Asked[t] /\ Made'[t] = nextId
    BY <1>1, <2>1 DEF Asked, Made, Waiting
  <2>4. Asked' = Asked /\ Made' = [Made EXCEPT ![t] = nextId]
    BY <2>1, <2>3, OnlyAskedChanges, QuietAsked
  <2>5. Asked[t].op = "create" /\ Asked[t].user = user_id[t] /\ Asked[t].price = price_arg[t]
        /\ Asked[t].flight = flight_id
    BY <1>2
  <2>6. Ledger!Book(t)
    BY <1>1, <1>2, <1>3, <2>4, <2>5
       DEF Ledger!Book, Ledger!InsertBooking, InsertBooking, Booker, Asked, Made
  <2> QED
    BY <2>1, <2>2, <2>6, StepKeepsOthers DEF Ledger!Next
<1>4. CASE /\ StatementFails
           /\ Goto(t, "insert_booking", "idle")
           /\ Answer(t, [kind |-> "failed"])
           /\ Clear(t)
           /\ UNCHANGED id_arg
  <2>1. pc'[t] = "idle" /\ Only(t)
    BY <1>4 DEF Goto, Clear, Only, TypeOK
  <2>2. RequestFits(t)'
    BY <2>1 DEF RequestFits
  <2>3. Asked'[t] = NoRequest /\ Made'[t] = 0
    BY <2>1 DEF Asked, Made, Waiting
  <2>4. Asked' = [Asked EXCEPT ![t] = NoRequest] /\ Made' = Made
    BY <1>2, <2>1, <2>3, OnlyAskedChanges, QuietAsked
  <2>5. Asked[t].op = "create"
    BY <1>2
  <2>6. Ledger!Refuse(t)
    BY <1>1, <1>2, <1>4, <2>4, <2>5
       DEF Ledger!Refuse, Ledger!Tell, Ledger!Idle, Ledger!storeVars, StatementFails,
           storeVars, Answer, NoRequest, Asked, Made
  <2> QED
    BY <2>1, <2>2, <2>6, StepKeepsOthers DEF Ledger!Next
<1> QED
  BY <1>3, <1>4 DEF InsertNewBooking

LEMMA StoreInsertIdIsLedger ==
  ASSUME IInv, SerialInv, NEW t \in Thread, Others(t), StoreInsertId(t)
  PROVE  SerialInv' /\ UNCHANGED LedgerVars
<1> USE DEF IInv
<1>1. /\ pc[t] = "store_insert_id" /\ pc'[t] = "answer_booking" /\ Only(t)
      /\ booking_id' = id_arg[t]
      /\ UNCHANGED <<storeVars, user_id, request, reply, id_arg>>
  BY DEF StoreInsertId, Goto, session, locals, Only, TypeOK
<1>2. RequestFits(t)'
  BY <1>1 DEF SerialInv, RequestFits, MadeFits
<1>3. Asked'[t] = Asked[t] /\ Made'[t] = Made[t]
  BY <1>1 DEF Asked, Made, Waiting
<1> QED
  BY <1>1, <1>2, <1>3, StepKeepsOthers, QuietStep

LEMMA AnswerBookingIsLedger ==
  ASSUME IInv, SerialInv, NEW t \in Thread, Others(t), AnswerBooking(t)
  PROVE  SerialInv' /\ Ledger!Next
<1> USE DEF IInv
<1>1. /\ pc[t] = "answer_booking" /\ pc'[t] = "idle" /\ Only(t)
      /\ Answer(t, [kind |-> "created", id |-> booking_id])
      /\ UNCHANGED <<storeVars, user_id>>
  BY DEF AnswerBooking, Clear, Goto, session, Only, TypeOK
<1>2. RequestFits(t)'
  BY <1>1 DEF RequestFits
<1>3. Made[t] = booking_id /\ Made[t] # 0
  BY <1>1 DEF SerialInv, RequestFits, MadeFits, Made
<1>4. Asked'[t] = NoRequest /\ Made'[t] = 0
  BY <1>1 DEF Asked, Made, Waiting
<1>5. Asked' = [Asked EXCEPT ![t] = NoRequest] /\ Made' = [Made EXCEPT ![t] = 0]
  BY <1>1, <1>4, OnlyAskedChanges
<1>6. Ledger!TellBooking(t)
  BY <1>1, <1>3, <1>5
     DEF Ledger!TellBooking, Ledger!Tell, Ledger!Idle, Ledger!storeVars, storeVars, Answer,
         NoRequest, Asked, Made
<1> QED
  BY <1>1, <1>2, <1>6, StepKeepsOthers DEF Ledger!Next

LEMMA DeleteBookingRequestIsLedger ==
  ASSUME IInv, NEW t \in Thread, Others(t), NEW id \in 1..(nextId - 1),
         DeleteBookingRequest(t, id)
  PROVE  SerialInv' /\ Ledger!Next
<1> USE DEF IInv
<1>1. /\ pc[t] = "idle" /\ pc'[t] = "call_delete_booking" /\ Only(t)
      /\ request'[t] = [op |-> "delete", booking |-> id]
      /\ booking_id' = id
      /\ reply' = [reply EXCEPT ![t] = NoReply]
      /\ UNCHANGED <<storeVars, user_id>>
  BY DEF DeleteBookingRequest, Receive, Goto, session, locals, Only, TypeOK
<1>2. RequestFits(t)'
  BY <1>1 DEF RequestFits
<1>3. OrderOf(request'[t]) \in Orders /\ request'[t].op # "create"
  BY <1>1 DEF Orders, OrderOf, DeleteRequest, BookingId, TypeOK
<1> QED
  BY <1>1, <1>2, <1>3, StepKeepsOthers, AskStep

LEMMA CallDeleteBookingIsLedger ==
  ASSUME IInv, SerialInv, NEW t \in Thread, Others(t), CallDeleteBooking(t)
  PROVE  SerialInv' /\ Ledger!Next
<1> USE DEF IInv
<1>1. /\ pc[t] = "call_delete_booking" /\ pc'[t] = "idle" /\ Only(t)
      /\ UNCHANGED user_id
  BY DEF CallDeleteBooking, Clear, Goto, session, locals, Only, TypeOK
<1>2. RequestFits(t)'
  BY <1>1 DEF RequestFits
<1>3. /\ Asked[t].op = "delete" /\ Asked[t].booking = booking_id
      /\ Made[t] = 0 /\ Made'[t] = 0 /\ Asked'[t] = NoRequest
  BY <1>1 DEF SerialInv, RequestFits, OrderOf, Asked, Made, Waiting
<1>4. Asked' = [Asked EXCEPT ![t] = NoRequest] /\ Made' = Made
  BY <1>1, <1>3, OnlyAskedChanges, QuietAsked
<1>5. CASE /\ booking_id \in BookingIds
           /\ DeleteBooking(booking_id)
           /\ Answer(t, [kind |-> "ok"])
  <2>1. Ledger!Cancel(t)
    BY <1>1, <1>3, <1>4, <1>5
       DEF Ledger!Cancel, Ledger!Tell, Ledger!Idle, Ledger!DeleteBooking, Ledger!BookingIds,
           DeleteBooking, BookingIds, Answer, NoRequest, Asked, Made
  <2> QED
    BY <1>1, <1>2, <2>1, StepKeepsOthers DEF Ledger!Next
<1>6. CASE StatementFails /\ Answer(t, [kind |-> "failed"])
  <2>1. Ledger!Refuse(t)
    BY <1>1, <1>3, <1>4, <1>6
       DEF Ledger!Refuse, Ledger!Tell, Ledger!Idle, Ledger!storeVars, StatementFails,
           storeVars, Answer, NoRequest, Asked, Made
  <2> QED
    BY <1>1, <1>2, <2>1, StepKeepsOthers DEF Ledger!Next
<1> QED
  BY <1>5, <1>6 DEF CallDeleteBooking

\* strtok finds the code that starts at its position, cuts it off and moves on.
LEMMA TokenIsCode ==
  ASSUME TypeOK, NEW m \in SeatLists, NEW p \in 1..Len(m), p = 1 \/ m[p - 1] = Comma,
         ListHolds(m, p), NEW i \in 1..Size, NEW j \in 1..Size, TokenFrom(p, i, j), CutAt(j)
  PROVE  /\ i = p /\ IsCode(m, i, j)
         /\ seat_list'[j] = NUL
         /\ strtok' = [buf |-> None, at |-> Behind(m, j)]
         /\ ListHolds(m, Behind(m, j))'
<1>1. /\ Len(m) \in Nat /\ 1 <= Len(m) /\ Len(m) + 1 <= Size /\ Size \in Nat
      /\ \A k \in 1..Len(m) : m[k] \in Char \cup {Comma}
      /\ \A k \in 2..Len(m) : m[k - 1] = Comma => m[k] # Comma
      /\ m[1] # Comma
  BY ListFits, SizeAssumption, SeatListsAssumption
<1>2. /\ seat_list[Len(m) + 1] = NUL
      /\ \A k \in p..Len(m) : seat_list[k] = m[k]
  BY <1>1 DEF ListHolds
<1>3. i = p
  <2>1. m[p] # Comma
    BY <1>1
  <2>2. seat_list[p] # Comma
    BY <1>1, <1>2, <2>1
  <2> QED
    BY <2>2 DEF TokenFrom
<1>4. p < j /\ (\A k \in p..(j - 1) : seat_list[k] \in Char) /\ seat_list[j] \notin Char
  BY <1>3 DEF TokenFrom
<1>5. j <= Len(m) + 1
  BY <1>1, <1>2, <1>4, CharAssumption
<1>6. \A k \in p..(j - 1) : m[k] # Comma
  BY <1>1, <1>2, <1>4, <1>5, CharAssumption
<1>7. j = Len(m) + 1 \/ m[j] = Comma
  BY <1>1, <1>2, <1>4, <1>5
<1>8. IsCode(m, i, j)
  BY <1>1, <1>3, <1>4, <1>5, <1>6, <1>7 DEF IsCode
<1>9. /\ seat_list[j] = Comma <=> j # Len(m) + 1
      /\ \A k \in 1..Size : seat_list'[k] = IF k = j THEN NUL ELSE seat_list[k]
  <2>1. NUL # Comma
    BY DEF NUL, Comma
  <2>2. CASE j = Len(m) + 1
    BY <1>2, <2>1, <2>2 DEF TypeOK, CutAt
  <2>3. CASE j # Len(m) + 1
    <3>1. j \in p..Len(m) /\ m[j] = Comma
      BY <1>1, <1>4, <1>5, <1>7, <2>3
    <3> QED
      BY <1>2, <2>3, <3>1 DEF TypeOK, CutAt
  <2> QED
    BY <2>2, <2>3
<1>10. strtok' = [buf |-> None, at |-> Behind(m, j)]
  BY <1>9 DEF CutAt, Behind
<1>11. ListHolds(m, Behind(m, j))'
  <2>1. seat_list'[Len(m) + 1] = NUL
    BY <1>1, <1>2, <1>9
  <2>2. ASSUME NEW k \in 1..Len(m)
        PROVE  \/ seat_list'[k] = m[k]
               \/ k < Behind(m, j) /\ m[k] = Comma /\ seat_list'[k] = NUL
    <3>1. CASE k = j
      BY <1>1, <1>7, <1>9, <3>1 DEF Behind
    <3>2. CASE k # j
      <4>1. seat_list'[k] = seat_list[k]
        BY <1>1, <1>9, <3>2
      <4> QED
        BY <1>1, <1>4, <1>5, <4>1 DEF ListHolds, Behind
    <3> QED
      BY <3>1, <3>2
  <2> QED
    BY <2>1, <2>2 DEF ListHolds
<1> QED
  BY <1>3, <1>8, <1>9, <1>10, <1>11

\* What is read at a code that is cut off is that seat and nothing else.
LEMMA ReadsNamedSeat ==
  ASSUME TypeOK, NEW t \in Thread, NEW m \in SeatLists, NEW p, NEW j \in Nat,
         IsCode(m, seat[t], j), seat_list[j] = NUL, ListHolds(m, p)
  PROVE  \A s \in TextsRead(t) : s \in Seat /\ Names(m, s)
<1> DEFINE i == seat[t]
<1>1. /\ Len(m) \in Nat /\ Len(m) + 1 <= Size /\ Size \in Nat
      /\ \A k \in 1..Len(m) : m[k] \in Char \cup {Comma}
  BY ListFits, SizeAssumption
<1>2. /\ i \in 1..Len(m) /\ j \in (i + 1)..(Len(m) + 1)
      /\ \A k \in i..(j - 1) : m[k] # Comma
  BY DEF IsCode
<1>3. \A k \in i..(j - 1) : seat_list[k] = m[k] /\ seat_list[k] \in Char /\ seat_list[k] # NUL
  BY <1>1, <1>2, CharAssumption DEF ListHolds
<1>4. \A s \in Seat : s \in Seq(Char) /\ Len(s) \in Nat /\ Len(s) # 0 /\ DOMAIN s = 1..Len(s)
  BY SeatAssumption
<1>5. ASSUME NEW s \in Seat, i + Len(s) <= Size, Spelled(seat_list, i, s),
             seat_list[i + Len(s)] = NUL
      PROVE  Names(m, s)
  <2>1. Len(s) \in Nat /\ Len(s) # 0 /\ DOMAIN s = 1..Len(s) /\ s \in Seq(Char)
    BY <1>4
  <2>2. \A k \in 1..Len(s) : seat_list[i + k - 1] = s[k] /\ s[k] \in Char
    <3>1. \A k \in 1..Len(s) : seat_list[i + k - 1] = s[k]
      BY <1>5, <2>1 DEF Spelled
    <3> QED
      BY <2>1, <3>1
  <2>3. j <= i + Len(s)
    BY <1>2, <1>3, <1>5, <2>1
  <2>4. ~(j < i + Len(s))
    <3>1. SUFFICES ASSUME j < i + Len(s) PROVE FALSE
      OBVIOUS
    <3> DEFINE k == j - i + 1
    <3>2. k \in 1..Len(s) /\ i + k - 1 = j
      BY <1>2, <2>1, <3>1
    <3>3. seat_list[j] \in Char
      BY <2>2, <3>2
    <3> QED
      BY <3>3, CharAssumption
  <2>5. j = i + Len(s)
    BY <1>2, <2>1, <2>3, <2>4
  <2>6. Spelled(m, i, s)
    <3>1. ASSUME NEW k \in 1..Len(s) PROVE m[i + k - 1] = s[k]
      <4>1. i + k - 1 \in i..(j - 1)
        BY <1>2, <2>1, <2>5
      <4> QED
        BY <1>3, <2>2, <4>1
    <3> QED
      BY <2>1, <3>1 DEF Spelled
  <2>7. i \in 1..(Len(m) + 1) /\ j \in 1..(Len(m) + 1)
    BY <1>1, <1>2
  <2> QED
    BY <2>5, <2>6, <2>7 DEF Names
<1>6. PICK s \in Seat : j = i + Len(s) /\ Spelled(m, i, s)
  <2>1. i \in 1..(Len(m) + 1) /\ j \in 1..(Len(m) + 1)
    BY <1>1, <1>2
  <2> QED
    BY <2>1, SeatListsAssumption
<1>7. s \in SeatsRead(t)
  <2>1. Len(s) \in Nat /\ DOMAIN s = 1..Len(s)
    BY <1>4
  <2>2. ASSUME NEW k \in 1..Len(s) PROVE seat_list[i + k - 1] = s[k]
    <3>1. i + k - 1 \in i..(j - 1)
      BY <1>2, <1>6, <2>1
    <3> QED
      BY <1>3, <1>6, <2>1, <3>1 DEF Spelled
  <2>3. seat[t] # Junk
    BY <1>2, MarksAssumption
  <2>4. i + Len(s) <= Size /\ seat_list[i + Len(s)] = NUL
    BY <1>1, <1>2, <1>6
  <2>5. Spelled(seat_list, i, s)
    BY <2>1, <2>2 DEF Spelled
  <2> QED
    BY <2>3, <2>4, <2>5 DEF SeatsRead
<1>8. TextsRead(t) = SeatsRead(t)
  BY <1>7 DEF TextsRead
<1> QED
  BY <1>5, <1>8 DEF SeatsRead

LEMMA CreateDetailBookingIsLedger ==
  ASSUME IInv, NEW t \in Thread, Others(t), Told(t), NEW m \in SeatLists,
         CreateDetailBooking(t, reply[t].id, m)
  PROVE  SerialInv' /\ Ledger!Next
<1> USE DEF IInv
<1>1. /\ pc[t] = "idle" /\ pc'[t] = "first_seat" /\ Only(t)
      /\ request'[t] = [op |-> "detail", booking |-> reply[t].id, seats |-> m]
      /\ booking_id' = reply[t].id
      /\ reply' = [reply EXCEPT ![t] = NoReply]
      /\ UNCHANGED <<storeVars, user_id>>
  BY DEF CreateDetailBooking, Receive, Goto, session, locals, Only, TypeOK
<1>2. ListHolds(m, 1)'
  <2>1. WriteSeatList(m)
    BY DEF CreateDetailBooking
  <2> QED
    BY <2>1, WrittenList DEF ListHolds
<1>3. DetailOf(t, m)'
  BY <1>1 DEF DetailOf
<1>4. RequestFits(t)'
  BY <1>1, <1>2, <1>3 DEF RequestFits
<1>5. OrderOf(request'[t]) \in Orders /\ request'[t].op # "create"
  <2>1. reply[t].id \in BookingId
    BY DEF AnsweredIdWasIssued, BookingId, TypeOK
  <2> QED
    BY <1>1, <2>1 DEF Orders, OrderOf, SeatOrder
<1> QED
  BY <1>1, <1>4, <1>5, StepKeepsOthers, AskStep

LEMMA FirstSeatIsLedger ==
  ASSUME IInv, SerialInv, NEW t \in Thread, Others(t), FirstSeat(t)
  PROVE  SerialInv' /\ UNCHANGED LedgerVars
<1> USE DEF IInv
<1>1. /\ pc[t] = "first_seat" /\ pc'[t] = "call_insert_detail" /\ Only(t)
      /\ UNCHANGED <<storeVars, user_id, request, reply, booking_id>>
  BY DEF FirstSeat, Goto, session, Only, TypeOK
<1>2. PICK i \in 1..Size, j \in 1..Size :
        TokenFrom(1, i, j) /\ seat' = [seat EXCEPT ![t] = i] /\ CutAt(j)
  BY DEF FirstSeat
<1>3. PICK m \in SeatLists : DetailOf(t, m) /\ ListHolds(m, 1)
  BY <1>1 DEF SerialInv, RequestFits
<1>4. 1 \in 1..Len(m) /\ seat'[t] = i /\ j \in Nat
  BY <1>2, ListFits DEF TypeOK
<1>5. /\ IsCode(m, i, j) /\ seat_list'[j] = NUL
      /\ strtok' = [buf |-> None, at |-> Behind(m, j)] /\ ListHolds(m, Behind(m, j))'
  BY <1>2, <1>3, <1>4, TokenIsCode
<1>6. DetailOf(t, m)'
  BY <1>1, <1>3 DEF DetailOf
<1>7. SeatFits(t)'
  BY <1>4, <1>5, <1>6 DEF SeatFits
<1>8. RequestFits(t)'
  BY <1>1, <1>7 DEF RequestFits
<1>9. Asked'[t] = Asked[t] /\ Made'[t] = Made[t]
  BY <1>1 DEF Asked, Made, Waiting
<1> QED
  BY <1>1, <1>8, <1>9, StepKeepsOthers, QuietStep

LEMMA CallInsertDetailIsLedger ==
  ASSUME IInv, SerialInv, NEW t \in Thread, Others(t), CallInsertDetail(t)
  PROVE  SerialInv' /\ UNCHANGED LedgerVars
<1> USE DEF IInv
<1>1. /\ pc[t] = "call_insert_detail" /\ pc'[t] = "insert_detail" /\ Only(t)
      /\ id_arg'[t] = booking_id
      /\ UNCHANGED <<storeVars, user_id, request, reply, seat, booking_id, seat_list, strtok>>
  BY DEF CallInsertDetail, Goto, session, globals, Only, TypeOK
<1>2. SeatFits(t)'
  <2>1. SeatFits(t)
    BY <1>1 DEF SerialInv, RequestFits
  <2> QED
    BY <1>1, <2>1 DEF SeatFits, DetailOf, ListHolds
<1>3. RequestFits(t)'
  BY <1>1, <1>2 DEF RequestFits
<1>4. Asked'[t] = Asked[t] /\ Made'[t] = Made[t]
  BY <1>1 DEF Asked, Made, Waiting
<1> QED
  BY <1>1, <1>3, <1>4, StepKeepsOthers, QuietStep

LEMMA InsertBookingDetailIsLedger ==
  ASSUME IInv, SerialInv, NEW t \in Thread, Others(t), InsertBookingDetail(t)
  PROVE  SerialInv' /\ (Ledger!Next \/ UNCHANGED LedgerVars)
<1> USE DEF IInv
<1>1. /\ pc[t] = "insert_detail" /\ pc'[t] = "next_seat" /\ Only(t)
      /\ UNCHANGED <<user_id, request, reply, seat, booking_id, seat_list, strtok>>
  BY DEF InsertBookingDetail, Goto, session, globals, Only, TypeOK
<1>2. SeatFits(t)'
  <2>1. SeatFits(t)
    BY <1>1 DEF SerialInv, RequestFits
  <2> QED
    BY <1>1, <2>1 DEF SeatFits, DetailOf, ListHolds
<1>3. SerialInv'
  BY <1>1, <1>2, StepKeepsOthers DEF RequestFits
<1>4. Asked'[t] = Asked[t] /\ Made'[t] = Made[t]
  BY <1>1 DEF Asked, Made, Waiting
<1>5. Asked' = Asked /\ Made' = Made
  BY <1>1, <1>4, QuietAsked
<1>6. CASE StatementFails
  BY <1>1, <1>3, <1>5, <1>6 DEF StatementFails, LedgerVars
<1>7. ASSUME NEW text \in TextsRead(t), InsertDetail(id_arg[t], text)
      PROVE  Ledger!Next
  <2>1. PICK m \in SeatLists, j \in Nat :
          /\ DetailOf(t, m) /\ IsCode(m, seat[t], j) /\ seat_list[j] = NUL
          /\ ListHolds(m, Behind(m, j))
    BY <1>1 DEF SerialInv, RequestFits, SeatFits
  <2>2. text \in Seat /\ Names(m, text)
    BY <1>7, <2>1, ReadsNamedSeat
  <2>3. id_arg[t] = booking_id
    BY <1>1 DEF SerialInv, RequestFits
  <2>4. Asked[t] = [op |-> "detail", booking |-> booking_id,
                    seats |-> {s \in Seat : Names(m, s)}]
    <3>1. request[t] = [op |-> "detail", booking |-> booking_id, seats |-> m]
      BY <2>1 DEF DetailOf
    <3>2. Asked[t] = OrderOf(request[t])
      BY <1>1, <3>1 DEF Asked, Waiting
    <3> QED
      BY <3>1, <3>2 DEF OrderOf
  <2>5. Asked[t].op = "detail" /\ Asked[t].booking = id_arg[t] /\ text \in Asked[t].seats
    BY <2>2, <2>3, <2>4
  <2>6. Ledger!AttachSeat(t, text)
    BY <1>1, <1>5, <1>7, <2>5
       DEF Ledger!AttachSeat, Ledger!InsertDetail, Ledger!BookingIds, Ledger!clientVars,
           InsertDetail, BookingIds, Asked, Made
  <2> QED
    BY <2>2, <2>6 DEF Ledger!Next
<1> QED
  BY <1>3, <1>6, <1>7 DEF InsertBookingDetail

LEMMA NextSeatIsLedger ==
  ASSUME IInv, SerialInv, NEW t \in Thread, Others(t), NextSeat(t)
  PROVE  SerialInv' /\ (Ledger!Next \/ UNCHANGED LedgerVars)
<1> USE DEF IInv
<1>1. pc[t] = "next_seat" /\ UNCHANGED <<storeVars, user_id, id_arg, booking_id>>
  BY DEF NextSeat, session
<1>2. PICK m \in SeatLists, e \in Nat :
        /\ DetailOf(t, m)
        /\ IsCode(m, seat[t], e)
        /\ strtok = [buf |-> None, at |-> Behind(m, e)]
        /\ ListHolds(m, Behind(m, e))
  BY <1>1 DEF SerialInv, RequestFits, SeatFits
<1> DEFINE p == Behind(m, e)
<1>3. /\ strtok.buf = None /\ strtok.at = p /\ \A c \in Thread : strtok.buf # c
      /\ Len(m) \in Nat /\ m[Len(m)] # Comma /\ e \in 1..(Len(m) + 1)
      /\ e = Len(m) + 1 \/ m[e] = Comma
  <2>1. Len(m) \in Nat /\ m[Len(m)] # Comma
    BY ListFits, CharAssumption
  <2> QED
    BY <1>2, <2>1, MarksAssumption DEF IsCode
<1>4. \/ p = Len(m) + 1 /\ e = Len(m) + 1
      \/ p \in 1..Len(m) /\ m[p - 1] = Comma /\ e = p - 1
  BY <1>3 DEF Behind
<1>5. request[t] = [op |-> "detail", booking |-> booking_id, seats |-> m]
  BY <1>2 DEF DetailOf
<1>6. ASSUME NEW i \in 1..Size, NEW j \in 1..Size, TokenFrom(p, i, j),
             seat' = [seat EXCEPT ![t] = i], CutAt(j)
      PROVE  SerialInv' /\ UNCHANGED LedgerVars
  <2>1. p \in 1..Len(m) /\ m[p - 1] = Comma
    <3>1. SUFFICES ASSUME p = Len(m) + 1 PROVE FALSE
      BY <1>4
    <3>2. seat_list[p] = NUL /\ p \in Nat
      BY <1>2, <1>3, <3>1 DEF ListHolds
    <3>3. i = p
      <4>1. seat_list[p] # Comma
        BY <3>2 DEF NUL, Comma
      <4> QED
        BY <1>6, <3>2, <4>1 DEF TokenFrom
    <3>4. seat_list[p] \in Char
      BY <1>6, <3>2, <3>3 DEF TokenFrom
    <3> QED
      BY <3>2, <3>4, CharAssumption
  <2>2. ListHolds(m, p)
    BY <1>2
  <2>3. /\ IsCode(m, i, j) /\ seat_list'[j] = NUL
        /\ strtok' = [buf |-> None, at |-> Behind(m, j)] /\ ListHolds(m, Behind(m, j))'
    <3> HIDE DEF p
    <3> QED
      BY <1>6, <2>1, <2>2, TokenIsCode
  <2>4. seat'[t] = i /\ seat'[t] # None /\ j \in Nat
    BY <1>6, MarksAssumption DEF TypeOK
  <2>5. pc'[t] = "call_insert_detail" /\ Only(t) /\ UNCHANGED <<request, reply>>
    BY <1>1, <2>4 DEF NextSeat, EndOrRepeat, Goto, Only, TypeOK
  <2>6. DetailOf(t, m)'
    BY <1>1, <1>2, <2>5 DEF DetailOf
  <2>7. SeatFits(t)'
    BY <2>3, <2>4, <2>6 DEF SeatFits
  <2>8. RequestFits(t)'
    BY <2>5, <2>7 DEF RequestFits
  <2>9. Asked'[t] = Asked[t] /\ Made'[t] = Made[t]
    BY <1>1, <2>5 DEF Asked, Made, Waiting
  <2> QED
    BY <1>1, <2>5, <2>8, <2>9, StepKeepsOthers, QuietStep
<1>7. ASSUME seat' = [seat EXCEPT ![t] = None]
      PROVE  SerialInv' /\ Ledger!Next
  <2>2. seat'[t] = None
    BY <1>7 DEF TypeOK
  <2>3. pc'[t] = "idle" /\ Only(t) /\ Answer(t, [kind |-> "ok"])
    BY <1>1, <2>2 DEF NextSeat, EndOrRepeat, Goto, Clear, Only, TypeOK
  <2>4. RequestFits(t)'
    BY <2>3 DEF RequestFits
  <2>5. Asked[t].op = "detail" /\ Asked'[t] = NoRequest /\ Made'[t] = Made[t]
    BY <1>1, <1>5, <2>3 DEF OrderOf, Asked, Made, Waiting
  <2>6. Asked' = [Asked EXCEPT ![t] = NoRequest] /\ Made' = Made
    BY <2>3, <2>5, OnlyAskedChanges, QuietAsked
  <2>7. Ledger!TellAttached(t)
    BY <1>1, <2>3, <2>5, <2>6
       DEF Ledger!TellAttached, Ledger!Tell, Ledger!Idle, Ledger!storeVars, storeVars,
           Answer, NoRequest, Asked, Made
  <2> QED
    BY <2>3, <2>4, <2>7, StepKeepsOthers DEF Ledger!Next
<1>8. \/ \E i, j \in 1..Size :
           TokenFrom(p, i, j) /\ seat' = [seat EXCEPT ![t] = i] /\ CutAt(j)
      \/ seat' = [seat EXCEPT ![t] = None]
  BY <1>3 DEF NextSeat
<1> QED
  BY <1>6, <1>7, <1>8

-----------------------------------------------------------------------------
(* Every step.                                                             *)

LEMMA AskIsLedger ==
  ASSUME IInv, NEW t \in Thread, Others(t), Ask(t)
  PROVE  SerialInv' /\ Ledger!Next
<1>1. ASSUME NEW u \in User, Login(t, u) PROVE SerialInv' /\ Ledger!Next
  BY <1>1, LoginIsLedger
<1>2. CASE Logout(t)
  BY <1>2, LogoutIsLedger
<1>3. ASSUME NEW p \in Price, NEW f \in Flight, CreateNewBooking(t, p, f)
      PROVE  SerialInv' /\ Ledger!Next
  BY <1>3, CreateNewBookingIsLedger
<1>4. ASSUME NEW m \in SeatLists, Told(t), CreateDetailBooking(t, reply[t].id, m)
      PROVE  SerialInv' /\ Ledger!Next
  BY <1>4, CreateDetailBookingIsLedger
<1>5. ASSUME NEW i \in Cancellable(t), DeleteBookingRequest(t, i)
      PROVE  SerialInv' /\ Ledger!Next
  <2>1. i \in 1..(nextId - 1)
    BY DEF Cancellable
  <2> QED
    BY <1>5, <2>1, DeleteBookingRequestIsLedger
<1> QED
  BY <1>1, <1>2, <1>3, <1>4, <1>5 DEF Ask

LEMMA HandleIsLedger ==
  ASSUME IInv, SerialInv, NEW t \in Thread, Others(t), Handle(t)
  PROVE  SerialInv' /\ (Ledger!Next \/ UNCHANGED LedgerVars)
<1>1. CASE LoginToken(t) \/ CheckLogin(t)
  BY <1>1, LoginTokenIsLedger, CheckLoginIsLedger
<1>2. CASE CopyToken(t)
  <2>1. CASE token = None
    BY <1>2, <2>1, ProcessDiesIsLedger DEF CopyToken
  <2>2. CASE token # None
    BY <1>2, <2>2, CopyTokenIsLedger
  <2> QED
    BY <2>1, <2>2
<1>3. CASE CallInsertBooking(t) \/ InsertNewBooking(t) \/ StoreInsertId(t) \/ AnswerBooking(t)
  BY <1>3, CallInsertBookingIsLedger, InsertNewBookingIsLedger, StoreInsertIdIsLedger,
     AnswerBookingIsLedger
<1>4. CASE CallDeleteBooking(t)
  BY <1>4, CallDeleteBookingIsLedger
<1>5. CASE FirstSeat(t) \/ CallInsertDetail(t) \/ InsertBookingDetail(t) \/ NextSeat(t)
  BY <1>5, FirstSeatIsLedger, CallInsertDetailIsLedger, InsertBookingDetailIsLedger,
     NextSeatIsLedger
<1> QED
  BY <1>1, <1>2, <1>3, <1>4, <1>5 DEF Handle

LEMMA RestIsLedger ==
  ASSUME SerialInv, Restart \/ UNCHANGED vars
  PROVE  SerialInv' /\ UNCHANGED LedgerVars
<1>1. UNCHANGED <<storeVars, pc, session, request, reply, locals, globals>>
  BY DEF Restart, vars
<1>2. UNCHANGED LedgerVars
  BY <1>1 DEF LedgerVars, Asked, Made, Waiting, session, locals
<1>3. OneAtATime'
  BY <1>1 DEF SerialInv, OneAtATime, Others, Waiting
<1>4. ASSUME NEW t \in Thread PROVE RequestFits(t)'
  <2>1. UNCHANGED <<pc, user_id, request, credential, price_arg, id_arg, seat, token,
                    total_price, flight_id, booking_id, seat_list, strtok>>
    BY <1>1 DEF session, locals, globals
  <2>2. /\ AuthFits(t) => AuthFits(t)'
        /\ CopyFits(t) => CopyFits(t)'
        /\ CheckFits(t) => CheckFits(t)'
        /\ MadeFits(t) => MadeFits(t)'
    BY <2>1 DEF AuthFits, CopyFits, CheckFits, MadeFits, LoginOf
  <2>3. /\ SeatFits(t) => SeatFits(t)'
        /\ \A m \in SeatLists :
             DetailOf(t, m) /\ ListHolds(m, 1) => (DetailOf(t, m) /\ ListHolds(m, 1))'
    BY <2>1 DEF SeatFits, DetailOf, ListHolds
  <2>4. RequestFits(t)
    BY DEF SerialInv
  <2> QED
    BY <2>1, <2>2, <2>3, <2>4 DEF RequestFits, CreateFits
<1> QED
  BY <1>2, <1>3, <1>4 DEF SerialInv

LEMMA SerialNextIsNext == SerialNext => Next
BY DEF SerialNext, Next

LEMMA SerialStep ==
  ASSUME IInv, SerialInv, [SerialNext]_vars
  PROVE  SerialInv' /\ [Ledger!Next]_LedgerVars
<1>1. CASE Restart \/ UNCHANGED vars
  BY <1>1, RestIsLedger
<1>2. CASE Killed
  BY <1>2, ProcessDiesIsLedger DEF Killed
<1>3. ASSUME NEW t \in Thread, Others(t), Step(t)
      PROVE  SerialInv' /\ [Ledger!Next]_LedgerVars
  BY <1>3, AcceptIsLedger, ReadPaddingIsLedger, DisconnectIsLedger, AskIsLedger, HandleIsLedger DEF Step
<1> QED
  BY <1>1, <1>2, <1>3 DEF SerialNext, Others

LEMMA InitIsLedger == Init => SerialInv /\ Ledger!Init
<1> SUFFICES ASSUME Init PROVE SerialInv /\ Ledger!Init
  OBVIOUS
<1>1. \A t \in Thread : pc[t] = "closed"
  BY DEF Init, All
<1>2. SerialInv
  BY <1>1 DEF SerialInv, OneAtATime, Waiting, RequestFits
<1>3. Ledger!Init
  BY <1>1
     DEF Init, All, StoreInit, Ledger!Init, Ledger!StoreInit, Ledger!Idle, Ledger!Silence,
         NoRequest, NoReply, Waiting
<1> QED
  BY <1>2, <1>3

LEMMA SerialInvariance == SerialSpec => [](IInv /\ SerialInv)
<1>1. Init => IInv /\ SerialInv
  BY InitIInv, InitIsLedger
<1>2. IInv /\ SerialInv /\ [SerialNext]_vars => (IInv /\ SerialInv)'
  BY NextKeepsIInv, SerialNextIsNext, SerialStep
<1> QED
  BY <1>1, <1>2, PTL DEF SerialSpec

-----------------------------------------------------------------------------
(* Theorems                                                                *)

(* The server is the booking ledger as long as requests do not overlap:    *)
(* crashes, lost connections and failing statements included, every change *)
(* of tables, sessions and answers is one the order under way calls for    *)
(* (handle_client, server.c:128-334).                                      *)
THEOREM ImplementsLedger == SerialSpec => LedgerSpec
<1>1. Init => Ledger!Init
  BY InitIsLedger
<1>2. IInv /\ SerialInv /\ [SerialNext]_vars => [Ledger!Next]_(Ledger!vars)
  BY SerialStep DEF LedgerVars, Asked, Made, Ledger!vars, Ledger!storeVars, storeVars
<1> QED
  BY <1>1, <1>2, SerialInvariance, PTL DEF SerialSpec, LedgerSpec, Ledger!Spec

\* The steps that change the tables.
LEMMA StoreChanges ==
  ASSUME SerialNext
  PROVE  \/ UNCHANGED storeVars
         \/ \E t \in Thread :
              InsertNewBooking(t) \/ CallDeleteBooking(t) \/ InsertBookingDetail(t)
<1>1. CASE Killed \/ Restart
  BY <1>1 DEF Killed, ProcessDies, Restart
<1>2. ASSUME NEW t \in Thread, Step(t)
      PROVE  \/ UNCHANGED storeVars
             \/ InsertNewBooking(t) \/ CallDeleteBooking(t) \/ InsertBookingDetail(t)
  BY <1>2
     DEF Step, Accept, ReadPadding, Disconnect, Ask, Login, Logout, CreateNewBooking,
         CreateDetailBooking, DeleteBookingRequest, Handle, LoginToken, CopyToken,
         ProcessDies, CheckLogin, CallInsertBooking, StoreInsertId, AnswerBooking,
         FirstSeat, CallInsertDetail, NextSeat
<1> QED
  BY <1>1, <1>2 DEF SerialNext

(* A booking carries user, price and flight of the request it was inserted *)
(* for (server.c:301-303).                                                 *)
THEOREM BookingsAreAsAsked == SerialSpec => BookingAsAsked
<1> DEFINE AsAsked == \A b \in bookings' \ bookings : \E t \in Thread :
              Moves(t) /\ request[t] = [op |-> "create", user |-> b.user,
                                        price |-> b.price, flight |-> b.flight]
<1>1. ASSUME IInv, SerialInv, [SerialNext]_vars PROVE AsAsked
  <2> SUFFICES ASSUME NEW b \in bookings' \ bookings
               PROVE  \E t \in Thread :
                        Moves(t) /\ request[t] = [op |-> "create", user |-> b.user,
                                                  price |-> b.price, flight |-> b.flight]
    OBVIOUS
  <2>1. PICK t \in Thread : InsertNewBooking(t)
    BY <1>1, StoreChanges
       DEF vars, storeVars, CallDeleteBooking, DeleteBooking, InsertBookingDetail,
           InsertDetail, StatementFails
  <2>2. /\ pc[t] = "insert_booking" /\ Goto(t, "insert_booking", "store_insert_id")
        /\ b = [id |-> nextId, user |-> user_id[t], price |-> price_arg[t],
                flight |-> flight_id]
    BY <2>1 DEF InsertNewBooking, InsertBooking, Booker, StatementFails, storeVars
  <2>3. Moves(t)
    BY <1>1, <2>2 DEF Moves, Goto, IInv, TypeOK
  <2>4. CreateFits(t, price_arg[t])
    BY <1>1, <2>2 DEF SerialInv, RequestFits
  <2> QED
    BY <2>2, <2>3, <2>4 DEF CreateFits
<1>2. IInv /\ SerialInv /\ [SerialNext]_vars => [AsAsked]_vars
  BY <1>1
<1> QED
  BY SerialInvariance, <1>2, PTL DEF SerialSpec, BookingAsAsked

(* A booking disappears only when the request under way names it           *)
(* (server.c:290-292).                                                     *)
THEOREM DeletionsAreAsked == SerialSpec => OnlyAskedDeletions
<1> DEFINE AsAsked == \A b \in bookings \ bookings' : \E t \in Thread :
              Moves(t) /\ request[t] = [op |-> "delete", booking |-> b.id]
<1>1. ASSUME IInv, SerialInv, [SerialNext]_vars PROVE AsAsked
  <2> SUFFICES ASSUME NEW b \in bookings \ bookings'
               PROVE  \E t \in Thread :
                        Moves(t) /\ request[t] = [op |-> "delete", booking |-> b.id]
    OBVIOUS
  <2>1. PICK t \in Thread : CallDeleteBooking(t)
    BY <1>1, StoreChanges
       DEF vars, storeVars, InsertNewBooking, InsertBooking, InsertBookingDetail,
           InsertDetail, StatementFails
  <2>2. Goto(t, "call_delete_booking", "idle") /\ b.id = booking_id
    BY <2>1 DEF CallDeleteBooking, DeleteBooking, StatementFails, storeVars
  <2>3. Moves(t)
    BY <1>1, <2>2 DEF Moves, Goto, IInv, TypeOK
  <2>4. request[t] = [op |-> "delete", booking |-> booking_id]
    BY <1>1, <2>2 DEF SerialInv, RequestFits, Goto
  <2> QED
    BY <2>2, <2>3, <2>4
<1>2. IInv /\ SerialInv /\ [SerialNext]_vars => [AsAsked]_vars
  BY <1>1
<1> QED
  BY SerialInvariance, <1>2, PTL DEF SerialSpec, OnlyAskedDeletions

(* A seat row goes in only for the booking and a seat that the request     *)
(* under way names (server.c:313-326).                                     *)
THEOREM SeatsAreAsAsked == SerialSpec => SeatsAsAsked
<1> DEFINE AsAsked == \A d \in details' \ details : \E t \in Thread :
              /\ Moves(t)
              /\ request[t].op = "detail"
              /\ request[t].booking = d.booking
              /\ d.seat \in Seat /\ Names(request[t].seats, d.seat)
<1>1. ASSUME IInv, SerialInv, [SerialNext]_vars PROVE AsAsked
  <2> SUFFICES ASSUME NEW d \in details' \ details
               PROVE  \E t \in Thread :
                        /\ Moves(t)
                        /\ request[t].op = "detail"
                        /\ request[t].booking = d.booking
                        /\ d.seat \in Seat /\ Names(request[t].seats, d.seat)
    OBVIOUS
  <2>1. PICK t \in Thread : InsertBookingDetail(t)
    BY <1>1, StoreChanges
       DEF vars, storeVars, InsertNewBooking, InsertBooking, CallDeleteBooking,
           DeleteBooking, StatementFails
  <2>2. /\ Goto(t, "insert_detail", "next_seat")
        /\ \E text \in TextsRead(t) : d = [booking |-> id_arg[t], seat |-> text]
    BY <2>1 DEF InsertBookingDetail, InsertDetail, StatementFails, storeVars
  <2>3. Moves(t)
    BY <1>1, <2>2 DEF Moves, Goto, IInv, TypeOK
  <2>4. id_arg[t] = booking_id /\ SeatFits(t)
    BY <1>1, <2>2 DEF SerialInv, RequestFits, Goto
  <2>5. PICK m \in SeatLists, j \in Nat :
          /\ DetailOf(t, m) /\ IsCode(m, seat[t], j) /\ seat_list[j] = NUL
          /\ ListHolds(m, Behind(m, j))
    BY <2>4 DEF SeatFits
  <2>6. d.booking = booking_id /\ d.seat \in Seat /\ Names(m, d.seat)
    BY <1>1, <2>2, <2>4, <2>5, ReadsNamedSeat DEF IInv
  <2>7. request[t] = [op |-> "detail", booking |-> booking_id, seats |-> m]
    BY <2>5 DEF DetailOf
  <2> QED
    BY <2>3, <2>6, <2>7
<1>2. IInv /\ SerialInv /\ [SerialNext]_vars => [AsAsked]_vars
  BY <1>1
<1> QED
  BY SerialInvariance, <1>2, PTL DEF SerialSpec, SeatsAsAsked

(* CREATE NEW BOOKING answers with the id of the booking it has made       *)
(* (server.c:305).                                                         *)
THEOREM AnswersNameOwnBooking == SerialSpec => AnswerNamesOwnBooking
<1> DEFINE Own == \A t \in Thread : Told(t)' /\ ~Told(t) => reply'[t].id = id_arg[t]
<1>1. ASSUME IInv, SerialInv, [SerialNext]_vars PROVE Own
  <2> SUFFICES ASSUME NEW t \in Thread, Told(t)', ~Told(t)
               PROVE  reply'[t].id = id_arg[t]
    OBVIOUS
  <2>1. AnswerBooking(t)
    <3>1. reply' # reply /\ reply \in [Thread -> Reply]
      BY <1>1 DEF Told, IInv, TypeOK
    <3>2. PICK o \in Thread : Step(o)
      BY <1>1, <3>1 DEF Told, SerialNext, vars, Restart, Killed, ProcessDies, All, NoReply
    <3>3. \/ AnswerBooking(o)
          \/ reply' = reply
          \/ \E r \in Reply : reply' = [reply EXCEPT ![o] = r] /\ r.kind # "created"
          \/ reply' = All(NoReply)
      <4>1. CASE Accept(o) \/ ReadPadding(o) \/ Disconnect(o) \/ Ask(o)
        BY <4>1
           DEF Accept, ReadPadding, Disconnect, Ask, Login, Logout, CreateNewBooking, Receive,
               CreateDetailBooking, DeleteBookingRequest, NoReply, Reply
      <4>2. CASE LoginToken(o) \/ CopyToken(o)
        BY <4>2 DEF LoginToken, CopyToken, ProcessDies
      <4>3. CASE CheckLogin(o)
        <5>1. \/ Answer(o, [kind |-> "failed"])
              \/ \E u \in User : Answer(o, [kind |-> "welcome", user |-> u])
          BY <4>3 DEF CheckLogin
        <5>2. ASSUME NEW u \in User, Answer(o, [kind |-> "welcome", user |-> u])
              PROVE  \E r \in Reply : reply' = [reply EXCEPT ![o] = r] /\ r.kind # "created"
          <6>1. [kind |-> "welcome", user |-> u] \in Reply
            BY DEF Reply
          <6> WITNESS [kind |-> "welcome", user |-> u] \in Reply
          <6> QED
            BY <5>2 DEF Answer
        <5>3. ASSUME Answer(o, [kind |-> "failed"])
              PROVE  \E r \in Reply : reply' = [reply EXCEPT ![o] = r] /\ r.kind # "created"
          <6>1. [kind |-> "failed"] \in Reply
            BY DEF Reply
          <6> WITNESS [kind |-> "failed"] \in Reply
          <6> QED
            BY <5>3 DEF Answer
        <5> QED
          BY <5>1, <5>2, <5>3
      <4>4. CASE \/ CallInsertBooking(o) \/ InsertNewBooking(o) \/ StoreInsertId(o)
                 \/ CallDeleteBooking(o)
        BY <4>4
           DEF CallInsertBooking, InsertNewBooking, StoreInsertId, CallDeleteBooking, Answer,
               Reply
      <4>5. CASE FirstSeat(o) \/ CallInsertDetail(o) \/ InsertBookingDetail(o)
        BY <4>5 DEF FirstSeat, CallInsertDetail, InsertBookingDetail
      <4>6. CASE NextSeat(o)
        <5>1. UNCHANGED reply \/ Answer(o, [kind |-> "ok"])
          BY <4>6 DEF NextSeat, EndOrRepeat
        <5> QED
          BY <5>1 DEF Answer, Reply
      <4> QED
        BY <3>2, <4>1, <4>2, <4>3, <4>4, <4>5, <4>6 DEF Step, Handle
    <3>4. AnswerBooking(o)
      BY <3>1, <3>3 DEF Told, All, NoReply
    <3> QED
      BY <3>1, <3>4 DEF AnswerBooking, Answer, Told
  <2>2. pc[t] = "answer_booking" /\ reply'[t].id = booking_id
    BY <1>1, <2>1 DEF AnswerBooking, Goto, Answer, IInv, TypeOK
  <2>3. booking_id = id_arg[t]
    BY <1>1, <2>2 DEF SerialInv, RequestFits, MadeFits
  <2> QED
    BY <2>2, <2>3
<1>2. IInv /\ SerialInv /\ [SerialNext]_vars => [Own]_vars
  BY <1>1
<1> QED
  BY SerialInvariance, <1>2, PTL DEF SerialSpec, AnswerNamesOwnBooking

(* LOGIN signs in the user it names, out of tokens that two threads would  *)
(* have shared (server.c:160-181).                                         *)
THEOREM SessionsAreOwn == SerialSpec => SessionIsOwn
<1> DEFINE Own == \A t \in Thread :
       is_logged_in'[t] /\ ~is_logged_in[t] =>
         request[t] = [op |-> "login", user |-> user_id'[t]]
<1>1. ASSUME IInv, SerialInv, [SerialNext]_vars PROVE Own
  <2> SUFFICES ASSUME NEW t \in Thread, is_logged_in'[t], ~is_logged_in[t]
               PROVE  request[t] = [op |-> "login", user |-> user_id'[t]]
    OBVIOUS
  <2>1. CheckLogin(t)
    <3>1. is_logged_in' # is_logged_in /\ is_logged_in \in [Thread -> BOOLEAN]
      BY <1>1 DEF IInv, TypeOK
    <3>2. PICK o \in Thread : Step(o)
      BY <1>1, <3>1 DEF SerialNext, vars, session, Restart, Killed, ProcessDies, All
    <3>3. \/ CheckLogin(o)
          \/ is_logged_in' = is_logged_in
          \/ is_logged_in' = [is_logged_in EXCEPT ![o] = FALSE]
          \/ is_logged_in' = All(FALSE)
      BY <3>2
         DEF Step, Accept, ReadPadding, Disconnect, Ask, Login, Logout, CreateNewBooking, session,
             CreateDetailBooking, DeleteBookingRequest, Handle, LoginToken, CopyToken,
             ProcessDies, CallInsertBooking, InsertNewBooking, StoreInsertId,
             AnswerBooking, CallDeleteBooking, FirstSeat, CallInsertDetail,
             InsertBookingDetail, NextSeat
    <3>4. CheckLogin(o)
      BY <3>1, <3>3 DEF All
    <3> QED
      BY <3>1, <3>4 DEF CheckLogin, session
  <2>2. PICK u \in User : LoginOf(t, u) /\ credential[t] = <<EmailOf(u), PasswordOf(u)>>
    BY <1>1, <2>1 DEF SerialInv, RequestFits, CheckFits, CheckLogin, Goto
  <2>3. PICK v \in User : credential[t] = <<[field |-> "email", user |-> v],
                                            [field |-> "password", user |-> v]>>
                          /\ user_id' = [user_id EXCEPT ![t] = v]
    BY <2>1 DEF CheckLogin, session
  <2>4. v = u /\ user_id'[t] = v
    BY <1>1, <2>2, <2>3 DEF EmailOf, IInv, TypeOK
  <2> QED
    BY <2>2, <2>4 DEF LoginOf
<1>2. IInv /\ SerialInv /\ [SerialNext]_vars => [Own]_vars
  BY <1>1
<1> QED
  BY SerialInvariance, <1>2, PTL DEF SerialSpec, SessionIsOwn
=============================================================================
