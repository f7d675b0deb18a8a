--------------------------- MODULE MyBookingsProofs ---------------------------
(***************************************************************************)
(* What holds of MyBookings for any number of applications, users and      *)
(* bookings, and whatever order the database returns rows in, as long as   *)
(* one request is handled at a time and the database answers.              *)
(***************************************************************************)
EXTENDS MyBookings, FiniteSetTheorems, TLAPS

-----------------------------------------------------------------------------
(* The inductive invariant *)

StoreFits ==
  /\ bookings \subseteq BookingRow /\ details \subseteq DetailRow(Seat)
  /\ nextId \in BookingId /\ nextId <= MaxId + 1
  /\ \A b \in bookings : b.id < nextId
  /\ \A a, b \in bookings : a.id = b.id => a = b

\* x may be shown to c: it is no booking of another user, and will not be.
IsOwn(c, x) ==
  \/ x = 0
  \/ x \in Index /\ x < nextId /\ \A b \in bookings : b.id = x => b.user = Owner[c]

Listed(c) == RowsOf[OwnIds(Owner[c])]

ServerFits ==
  /\ up = TRUE
  /\ tickets \in Seq(Index \cup {Garbage}) /\ count_ticket \in 0..MaxId
  /\ pc \in [Client -> {"idle", "query", "copy", "count", "list"}]
  /\ then \in [Client -> {"show", "keep"}]
  /\ rows \in [Client -> Seq(Index)] /\ copied \in [Client -> Nat]
  /\ \A c \in Client : copied[c] <= Len(rows[c])

OneAtATime == \A c, o \in Client : pc[c] # "idle" /\ pc[o] # "idle" => c = o

\* How far the answer is that the thread of c works on.
Fetched ==
  \A c \in Client :
    /\ pc[c] = "copy" =>
         /\ rows[c] = Listed(c) /\ Len(tickets) = Len(Listed(c)) /\ count_ticket = Len(Listed(c))
         /\ \A i \in 1..copied[c] : tickets[i] = Listed(c)[i]
    /\ pc[c] \in {"count", "list"} => tickets = Listed(c) /\ count_ticket = Len(Listed(c))
    /\ pc[c] = "list" => ticket_count[c] = Len(Listed(c))

Element == Index \cup {0, Garbage}

AppFits ==
  /\ ticket_count \in [Client -> 0..MaxId]
  /\ list_tickets \in [Client -> [Index -> Element]]
  /\ cards \in [Client -> Seq(Element)]
  /\ dialog \in [Client -> [at : 0..MaxId, card : Element]]
  /\ cancel \in [Client -> Seq([id : Element, card : Element])]
  /\ \A c \in Client :
       /\ Len(cards[c]) <= MaxId
       /\ dialog[c] # NoDialog => dialog[c].at # 0

AllOwn ==
  \A c \in Client :
    /\ \A i \in Index : IsOwn(c, list_tickets[c][i])
    /\ \A i \in DOMAIN cards[c] : IsOwn(c, cards[c][i])
    /\ cancel[c] # <<>> => IsOwn(c, Head(cancel[c]).id)

IInv == StoreFits /\ ServerFits /\ OneAtATime /\ Fetched /\ AppFits /\ AllOwn

LEMMA TypeParts == IInv => TypeOK
<1> SUFFICES ASSUME IInv PROVE TypeOK
  OBVIOUS
<1>1. \A c \in Client : copied[c] \in 0..Len(rows[c])
  <2> TAKE c \in Client
  <2>1. rows[c] \in Seq(Index) /\ copied[c] \in Nat /\ copied[c] <= Len(rows[c])
    BY DEF IInv, ServerFits
  <2> QED
    BY <2>1
<1> QED
  BY <1>1 DEF IInv, TypeOK, StoreFits, ServerFits, AppFits, Element

-----------------------------------------------------------------------------
(* Lists *)

LEMMA RowsType ==
  ASSUME NEW ids \in SUBSET Index
  PROVE  /\ RowsOf[ids] \in Seq(Index) /\ Len(RowsOf[ids]) \in 0..MaxId
         /\ \A i \in 1..Len(RowsOf[ids]) : RowsOf[ids][i] \in ids
<1>1. IsFiniteSet(Index) /\ Cardinality(Index) = MaxId
  BY RowsAssumption, FS_Interval DEF Index
<1>2. IsFiniteSet(ids) /\ Cardinality(ids) <= MaxId
  BY <1>1, FS_Subset
<1>3. Cardinality(ids) \in 0..MaxId
  BY <1>2, FS_CardinalityType, RowsAssumption
<1>4. RowsOf[ids] \in [1..Cardinality(ids) -> ids]
  BY RowsAssumption DEF Index
<1> HIDE DEF Index
<1>5. RowsOf[ids] \in Seq(Index) /\ Len(RowsOf[ids]) = Cardinality(ids)
  BY <1>3, <1>4
<1> QED
  BY <1>3, <1>4, <1>5

LEMMA OwnIdsType ==
  ASSUME StoreFits, NEW u
  PROVE  OwnIds(u) \in SUBSET Index
  BY RowsAssumption DEF StoreFits, OwnIds, Index, BookingRow, BookingId

LEMMA ListedType ==
  ASSUME StoreFits, NEW c \in Client
  PROVE  /\ Listed(c) \in Seq(Index) /\ Len(Listed(c)) \in 0..MaxId
         /\ \A i \in 1..Len(Listed(c)) : IsOwn(c, Listed(c)[i])
<1>1. OwnIds(Owner[c]) \in SUBSET Index
  BY OwnIdsType
<1>2. /\ Listed(c) \in Seq(Index) /\ Len(Listed(c)) \in 0..MaxId
      /\ \A i \in 1..Len(Listed(c)) : Listed(c)[i] \in OwnIds(Owner[c])
  BY <1>1, RowsType DEF Listed
<1>3. \A x \in OwnIds(Owner[c]) : IsOwn(c, x)
  BY <1>1 DEF StoreFits, OwnIds, IsOwn
<1> QED
  BY <1>2, <1>3

\* What is a user's own stays so when bookings are made or deleted.
LEMMA OwnStays ==
  ASSUME StoreFits, StoreFits', nextId <= nextId',
         \A b \in bookings' : b \in bookings \/ b.id = nextId
  PROVE  \A c, x : IsOwn(c, x) => IsOwn(c, x)'
  BY DEF StoreFits, IsOwn, Index, BookingId

\* And what only the bookings decide stays the same while they do.
LEMMA SameStore ==
  ASSUME UNCHANGED storeVars
  PROVE  /\ StoreFits' <=> StoreFits
         /\ \A c : Listed(c)' = Listed(c)
         /\ \A c, x : IsOwn(c, x)' <=> IsOwn(c, x)
  BY DEF storeVars, StoreFits, Listed, OwnIds, IsOwn

LEMMA InitIInv == Init => IInv
<1> SUFFICES ASSUME Init PROVE IInv
  OBVIOUS
<1>1. StoreFits
  BY RowsAssumption DEF Init, StoreInit, StoreFits, BookingId
<1>2. ServerFits /\ OneAtATime /\ Fetched
  BY RowsAssumption DEF Init, ServerFits, OneAtATime, Fetched
<1>3. AppFits
  BY RowsAssumption DEF Init, AppFits, Element, NoDialog
<1>4. AllOwn
  BY DEF Init, AllOwn, IsOwn
<1> QED
  BY <1>1, <1>2, <1>3, <1>4 DEF IInv

-----------------------------------------------------------------------------
(* The steps *)

LEMMA BookKeepsIInv ==
  ASSUME IInv, \A c \in Client : pc[c] = "idle", NEW seats \in (SUBSET Seat) \ {{}}, Book(seats)
  PROVE  IInv'
<1>1. PICK u \in User, p \in Price, f \in Flight : NewBooking(u, p, f, seats)
  BY DEF Book
<1>2. /\ bookings' = bookings \cup {[id |-> nextId, user |-> u, price |-> p, flight |-> f]}
      /\ details' = details \cup {[booking |-> nextId, seat |-> s] : s \in seats}
      /\ nextId' = nextId + 1 /\ nextId <= MaxId
      /\ UNCHANGED <<up, pc, then, server, app>>
  BY <1>1 DEF NewBooking
<1>3. StoreFits'
  <2>1. bookings' \subseteq BookingRow /\ details' \subseteq DetailRow(Seat)
    BY <1>2 DEF IInv, StoreFits, BookingRow, DetailRow
  <2>2. nextId' \in BookingId /\ nextId' <= MaxId + 1
    BY <1>2, RowsAssumption DEF IInv, StoreFits, BookingId
  <2>3. \A b \in bookings' : b \in bookings \/ b = [id |-> nextId, user |-> u, price |-> p, flight |-> f]
    BY <1>2
  <2>4. \A b \in bookings' : b \in bookings \/ b.id = nextId
    BY <2>3
  <2>5. \A b \in bookings : b.id < nextId /\ b.id # nextId /\ b.id < nextId + 1
    BY DEF IInv, StoreFits, BookingRow, BookingId
  <2>6. nextId < nextId + 1
    BY DEF IInv, StoreFits, BookingId
  <2>7. \A b \in bookings' : b.id < nextId'
    BY <1>2, <2>4, <2>5, <2>6
  <2>8. \A a, b \in bookings' : a.id = b.id => a = b
    BY <2>3, <2>4, <2>5 DEF IInv, StoreFits
  <2> QED
    BY <2>1, <2>2, <2>7, <2>8 DEF StoreFits
<1>4. \A c, x : IsOwn(c, x) => IsOwn(c, x)'
  <2>1. nextId <= nextId' /\ \A b \in bookings' : b \in bookings \/ b.id = nextId
    BY <1>2 DEF IInv, StoreFits, BookingId
  <2> QED
    BY <1>3, <2>1, OwnStays DEF IInv
<1>5. ServerFits' /\ OneAtATime' /\ AppFits'
  BY <1>2 DEF IInv, ServerFits, OneAtATime, AppFits, server, app
<1>6. Fetched'
  BY <1>2 DEF Fetched
<1>7. AllOwn'
  BY <1>2, <1>4 DEF IInv, AllOwn, app
<1> QED
  BY <1>3, <1>5, <1>6, <1>7 DEF IInv

\* An application asks for its list.
LEMMA AskKeeps ==
  ASSUME IInv, NEW c \in Client, NEW next \in {"show", "keep"},
         Alone(c), Free(c), GetListTicketsOrdered(c, next), UNCHANGED <<up, server>>
  PROVE  ServerFits' /\ OneAtATime' /\ Fetched'
<1>1. pc' = [pc EXCEPT ![c] = "query"] /\ then' = [then EXCEPT ![c] = next]
  BY DEF GetListTicketsOrdered
<1>2. \A o \in Client : IF o = c THEN pc'[o] = "query" ELSE pc'[o] = "idle"
  BY <1>1 DEF IInv, ServerFits, Alone
<1>3. ServerFits'
  BY <1>1 DEF IInv, ServerFits, server
<1> QED
  BY <1>2, <1>3 DEF OneAtATime, Fetched

LEMMA AppKeepsIInv ==
  ASSUME IInv, NEW c \in Client, Alone(c), Ask(c)
  PROVE  IInv'
<1>1. CASE ShowListTickets(c) \/ ShowNotification(c)
  <2>1. /\ Free(c) /\ (GetListTicketsOrdered(c, "show") \/ GetListTicketsOrdered(c, "keep"))
        /\ UNCHANGED <<storeVars, up, server, app>>
    BY <1>1 DEF ShowListTickets, ShowNotification
  <2>2. ServerFits' /\ OneAtATime' /\ Fetched'
    BY <2>1, AskKeeps
  <2>3. StoreFits' /\ AppFits' /\ AllOwn'
    BY <2>1, SameStore DEF IInv, AppFits, AllOwn, app
  <2> QED
    BY <2>2, <2>3 DEF IInv
<1>2. ASSUME NEW i \in DOMAIN cards[c], OnCancelClicked(c, i) PROVE IInv'
  <2>1. /\ dialog' = [dialog EXCEPT ![c] = [at |-> i, card |-> cards[c][i]]]
        /\ UNCHANGED <<storeVars, up, pc, then, server, ticket_count, list_tickets, cards, cancel>>
    BY <1>2 DEF OnCancelClicked
  <2>2. i \in 1..MaxId /\ i # 0 /\ cards[c][i] \in Element
    BY RowsAssumption DEF IInv, AppFits
  <2>3. AppFits'
    <3> DEFINE d == [at |-> i, card |-> cards[c][i]]
    <3>1. d \in [at : 0..MaxId, card : Element] /\ d.at # 0
      BY <2>2
    <3>2. dialog' = [dialog EXCEPT ![c] = d]
      BY <2>1
    <3> HIDE DEF d
    <3> QED
      BY <2>1, <3>1, <3>2 DEF IInv, AppFits
  <2> QED
    BY <2>1, <2>3, SameStore DEF IInv, ServerFits, OneAtATime, Fetched, AllOwn, server
<1>3. CASE DialogAnswered(c)
  <2>1. /\ dialog[c] # NoDialog /\ dialog' = [dialog EXCEPT ![c] = NoDialog]
        /\ UNCHANGED <<storeVars, up, pc, then, server, ticket_count, list_tickets, cards>>
        /\ \/ UNCHANGED cancel
           \/ cancel' = [cancel EXCEPT ![c] =
                <<[id |-> CancelId(c, dialog[c].at), card |-> dialog[c].card]>>]
    BY <1>3 DEF DialogAnswered
  <2>2. dialog[c].at \in Index /\ dialog[c].card \in Element
    BY <2>1, RowsAssumption DEF IInv, AppFits, Index
  <2>3. CancelId(c, dialog[c].at) \in Element /\ IsOwn(c, CancelId(c, dialog[c].at))
    BY <2>2 DEF IInv, AppFits, AllOwn, CancelId
  <2>4. NoDialog \in [at : 0..MaxId, card : Element]
    BY RowsAssumption DEF NoDialog, Element
  <2>5. AppFits'
    <3> DEFINE d == [id |-> CancelId(c, dialog[c].at), card |-> dialog[c].card]
    <3>1. <<d>> \in Seq([id : Element, card : Element])
      BY <2>2, <2>3
    <3>2. UNCHANGED cancel \/ cancel' = [cancel EXCEPT ![c] = <<d>>]
      BY <2>1
    <3> HIDE DEF d
    <3>3. cancel' \in [Client -> Seq([id : Element, card : Element])]
      BY <3>1, <3>2 DEF IInv, AppFits
    <3>4. /\ dialog' \in [Client -> [at : 0..MaxId, card : Element]]
          /\ \A o \in Client : dialog'[o] # NoDialog => dialog'[o].at # 0
      BY <2>1, <2>4 DEF IInv, AppFits
    <3> QED
      BY <2>1, <3>3, <3>4 DEF IInv, AppFits
  <2>6. AllOwn'
    <3>1. \A o \in Client : cancel'[o] # <<>> => IsOwn(o, Head(cancel'[o]).id)
      <4>1. CASE UNCHANGED cancel
        BY <4>1 DEF IInv, AllOwn
      <4>2. CASE cancel' = [cancel EXCEPT ![c] =
                   <<[id |-> CancelId(c, dialog[c].at), card |-> dialog[c].card]>>]
        <5>1. \A o \in Client : o # c => cancel'[o] = cancel[o]
          BY <4>2 DEF IInv, AppFits
        <5>2. Head(cancel'[c]).id = CancelId(c, dialog[c].at)
          BY <4>2 DEF IInv, AppFits
        <5> QED
          BY <2>3, <5>1, <5>2 DEF IInv, AllOwn
      <4> QED
        BY <2>1, <4>1, <4>2
    <3> QED
      BY <2>1, <3>1, SameStore DEF IInv, AllOwn
  <2> QED
    BY <2>1, <2>5, <2>6, SameStore DEF IInv, ServerFits, OneAtATime, Fetched, server
<1>4. CASE ExecuteCancel(c)
  <2>1. /\ Free(c) /\ cancel' = [cancel EXCEPT ![c] = <<>>]
        /\ DeleteBooking(Head(cancel[c]).id) \/ StatementFails
        /\ GetListTicketsOrdered(c, "show")
        /\ UNCHANGED <<up, server, ticket_count, list_tickets, cards, dialog>>
    BY <1>4 DEF ExecuteCancel
  <2>2. ServerFits' /\ OneAtATime' /\ Fetched'
    BY <2>1, AskKeeps
  <2>3. bookings' \subseteq bookings /\ details' \subseteq details /\ nextId' = nextId
    BY <2>1 DEF DeleteBooking, StatementFails, storeVars
  <2>4. StoreFits'
    BY <2>3 DEF IInv, StoreFits
  <2>5. \A o, x : IsOwn(o, x) => IsOwn(o, x)'
    BY <2>3 DEF IsOwn
  <2>6. AppFits'
    <3>1. <<>> \in Seq([id : Element, card : Element])
      OBVIOUS
    <3> QED
      BY <2>1, <3>1 DEF IInv, AppFits
  <2>7. \A o \in Client : cancel'[o] # <<>> => cancel'[o] = cancel[o]
    BY <2>1 DEF IInv, AppFits
  <2>8. AllOwn'
    BY <2>1, <2>5, <2>7 DEF IInv, AllOwn
  <2> QED
    BY <2>2, <2>4, <2>6, <2>8 DEF IInv
<1> QED
  BY <1>1, <1>2, <1>3, <1>4 DEF Ask

\* Others are not at work while c's thread is.
LEMMA OthersIdle ==
  ASSUME IInv, NEW c \in Client, pc[c] # "idle"
  PROVE  \A o \in Client : o # c => pc[o] = "idle"
  BY DEF IInv, OneAtATime

LEMMA QueryKeepsIInv ==
  ASSUME IInv, NEW c \in Client, QueryBookings(c)
  PROVE  IInv'
<1> DEFINE n == Cardinality(OwnIds(Owner[c]))
<1>1. /\ pc[c] = "query" /\ rows' = [rows EXCEPT ![c] = Listed(c)]
      /\ copied' = [copied EXCEPT ![c] = 0] /\ count_ticket' = n
      /\ tickets' = [i \in 1..n |-> Garbage] /\ pc' = [pc EXCEPT ![c] = "copy"]
      /\ UNCHANGED <<storeVars, up, then, app>>
  BY DEF QueryBookings, StartCopy, Listed
<1>2. Listed(c) \in Seq(Index) /\ Len(Listed(c)) \in 0..MaxId
  BY ListedType DEF IInv
<1>3. n = Len(Listed(c))
  <2>1. OwnIds(Owner[c]) \in SUBSET (1..MaxId)
    BY OwnIdsType DEF IInv, Index
  <2>2. Listed(c) \in [1..n -> OwnIds(Owner[c])]
    BY <2>1, RowsAssumption DEF Listed
  <2>3. DOMAIN Listed(c) = 1..n /\ n \in Nat
    <3>1. IsFiniteSet(OwnIds(Owner[c]))
      BY <2>1, FS_Interval, FS_Subset, RowsAssumption
    <3> QED
      BY <2>2, <3>1, FS_CardinalityType
  <2> QED
    BY <1>2, <2>3
<1> HIDE DEF n
<1>4. /\ tickets' \in Seq(Index \cup {Garbage}) /\ Len(tickets') = n /\ count_ticket' \in 0..MaxId
  BY <1>1, <1>2, <1>3
<1>5. \A o \in Client : o # c => pc'[o] = "idle" /\ rows'[o] = rows[o] /\ copied'[o] = copied[o]
  BY <1>1, OthersIdle DEF IInv, ServerFits
<1>6. rows'[c] = Listed(c) /\ copied'[c] = 0 /\ pc'[c] = "copy"
  BY <1>1 DEF IInv, ServerFits
<1>7. ServerFits'
  BY <1>1, <1>2, <1>4, <1>5, <1>6 DEF IInv, ServerFits
<1>8. OneAtATime'
  BY <1>5 DEF OneAtATime
<1>9. Fetched'
  BY <1>1, <1>3, <1>4, <1>5, <1>6, SameStore DEF Fetched
<1>10. StoreFits' /\ AppFits' /\ AllOwn'
  BY <1>1, SameStore DEF IInv, AppFits, AllOwn, app
<1> QED
  BY <1>7, <1>8, <1>9, <1>10 DEF IInv

LEMMA CopyRowKeepsIInv ==
  ASSUME IInv, NEW c \in Client, CopyRow(c)
  PROVE  IInv'
<1> DEFINE i == copied[c] + 1
<1>1. /\ pc[c] = "copy" /\ i \in DOMAIN rows[c]
      /\ \/ /\ i \in DOMAIN tickets
            /\ tickets' = [tickets EXCEPT ![i] = rows[c][i]]
         \/ i \notin DOMAIN tickets /\ UNCHANGED tickets
      /\ copied' = [copied EXCEPT ![c] = i]
      /\ UNCHANGED <<storeVars, up, pc, then, count_ticket, rows, app>>
  BY DEF CopyRow
<1>2. /\ rows[c] = Listed(c) /\ Len(tickets) = Len(Listed(c)) /\ count_ticket = Len(Listed(c))
      /\ \A j \in 1..copied[c] : tickets[j] = Listed(c)[j]
      /\ Listed(c) \in Seq(Index) /\ copied[c] \in Nat /\ tickets \in Seq(Index \cup {Garbage})
  BY <1>1, ListedType DEF IInv, Fetched, ServerFits
<1>3. i \in 1..Len(Listed(c)) /\ i \in DOMAIN tickets
  BY <1>1, <1>2
<1>4. /\ tickets' \in Seq(Index \cup {Garbage}) /\ Len(tickets') = Len(tickets)
      /\ \A j \in 1..i : tickets'[j] = Listed(c)[j]
  <2>1. rows[c][i] \in Index /\ rows[c][i] = Listed(c)[i]
    BY <1>2, <1>3
  <2>2. tickets' = [tickets EXCEPT ![i] = rows[c][i]]
    BY <1>1, <1>3
  <2>3. tickets' \in Seq(Index \cup {Garbage}) /\ Len(tickets') = Len(tickets)
    BY <1>2, <1>3, <2>1, <2>2
  <2>4. ASSUME NEW j \in 1..i PROVE tickets'[j] = Listed(c)[j]
    <3>1. j \in DOMAIN tickets
      BY <1>2, <1>3
    <3>2. tickets'[j] = IF j = i THEN rows[c][i] ELSE tickets[j]
      BY <2>2, <3>1
    <3>3. j # i => j \in 1..copied[c]
      BY <1>2
    <3> QED
      BY <1>2, <2>1, <3>2, <3>3
  <2> QED
    BY <2>3, <2>4
<1>5. copied'[c] = i /\ \A o \in Client : o # c => copied'[o] = copied[o]
  BY <1>1 DEF IInv, ServerFits
<1>6. ServerFits'
  BY <1>1, <1>2, <1>3, <1>4, <1>5 DEF IInv, ServerFits
<1>7. \A o \in Client : o # c => pc[o] = "idle"
  BY <1>1, OthersIdle
<1>8. Fetched'
  BY <1>1, <1>2, <1>4, <1>5, <1>7, SameStore DEF Fetched
<1>9. StoreFits' /\ OneAtATime' /\ AppFits' /\ AllOwn'
  BY <1>1, SameStore DEF IInv, OneAtATime, AppFits, AllOwn, app
<1> QED
  BY <1>6, <1>8, <1>9 DEF IInv

LEMMA CopyDoneKeepsIInv ==
  ASSUME IInv, NEW c \in Client, CopyDone(c)
  PROVE  IInv'
<1>1. /\ pc[c] = "copy" /\ copied[c] = Len(rows[c])
      /\ rows' = [rows EXCEPT ![c] = <<>>] /\ copied' = [copied EXCEPT ![c] = 0]
      /\ pc' = [pc EXCEPT ![c] = "count"]
      /\ UNCHANGED <<storeVars, up, then, tickets, count_ticket, app>>
  BY DEF CopyDone
<1>2. /\ Len(tickets) = Len(Listed(c)) /\ count_ticket = Len(Listed(c))
      /\ \A j \in 1..Len(Listed(c)) : tickets[j] = Listed(c)[j]
      /\ Listed(c) \in Seq(Index) /\ tickets \in Seq(Index \cup {Garbage})
  BY <1>1, ListedType DEF IInv, Fetched, ServerFits
<1>3. tickets = Listed(c)
  BY <1>2
<1>4. \A o \in Client : o # c => pc'[o] = "idle" /\ rows'[o] = rows[o] /\ copied'[o] = copied[o]
  BY <1>1, OthersIdle DEF IInv, ServerFits
<1>5. pc'[c] = "count" /\ rows'[c] = <<>> /\ copied'[c] = 0
  BY <1>1 DEF IInv, ServerFits
<1>6. ServerFits'
  BY <1>1, <1>4, <1>5 DEF IInv, ServerFits
<1>7. OneAtATime' /\ Fetched'
  BY <1>1, <1>2, <1>3, <1>4, <1>5, SameStore DEF OneAtATime, Fetched
<1>8. StoreFits' /\ AppFits' /\ AllOwn'
  BY <1>1, SameStore DEF IInv, AppFits, AllOwn, app
<1> QED
  BY <1>6, <1>7, <1>8 DEF IInv

LEMMA SendCountKeepsIInv ==
  ASSUME IInv, NEW c \in Client, SendCount(c)
  PROVE  IInv'
<1>1. /\ pc[c] = "count" /\ ticket_count' = [ticket_count EXCEPT ![c] = count_ticket]
      /\ pc' = [pc EXCEPT ![c] = "list"]
      /\ UNCHANGED <<storeVars, up, then, server, list_tickets, cards, dialog, cancel>>
  BY DEF SendCount
<1>2. tickets = Listed(c) /\ count_ticket = Len(Listed(c)) /\ count_ticket \in 0..MaxId
  BY <1>1 DEF IInv, Fetched, ServerFits
<1>3. \A o \in Client : o # c => pc'[o] = "idle"
  BY <1>1, OthersIdle DEF IInv, ServerFits
<1>4. pc'[c] = "list" /\ ticket_count'[c] = Len(Listed(c))
  BY <1>1, <1>2 DEF IInv, ServerFits, AppFits
<1>5. ServerFits' /\ OneAtATime'
  BY <1>1, <1>3 DEF IInv, ServerFits, OneAtATime, server
<1>6. Fetched'
  BY <1>1, <1>2, <1>3, <1>4, SameStore DEF Fetched, server
<1>7. AppFits'
  BY <1>1, <1>2 DEF IInv, AppFits
<1>8. StoreFits' /\ AllOwn'
  BY <1>1, SameStore DEF IInv, AllOwn
<1> QED
  BY <1>5, <1>6, <1>7, <1>8 DEF IInv

\* The cards are the list, in its order, and what is behind it in the array
\* was the user's own before.
LEMMA Received ==
  ASSUME IInv, NEW c \in Client, pc[c] = "list"
  PROVE  /\ Parsed(c) \in [Index -> Element] /\ \A i \in Index : IsOwn(c, Parsed(c)[i])
         /\ SubSeq(Parsed(c), 1, ticket_count[c]) = Listed(c)
<1>1. /\ tickets = Listed(c) /\ count_ticket = Len(Listed(c)) /\ ticket_count[c] = Len(Listed(c))
      /\ Listed(c) \in Seq(Index) /\ Len(Listed(c)) \in 0..MaxId
      /\ \A i \in 1..Len(Listed(c)) : IsOwn(c, Listed(c)[i])
  BY ListedType DEF IInv, Fetched
<1>2. Sent = Listed(c)
  BY <1>1 DEF Sent
<1>3. \A i \in Index : Parsed(c)[i] = IF i \in 1..Len(Listed(c)) THEN Listed(c)[i] ELSE list_tickets[c][i]
  BY <1>1, <1>2 DEF Parsed
<1>4. Parsed(c) \in [Index -> Element]
  <2>1. \A i \in Index : Parsed(c)[i] \in Element
    <3>1. \A i \in 1..Len(Listed(c)) : Listed(c)[i] \in Index
      BY <1>1
    <3>2. \A i \in Index : list_tickets[c][i] \in Element
      BY DEF IInv, AppFits
    <3> QED
      BY <1>3, <3>1, <3>2 DEF Element
  <2> QED
    BY <2>1 DEF Parsed
<1>5. \A i \in Index : IsOwn(c, Parsed(c)[i])
  BY <1>1, <1>3 DEF IInv, AllOwn
<1>6. SubSeq(Parsed(c), 1, Len(Listed(c))) = Listed(c)
  <2>1. Parsed(c) \in Seq(Element) /\ Len(Parsed(c)) = MaxId
    BY <1>4, RowsAssumption DEF Index
  <2>2. \A i \in 1..Len(Listed(c)) : Parsed(c)[i] = Listed(c)[i]
    <3>1. 1..Len(Listed(c)) \subseteq Index
      BY <1>1, RowsAssumption DEF Index
    <3> QED
      BY <1>3, <3>1
  <2> QED
    BY <1>1, <2>1, <2>2
<1> QED
  BY <1>1, <1>4, <1>5, <1>6

LEMMA SendListKeepsIInv ==
  ASSUME IInv, NEW c \in Client, SendList(c)
  PROVE  IInv'
<1>1. /\ pc[c] = "list" /\ list_tickets' = [list_tickets EXCEPT ![c] = Parsed(c)]
      /\ cards' = IF then[c] = "show" THEN [cards EXCEPT ![c] = Listed(c)] ELSE cards
      /\ pc' = [pc EXCEPT ![c] = "idle"]
      /\ UNCHANGED <<storeVars, up, then, server, ticket_count, dialog, cancel>>
  BY Received DEF SendList
<1>2. Parsed(c) \in [Index -> Element] /\ \A i \in Index : IsOwn(c, Parsed(c)[i])
  BY <1>1, Received
<1>3. /\ Listed(c) \in Seq(Index) /\ Listed(c) \in Seq(Element) /\ Len(Listed(c)) <= MaxId
      /\ \A i \in 1..Len(Listed(c)) : IsOwn(c, Listed(c)[i])
  BY ListedType DEF IInv, Element
<1>4. \A o \in Client : pc'[o] = "idle"
  BY <1>1, OthersIdle DEF IInv, ServerFits
<1>5. ServerFits' /\ OneAtATime' /\ Fetched'
  BY <1>1, <1>4 DEF IInv, ServerFits, OneAtATime, Fetched, server
<1>6. AppFits'
  BY <1>1, <1>2, <1>3 DEF IInv, AppFits
<1>7. AllOwn'
  <2>1. \A o \in Client : \A i \in Index : IsOwn(o, list_tickets'[o][i])
    BY <1>1, <1>2 DEF IInv, AllOwn, AppFits
  <2>2. \A o \in Client : \A i \in DOMAIN cards'[o] : IsOwn(o, cards'[o][i])
    <3>1. DOMAIN Listed(c) = 1..Len(Listed(c))
      BY <1>3
    <3>2. \A o \in Client : cards'[o] = cards[o] \/ (o = c /\ cards'[o] = Listed(c))
      BY <1>1 DEF IInv, AppFits
    <3> QED
      BY <1>3, <3>1, <3>2 DEF IInv, AllOwn
  <2> QED
    BY <1>1, <2>1, <2>2, SameStore DEF IInv, AllOwn
<1>8. StoreFits'
  BY <1>1, SameStore DEF IInv
<1> QED
  BY <1>5, <1>6, <1>7, <1>8 DEF IInv

-----------------------------------------------------------------------------
(* The invariant and the theorems *)

LEMMA NextKeepsIInv ==
  ASSUME IInv, [CalmNext]_vars
  PROVE  IInv'
<1>1. CASE UNCHANGED vars
  <2>1. UNCHANGED <<storeVars, up, pc, then, server, app>>
    BY <1>1 DEF vars
  <2>2. StoreFits' /\ ServerFits' /\ OneAtATime' /\ AppFits'
    BY <2>1, SameStore DEF IInv, ServerFits, OneAtATime, AppFits, server, app
  <2>3. Fetched' /\ AllOwn'
    BY <2>1, SameStore DEF IInv, Fetched, AllOwn, server, app
  <2> QED
    BY <2>2, <2>3 DEF IInv
<1>2. CASE CalmNext
  BY <1>2, BookKeepsIInv, AppKeepsIInv, QueryKeepsIInv, CopyRowKeepsIInv, CopyDoneKeepsIInv,
     SendCountKeepsIInv, SendListKeepsIInv DEF CalmNext, Answer
<1> QED
  BY <1>1, <1>2

LEMMA Invariant == CalmSpec => []IInv
<1>1. Init => IInv
  BY InitIInv
<1>2. IInv /\ [CalmNext]_vars => IInv'
  BY NextKeepsIInv
<1> QED
  BY <1>1, <1>2, PTL DEF CalmSpec

(* The type invariant, while requests do not overlap and do not fail.      *)
THEOREM TypeCorrect == CalmSpec => []TypeOK
<1>1. IInv => TypeOK
  BY TypeParts
<1> QED
  BY <1>1, Invariant, PTL

(* Nobody is shown a booking of another user, although the array that is   *)
(* sent is one for all threads and is filled by other users' requests too  *)
(* (server.c:259-271).                                                     *)
THEOREM BookingsShownAreOwn == CalmSpec => []OwnBookingsOnly
<1>1. IInv => OwnBookingsOnly
  <2> SUFFICES ASSUME IInv, NEW c \in Client, NEW b \in bookings, b.user # Owner[c],
                      NEW i \in DOMAIN cards[c], cards[c][i] = b.id
               PROVE  FALSE
    BY DEF OwnBookingsOnly
  <2>1. IsOwn(c, cards[c][i])
    BY DEF IInv, AllOwn
  <2>2. b.id # 0
    BY DEF IInv, StoreFits, BookingRow, BookingId
  <2> QED
    BY <2>1, <2>2 DEF IsOwn
<1> QED
  BY <1>1, Invariant, PTL

(* Only the owner of a booking cancels it, although the id comes through a *)
(* pointer into an array that changes under it and the server does not     *)
(* check (booklist.c:316, 338; server.c:290-292).                          *)
THEOREM CancelsAreOwn == CalmSpec => []OwnerCancels
<1>1. IInv => OwnerCancels
  <2> SUFFICES ASSUME IInv, NEW c \in Client, NEW b \in bookings,
                      cancel[c] # <<>>, Head(cancel[c]).id = b.id
               PROVE  b.user = Owner[c]
    BY DEF OwnerCancels
  <2>1. IsOwn(c, Head(cancel[c]).id)
    BY DEF IInv, AllOwn
  <2>2. b.id # 0
    BY DEF IInv, StoreFits, BookingRow, BookingId
  <2> QED
    BY <2>1, <2>2 DEF IsOwn
<1> QED
  BY <1>1, Invariant, PTL

(* The screen shows, booking by booking, the list of the user's bookings   *)
(* (ticket.c:24-76, global.c:294-304, booklist.c:513-530).                 *)
THEOREM ScreensAreAccurate == CalmSpec => ScreenIsAccurate
<1>1. ASSUME IInv, [CalmNext]_vars, NEW c \in Client,
             pc[c] = "list", pc'[c] = "idle", then[c] = "show"
      PROVE  cards'[c] = RowsOf[OwnIds(Owner[c])]
  <2>1. \A o \in Client : o # c => pc[o] = "idle"
    BY <1>1, OthersIdle
  <2>2. pc \in [Client -> {"idle", "query", "copy", "count", "list"}]
    BY <1>1 DEF IInv, ServerFits
  <2>3. ~(UNCHANGED vars) /\ CalmNext
    BY <1>1 DEF vars
  <2>4. PICK o \in Client : Alone(o) /\ (Ask(o) \/ QueryBookings(o) \/ Answer(o))
    BY <1>1, <2>3 DEF CalmNext
  <2>5. o = c
    BY <1>1, <2>4 DEF Alone
  <2>6. SendList(c)
    BY <1>1, <2>2, <2>4, <2>5 DEF Ask, ShowListTickets, ShowNotification, GetListTicketsOrdered,
       OnCancelClicked, DialogAnswered, ExecuteCancel, Free, Answer, QueryBookings, StartCopy,
       CopyRow, CopyDone, SendCount
  <2>7. cards' = [cards EXCEPT ![c] = Listed(c)]
    BY <1>1, <2>6, Received DEF SendList
  <2> QED
    BY <1>1, <2>7 DEF IInv, AppFits, Listed
<1>2. IInv /\ [CalmNext]_vars =>
        [\A c \in Client : pc[c] = "list" /\ pc'[c] = "idle" /\ then[c] = "show" =>
           cards'[c] = RowsOf[OwnIds(Owner[c])]]_vars
  BY <1>1
<1> QED
  BY <1>2, Invariant, PTL DEF CalmSpec, ScreenIsAccurate
=============================================================================
