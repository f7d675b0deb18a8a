------------------------- MODULE NotificationsProofs -------------------------
(***************************************************************************)
(* What holds of Notifications for any number of applications, flights,    *)
(* announcements and bookings, and whatever order the database returns     *)
(* rows in: a list of announcements that nothing disturbed is the table.   *)
(***************************************************************************)
EXTENDS Notifications, ListTheorems, FiniteSetTheorems

-----------------------------------------------------------------------------
(* The inductive invariant *)

TablesFit ==
  /\ table \subseteq Announcement
  /\ count_announce \in 0..Cardinality(Announcement)
  /\ copied \in [Client -> Nat]

LocalsFit == \A c \in Client : pc[c] # "copy" => rows[c] = <<>> /\ copied[c] = 0

\* What the globals of the server hold for a request that is clean, and that
\* no other one is writing to them.
Undisturbed(c) ==
  /\ \A o \in Client \ {c} : pc[o] # "copy"
  /\ Len(announces) = Len(posted[c]) /\ count_announce = Len(posted[c])
  /\ pc[c] = "copy" => rows[c] = posted[c]
  /\ pc[c] = "list" => announce_count[c] = Len(posted[c])
  /\ \A i \in DOMAIN posted[c] :
       pc[c] # "copy" \/ i <= copied[c] => announces[i] = posted[c][i]

CleanFits == \A c \in Client : UnderWay(c) /\ clean[c] => Undisturbed(c)

IInv == TypeOK /\ TablesFit /\ LocalsFit /\ CleanFits

-----------------------------------------------------------------------------

LEMMA TableSize ==
  ASSUME NEW ids \in SUBSET Announcement
  PROVE  Cardinality(ids) \in Nat /\ Cardinality(ids) <= Cardinality(Announcement)
<1>1. IsFiniteSet(ids) /\ Cardinality(ids) <= Cardinality(Announcement)
  BY AnnouncementAssumption, FS_Subset
<1> QED
  BY <1>1, FS_CardinalityType

LEMMA RowsType ==
  ASSUME NEW ids \in SUBSET Announcement
  PROVE  RowsOf[ids] \in Seq(Announcement) /\ Len(RowsOf[ids]) = Cardinality(ids)
  BY AnnouncementAssumption, TableSize

LEMMA Replaced ==
  ASSUME NEW S, NEW s \in Seq(S), NEW i \in DOMAIN s, NEW x \in S
  PROVE  [s EXCEPT ![i] = x] \in Seq(S) /\ Len([s EXCEPT ![i] = x]) = Len(s)
  OBVIOUS

LEMMA InitIInv == Init => IInv
<1> SUFFICES ASSUME Init PROVE IInv
  OBVIOUS
<1>1. Cardinality(Announcement) \in Nat
  BY TableSize
<1>2. TypeOK
  BY <1>1 DEF Init, TypeOK, Cell, Place
<1>3. TablesFit /\ LocalsFit /\ CleanFits
  BY <1>1 DEF Init, TablesFit, LocalsFit, CleanFits, UnderWay
<1> QED
  BY <1>2, <1>3 DEF IInv

\* The staff write to the table only.
LEMMA StaffStep ==
  ASSUME IInv, Staff
  PROVE  IInv'
<1>1. UNCHANGED <<up, pc, server, app, history>>
  BY DEF Staff, Announce, Withdraw
<1>2. table' \subseteq Announcement /\ nextId' \in Nat \ {0} /\ table' \subseteq 1..(nextId' - 1)
  <2>1. table \subseteq Announcement /\ nextId \in Nat \ {0} /\ table \subseteq 1..(nextId - 1)
    BY DEF IInv, TypeOK, TablesFit
  <2>2. CASE Announce
    BY <2>1, <2>2 DEF Announce
  <2>3. CASE \E a \in Announcement : Withdraw(a)
    BY <2>1, <2>3 DEF Withdraw
  <2> QED
    BY <2>2, <2>3 DEF Staff
<1>3. TypeOK'
  BY <1>1, <1>2 DEF IInv, TypeOK, server, app, history
<1>4. TablesFit' /\ LocalsFit' /\ CleanFits'
  BY <1>1, <1>2 DEF IInv, TablesFit, LocalsFit, CleanFits, Undisturbed, UnderWay, server, app, history
<1> QED
  BY <1>3, <1>4 DEF IInv

-----------------------------------------------------------------------------
(* Types *)

LEMMA SentType ==
  ASSUME IInv, NEW c \in Client
  PROVE  Parsed(c) \in [Place -> Cell]
  BY DEF Parsed, Sent, IInv, TypeOK, Cell

LEMMA TypeStep ==
  ASSUME IInv, NEW c \in Client, ShowNotification(c) \/ Answer(c)
  PROVE  TypeOK' /\ TablesFit' /\ LocalsFit'
<1> USE DEF IInv
<1>1. CASE ShowNotification(c)
  BY <1>1 DEF ShowNotification, TypeOK, TablesFit, LocalsFit, tables, server, app, history
<1>2. CASE GetListTickets(c)
  <2>1. PICK flights \in Bookings : list_tickets' = [list_tickets EXCEPT ![c] = flights]
    BY <1>2 DEF GetListTickets
  <2>2. flights \in Seq(Flight)
    BY DEF Bookings
  <2> QED
    BY <1>2, <2>1, <2>2 DEF GetListTickets, TypeOK, TablesFit, LocalsFit, tables, server, history
<1>3. CASE QueryAnnounces(c)
  <2>1. /\ RowsOf[table] \in Seq(Announcement) /\ Len(RowsOf[table]) = Cardinality(table)
        /\ Cardinality(table) \in 0..Cardinality(Announcement)
    BY RowsType, TableSize DEF TablesFit
  <2>2. [i \in 1..Cardinality(table) |-> None] \in Seq(Cell)
    BY <2>1 DEF Cell
  <2>3. posted' \in [Client -> Seq(Announcement)] /\ clean' \in [Client -> BOOLEAN]
    BY <1>3, <2>1 DEF QueryAnnounces, TypeOK
  <2>4. copied[c] = 0
    BY <1>3 DEF QueryAnnounces, LocalsFit
  <2>5. TypeOK'
    BY <1>3, <2>1, <2>2, <2>3, <2>4 DEF QueryAnnounces, TypeOK, tables, app
  <2>6. TablesFit' /\ LocalsFit'
    BY <1>3, <2>1 DEF QueryAnnounces, TypeOK, TablesFit, LocalsFit, tables
  <2> QED
    BY <2>5, <2>6
<1>4. CASE FetchAnnouncesFails(c)
  BY <1>4 DEF FetchAnnouncesFails, TypeOK, TablesFit, LocalsFit, tables, server, app
<1>5. CASE CopyRow(c)
  <2>1. /\ copied[c] + 1 \in 1..Len(rows[c]) /\ rows[c][copied[c] + 1] \in Cell
        /\ copied' = [copied EXCEPT ![c] = copied[c] + 1]
    BY <1>5 DEF CopyRow, TypeOK, Cell
  <2>2. announces' \in Seq(Cell)
    <3>1. CASE announces' = [announces EXCEPT ![copied[c] + 1] = rows[c][copied[c] + 1]]
               /\ copied[c] + 1 \in DOMAIN announces
      BY <2>1, <3>1, Replaced DEF TypeOK
    <3>2. CASE UNCHANGED announces
      BY <3>2 DEF TypeOK
    <3> QED
      BY <1>5, <3>1, <3>2 DEF CopyRow
  <2> QED
    BY <1>5, <2>1, <2>2 DEF CopyRow, TypeOK, TablesFit, LocalsFit, tables, app, history
<1>6. CASE CopyRowDies(c)
  BY <1>6 DEF CopyRowDies, TypeOK, TablesFit, LocalsFit, tables, server, app, history
<1>7. CASE CopyDone(c)
  <2>1. rows' \in [Client -> Seq(Announcement)] /\ copied' \in [Client -> Nat]
        /\ rows'[c] = <<>> /\ copied'[c] = 0
        /\ \A o \in Client \ {c} : rows'[o] = rows[o] /\ copied'[o] = copied[o]
    BY <1>7 DEF CopyDone, TypeOK, TablesFit
  <2>2. \A o \in Client : copied'[o] \in 0..Len(rows'[o])
    <3>1. copied'[c] \in 0..Len(rows'[c])
      BY <2>1
    <3>2. \A o \in Client \ {c} : copied'[o] \in 0..Len(rows'[o])
      BY <2>1 DEF TypeOK
    <3> QED
      BY <3>1, <3>2
  <2>3. pc' = [pc EXCEPT ![c] = "count"]
    BY <1>7 DEF CopyDone
  <2>4. LocalsFit'
    BY <2>1, <2>3 DEF LocalsFit, TypeOK
  <2>5. UNCHANGED <<tables, up, announces, count_announce, app, history>>
    BY <1>7 DEF CopyDone
  <2>6. pc' \in [Client -> {"idle", "tickets", "query", "copy", "count", "list"}]
    BY <2>3 DEF TypeOK
  <2>7. TypeOK'
    BY <2>1, <2>2, <2>5, <2>6 DEF TypeOK, tables, app, history
  <2>8. TablesFit'
    BY <2>1, <2>5 DEF TablesFit, tables
  <2> QED
    BY <2>4, <2>7, <2>8
<1>8. CASE SendCount(c)
  BY <1>8 DEF SendCount, TypeOK, TablesFit, LocalsFit, tables, server, history
<1>9. CASE SendList(c)
  <2>1. Parsed(c) \in [Place -> Cell]
    BY SentType
  <2>2. /\ list_announces' \in [Client -> [Place -> Cell]]
        /\ list_tickets' \in [Client -> Seq(Flight)]
        /\ announce_count' \in [Client -> 0..Cardinality(Announcement)]
    BY <1>9, <2>1, TableSize DEF SendList, TypeOK
  <2>3. /\ pc' \in [Client -> {"idle", "tickets", "query", "copy", "count", "list"}]
        /\ posted' \in [Client -> Seq(Announcement)] /\ clean' \in [Client -> BOOLEAN]
        /\ UNCHANGED <<tables, up, server>>
    BY <1>9 DEF SendList, TypeOK
  <2>4. TypeOK'
    BY <2>2, <2>3 DEF TypeOK, tables, server
  <2> QED
    BY <1>9, <2>3, <2>4 DEF SendList, TypeOK, TablesFit, LocalsFit, tables, server
<1> QED
  BY <1>1, <1>2, <1>3, <1>4, <1>5, <1>6, <1>7, <1>8, <1>9 DEF Answer

-----------------------------------------------------------------------------
(* Clean requests *)

\* A step of one client that leaves the array alone disturbs nobody else.
LEMMA OthersKept ==
  ASSUME IInv, NEW c \in Client, NEW o \in Client \ {c},
         UNCHANGED <<announces, count_announce>>,
         UNCHANGED <<pc[o], rows[o], copied[o], announce_count[o], posted[o], clean[o]>>,
         \A p \in Client \ {c} : pc'[p] = pc[p],
         pc'[c] # "copy" \/ pc[c] = "copy",
         UnderWay(o)', clean'[o]
  PROVE  Undisturbed(o)'
<1>1. Undisturbed(o)
  BY DEF IInv, CleanFits, UnderWay
<1> QED
  BY <1>1 DEF Undisturbed

LEMMA CleanStep ==
  ASSUME IInv, NEW c \in Client, ShowNotification(c) \/ Answer(c)
  PROVE  CleanFits'
<1> SUFFICES ASSUME NEW o \in Client, UnderWay(o)', clean'[o]
             PROVE  Undisturbed(o)'
  BY DEF CleanFits
<1> USE DEF IInv, TypeOK, UnderWay
<1>1. CASE ShowNotification(c)
  <2>1. o # c
    BY <1>1 DEF ShowNotification
  <2> QED
    BY <1>1, <2>1, OthersKept DEF ShowNotification, server, app, history
<1>2. CASE GetListTickets(c)
  <2>1. o # c
    BY <1>2 DEF GetListTickets
  <2> QED
    BY <1>2, <2>1, OthersKept DEF GetListTickets, server, history
<1>3. CASE QueryAnnounces(c)
  <2>1. \A p \in Client \ {c} : pc[p] # "copy"
    BY <1>3 DEF QueryAnnounces, Disturbed
  <2>2. o = c
    BY <1>3 DEF QueryAnnounces, Disturbed
  <2>3. /\ RowsOf[table] \in Seq(Announcement) /\ Len(RowsOf[table]) = Cardinality(table)
        /\ Cardinality(table) \in Nat
    BY RowsType, TableSize DEF TablesFit
  <2>4. /\ pc'[c] = "copy" /\ rows'[c] = RowsOf[table] /\ posted'[c] = RowsOf[table]
        /\ copied'[c] = 0 /\ count_announce' = Cardinality(table)
        /\ \A p \in Client \ {c} : pc'[p] = pc[p]
    <3>1. c \notin Disturbed(c)
      BY <2>1 DEF Disturbed
    <3> QED
      BY <1>3, <3>1 DEF QueryAnnounces, LocalsFit
  <2>5. Len(announces') = Cardinality(table)
    BY <1>3, <2>3 DEF QueryAnnounces
  <2> QED
    BY <2>1, <2>2, <2>3, <2>4, <2>5 DEF Undisturbed
<1>4. CASE FetchAnnouncesFails(c)
  <2>1. o # c
    BY <1>4 DEF FetchAnnouncesFails
  <2> QED
    BY <1>4, <2>1, OthersKept DEF FetchAnnouncesFails, server, app
<1>5. CASE CopyRow(c)
  <2>1. o = c
    BY <1>5 DEF CopyRow, history, CleanFits, Undisturbed
  <2>2. Undisturbed(c)
    BY <1>5, <2>1 DEF CopyRow, history, CleanFits
  <2> DEFINE i == copied[c] + 1
  <2>3. /\ i \in 1..Len(posted[c]) /\ i \in DOMAIN announces /\ rows[c] = posted[c]
        /\ announces' = [announces EXCEPT ![i] = posted[c][i]]
        /\ copied'[c] = i
    BY <1>5, <2>2 DEF CopyRow, Undisturbed, TablesFit
  <2>4. /\ UNCHANGED <<pc, count_announce, rows, app, history>>
    BY <1>5 DEF CopyRow
  <2> QED
    BY <2>1, <2>2, <2>3, <2>4 DEF Undisturbed, app, history
<1>6. CASE CopyRowDies(c)
  <2>1. Undisturbed(o)
    BY <1>6 DEF CopyRowDies, history, CleanFits
  <2> QED
    BY <1>6, <2>1 DEF CopyRowDies, Undisturbed, server, app, history
<1>7. CASE CopyDone(c)
  <2>1. CASE o = c
    <3>1. Undisturbed(c)
      BY <1>7, <2>1 DEF CopyDone, history, CleanFits
    <3> QED
      BY <1>7, <2>1, <3>1 DEF CopyDone, Undisturbed, app, history
  <2>2. CASE o # c
    BY <1>7, <2>2, OthersKept DEF CopyDone, app, history
  <2> QED
    BY <2>1, <2>2
<1>8. CASE SendCount(c)
  <2>1. CASE o = c
    <3>1. Undisturbed(c)
      BY <1>8, <2>1 DEF SendCount, history, CleanFits
    <3> QED
      BY <1>8, <2>1, <3>1 DEF SendCount, Undisturbed, server, history
  <2>2. CASE o # c
    BY <1>8, <2>2, OthersKept DEF SendCount, server, history
  <2> QED
    BY <2>1, <2>2
<1>9. CASE SendList(c)
  <2>1. o # c
    BY <1>9 DEF SendList
  <2> QED
    BY <1>9, <2>1, OthersKept DEF SendList, server
<1> QED
  BY <1>1, <1>2, <1>3, <1>4, <1>5, <1>6, <1>7, <1>8, <1>9 DEF Answer

LEMMA IInvStep == IInv /\ [Next]_vars => IInv'
<1> SUFFICES ASSUME IInv, [Next]_vars PROVE IInv'
  OBVIOUS
<1>1. CASE Staff
  BY <1>1, StaffStep
<1>2. ASSUME NEW c \in Client, ShowNotification(c) \/ Answer(c) PROVE IInv'
  BY <1>2, TypeStep, CleanStep DEF IInv
<1>3. CASE UNCHANGED vars
  BY <1>3 DEF IInv, TypeOK, TablesFit, LocalsFit, CleanFits, Undisturbed, UnderWay, vars,
              tables, server, app, history
<1> QED
  BY <1>1, <1>2, <1>3 DEF Next

LEMMA Invariant == Spec => []IInv
  BY InitIInv, IInvStep, PTL DEF Spec

-----------------------------------------------------------------------------
(* The theorems *)

(* The globals and locals of GET ANNOUNCES keep their types, and no copying *)
(* loop runs past the rows it was given (announce.c:26-36).                 *)
THEOREM TypeCorrect == Spec => []TypeOK
<1>1. IInv => TypeOK
  BY DEF IInv
<1> QED
  BY <1>1, Invariant, PTL

LEMMA CleanListIsTable == IInv => ListIsTable
<1> SUFFICES ASSUME IInv, NEW c \in Client, pc[c] = "list", clean[c]
             PROVE  /\ announce_count[c] = Len(posted[c])
                    /\ \A i \in DOMAIN posted[c] : Parsed(c)[i] = posted[c][i]
  BY DEF ListIsTable
<1>1. Undisturbed(c)
  BY DEF IInv, CleanFits, UnderWay
<1>2. announces \in Seq(Cell) /\ posted[c] \in Seq(Announcement)
      /\ Len(posted[c]) \in 0..Cardinality(Announcement)
  BY <1>1 DEF IInv, TypeOK, Undisturbed
<1>3. ASSUME NEW i \in DOMAIN posted[c] PROVE Parsed(c)[i] = posted[c][i]
  <2>1. i \in 1..count_announce /\ i \in Place /\ i \in DOMAIN announces
    BY <1>1, <1>2, TableSize DEF Undisturbed, Place
  <2>2. announces[i] = posted[c][i]
    BY <1>1 DEF Undisturbed
  <2> QED
    BY <2>1, <2>2 DEF Parsed, Sent
<1> QED
  BY <1>1, <1>3 DEF Undisturbed

(* A request whose SELECT works and that no other SELECT comes across gives *)
(* the application the whole table, whatever was fetched before, by whom    *)
(* and however long (announce.c:7-41, server.c:274-288).                    *)
THEOREM ListsAreTheTable == Spec => []ListIsTable
BY CleanListIsTable, Invariant, PTL

LEMMA CleanListIsFiltered == IInv => NotifiedExactly
<1> SUFFICES ASSUME IInv, NEW c \in Client, pc[c] = "list", clean[c]
             PROVE  Shown(c) = Kept(posted[c], {a \in Announcement :
                                                  Contains(list_tickets[c], FlightOf[a])})
  BY DEF NotifiedExactly
<1> DEFINE p == posted[c]
           array == Parsed(c)
           n == announce_count[c]
           Mine == {a \in Announcement : About(a, list_tickets[c])}
<1>1. n = Len(p) /\ \A i \in DOMAIN p : array[i] = p[i]
  BY CleanListIsTable DEF ListIsTable
<1>2. /\ p \in Seq(Announcement) /\ array \in [Place -> Cell]
      /\ n \in 0..Cardinality(Announcement) /\ Cardinality(Announcement) \in Nat
  BY SentType, TableSize DEF IInv, TypeOK
<1>3. Shown(c) = Kept(SubSeq(array, 1, n), Mine)
  BY DEF Shown, Filter
<1> HIDE DEF array, p, n, Mine
<1>4. array \in Seq(Cell) /\ Len(array) = Cardinality(Announcement)
  BY <1>2 DEF Place
<1>5. SubSeq(array, 1, n) = p
  <2>1. /\ SubSeq(array, 1, n) \in Seq(Cell)
        /\ Len(SubSeq(array, 1, n)) = n
        /\ \A i \in 1..n : SubSeq(array, 1, n)[i] = array[i]
    BY <1>2, <1>4
  <2> QED
    BY <1>1, <1>2, <2>1
<1>6. Mine = {a \in Announcement : Contains(list_tickets[c], FlightOf[a])}
  BY DEF Mine, About
<1> QED
  BY <1>3, <1>5, <1>6 DEF p

(* Then the popover shows each announcement about a flight the user has     *)
(* booked, in the order of the table, and no other (component.c:43-57,      *)
(* global.c:306-317).                                                       *)
THEOREM NotificationsAreExact == Spec => []NotifiedExactly
BY CleanListIsFiltered, Invariant, PTL
=============================================================================
