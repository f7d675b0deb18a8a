--------------------------- MODULE CheckoutProofs ---------------------------
(***************************************************************************)
(* What holds of Checkout for any users, flights, seats and prices, any    *)
(* number of payment pages and any interleaving of clicks, callbacks and   *)
(* redirects with the wait for VNPAY.                                      *)
(***************************************************************************)
EXTENDS Checkout, FiniteSetTheorems, SequenceTheorems, TLAPS

-----------------------------------------------------------------------------
(* Lists of labels *)

NoRepeats(s) == \A i, j \in DOMAIN s : s[i] = s[j] => i = j

\* A place taken out of a list without repetitions takes its label with it.
LEMMA RemovePlace ==
  ASSUME NEW S, NEW s \in Seq(S), NoRepeats(s), NEW i \in 1..Len(s)
  PROVE  /\ RemoveAt(s, i) \in Seq(S)
         /\ Len(RemoveAt(s, i)) = Len(s) - 1
         /\ NoRepeats(RemoveAt(s, i))
         /\ ToSet(RemoveAt(s, i)) = ToSet(s) \ {s[i]}
<1> DEFINE front == SubSeq(s, 1, i - 1)
           back == SubSeq(s, i + 1, Len(s))
           r == RemoveAt(s, i)
<1>1. /\ front \in Seq(S) /\ Len(front) = i - 1
      /\ \A k \in 1..(i - 1) : front[k] = s[k]
  OBVIOUS
<1>2. /\ back \in Seq(S) /\ Len(back) = Len(s) - i
      /\ \A k \in 1..(Len(s) - i) : back[k] = s[i + k]
  OBVIOUS
<1>3. r = front \o back
  BY DEF RemoveAt
<1> HIDE DEF front, back, r
<1>4. /\ r \in Seq(S) /\ Len(r) = Len(s) - 1
      /\ \A k \in 1..(Len(s) - 1) : r[k] = IF k < i THEN s[k] ELSE s[k + 1]
  <2>1. r \in Seq(S) /\ Len(r) = Len(front) + Len(back)
    <3>1. front \in Seq(S) /\ back \in Seq(S)
      BY <1>1, <1>2
    <3> QED
      BY <3>1, <1>3, ConcatProperties
  <2>2. Len(r) = Len(s) - 1
    BY <2>1, <1>1, <1>2
  <2>3. ASSUME NEW k \in 1..(Len(s) - 1) PROVE r[k] = IF k < i THEN s[k] ELSE s[k + 1]
    <3>1. CASE k < i
      BY <3>1, <1>1, <1>2, <1>3
    <3>2. CASE k >= i
      <4>1. r[k] = back[k - (i - 1)]
        BY <3>2, <1>1, <1>2, <1>3
      <4>2. k - (i - 1) \in 1..(Len(s) - i) /\ i + (k - (i - 1)) = k + 1
        BY <3>2
      <4> QED
        BY <4>1, <4>2, <1>2, <3>2
    <3> QED
      BY <3>1, <3>2
  <2> QED
    BY <2>1, <2>2, <2>3
<1>5. NoRepeats(r)
  <2> DEFINE from(k) == IF k < i THEN k ELSE k + 1
  <2>1. \A k \in 1..(Len(s) - 1) : from(k) \in 1..Len(s) /\ r[k] = s[from(k)]
    BY <1>4
  <2>2. \A j, k \in 1..(Len(s) - 1) : from(j) = from(k) => j = k
    OBVIOUS
  <2>3. DOMAIN r = 1..(Len(s) - 1)
    BY <1>4
  <2> HIDE DEF from
  <2> QED
    BY <2>1, <2>2, <2>3 DEF NoRepeats
<1>6. ToSet(r) \subseteq ToSet(s) \ {s[i]}
  BY <1>4 DEF ToSet, NoRepeats
<1>7. ASSUME NEW x \in ToSet(s) \ {s[i]} PROVE x \in ToSet(r)
  <2>1. PICK k \in 1..Len(s) : x = s[k]
    BY DEF ToSet
  <2>2. CASE k < i
    BY <2>1, <2>2, <1>4 DEF ToSet
  <2>3. CASE k > i
    <3>1. k - 1 \in 1..(Len(s) - 1) /\ ~(k - 1 < i) /\ k - 1 + 1 = k
      BY <2>3
    <3>2. r[k - 1] = s[k]
      BY <3>1, <1>4
    <3> QED
      BY <3>1, <3>2, <2>1, <1>4 DEF ToSet
  <2> QED
    BY <2>1, <2>2, <2>3
<1> QED
  BY <1>4, <1>5, <1>6, <1>7 DEF r

LEMMA RemoveStringRemoves ==
  ASSUME NEW S, NEW s \in Seq(S), NoRepeats(s), NEW x \in ToSet(s)
  PROVE  /\ RemoveString(s, x) \in Seq(S)
         /\ Len(RemoveString(s, x)) = Len(s) - 1
         /\ NoRepeats(RemoveString(s, x))
         /\ ToSet(RemoveString(s, x)) = ToSet(s) \ {x}
<1> DEFINE P(i) == s[i] = x /\ \A j \in 1..(i - 1) : s[j] # x
           place == CHOOSE i \in DOMAIN s : P(i)
<1>1. PICK k \in 1..Len(s) : s[k] = x
  BY DEF ToSet
<1>2. P(k)
  BY <1>1 DEF NoRepeats
<1>3. place \in 1..Len(s) /\ s[place] = x
  BY <1>2
<1>4. RemoveString(s, x) = RemoveAt(s, place)
  BY <1>1 DEF RemoveString, Contains
<1> HIDE DEF place
<1>5. /\ RemoveAt(s, place) \in Seq(S)
      /\ Len(RemoveAt(s, place)) = Len(s) - 1
      /\ NoRepeats(RemoveAt(s, place))
      /\ ToSet(RemoveAt(s, place)) = ToSet(s) \ {s[place]}
  BY <1>3, RemovePlace
<1> QED
  BY <1>3, <1>4, <1>5, Zenon

LEMMA AddStringAdds ==
  ASSUME NEW S, NEW s \in Seq(S), NoRepeats(s), NEW x \in S, x \notin ToSet(s)
  PROVE  /\ AddString(s, x) \in Seq(S)
         /\ Len(AddString(s, x)) = Len(s) + 1
         /\ NoRepeats(AddString(s, x))
         /\ ToSet(AddString(s, x)) = ToSet(s) \cup {x}
<1>1. AddString(s, x) = Append(s, x)
  BY DEF AddString, Contains, ToSet
<1>2. \A i \in 1..Len(s) : s[i] \in ToSet(s)
  BY DEF ToSet
<1>3. NoRepeats(Append(s, x))
  BY <1>2 DEF NoRepeats
<1>4. ToSet(Append(s, x)) = ToSet(s) \cup {x}
  <2>1. ToSet(Append(s, x)) \subseteq ToSet(s) \cup {x}
    BY DEF ToSet
  <2>2. \A y \in ToSet(s) : y \in ToSet(Append(s, x))
    BY DEF ToSet
  <2>3. x \in ToSet(Append(s, x))
    <3>1. Append(s, x)[Len(s) + 1] = x /\ Len(s) + 1 \in DOMAIN Append(s, x)
      OBVIOUS
    <3> QED
      BY <3>1 DEF ToSet
  <2> QED
    BY <2>1, <2>2, <2>3
<1> QED
  BY <1>1, <1>3, <1>4

-----------------------------------------------------------------------------
(* The inductive invariant *)

SelectionFits ==
  /\ NoRepeats(temp_seats)
  /\ IsFiniteSet(selected)
  /\ SelectionAgrees

\* The login screen opens with the callbacks behind it all done.
SessionFits ==
  /\ screen = "login" => idle = <<>>
  /\ Contains(idle, "login") => session = None
  /\ SessionAgrees

\* A flag that is set has a page, whose redirect has come.
PaymentFits ==
  /\ is_payment_success <=> credit # 0
  /\ credit # 0 => pages[credit].state = "told"
  /\ loop = "create" => is_payment_success
  /\ loop = "detail" => booking_id \in BookingId
  /\ BookedOnPayment

IInv == TypeOK /\ SelectionFits /\ SessionFits /\ PaymentFits

-----------------------------------------------------------------------------
(* Types *)

LEMMA AsIntType == ASSUME NEW n \in Int PROVE AsInt(n) \in Int
  BY IntAssumption DEF AsInt

LEMMA PriceIsInt == ASSUME NEW p \in Price PROVE p * 100 \in Int
  BY PriceAssumption

\* What a step changes, in parts.
StoreType ==
  /\ bookings \subseteq BookingRow
  /\ details \subseteq DetailRow(Seat)
  /\ nextId \in BookingId

ScreenType ==
  /\ screen \in {"login", "home", "account", "booklist", "list", "ticket_detail",
                 "book_seat", "payment"}
  /\ class \in Class \cup {None} /\ detail_flight \in Flight \cup {None}
  /\ screen \in {"list", "ticket_detail", "book_seat", "payment"} => class # None
  /\ screen \in {"ticket_detail", "book_seat", "payment"} => detail_flight # None

UserType ==
  /\ user_id \in User \cup {None} /\ session \in User \cup {None}
  /\ idle \in Seq({"home", "account", "login"}) /\ timer \in BOOLEAN

SeatType ==
  /\ ordered \subseteq Seat /\ selected \subseteq Seat /\ temp_seats \in Seq(Seat)
  /\ price \in Price

PaymentType ==
  /\ final_price \in Price
  /\ booking_id \in Nat
  /\ loop \in {"events", "wait", "stopping", "create", "detail", "mail", "hung"}
  /\ stop_server \in BOOLEAN /\ is_payment_success \in BOOLEAN
  /\ pages \in Seq(Page)
  /\ credit \in 0..Len(pages)

LEMMA TypeParts ==
  /\ TypeOK <=> StoreType /\ ScreenType /\ UserType /\ SeatType /\ PaymentType
  /\ TypeOK' <=> StoreType' /\ ScreenType' /\ UserType' /\ SeatType' /\ PaymentType'
  BY DEF TypeOK, StoreType, ScreenType, UserType, SeatType, PaymentType

\* Which parts a group of variables that stays the same keeps.
LEMMA Kept ==
  /\ StoreType /\ UNCHANGED storeVars => StoreType'
  /\ ScreenType /\ UNCHANGED <<screen, class, detail_flight>> => ScreenType'
  /\ UserType /\ UNCHANGED <<user_id, session, pending>> => UserType'
  /\ SeatType /\ UNCHANGED <<ordered, selected, temp_seats, price>> => SeatType'
  /\ PaymentType /\ UNCHANGED payment => PaymentType'
  BY DEF StoreType, ScreenType, UserType, SeatType, PaymentType, storeVars, pending, payment

\* A change of loop only.
LEMMA KeptPayment ==
  ASSUME PaymentType,
         UNCHANGED <<final_price, booking_id, stop_server, is_payment_success, pages, credit>>,
         loop' \in {"events", "wait", "stopping", "create", "detail", "mail", "hung"}
  PROVE  PaymentType'
  BY DEF PaymentType

LEMMA InitType == Init => TypeOK
<1> SUFFICES ASSUME Init PROVE TypeOK
  OBVIOUS
<1>1. /\ <<>> \in Seq(Seat) /\ <<>> \in Seq({"home", "account", "login"})
      /\ <<>> \in Seq(Page) /\ 0 \in 0..Len(<<>>)
  OBVIOUS
<1>2. StoreType
  BY DEF Init, StoreInit, StoreType, BookingId
<1>3. ScreenType
  BY DEF Init, ScreenType
<1>4. UserType
  BY <1>1 DEF Init, UserType
<1>5. SeatType
  BY <1>1, PriceAssumption DEF Init, SeatType
<1>6. PaymentType
  BY <1>1, PriceAssumption DEF Init, PaymentType
<1> QED
  BY <1>2, <1>3, <1>4, <1>5, <1>6, TypeParts

\* The screens.
LEMMA ScreenSteps ==
  ASSUME TypeOK,
         \/ \E u \in User : OnLoginClicked(u)
         \/ \E to \in {"home", "account"} : OnNavClicked(to)
         \/ OnMyAccountClicked \/ OnLogoutClicked \/ SafeSwitch \/ SafeSwitchToAccountView
         \/ ShowListTickets
         \/ \E c \in Class : OnListLinkClick(c)
         \/ \E f \in Flight : OnDetailLinkClick(f)
         \/ Back
  PROVE  TypeOK'
<1> USE TypeParts
<1>1. ASSUME NEW u \in User, OnLoginClicked(u) PROVE TypeOK'
  <2>1. ScreenType' /\ UserType'
    BY <1>1 DEF OnLoginClicked, Show, ScreenType, UserType, selection, pending
  <2> QED
    BY <1>1, <2>1, Kept DEF OnLoginClicked, selection
<1>2. ASSUME NEW to \in {"home", "account"}, OnNavClicked(to) PROVE TypeOK'
  <2>1. UserType'
    BY <1>2 DEF OnNavClicked, Later, UserType
  <2> QED
    BY <1>2, <2>1, Kept DEF OnNavClicked, selection
<1>3. CASE OnMyAccountClicked
  <2>1. UserType'
    BY <1>3 DEF OnMyAccountClicked, UserType
  <2> QED
    BY <1>3, <2>1, Kept DEF OnMyAccountClicked, selection
<1>4. CASE OnLogoutClicked
  <2>1. UserType'
    BY <1>4 DEF OnLogoutClicked, Later, UserType
  <2> QED
    BY <1>4, <2>1, Kept DEF OnLogoutClicked, selection
<1>5. CASE SafeSwitch
  <2>1. Last(idle) \in {"home", "account", "login"}
    BY <1>5 DEF SafeSwitch, UserType, Last
  <2>2. UserType'
    BY <1>5 DEF SafeSwitch, UserType, UserAfter
  <2>3. ScreenType'
    BY <1>5, <2>1 DEF SafeSwitch, ScreenType, Show, selection
  <2> QED
    BY <1>5, <2>2, <2>3, Kept DEF SafeSwitch, selection
<1>6. CASE SafeSwitchToAccountView
  <2>1. UserType' /\ ScreenType'
    BY <1>6 DEF SafeSwitchToAccountView, UserType, ScreenType, Show, selection
  <2> QED
    BY <1>6, <2>1, Kept DEF SafeSwitchToAccountView, selection
<1>7. CASE ShowListTickets
  <2>1. ScreenType'
    BY <1>7 DEF ShowListTickets, GetListTickets, Show, ScreenType, selection
  <2>2. loop' \in {"hung", loop}
    BY <1>7 DEF ShowListTickets, GetListTickets, Hangs
  <2>3. PaymentType'
    BY <1>7, <2>2, KeptPayment DEF ShowListTickets, PaymentType
  <2> QED
    BY <1>7, <2>1, <2>3, Kept DEF ShowListTickets, selection
<1>8. ASSUME NEW c \in Class, OnListLinkClick(c) PROVE TypeOK'
  <2>1. ScreenType'
    BY <1>8, NoneAssumption DEF OnListLinkClick, Click, Show, ScreenType
  <2>2. PaymentType'
    BY <1>8, KeptPayment DEF OnListLinkClick, Hangs, PaymentType
  <2> QED
    BY <1>8, <2>1, <2>2, Kept DEF OnListLinkClick
<1>9. ASSUME NEW f \in Flight, OnDetailLinkClick(f) PROVE TypeOK'
  <2>1. ScreenType'
    BY <1>9, NoneAssumption DEF OnDetailLinkClick, Click, Show, ScreenType
  <2> QED
    BY <1>9, <2>1, Kept DEF OnDetailLinkClick
<1>10. CASE Back
  <2>1. ScreenType'
    BY <1>10 DEF Back, Click, Show, ScreenType, selection
  <2> QED
    BY <1>10, <2>1, Kept DEF Back, selection
<1> QED
  BY <1>1, <1>2, <1>3, <1>4, <1>5, <1>6, <1>7, <1>8, <1>9, <1>10

\* The seat map and the wait.
LEMMA SeatSteps ==
  ASSUME TypeOK, SelectionFits,
         ConfirmFlight \/ \E s \in Seat : ClickSeat(s)
  PROVE  TypeOK'
<1> USE TypeParts
<1>1. CASE ConfirmFlight
  <2>1. SeatsOfFlight(detail_flight) \subseteq Seat
    BY DEF SeatsOfFlight, StoreType, DetailRow
  <2>2. SeatType'
    BY <1>1, <2>1 DEF ConfirmFlight, SeatType, Hangs
  <2>3. ScreenType'
    BY <1>1 DEF ConfirmFlight, Click, Show, ScreenType
  <2>4. PaymentType'
    BY <1>1, KeptPayment DEF ConfirmFlight, Hangs, PaymentType
  <2> QED
    BY <1>1, <2>2, <2>3, <2>4, Kept DEF ConfirmFlight
<1>2. ASSUME NEW s \in Seat, ClickSeat(s) PROVE TypeOK'
  <2>1. temp_seats \in Seq(Seat) /\ NoRepeats(temp_seats) /\ ToSet(temp_seats) = selected
    BY DEF SeatType, SelectionFits, SelectionAgrees, Chosen
  <2>2. temp_seats' \in Seq(Seat)
    BY <1>2, <2>1, RemoveStringRemoves, AddStringAdds DEF ClickSeat
  <2>3. SeatType'
    BY <1>2, <2>2 DEF ClickSeat, SeatType
  <2> QED
    BY <1>2, <2>3, Kept DEF ClickSeat
<1> QED
  BY <1>1, <1>2

LEMMA WaitSteps ==
  ASSUME TypeOK, PaymentFits, OnButtonPressPay \/ Wait
  PROVE  TypeOK'
<1> USE TypeParts
<1>1. CASE OnButtonPressPay
  <2>1. final_price' \in Price /\ final_price' * 100 \in Int
    BY <1>1, PriceIsInt DEF OnButtonPressPay, Amount, SeatType
  <2>2. detail_flight \in Flight /\ user_id \in User \cup {None}
    BY <1>1 DEF OnButtonPressPay, Click, ScreenType, UserType
  <2>3. Chosen \in SUBSET Seat /\ price \in Price
    BY DEF Chosen, ToSet, SeatType
  <2> DEFINE page == [asked |-> AsInt(final_price' * 100), order |-> Order, state |-> "open",
                      bought |-> {}, refused |-> FALSE]
  <2>4. page \in Page
    BY <2>1, <2>2, <2>3, AsIntType DEF Page, Order
  <2>5. pages' = Append(pages, page)
    BY <1>1 DEF OnButtonPressPay, OpenPage
  <2> HIDE DEF page
  <2>6. pages' \in Seq(Page) /\ 0 \in 0..Len(pages')
    BY <2>4, <2>5 DEF PaymentType
  <2>7. PaymentType'
    BY <1>1, <2>1, <2>6 DEF OnButtonPressPay, ResetFlags, PaymentType
  <2> QED
    BY <1>1, <2>7, Kept DEF OnButtonPressPay, selection
<1>2. CASE Wait
  <2>1. PaymentType'
    BY <1>2, KeptPayment DEF Wait, LeaveWait, DaemonStopped
  <2> QED
    BY <1>2, <2>1, Kept DEF Wait, LeaveWait, DaemonStopped, selection
<1> QED
  BY <1>1, <1>2

\* A page amended is a page.
LEMMA Amended ==
  ASSUME NEW A, NEW B, NEW C, NEW D, NEW E,
         NEW p \in [asked : A, order : B, state : C, bought : D, refused : E]
  PROVE  /\ \A x \in C : [p EXCEPT !.state = x] \in [asked : A, order : B, state : C, bought : D, refused : E]
         /\ \A x \in D : [p EXCEPT !.bought = x] \in [asked : A, order : B, state : C, bought : D, refused : E]
         /\ \A x \in E : [p EXCEPT !.refused = x] \in [asked : A, order : B, state : C, bought : D, refused : E]
  OBVIOUS

LEMMA PageAmended ==
  ASSUME NEW p \in Page
  PROVE  /\ \A x \in {"open", "paid", "told"} : [p EXCEPT !.state = x] \in Page
         /\ \A x \in SUBSET BookingId : [p EXCEPT !.bought = x] \in Page
         /\ [p EXCEPT !.refused = TRUE] \in Page
         /\ p.bought \in SUBSET BookingId
<1> DEFINE order == [user : User \cup {None}, flight : Flight, seats : SUBSET Seat, price : Price]
           state == {"open", "paid", "told"}
           bought == SUBSET BookingId
<1>1. Page = [asked : Int, order : order, state : state, bought : bought, refused : BOOLEAN]
  BY DEF Page
<1> HIDE DEF order, state, bought
<1>2. p.bought \in bought
  BY <1>1
<1>3. /\ \A x \in state : [p EXCEPT !.state = x] \in Page
      /\ \A x \in bought : [p EXCEPT !.bought = x] \in Page
      /\ \A x \in BOOLEAN : [p EXCEPT !.refused = x] \in Page
  BY <1>1, Amended
<1> QED
  BY <1>2, <1>3 DEF state, bought

LEMMA PagesAmended ==
  ASSUME NEW s \in Seq(Page), NEW i \in 1..Len(s), NEW p \in Page
  PROVE  /\ [s EXCEPT ![i] = p] \in Seq(Page)
         /\ Len([s EXCEPT ![i] = p]) = Len(s)
  OBVIOUS

LEMMA BrowserSteps ==
  ASSUME TypeOK, NEW i \in DOMAIN pages, Browser(i)
  PROVE  TypeOK'
<1> USE TypeParts
<1>1. pages \in Seq(Page) /\ i \in 1..Len(pages)
  BY DEF PaymentType
<1>2. \A x \in {"open", "paid", "told"} :
        /\ [pages EXCEPT ![i].state = x] \in Seq(Page)
        /\ Len([pages EXCEPT ![i].state = x]) = Len(pages)
  <2> TAKE x \in {"open", "paid", "told"}
  <2>1. pages[i] \in Page
    BY <1>1
  <2>2. [pages[i] EXCEPT !.state = x] \in Page
    BY <2>1, PageAmended, Zenon
  <2> QED
    BY <1>1, <2>2, PagesAmended
<1>4. /\ pages' \in Seq(Page) /\ Len(pages') = Len(pages)
      /\ UNCHANGED <<final_price, booking_id, loop>>
      /\ stop_server' \in BOOLEAN /\ is_payment_success' \in BOOLEAN
      /\ credit' \in {credit, i}
  BY <1>1, <1>2
     DEF Browser, PayInBrowser, Redirect, Reload, HandleRequest, PaymentType
<1>5. PaymentType'
  BY <1>1, <1>4 DEF PaymentType
<1>6. UNCHANGED <<storeVars, screen, user_id, session, selection, pending>>
  BY DEF Browser, PayInBrowser, Redirect, Reload, HandleRequest
<1> QED
  BY <1>5, <1>6, Kept DEF selection

LEMMA PurchaseSteps ==
  ASSUME TypeOK, PaymentFits, Purchase
  PROVE  TypeOK'
<1> USE TypeParts
<1>1. CASE CreateNewBooking
  <2>1. credit \in 1..Len(pages) /\ pages \in Seq(Page)
    BY <1>1 DEF CreateNewBooking, PaymentFits, PaymentType
  <2>2. nextId \in BookingId /\ nextId + 1 \in BookingId /\ nextId \in Nat
    BY DEF StoreType, BookingId
  <2>3. /\ [pages EXCEPT ![credit].bought = @ \cup {nextId}] \in Seq(Page)
        /\ Len([pages EXCEPT ![credit].bought = @ \cup {nextId}]) = Len(pages)
    <3>0. pages[credit] \in Page
      BY <2>1
    <3>1. pages[credit].bought \cup {nextId} \in SUBSET BookingId
      BY <3>0, <2>2, PageAmended
    <3>2. [pages[credit] EXCEPT !.bought = pages[credit].bought \cup {nextId}] \in Page
      BY <3>0, <3>1, PageAmended, Zenon
    <3> QED
      BY <2>1, <3>2, PagesAmended
  <2>4. /\ [pages EXCEPT ![credit].refused = TRUE] \in Seq(Page)
        /\ Len([pages EXCEPT ![credit].refused = TRUE]) = Len(pages)
    <3>1. pages[credit] \in Page
      BY <2>1
    <3>2. [pages[credit] EXCEPT !.refused = TRUE] \in Page
      BY <3>1, PageAmended, Zenon
    <3> QED
      BY <2>1, <3>2, PagesAmended
  <2>5. /\ pages' \in Seq(Page) /\ Len(pages') = Len(pages)
        /\ booking_id' \in Nat
        /\ loop' \in {"detail", "mail", "hung"}
        /\ UNCHANGED <<final_price, stop_server, is_payment_success, credit>>
    BY <1>1, <2>1, <2>2, <2>3, <2>4 DEF CreateNewBooking, Hangs, AnsweredId, PaymentType
  <2>6. PaymentType'
    BY <2>5 DEF PaymentType
  <2>7. StoreType'
    <3>1. CASE InsertBooking(user_id, final_price, detail_flight)
      BY <3>1, <2>2 DEF InsertBooking, StoreType, BookingRow, PaymentType
    <3>2. CASE UNCHANGED storeVars
      BY <3>2, Kept
    <3> QED
      BY <1>1, <3>1, <3>2 DEF CreateNewBooking, StatementFails, Hangs
  <2> QED
    BY <1>1, <2>6, <2>7, Kept DEF CreateNewBooking, selection
<1>2. CASE CreateDetailBooking
  <2>1. booking_id \in BookingId /\ Chosen \subseteq Seat
    BY <1>2 DEF CreateDetailBooking, PaymentFits, Chosen, ToSet, SeatType
  <2>2. StoreType'
    BY <1>2, <2>1 DEF CreateDetailBooking, StoreType, DetailRow
  <2>3. PaymentType'
    BY <1>2, KeptPayment DEF CreateDetailBooking
  <2> QED
    BY <1>2, <2>2, <2>3, Kept DEF CreateDetailBooking, selection
<1>3. CASE SendEmail
  <2>1. ScreenType'
    BY <1>3 DEF SendEmail, GetListTickets, Show, ScreenType, selection
  <2>2. PaymentType'
    BY <1>3, KeptPayment DEF SendEmail, GetListTickets
  <2> QED
    BY <1>3, <2>1, <2>2, Kept DEF SendEmail, selection
<1> QED
  BY <1>1, <1>2, <1>3 DEF Purchase

LEMMA TypeStep ==
  ASSUME TypeOK, SelectionFits, PaymentFits, [Next]_vars
  PROVE  TypeOK'
<1>1. CASE Next
  BY <1>1, ScreenSteps, SeatSteps, WaitSteps, PurchaseSteps, BrowserSteps DEF Next, Gui
<1>2. CASE UNCHANGED vars
  BY <1>2, TypeParts, Kept DEF vars, selection
<1> QED
  BY <1>1, <1>2

-----------------------------------------------------------------------------
(* The parts of the invariant *)

LEMMA InitIInv == Init => IInv
<1> SUFFICES ASSUME Init PROVE IInv
  OBVIOUS
<1>1. TypeOK
  BY InitType
<1>2. SelectionFits
  <2>1. temp_seats = <<>> /\ selected = {}
    BY DEF Init
  <2>2. IsFiniteSet({}) /\ Cardinality({}) = 0
    BY FS_EmptySet
  <2>3. ToSet(<<>>) = {} /\ Len(<<>>) = 0 /\ NoRepeats(<<>>)
    BY DEF ToSet, NoRepeats
  <2> QED
    BY <2>1, <2>2, <2>3 DEF SelectionFits, SelectionAgrees, Chosen
<1>3. SessionFits
  BY DEF Init, SessionFits, SessionAgrees, Contains
<1>4. PaymentFits
  BY DEF Init, PaymentFits, BookedOnPayment
<1> QED
  BY <1>1, <1>2, <1>3, <1>4 DEF IInv

\* Only a click on a seat changes the selection.
LEMMA SelectionKept ==
  ASSUME SelectionFits, UNCHANGED <<selected, temp_seats>>
  PROVE  SelectionFits'
<1>1. NoRepeats(temp_seats)'
  BY DEF SelectionFits, NoRepeats
<1>2. Chosen' = Chosen
  BY DEF Chosen
<1> QED
  BY <1>1, <1>2 DEF SelectionFits, SelectionAgrees

LEMMA SeatClicked ==
  ASSUME TypeOK, SelectionFits, NEW s \in Seat, ClickSeat(s)
  PROVE  SelectionFits'
<1>1. temp_seats \in Seq(Seat) /\ NoRepeats(temp_seats) /\ ToSet(temp_seats) = selected
  BY DEF TypeOK, SelectionFits, SelectionAgrees, Chosen
<1>2. IsFiniteSet(selected) /\ Len(temp_seats) = Cardinality(selected)
  BY DEF SelectionFits, SelectionAgrees
<1>3. CASE s \in selected
  <2>1. selected' = selected \ {s} /\ temp_seats' = RemoveString(temp_seats, s)
    BY <1>3 DEF ClickSeat
  <2>2. /\ Len(RemoveString(temp_seats, s)) = Len(temp_seats) - 1
        /\ NoRepeats(RemoveString(temp_seats, s))
        /\ ToSet(RemoveString(temp_seats, s)) = selected \ {s}
    BY <1>1, <1>3, RemoveStringRemoves
  <2>3. IsFiniteSet(selected \ {s}) /\ Cardinality(selected \ {s}) = Cardinality(selected) - 1
    BY <1>2, <1>3, FS_RemoveElement
  <2>4. NoRepeats(temp_seats')
    BY <2>1, <2>2
  <2> QED
    BY <2>1, <2>2, <2>3, <2>4, <1>2 DEF SelectionFits, SelectionAgrees, Chosen, NoRepeats
<1>4. CASE s \notin selected
  <2>1. selected' = selected \cup {s} /\ temp_seats' = AddString(temp_seats, s)
    BY <1>4 DEF ClickSeat
  <2>2. /\ Len(AddString(temp_seats, s)) = Len(temp_seats) + 1
        /\ NoRepeats(AddString(temp_seats, s))
        /\ ToSet(AddString(temp_seats, s)) = selected \cup {s}
    BY <1>1, <1>4, AddStringAdds
  <2>3. IsFiniteSet(selected \cup {s}) /\ Cardinality(selected \cup {s}) = Cardinality(selected) + 1
    BY <1>2, <1>4, FS_AddElement
  <2>4. NoRepeats(temp_seats')
    BY <2>1, <2>2
  <2> QED
    BY <2>1, <2>2, <2>3, <2>4, <1>2 DEF SelectionFits, SelectionAgrees, Chosen, NoRepeats
<1> QED
  BY <1>3, <1>4

LEMMA SelectionStep ==
  ASSUME TypeOK, SelectionFits, [Next]_vars
  PROVE  SelectionFits'
<1>1. CASE \E s \in Seat : ClickSeat(s)
  BY <1>1, SeatClicked
<1>2. CASE UNCHANGED <<selected, temp_seats>>
  BY <1>2, SelectionKept
<1>3. CASE Gui /\ ~(\E s \in Seat : ClickSeat(s))
  <2>1. UNCHANGED <<selected, temp_seats>>
    BY <1>3 DEF Gui, OnLoginClicked, OnNavClicked, OnMyAccountClicked, OnLogoutClicked,
                SafeSwitch, SafeSwitchToAccountView, ShowListTickets, OnListLinkClick,
                OnDetailLinkClick, ConfirmFlight, Back, OnButtonPressPay, selection
  <2> QED
    BY <2>1, SelectionKept
<1>4. CASE Wait \/ Purchase \/ \E i \in DOMAIN pages : Browser(i)
  <2>1. UNCHANGED <<selected, temp_seats>>
    BY <1>4 DEF Wait, Purchase, Browser, LeaveWait, DaemonStopped, CreateNewBooking,
                CreateDetailBooking, SendEmail, PayInBrowser, Redirect, Reload,
                HandleRequest, selection
  <2> QED
    BY <2>1, SelectionKept
<1>5. CASE UNCHANGED vars
  BY <1>5, SelectionKept DEF vars, selection
<1> QED
  BY <1>1, <1>3, <1>4, <1>5 DEF Next

\* A step of another screen leaves the session alone.
LEMMA SessionKept ==
  ASSUME SessionFits, UNCHANGED <<user_id, session, idle>>,
         screen' = "login" => screen = "login"
  PROVE  SessionFits'
  BY DEF SessionFits, SessionAgrees, Contains

LEMMA ContainsAppend ==
  ASSUME NEW S, NEW s \in Seq(S), NEW x \in S, NEW y
  PROVE  Contains(Append(s, x), y) <=> Contains(s, y) \/ y = x
<1>1. \A i \in 1..Len(s) : Append(s, x)[i] = s[i]
  OBVIOUS
<1>2. Append(s, x)[Len(s) + 1] = x /\ Len(Append(s, x)) = Len(s) + 1 /\ Len(s) \in Nat
  OBVIOUS
<1> QED
  BY <1>1, <1>2 DEF Contains

LEMMA SessionStep ==
  ASSUME TypeOK, SessionFits, [Next]_vars
  PROVE  SessionFits'
<1>0. idle \in Seq({"home", "account", "login"})
  BY DEF TypeOK
<1>1. ASSUME NEW u \in User, OnLoginClicked(u) PROVE SessionFits'
  <2>1. idle = <<>> /\ idle' = <<>>
    BY <1>1 DEF OnLoginClicked, Click, SessionFits, pending
  <2>2. session' = user_id' /\ screen' = "home"
    BY <1>1 DEF OnLoginClicked, Show
  <2> QED
    BY <2>1, <2>2 DEF SessionFits, SessionAgrees, Contains
<1>2. ASSUME NEW to \in {"home", "account"}, OnNavClicked(to) PROVE SessionFits'
  <2>1. screen' # "login" /\ idle' = Append(idle, to) /\ UNCHANGED <<user_id, session>>
    BY <1>2 DEF OnNavClicked, Click, Later
  <2>2. Contains(idle', "login") <=> Contains(idle, "login")
    BY <2>1, <1>0, ContainsAppend
  <2> QED
    BY <2>1, <2>2 DEF SessionFits, SessionAgrees
<1>3. CASE OnLogoutClicked
  <2>1. screen' # "login" /\ idle' = Append(idle, "login") /\ session' = None
    BY <1>3 DEF OnLogoutClicked, Click, Later
  <2>2. Contains(idle', "login")
    BY <2>1, <1>0, ContainsAppend
  <2> QED
    BY <2>1, <2>2 DEF SessionFits, SessionAgrees
<1>4. CASE SafeSwitch
  <2>1. idle' = <<>> /\ session' = session
        /\ user_id' = (IF Contains(idle, "login") THEN None ELSE user_id)
    BY <1>4 DEF SafeSwitch, UserAfter
  <2>2. ~Contains(idle', "login")
    BY <2>1 DEF Contains
  <2> QED
    BY <2>1, <2>2 DEF SessionFits, SessionAgrees
<1>5. CASE OnMyAccountClicked \/ SafeSwitchToAccountView \/ ShowListTickets
           \/ (\E c \in Class : OnListLinkClick(c)) \/ (\E f \in Flight : OnDetailLinkClick(f))
           \/ ConfirmFlight \/ Back \/ (\E s \in Seat : ClickSeat(s)) \/ OnButtonPressPay
  <2>1. UNCHANGED <<user_id, session, idle>> /\ (screen' = "login" => screen = "login")
    BY <1>5 DEF OnMyAccountClicked, SafeSwitchToAccountView, ShowListTickets, GetListTickets,
                OnListLinkClick, OnDetailLinkClick, ConfirmFlight, Back, ClickSeat,
                OnButtonPressPay, Show, pending
  <2> QED
    BY <2>1, SessionKept
<1>6. CASE Wait \/ Purchase \/ \E i \in DOMAIN pages : Browser(i)
  <2>1. UNCHANGED <<user_id, session, idle>> /\ (screen' = "login" => screen = "login")
    BY <1>6 DEF Wait, Purchase, Browser, LeaveWait, DaemonStopped, CreateNewBooking,
                CreateDetailBooking, SendEmail, GetListTickets, Show, PayInBrowser, Redirect,
                Reload, HandleRequest, pending
  <2> QED
    BY <2>1, SessionKept
<1>7. CASE UNCHANGED vars
  BY <1>7, SessionKept DEF vars, pending
<1> QED
  BY <1>1, <1>2, <1>3, <1>4, <1>5, <1>6, <1>7 DEF Next, Gui

LEMMA PaymentKept ==
  ASSUME PaymentFits, UNCHANGED <<booking_id, is_payment_success, pages, credit>>,
         loop' \in {loop, "events", "wait", "stopping", "mail", "hung"}
  PROVE  PaymentFits'
  BY DEF PaymentFits, BookedOnPayment

\* A field of one page amended, seen from every page.
LEMMA StateAmended ==
  ASSUME NEW s \in Seq(Page), NEW i \in 1..Len(s), NEW x, NEW t,
         t = [s EXCEPT ![i].state = x]
  PROVE  /\ DOMAIN t = DOMAIN s
         /\ \A j \in DOMAIN s : t[j].state = (IF j = i THEN x ELSE s[j].state)
         /\ \A j \in DOMAIN s : /\ t[j].order = s[j].order /\ t[j].asked = s[j].asked
                                /\ t[j].bought = s[j].bought /\ t[j].refused = s[j].refused
<1> DEFINE q == [s[i] EXCEPT !.state = x]
<1>1. s[i] \in Page
  OBVIOUS
<1>2. /\ q.state = x /\ q.order = s[i].order /\ q.asked = s[i].asked
      /\ q.bought = s[i].bought /\ q.refused = s[i].refused
  BY <1>1 DEF Page
<1>3. \A j \in DOMAIN s : t[j] = IF j = i THEN q ELSE s[j]
  OBVIOUS
<1> HIDE DEF q
<1> QED
  BY <1>2, <1>3

LEMMA BoughtAmended ==
  ASSUME NEW s \in Seq(Page), NEW i \in 1..Len(s), NEW x, NEW t,
         t = [s EXCEPT ![i].bought = x]
  PROVE  /\ DOMAIN t = DOMAIN s
         /\ \A j \in DOMAIN s : t[j].bought = (IF j = i THEN x ELSE s[j].bought)
         /\ \A j \in DOMAIN s : /\ t[j].order = s[j].order /\ t[j].asked = s[j].asked
                                /\ t[j].state = s[j].state /\ t[j].refused = s[j].refused
<1> DEFINE q == [s[i] EXCEPT !.bought = x]
<1>1. s[i] \in Page
  OBVIOUS
<1>2. /\ q.bought = x /\ q.order = s[i].order /\ q.asked = s[i].asked
      /\ q.state = s[i].state /\ q.refused = s[i].refused
  BY <1>1 DEF Page
<1>3. \A j \in DOMAIN s : t[j] = IF j = i THEN q ELSE s[j]
  OBVIOUS
<1> HIDE DEF q
<1> QED
  BY <1>2, <1>3

LEMMA RefusedAmended ==
  ASSUME NEW s \in Seq(Page), NEW i \in 1..Len(s), NEW x, NEW t,
         t = [s EXCEPT ![i].refused = x]
  PROVE  /\ DOMAIN t = DOMAIN s
         /\ \A j \in DOMAIN s : t[j].refused = (IF j = i THEN x ELSE s[j].refused)
         /\ \A j \in DOMAIN s : /\ t[j].order = s[j].order /\ t[j].asked = s[j].asked
                                /\ t[j].state = s[j].state /\ t[j].bought = s[j].bought
<1> DEFINE q == [s[i] EXCEPT !.refused = x]
<1>1. s[i] \in Page
  OBVIOUS
<1>2. /\ q.refused = x /\ q.order = s[i].order /\ q.asked = s[i].asked
      /\ q.state = s[i].state /\ q.bought = s[i].bought
  BY <1>1 DEF Page
<1>3. \A j \in DOMAIN s : t[j] = IF j = i THEN q ELSE s[j]
  OBVIOUS
<1> HIDE DEF q
<1> QED
  BY <1>2, <1>3

LEMMA BrowserPays ==
  ASSUME TypeOK, PaymentFits, NEW i \in DOMAIN pages, Browser(i)
  PROVE  PaymentFits'
<1>1. pages \in Seq(Page) /\ i \in 1..Len(pages) /\ credit \in 0..Len(pages)
  BY DEF TypeOK
<1>2. CASE PayInBrowser(i)
  <2>1. /\ DOMAIN pages' = DOMAIN pages
        /\ \A j \in DOMAIN pages : pages'[j].state = IF j = i THEN "paid" ELSE pages[j].state
        /\ \A j \in DOMAIN pages : pages'[j].bought = pages[j].bought
    <3>1. pages' = [pages EXCEPT ![i].state = "paid"]
      BY <1>2 DEF PayInBrowser
    <3> QED
      BY <1>1, <3>1, StateAmended
  <2>2. pages[i].state = "open" /\ credit # i /\ pages[i].bought = {}
    BY <1>1, <1>2 DEF PayInBrowser, PaymentFits, BookedOnPayment
  <2>3. UNCHANGED <<is_payment_success, credit, loop, booking_id>>
    BY <1>2 DEF PayInBrowser
  <2> QED
    BY <1>1, <2>1, <2>2, <2>3 DEF PaymentFits, BookedOnPayment
<1>3. CASE pages[i].state = "paid" /\ HandleRequest(i, "00")
           /\ pages' = [pages EXCEPT ![i].state = "told"]
  <2>1. /\ DOMAIN pages' = DOMAIN pages
        /\ \A j \in DOMAIN pages : pages'[j].state = IF j = i THEN "told" ELSE pages[j].state
        /\ \A j \in DOMAIN pages : pages'[j].bought = pages[j].bought
    BY <1>1, <1>3, StateAmended
  <2>2. /\ loop' = loop /\ loop \in {"wait", "stopping"} /\ booking_id' = booking_id
        /\ \/ is_payment_success /\ UNCHANGED <<is_payment_success, credit>>
           \/ is_payment_success' = TRUE /\ credit' = i
    BY <1>3 DEF HandleRequest
  <2>3. is_payment_success' <=> credit' # 0
    BY <1>1, <2>2 DEF PaymentFits
  <2>4. credit' # 0 => pages'[credit'].state = "told"
    BY <1>1, <2>1, <2>2 DEF PaymentFits
  <2>5. BookedOnPayment'
    BY <2>1 DEF PaymentFits, BookedOnPayment
  <2> QED
    BY <2>2, <2>3, <2>4, <2>5 DEF PaymentFits
<1>4. CASE pages[i].state = "open" /\ HandleRequest(i, "24") /\ UNCHANGED pages
  <2>1. UNCHANGED <<is_payment_success, credit, loop, booking_id, pages>>
    BY <1>4 DEF HandleRequest
  <2> QED
    BY <2>1, PaymentKept
<1>5. CASE Reload(i)
  <2>1. /\ loop' = loop /\ loop \in {"wait", "stopping"}
        /\ UNCHANGED <<booking_id, pages>> /\ pages[i].state = "told"
        /\ \/ UNCHANGED <<is_payment_success, credit>>
           \/ is_payment_success' = TRUE /\ credit' = i
    BY <1>5 DEF Reload, HandleRequest
  <2>2. is_payment_success' <=> credit' # 0
    BY <1>1, <2>1 DEF PaymentFits
  <2> QED
    BY <2>1, <2>2 DEF PaymentFits, BookedOnPayment
<1> QED
  BY <1>2, <1>3, <1>4, <1>5 DEF Browser, Redirect

LEMMA PaymentStep ==
  ASSUME TypeOK, PaymentFits, [Next]_vars
  PROVE  PaymentFits'
<1>1. pages \in Seq(Page) /\ credit \in 0..Len(pages) /\ nextId \in BookingId
  BY DEF TypeOK
<1>2. CASE OnButtonPressPay
  <2>1. PICK p : pages' = Append(pages, p) /\ p.bought = {}
    BY <1>2 DEF OnButtonPressPay, OpenPage
  <2>2. credit' = 0 /\ is_payment_success' = FALSE /\ loop' \in {"events", "wait"}
    BY <1>2 DEF OnButtonPressPay, ResetFlags, Click
  <2>3. \A j \in DOMAIN pages' : IF j \in DOMAIN pages THEN pages'[j] = pages[j] ELSE pages'[j] = p
    BY <1>1, <2>1
  <2>4. BookedOnPayment'
    BY <2>1, <2>3 DEF PaymentFits, BookedOnPayment
  <2> QED
    BY <2>2, <2>4 DEF PaymentFits
<1>3. CASE Gui /\ ~OnButtonPressPay
  <2>1. UNCHANGED <<booking_id, is_payment_success, pages, credit>> /\ loop' \in {loop, "hung"}
    BY <1>3 DEF Gui, OnLoginClicked, OnNavClicked, OnMyAccountClicked, OnLogoutClicked,
                SafeSwitch, SafeSwitchToAccountView, ShowListTickets, GetListTickets, Hangs,
                OnListLinkClick, OnDetailLinkClick, ConfirmFlight, Back, ClickSeat, payment
  <2> QED
    BY <2>1, PaymentKept
<1>4. CASE Wait
  <2>1. /\ UNCHANGED <<booking_id, is_payment_success, pages, credit>>
        /\ loop' \in {"stopping", "create", "events"} /\ (loop' = "create" => is_payment_success)
    BY <1>4 DEF Wait, LeaveWait, DaemonStopped
  <2> QED
    BY <2>1 DEF PaymentFits, BookedOnPayment
<1>5. CASE CreateNewBooking
  <2>1. credit \in 1..Len(pages) /\ pages[credit].state = "told"
    BY <1>1, <1>5 DEF CreateNewBooking, PaymentFits
  <2>2. /\ DOMAIN pages' = DOMAIN pages
        /\ \A j \in DOMAIN pages : pages'[j].state = pages[j].state
        /\ \A j \in DOMAIN pages : j # credit => pages'[j].bought = pages[j].bought
    <3>1. \/ UNCHANGED pages
          \/ pages' = [pages EXCEPT ![credit].bought = pages[credit].bought \cup {nextId}]
          \/ pages' = [pages EXCEPT ![credit].refused = TRUE]
      BY <1>1, <1>5, <2>1 DEF CreateNewBooking
    <3>2. CASE pages' = [pages EXCEPT ![credit].bought = pages[credit].bought \cup {nextId}]
      BY <1>1, <2>1, <3>2, BoughtAmended
    <3>3. CASE pages' = [pages EXCEPT ![credit].refused = TRUE]
      BY <1>1, <2>1, <3>3, RefusedAmended
    <3> QED
      BY <3>1, <3>2, <3>3
  <2>3. /\ UNCHANGED <<is_payment_success, credit>>
        /\ loop' # "create" /\ (loop' = "detail" => booking_id' \in BookingId)
    BY <1>1, <1>5 DEF CreateNewBooking, Hangs, AnsweredId
  <2> QED
    BY <1>1, <2>1, <2>2, <2>3 DEF PaymentFits, BookedOnPayment
<1>6. CASE CreateDetailBooking \/ SendEmail
  <2>1. UNCHANGED <<booking_id, is_payment_success, pages, credit>>
        /\ loop' \in {"mail", "hung", "events"}
    BY <1>6 DEF CreateDetailBooking, SendEmail, GetListTickets
  <2> QED
    BY <2>1, PaymentKept
<1>7. CASE \E i \in DOMAIN pages : Browser(i)
  BY <1>7, BrowserPays
<1>8. CASE UNCHANGED vars
  BY <1>8, PaymentKept DEF vars, payment
<1> QED
  BY <1>2, <1>3, <1>4, <1>5, <1>6, <1>7, <1>8 DEF Next, Purchase

-----------------------------------------------------------------------------
(* The theorems *)

LEMMA IInvStep == IInv /\ [Next]_vars => IInv'
  BY TypeStep, SelectionStep, SessionStep, PaymentStep DEF IInv

LEMMA Invariant == Spec => []IInv
  BY InitIInv, IInvStep, PTL DEF Spec

(* The variables of the program keep their types: no screen of the purchase *)
(* is open without a class and a flight, the waits are left for the states  *)
(* the code has only (book_seat.c:319-346, global.c:505-556).               *)
THEOREM TypeCorrect == Spec => []TypeOK
<1>1. IInv => TypeOK
  BY DEF IInv
<1> QED
  BY <1>1, Invariant, PTL

(* The list that is priced, sent and mailed names each selected seat once,  *)
(* however the clicks go (book_seat.c:329-341, global.c:212-234).           *)
THEOREM SelectionsAgree == Spec => []SelectionAgrees
<1>1. IInv => SelectionAgrees
  BY DEF IInv, SelectionFits
<1> QED
  BY <1>1, Invariant, PTL

(* Client and server agree on who is logged in but for a logout on its way  *)
(* (my_account.c:34-56).                                                    *)
THEOREM SessionsAgree == Spec => []SessionAgrees
<1>1. IInv => SessionAgrees
  BY DEF IInv, SessionFits
<1> QED
  BY <1>1, Invariant, PTL

(* Whatever the customer clicks during the wait, and however redirects come *)
(* and come again: nothing is booked for a page that was not paid           *)
(* (global.c:464-477, 505-534).                                             *)
THEOREM BookingsArePaid == Spec => []BookedOnPayment
<1>1. IInv => BookedOnPayment
  BY DEF IInv, PaymentFits
<1> QED
  BY <1>1, Invariant, PTL

-----------------------------------------------------------------------------
(***************************************************************************)
(* The purchase, when the customer touches nothing during the wait for     *)
(* VNPAY: the booking, the amount asked for and the e-mail are those of the*)
(* page that was paid.                                                     *)
(***************************************************************************)

(* The inductive invariant, on top of IInv *)

N == Len(pages)

\* The order, as CREATE NEW BOOKING and the e-mail read it from the globals.
Ordered == [user |-> user_id, flight |-> detail_flight, seats |-> Chosen, price |-> final_price]

Waiting == loop \in {"wait", "stopping", "create", "detail", "mail"}

\* During a purchase the globals are still the order of the last page, and a
\* payment is never noted for another page.
OrderFits ==
  /\ Waiting => N > 0 /\ pages[N].order = Ordered
  /\ credit \in {0, N}
  /\ loop \in {"detail", "mail"} => credit # 0

\* What the last page has bought, at each stage.
StageFits ==
  /\ loop \in {"wait", "stopping", "create"} => pages[N].bought = {}
  /\ loop = "detail" => pages[N].bought = {booking_id}
  /\ loop = "mail" => pages[N].refused \/ pages[N].bought = {booking_id}

\* Ids are given in order and to one page each.
IdsFit ==
  /\ \A b \in bookings : b.id < nextId
  /\ \A d \in details : d.booking < nextId
  /\ \A i \in DOMAIN pages : \A x \in pages[i].bought : x < nextId /\ pages[i].bought = {x}
  /\ \A i, j \in DOMAIN pages : \A x \in pages[i].bought : x \in pages[j].bought => i = j

PagesAskPrice == \A i \in DOMAIN pages : pages[i].asked = AsInt(pages[i].order.price * 100)

PInv == OrderFits /\ StageFits /\ IdsFit /\ PagesAskPrice /\ BookedAsPaid

-----------------------------------------------------------------------------

LEMMA PatientIsNext == PatientNext => Next
  BY DEF PatientNext, Next, Browser

LEMMA InitPInv == Init => PInv
  BY DEF Init, StoreInit, PInv, OrderFits, StageFits, IdsFit, PagesAskPrice, BookedAsPaid,
         Waiting, N

\* A step that makes no page, no booking and no answer.
LEMMA Undisturbed ==
  ASSUME PInv,
         UNCHANGED <<storeVars, pages, credit>>,
         loop' # "events" /\ loop' # "hung"
           => /\ UNCHANGED <<user_id, detail_flight, temp_seats, final_price, booking_id>>
              /\ \/ loop' = loop
                 \/ loop = "wait" /\ loop' = "stopping"
                 \/ loop = "stopping" /\ loop' = "create"
         
  PROVE  PInv'
<1>1. OrderFits'
  BY DEF PInv, OrderFits, Waiting, N, Ordered, Chosen
<1>2. StageFits'
  BY DEF PInv, StageFits, N
<1>3. IdsFit' /\ PagesAskPrice' /\ BookedAsPaid'
  BY DEF PInv, IdsFit, PagesAskPrice, BookedAsPaid, storeVars
<1> QED
  BY <1>1, <1>2, <1>3 DEF PInv

LEMMA PaySteps ==
  ASSUME IInv, PInv, loop = "events", OnButtonPressPay
  PROVE  PInv'
<1>1. pages \in Seq(Page)
  BY DEF IInv, TypeOK
<1> DEFINE p == [asked |-> AsInt(final_price' * 100), order |-> Order, state |-> "open",
                 bought |-> {}, refused |-> FALSE]
<1>2. pages' = Append(pages, p) /\ final_price' = price
  BY DEF OnButtonPressPay, OpenPage, Amount
<1>3. p.order = Ordered' /\ p.bought = {} /\ p.asked = AsInt(p.order.price * 100)
  <2>1. UNCHANGED <<user_id, detail_flight, temp_seats>>
    BY DEF OnButtonPressPay, selection
  <2>2. Order = Ordered'
    BY <1>2, <2>1 DEF Ordered, Order, Chosen
  <2>3. Order.price = final_price'
    BY <1>2 DEF Order
  <2> QED
    BY <2>2, <2>3
<1> HIDE DEF p
<1>4. /\ N' = N + 1 /\ N \in Nat /\ DOMAIN pages' = 1..(N + 1) /\ DOMAIN pages = 1..N
      /\ pages'[N + 1] = p /\ \A i \in 1..N : pages'[i] = pages[i]
  BY <1>1, <1>2 DEF N
<1>5. credit' = 0 /\ loop' \in {"events", "wait"} /\ UNCHANGED storeVars
  BY DEF OnButtonPressPay, ResetFlags
<1>6. OrderFits'
  BY <1>3, <1>4, <1>5 DEF OrderFits, Waiting
<1>7. StageFits'
  BY <1>3, <1>4, <1>5 DEF StageFits
<1>8. \A i \in DOMAIN pages' : \/ i \in DOMAIN pages /\ pages'[i] = pages[i]
                               \/ i = N + 1 /\ pages'[i] = p
  BY <1>4
<1>9. IdsFit'
  BY <1>3, <1>5, <1>8 DEF PInv, IdsFit, storeVars
<1>10. PagesAskPrice' /\ BookedAsPaid'
  BY <1>3, <1>5, <1>8 DEF PInv, PagesAskPrice, BookedAsPaid, storeVars
<1> QED
  BY <1>6, <1>7, <1>9, <1>10 DEF PInv

\* The browser changes the state of a page, and notes a payment of the last
\* one only.
LEMMA PatientBrowser ==
  ASSUME IInv, PInv, NEW i \in DOMAIN pages, PayInBrowser(i) \/ (i = N /\ Redirect(i))
  PROVE  PInv'
<1>1. pages \in Seq(Page) /\ i \in 1..Len(pages)
  BY DEF IInv, TypeOK
<1>2. /\ DOMAIN pages' = DOMAIN pages
      /\ \A j \in DOMAIN pages :
           /\ pages'[j].order = pages[j].order /\ pages'[j].asked = pages[j].asked
           /\ pages'[j].bought = pages[j].bought /\ pages'[j].refused = pages[j].refused
  <2>1. PICK x : pages' = [pages EXCEPT ![i].state = x] \/ UNCHANGED pages
    BY DEF PayInBrowser, Redirect
  <2>2. CASE pages' = [pages EXCEPT ![i].state = x]
    BY <1>1, <2>2, StateAmended
  <2> QED
    BY <2>1, <2>2
<1>3. N' = N /\ N \in Nat /\ DOMAIN pages = 1..N
  <2>1. pages' \in Seq(Page)
    BY TypeStep, PatientIsNext, IInvStep DEF IInv, PatientNext, TypeOK, N
  <2> QED
    BY <1>1, <1>2, <2>1 DEF N
<1>4. /\ UNCHANGED <<storeVars, user_id, detail_flight, temp_seats, final_price, booking_id, loop>>
      /\ credit' \in {credit, N} /\ (credit # 0 => credit' # 0)
  BY <1>1, <1>3 DEF PayInBrowser, Redirect, HandleRequest, selection, N, IInv, PaymentFits
<1>5. OrderFits'
  BY <1>2, <1>3, <1>4 DEF PInv, OrderFits, Waiting, Ordered, Chosen
<1>6. StageFits'
  <2>1. CASE N \in DOMAIN pages
    BY <1>2, <1>3, <1>4, <2>1 DEF PInv, StageFits
  <2>2. N \in DOMAIN pages
    BY <1>1 DEF N
  <2> QED
    BY <2>1, <2>2
<1>7. IdsFit'
  BY <1>2, <1>4 DEF PInv, IdsFit, storeVars
<1>8. PagesAskPrice' /\ BookedAsPaid'
  BY <1>2, <1>4 DEF PInv, PagesAskPrice, BookedAsPaid, storeVars
<1> QED
  BY <1>5, <1>6, <1>7, <1>8 DEF PInv

LEMMA PatientBooks ==
  ASSUME IInv, PInv, CreateNewBooking
  PROVE  PInv'
<1>1. /\ pages \in Seq(Page) /\ credit = N /\ N \in 1..Len(pages) /\ DOMAIN pages = 1..N
      /\ nextId \in Nat /\ loop = "create"
  BY DEF CreateNewBooking, IInv, TypeOK, PaymentFits, PInv, OrderFits, N, BookingId
<1>2. /\ UNCHANGED <<user_id, detail_flight, temp_seats, final_price, credit>>
      /\ pages[N].order = Ordered /\ pages[N].bought = {} /\ Ordered' = Ordered
  BY <1>1 DEF CreateNewBooking, selection, PInv, OrderFits, StageFits, Waiting, Ordered, Chosen
<1>3. CASE InsertBooking(user_id, final_price, detail_flight) /\ booking_id' = nextId
           /\ pages' = [pages EXCEPT ![N].bought = pages[N].bought \cup {nextId}]
           /\ loop' = "detail"
  <2> DEFINE row == [id |-> nextId, user |-> user_id, price |-> final_price,
                     flight |-> detail_flight]
  <2>1. /\ bookings' = bookings \cup {row} /\ nextId' = nextId + 1 /\ details' = details
    BY <1>3 DEF InsertBooking
  <2>2. /\ DOMAIN pages' = DOMAIN pages
        /\ \A j \in DOMAIN pages :
             /\ pages'[j].bought = (IF j = N THEN {nextId} ELSE pages[j].bought)
             /\ pages'[j].order = pages[j].order /\ pages'[j].asked = pages[j].asked
    <3>1. pages[N].bought \cup {nextId} = {nextId}
      BY <1>2
    <3>2. pages' = [pages EXCEPT ![N].bought = {nextId}]
      BY <1>3, <3>1
    <3> QED
      BY <1>1, <3>2, BoughtAmended
  <2>3. N' = N
    <3>1. Len(pages') = Len(pages)
      BY <1>1, <1>3
    <3> QED
      BY <3>1 DEF N
  <2>4. OrderFits'
    BY <1>1, <1>2, <1>3, <2>2, <2>3 DEF OrderFits, Waiting
  <2>5. StageFits'
    <3>1. booking_id' = nextId /\ loop' = "detail"
      BY <1>3
    <3>2. pages'[N].bought = {nextId}
      BY <1>1, <2>2
    <3> QED
      BY <2>3, <3>1, <3>2 DEF StageFits
  <2>6. IdsFit'
    <3>1. /\ \A b \in bookings : b.id \in Nat /\ b.id < nextId
          /\ \A d \in details : d.booking \in Nat /\ d.booking < nextId
      BY DEF PInv, IdsFit, IInv, TypeOK, BookingRow, DetailRow, BookingId
    <3>2. \A i \in DOMAIN pages : \A x \in pages[i].bought : x \in Nat /\ x < nextId
      <4>1. \A i \in DOMAIN pages : pages[i].bought \in SUBSET BookingId
        <5>1. \A i \in DOMAIN pages : pages[i] \in Page
          BY <1>1
        <5> QED
          BY <5>1, PageAmended
      <4> QED
        BY <4>1 DEF PInv, IdsFit, BookingId
    <3>3. (\A b \in bookings : b.id < nextId)' /\ (\A d \in details : d.booking < nextId)'
      BY <1>1, <2>1, <3>1
    <3>4. \A i \in DOMAIN pages' : \A x \in pages'[i].bought :
            x < nextId' /\ pages'[i].bought = {x}
      BY <1>1, <2>1, <2>2, <3>2 DEF PInv, IdsFit
    <3>5. \A i, j \in DOMAIN pages' : \A x \in pages'[i].bought : x \in pages'[j].bought => i = j
      BY <1>1, <2>2, <3>2 DEF PInv, IdsFit
    <3> QED
      BY <3>3, <3>4, <3>5 DEF IdsFit
  <2>7. PagesAskPrice'
    BY <2>2 DEF PInv, PagesAskPrice
  <2>8. BookedAsPaid'
    <3> SUFFICES ASSUME NEW i \in DOMAIN pages, NEW b \in bookings', b.id \in pages'[i].bought
                 PROVE  /\ b.user = pages[i].order.user
                        /\ b.flight = pages[i].order.flight
                        /\ b.price = pages[i].order.price
                        /\ \A d \in details : d.booking = b.id => d.seat \in pages[i].order.seats
      BY <2>1, <2>2 DEF BookedAsPaid
    <3>1. \A c \in bookings : c.id # nextId
      BY <1>1 DEF PInv, IdsFit, IInv, TypeOK, BookingRow, BookingId
    <3>2. \A d \in details : d.booking # nextId
      BY <1>1 DEF PInv, IdsFit, IInv, TypeOK, DetailRow, BookingId
    <3>3. CASE b = row
      <4>1. b.id = nextId /\ b.user = user_id /\ b.price = final_price /\ b.flight = detail_flight
        BY <3>3
      <4>2. i = N
        <5>1. nextId \notin pages[i].bought
          BY <1>1 DEF PInv, IdsFit
        <5> QED
          BY <2>2, <4>1, <5>1
      <4> QED
        BY <1>2, <3>2, <4>1, <4>2 DEF Ordered
    <3>4. CASE b \in bookings
      <4>1. i # N
        BY <1>1, <2>2, <3>1, <3>4
      <4> QED
        BY <2>2, <3>4, <4>1 DEF PInv, BookedAsPaid
    <3> QED
      BY <2>1, <3>3, <3>4
  <2> QED
    BY <2>4, <2>5, <2>6, <2>7, <2>8 DEF PInv
<1>4. CASE StatementFails /\ pages' = [pages EXCEPT ![N].refused = TRUE] /\ loop' = "mail"
           /\ UNCHANGED booking_id
  <2>1. /\ DOMAIN pages' = DOMAIN pages
        /\ \A j \in DOMAIN pages :
             /\ pages'[j].refused = (IF j = N THEN TRUE ELSE pages[j].refused)
             /\ pages'[j].bought = pages[j].bought
             /\ pages'[j].order = pages[j].order /\ pages'[j].asked = pages[j].asked
    BY <1>1, <1>4, RefusedAmended
  <2>2. N' = N
    <3>1. Len(pages') = Len(pages)
      BY <1>1, <1>4
    <3> QED
      BY <3>1 DEF N
  <2>3. OrderFits' /\ StageFits'
    BY <1>1, <1>2, <1>4, <2>1, <2>2 DEF OrderFits, StageFits, Waiting
  <2>4. UNCHANGED storeVars
    BY <1>4 DEF StatementFails
  <2>5. IdsFit'
    BY <2>1, <2>4 DEF PInv, IdsFit, storeVars
  <2>6. PagesAskPrice'
    BY <2>1 DEF PInv, PagesAskPrice
  <2>7. BookedAsPaid'
    <3> SUFFICES ASSUME NEW i \in DOMAIN pages', NEW b \in bookings', b.id \in pages'[i].bought
                 PROVE  /\ b.user = pages'[i].order.user
                        /\ b.flight = pages'[i].order.flight
                        /\ b.price = pages'[i].order.price
                        /\ \A d \in details' : d.booking = b.id => d.seat \in pages'[i].order.seats
      BY DEF BookedAsPaid
    <3>1. i \in DOMAIN pages /\ pages'[i].bought = pages[i].bought /\ pages'[i].order = pages[i].order
      BY <2>1
    <3>2. bookings' = bookings /\ details' = details
      BY <2>4 DEF storeVars
    <3> QED
      BY <3>1, <3>2 DEF PInv, BookedAsPaid
  <2> QED
    BY <2>3, <2>5, <2>6, <2>7 DEF PInv
<1>5. CASE Hangs /\ UNCHANGED <<storeVars, booking_id, pages>>
  BY <1>2, <1>5, Undisturbed DEF Hangs
<1> QED
  BY <1>1, <1>3, <1>4, <1>5 DEF CreateNewBooking, AnsweredId

LEMMA PatientDetails ==
  ASSUME IInv, PInv, CreateDetailBooking
  PROVE  PInv'
<1>1. /\ loop = "detail" /\ loop' = "mail"
      /\ UNCHANGED <<bookings, nextId, user_id, detail_flight, temp_seats, final_price,
                     booking_id, pages, credit>>
  BY DEF CreateDetailBooking, selection
<1>2. N \in DOMAIN pages /\ pages[N].bought = {booking_id} /\ pages[N].order.seats = Chosen
  <2>1. pages \in Seq(Page) /\ N > 0
    BY <1>1 DEF IInv, TypeOK, PInv, OrderFits, Waiting
  <2> QED
    BY <1>1, <2>1 DEF PInv, OrderFits, StageFits, Waiting, Ordered, N
<1>3. PICK s \in SUBSET Chosen :
        details' = details \cup {[booking |-> booking_id, seat |-> x] : x \in s}
  BY DEF CreateDetailBooking
<1>4. \A d \in details' : d \in details \/ (d.booking = booking_id /\ d.seat \in Chosen)
  BY <1>3
<1>5. OrderFits' /\ StageFits'
  BY <1>1 DEF PInv, OrderFits, StageFits, Waiting, Ordered, Chosen, N
<1>6. IdsFit'
  BY <1>1, <1>2, <1>4 DEF PInv, IdsFit
<1>7. BookedAsPaid'
  <2> SUFFICES ASSUME NEW i \in DOMAIN pages, NEW b \in bookings, b.id \in pages[i].bought,
                      NEW d \in details', d.booking = b.id
               PROVE  d.seat \in pages[i].order.seats
    BY <1>1 DEF PInv, BookedAsPaid
  <2>1. CASE d \in details
    BY <2>1 DEF PInv, BookedAsPaid
  <2>2. CASE d.booking = booking_id /\ d.seat \in Chosen
    <3>1. i = N
      BY <1>2, <2>2 DEF PInv, IdsFit
    <3> QED
      BY <1>2, <2>2, <3>1
  <2> QED
    BY <1>4, <2>1, <2>2
<1>8. PagesAskPrice'
  BY <1>1 DEF PInv, PagesAskPrice
<1> QED
  BY <1>5, <1>6, <1>7, <1>8 DEF PInv

LEMMA PInvStep ==
  ASSUME IInv, PInv, [PatientNext]_vars
  PROVE  PInv'
<1>1. CASE loop = "events" /\ Gui /\ ~OnButtonPressPay
  <2>1. UNCHANGED <<storeVars, pages, credit>> /\ loop' \in {"events", "hung"}
    BY <1>1 DEF Gui, OnLoginClicked, OnNavClicked, OnMyAccountClicked, OnLogoutClicked,
                SafeSwitch, SafeSwitchToAccountView, ShowListTickets, GetListTickets, Hangs,
                OnListLinkClick, OnDetailLinkClick, ConfirmFlight, Back, ClickSeat, payment
  <2> QED
    BY <2>1, Undisturbed
<1>2. CASE loop = "events" /\ OnButtonPressPay
  BY <1>2, PaySteps
<1>3. CASE Wait
  <2>1. /\ UNCHANGED <<storeVars, pages, credit, user_id, detail_flight, temp_seats, final_price,
                       booking_id>>
        /\ \/ loop = "wait" /\ loop' = "stopping"
           \/ loop = "stopping" /\ loop' \in {"create", "events"}
    BY <1>3 DEF Wait, LeaveWait, DaemonStopped, selection
  <2> QED
    BY <2>1, Undisturbed
<1>4. CASE SendEmail
  <2>1. UNCHANGED <<storeVars, pages, credit>> /\ loop' \in {"events", "hung"}
    BY <1>4 DEF SendEmail, GetListTickets
  <2> QED
    BY <2>1, Undisturbed
<1>5. CASE \E i \in DOMAIN pages : PayInBrowser(i) \/ (i = Len(pages) /\ Redirect(i))
  BY <1>5, PatientBrowser DEF N
<1>6. CASE UNCHANGED vars
  BY <1>6, Undisturbed DEF vars, payment, selection
<1> QED
  BY <1>1, <1>2, <1>3, <1>4, <1>5, <1>6, PatientBooks, PatientDetails DEF PatientNext, Purchase

LEMMA PatientInvariant == PatientSpec => [](IInv /\ PInv)
<1>1. Init => IInv /\ PInv
  BY InitIInv, InitPInv
<1>2. IInv /\ PInv /\ [PatientNext]_vars => (IInv /\ PInv)'
  <2>1. [PatientNext]_vars => [Next]_vars
    BY PatientIsNext
  <2> QED
    BY <2>1, IInvStep, PInvStep
<1> QED
  BY <1>1, <1>2, PTL DEF PatientSpec

-----------------------------------------------------------------------------
(* The theorems *)

(* What is booked is what was paid for: user, flight and amount of the page *)
(* and no seat that is not on it (global.c:536-549).                        *)
THEOREM BookingsAreAsPaid == PatientSpec => []BookedAsPaid
<1>1. PInv => BookedAsPaid
  BY DEF PInv
<1> QED
  BY <1>1, PatientInvariant, PTL

LEMMA SmallRemainder ==
  ASSUME NEW m \in Nat, NEW k \in Nat, m < k
  PROVE  m % k = m
  OBVIOUS

(* The page asked for the price of what is booked, up to the largest int    *)
(* (global.c:425, 537, payment.c:297).                                      *)
THEOREM BookingsArePaidInFull == PatientSpec => []PaidInFull
<1>1. IInv /\ PInv => PaidInFull
  <2> SUFFICES ASSUME IInv, PInv, NEW i \in DOMAIN pages, NEW b \in bookings,
                      b.id \in pages[i].bought, b.price * 100 <= IntMax
               PROVE  pages[i].asked = b.price * 100
    BY DEF PaidInFull
  <2>1. pages[i].order.price = b.price
    BY DEF PInv, BookedAsPaid
  <2>2. b.price \in Nat
    BY PriceAssumption DEF IInv, TypeOK, BookingRow
  <2>3. AsInt(b.price * 100) = b.price * 100
    <3>1. b.price * 100 + IntMax + 1 \in Nat /\ b.price * 100 + IntMax + 1 < 2 * IntMax + 2
          /\ 2 * IntMax + 2 \in Nat
      BY <2>2, IntAssumption
    <3>2. (b.price * 100 + IntMax + 1) % (2 * IntMax + 2) = b.price * 100 + IntMax + 1
      BY <3>1, SmallRemainder
    <3> QED
      BY <2>2, <3>2, IntAssumption DEF AsInt
  <2> QED
    BY <2>1, <2>3 DEF PInv, PagesAskPrice
<1> QED
  BY <1>1, PatientInvariant, PTL

(* A payment buys one booking at most, and nothing is booked unpaid         *)
(* (global.c:533).                                                          *)
THEOREM OneBookingPerPayment == PatientSpec => []PaymentBuysOneBooking
<1>1. IInv /\ PInv => PaymentBuysOneBooking
  <2> SUFFICES ASSUME IInv, PInv PROVE PaymentBuysOneBooking
    OBVIOUS
  <2>1. ASSUME NEW i \in DOMAIN pages PROVE Cardinality(pages[i].bought) <= 1
    <3>1. CASE pages[i].bought = {}
      BY <3>1, FS_EmptySet
    <3>2. CASE \E x : pages[i].bought = {x}
      <4>1. PICK x : pages[i].bought = {x}
        BY <3>2
      <4>2. Cardinality({x}) = 1
        BY FS_Singleton
      <4> QED
        BY <4>1, <4>2
    <3> QED
      BY <3>1, <3>2 DEF PInv, IdsFit
  <2> QED
    BY <2>1 DEF PaymentBuysOneBooking, IInv, PaymentFits
<1> QED
  BY <1>1, PatientInvariant, PTL

(* The e-mail names the booking just paid for, with the flight, the seats   *)
(* and the amount of the page, although it is written from globals          *)
(* (email.c:233-325, global.c:537-555).                                     *)
THEOREM MailsAreTrue == PatientSpec => MailIsTrue
<1> DEFINE True ==
      loop = "mail" /\ loop' # "mail" /\ ~pages[credit].refused =>
        LET order == pages[credit].order IN
        /\ Mail.booking \in pages[credit].bought
        /\ Mail.flight = order.flight /\ Mail.seats = order.seats /\ Mail.price = order.price
<1>1. IInv /\ PInv /\ [PatientNext]_vars => [True]_vars
  <2> SUFFICES ASSUME IInv, PInv, loop = "mail", ~pages[credit].refused
               PROVE  LET order == pages[credit].order IN
                      /\ Mail.booking \in pages[credit].bought
                      /\ Mail.flight = order.flight /\ Mail.seats = order.seats
                      /\ Mail.price = order.price
    OBVIOUS
  <2>1. credit = N /\ pages[N].order = Ordered /\ pages[N].bought = {booking_id}
    BY DEF PInv, OrderFits, StageFits, Waiting
  <2> QED
    BY <2>1 DEF Mail, Ordered
<1> QED
  BY <1>1, PatientInvariant, PTL DEF PatientSpec, MailIsTrue

-----------------------------------------------------------------------------
(***************************************************************************)
(* The same customer is promised what PaidOrders says.                     *)
(***************************************************************************)

\* Who is not signed in comes no further than the home page, and who chose no
\* seats not to the payment.
CustomerFits ==
  /\ session = None => screen \in {"login", "home", "account"} /\ ~Waiting
  /\ screen = "payment" => temp_seats # <<>>

LEMMA CustomerStep ==
  ASSUME IInv, CustomerFits, [PatientNext]_vars
  PROVE  CustomerFits'
<1>1. CASE loop = "events" /\ ((\E u \in User : OnLoginClicked(u)) \/ OnLogoutClicked)
  <2>1. loop' = "events" /\ screen' \in {"home", "account"}
    BY <1>1 DEF OnLoginClicked, OnLogoutClicked, Click, Show, payment
  <2> QED
    BY <2>1 DEF CustomerFits, Waiting
<1>2. CASE loop = "events" /\ (SafeSwitch \/ SafeSwitchToAccountView)
  <2>1. loop' = "events" /\ screen' \in {"login", "home", "account"}
    <3>1. idle # <<>> => Last(idle) \in {"login", "home", "account"}
      BY DEF IInv, TypeOK, Last
    <3> QED
      BY <1>2, <3>1 DEF SafeSwitch, SafeSwitchToAccountView, Show, payment
  <2> QED
    BY <2>1 DEF CustomerFits, Waiting
<1>3. CASE loop = "events" /\ (ShowListTickets \/ (\E c \in Class : OnListLinkClick(c)) \/ ConfirmFlight)
  <2>1. /\ UNCHANGED <<session, temp_seats>>
        /\ screen' # "payment" \/ screen' = screen
        /\ \/ session # None
           \/ screen' = screen /\ loop' = "hung"
    BY <1>3 DEF ShowListTickets, GetListTickets, OnListLinkClick, ConfirmFlight, Answered, Hangs,
                Show, selection
  <2> QED
    BY <2>1 DEF CustomerFits, Waiting
<1>4. CASE loop = "events" /\ ((\E to \in {"home", "account"} : OnNavClicked(to)) \/ OnMyAccountClicked)
  <2>1. UNCHANGED <<session, screen, temp_seats, loop>>
    BY <1>4 DEF OnNavClicked, OnMyAccountClicked, selection, payment
  <2> QED
    BY <2>1 DEF CustomerFits, Waiting
<1>5. CASE loop = "events" /\ ((\E f \in Flight : OnDetailLinkClick(f)) \/ Back \/ (\E s \in Seat : ClickSeat(s))
                               \/ OnButtonPressPay)
  <2>1. /\ session' = session
        /\ screen \in {"list", "ticket_detail", "book_seat", "payment"}
        /\ screen' = "payment" => temp_seats' # <<>>
    BY <1>5 DEF OnDetailLinkClick, Back, ClickSeat, OnButtonPressPay, Click, Show, CustomerFits,
                selection
  <2> QED
    BY <2>1 DEF CustomerFits
<1>6. CASE Wait \/ CreateNewBooking \/ CreateDetailBooking
  <2>1. UNCHANGED <<session, screen, temp_seats>> /\ Waiting
    BY <1>6 DEF Wait, LeaveWait, DaemonStopped, CreateNewBooking, CreateDetailBooking, Waiting,
                selection
  <2> QED
    BY <2>1 DEF CustomerFits
<1>7. CASE SendEmail
  <2>1. UNCHANGED <<session, temp_seats>> /\ Waiting /\ (screen' = "booklist" \/ screen' = screen)
    BY <1>7 DEF SendEmail, GetListTickets, Show, Waiting, selection
  <2> QED
    BY <2>1 DEF CustomerFits
<1>8. CASE \E i \in DOMAIN pages : PayInBrowser(i) \/ (i = Len(pages) /\ Redirect(i))
  <2>1. UNCHANGED <<session, screen, temp_seats, loop>>
    BY <1>8 DEF PayInBrowser, Redirect, HandleRequest, selection
  <2> QED
    BY <2>1 DEF CustomerFits, Waiting
<1>9. CASE UNCHANGED vars
  <2>1. UNCHANGED <<session, screen, temp_seats, loop>>
    BY <1>9 DEF vars, selection, payment
  <2> QED
    BY <2>1 DEF CustomerFits, Waiting
<1> QED
  BY <1>1, <1>2, <1>3, <1>4, <1>5, <1>6, <1>7, <1>8, <1>9 DEF PatientNext, Gui, Purchase

(* The variables of PaidOrders, as the state of the program defines them *)

Placed  == [i \in DOMAIN pages |-> pages[i].order]
Paid    == {i \in DOMAIN pages : pages[i].state # "open"}
Made    == [i \in DOMAIN pages |-> pages[i].bought]
Refused == {i \in DOMAIN pages : pages[i].refused}
Stage   == CASE loop \in {"events", "hung"}   -> "open"
             [] loop \in {"wait", "stopping"} -> "waiting"
             [] loop = "create"               -> "booking"
             [] loop = "detail"               -> "seating"
             [] loop = "mail"                 -> "mailing"

PromiseVars == <<storeVars, Placed, Paid, Made, Refused, Stage, is_payment_success>>

\* A function on 1..n is a sequence of that length, and one place more appends.
LEMMA SequenceOf ==
  ASSUME NEW n \in Nat, NEW S, NEW f \in [1..n -> S]
  PROVE  f \in Seq(S) /\ Len(f) = n
  OBVIOUS

LEMMA OnePlaceMore ==
  ASSUME NEW n \in Nat, NEW S, NEW f \in [1..n -> S], NEW g \in [1..(n + 1) -> S],
         \A i \in 1..n : g[i] = f[i]
  PROVE  g = Append(f, g[n + 1])
<1>1. f \in Seq(S) /\ Len(f) = n /\ g[n + 1] \in S
  BY SequenceOf
<1>2. g \in Seq(S) /\ Len(g) = n + 1
  BY SequenceOf
<1>3. /\ Append(f, g[n + 1]) \in Seq(S) /\ Len(Append(f, g[n + 1])) = n + 1
      /\ \A i \in 1..n : Append(f, g[n + 1])[i] = f[i]
      /\ Append(f, g[n + 1])[n + 1] = g[n + 1]
  BY <1>1, AppendProperties
<1>4. ASSUME NEW i \in 1..(n + 1) PROVE g[i] = Append(f, g[n + 1])[i]
  <2>1. CASE i \in 1..n
    BY <1>3, <2>1
  <2>2. CASE i = n + 1
    BY <1>3, <2>2
  <2> QED
    BY <2>1, <2>2
<1> QED
  BY <1>2, <1>3, <1>4, SeqEqual

\* The present order is the last page's, with the globals as they are.
LEMMA PresentOrder ==
  ASSUME IInv
  PROVE  /\ pages \in Seq(Page) /\ N \in Nat /\ DOMAIN pages = 1..N /\ Len(Placed) = N
         /\ is_payment_success <=> credit # 0
         /\ Waiting /\ PInv => N \in 1..N /\ Placed[N] = Ordered /\ credit \in {0, N}
<1>1. pages \in Seq(Page)
  BY DEF IInv, TypeOK
<1>2. N \in Nat /\ DOMAIN pages = 1..N
  BY <1>1 DEF N
<1>3. Len(Placed) = N
  <2>1. Placed \in [1..N -> {pages[i].order : i \in 1..N}]
    BY <1>2 DEF Placed
  <2> QED
    BY <1>2, <2>1, SequenceOf
<1>4. is_payment_success <=> credit # 0
  BY DEF IInv, PaymentFits
<1>5. Waiting /\ PInv => N \in 1..N /\ Placed[N] = Ordered /\ credit \in {0, N}
  BY <1>2 DEF PInv, OrderFits, Placed
<1> QED
  BY <1>1, <1>2, <1>3, <1>4, <1>5

\* A step that the promise does not see.
LEMMA QuietStep ==
  ASSUME UNCHANGED <<storeVars, pages, is_payment_success>>, Stage' = Stage
  PROVE  UNCHANGED PromiseVars
  BY DEF PromiseVars, Placed, Paid, Made, Refused

LEMMA PayIsPromise ==
  ASSUME IInv, CustomerFits, loop = "events", OnButtonPressPay
  PROVE  Promise!Next
<1>1. /\ pages' = Append(pages, [asked |-> AsInt(final_price' * 100), order |-> Order,
                                 state |-> "open", bought |-> {}, refused |-> FALSE])
      /\ loop' \in {"events", "wait"} /\ is_payment_success' = FALSE
      /\ UNCHANGED storeVars
      /\ screen = "payment"
  BY DEF OnButtonPressPay, OpenPage, ResetFlags, Click
<1>2. /\ DOMAIN pages = 1..N /\ DOMAIN pages' = 1..(N + 1) /\ N \in Nat
      /\ \A i \in 1..N : pages'[i] = pages[i]
      /\ pages'[N + 1].order = Order /\ pages'[N + 1].state = "open"
      /\ pages'[N + 1].bought = {} /\ ~pages'[N + 1].refused
  <2> DEFINE p == [asked |-> AsInt(final_price' * 100), order |-> Order,
                   state |-> "open", bought |-> {}, refused |-> FALSE]
  <2>1. /\ p.order = Order /\ p.state = "open" /\ p.bought = {} /\ ~p.refused
        /\ pages' = Append(pages, p)
    BY <1>1
  <2> HIDE DEF p
  <2> QED
    BY <2>1, PresentOrder DEF N
<1>3. Order \in Promise!Order
  <2>1. session # None /\ temp_seats # <<>>
    BY <1>1 DEF CustomerFits
  <2>2. user_id \in User
    BY <2>1 DEF IInv, TypeOK, SessionFits, SessionAgrees
  <2>3. detail_flight \in Flight /\ price \in Price
    BY <1>1 DEF IInv, TypeOK
  <2>4. Chosen \in (SUBSET Seat) \ {{}}
    <3>1. temp_seats \in Seq(Seat) /\ Len(temp_seats) \in Nat \ {0}
      BY <2>1, EmptySeq DEF IInv, TypeOK
    <3>2. 1 \in DOMAIN temp_seats /\ \A i \in DOMAIN temp_seats : temp_seats[i] \in Seat
      BY <3>1
    <3> QED
      BY <3>2 DEF Chosen, ToSet
  <2> QED
    BY <2>2, <2>3, <2>4 DEF Order, Promise!Order
<1>4. Placed' = Append(Placed, Order) /\ Made' = Append(Made, {})
  <2> DEFINE O == {pages'[i].order : i \in 1..(N + 1)}
             B == {pages'[i].bought : i \in 1..(N + 1)}
  <2>1. /\ Placed \in [1..N -> O] /\ Placed' \in [1..(N + 1) -> O]
        /\ \A i \in 1..N : Placed'[i] = Placed[i]
        /\ Placed'[N + 1] = Order
    BY <1>2 DEF Placed
  <2>2. /\ Made \in [1..N -> B] /\ Made' \in [1..(N + 1) -> B]
        /\ \A i \in 1..N : Made'[i] = Made[i]
        /\ Made'[N + 1] = {}
    BY <1>2 DEF Made
  <2> HIDE DEF O, B
  <2>3. Placed' = Append(Placed, Order)
    BY <1>2, <2>1, OnePlaceMore
  <2>4. Made' = Append(Made, {})
    BY <1>2, <2>2, OnePlaceMore
  <2> QED
    BY <2>3, <2>4
<1>5. Paid' = Paid /\ Refused' = Refused
  BY <1>2 DEF Paid, Refused
<1>6. Stage = "open" /\ Stage' \in {"open", "waiting"}
  BY <1>1 DEF Stage
<1>7. PICK order \in Promise!Order : order = Order
  BY <1>3
<1>8. Promise!Place(order)
  BY <1>1, <1>4, <1>5, <1>6, <1>7
     DEF Promise!Place, Promise!storeVars, storeVars, Placed, Paid, Made, Refused, Stage
<1> QED
  BY <1>8 DEF Promise!Next

LEMMA WaitIsPromise ==
  ASSUME Wait
  PROVE  Promise!Next \/ UNCHANGED PromiseVars
<1>1. CASE LeaveWait
  <2>1. UNCHANGED <<storeVars, pages, is_payment_success>> /\ Stage' = Stage
    BY <1>1 DEF LeaveWait, Stage
  <2> QED
    BY <2>1, QuietStep
<1>2. CASE DaemonStopped
  <2>1. UNCHANGED <<storeVars, pages, is_payment_success>>
    BY <1>2 DEF DaemonStopped
  <2>2. UNCHANGED <<storeVars, Placed, Paid, Made, Refused, is_payment_success>>
    BY <2>1 DEF Placed, Paid, Made, Refused
  <2>3. Stage = "waiting" /\ Stage' = (IF is_payment_success THEN "booking" ELSE "open")
    BY <1>2 DEF DaemonStopped, Stage
  <2>4. Promise!GoOn
    BY <2>2, <2>3
       DEF Promise!GoOn, Promise!orderVars, Promise!storeVars, storeVars, Placed, Paid, Made,
           Refused, Stage
  <2> QED
    BY <2>4 DEF Promise!Next
<1> QED
  BY <1>1, <1>2 DEF Wait

LEMMA BookingIsPromise ==
  ASSUME IInv, PInv, CustomerFits, CreateNewBooking
  PROVE  Promise!Next
<1>1. /\ pages \in Seq(Page) /\ N \in 1..N /\ DOMAIN pages = 1..N /\ Len(Placed) = N
      /\ credit = N /\ Placed[N] = Ordered /\ Made[N] = {}
      /\ loop = "create" /\ Stage = "booking"
  <2>1. loop = "create" /\ Waiting
    BY DEF CreateNewBooking, Waiting
  <2>2. credit # 0 /\ pages[N].bought = {}
    BY <2>1 DEF IInv, PaymentFits, PInv, StageFits
  <2> QED
    BY <2>1, <2>2, PresentOrder DEF Made, Stage
<1>2. session # None
  BY <1>1 DEF CustomerFits, Waiting
<1>3. CASE InsertBooking(user_id, final_price, detail_flight)
           /\ pages' = [pages EXCEPT ![N].bought = pages[N].bought \cup {nextId}]
           /\ loop' = "detail"
  <2>1. /\ DOMAIN pages' = DOMAIN pages
        /\ \A j \in DOMAIN pages :
             /\ pages'[j].bought = (IF j = N THEN pages[N].bought \cup {nextId} ELSE pages[j].bought)
             /\ pages'[j].order = pages[j].order /\ pages'[j].state = pages[j].state
             /\ pages'[j].refused = pages[j].refused
    BY <1>1, <1>3, BoughtAmended
  <2>2. UNCHANGED <<Placed, Paid, Refused>> /\ Made' = [Made EXCEPT ![N] = {nextId}]
    <3>1. pages[N].bought = {}
      BY <1>1 DEF Made
    <3> QED
      BY <1>1, <2>1, <3>1 DEF Placed, Paid, Refused, Made
  <2>3. Stage' = "seating" /\ is_payment_success' = is_payment_success
    BY <1>3 DEF Stage, CreateNewBooking
  <2>4. LET order == Placed[N] IN Promise!InsertBooking(order.user, order.price, order.flight)
    BY <1>1, <1>3 DEF Ordered, InsertBooking, Promise!InsertBooking
  <2>5. Promise!Book
    BY <1>1, <2>2, <2>3, <2>4
       DEF Promise!Book, Promise!Present, Promise!InsertBooking, Placed, Paid, Made, Refused, Stage
  <2> QED
    BY <2>5 DEF Promise!Next
<1>4. CASE StatementFails /\ pages' = [pages EXCEPT ![N].refused = TRUE] /\ loop' = "mail"
  <2>1. /\ DOMAIN pages' = DOMAIN pages
        /\ \A j \in DOMAIN pages :
             /\ pages'[j].refused = (IF j = N THEN TRUE ELSE pages[j].refused)
             /\ pages'[j].order = pages[j].order /\ pages'[j].state = pages[j].state
             /\ pages'[j].bought = pages[j].bought
    BY <1>1, <1>4, RefusedAmended
  <2>2. UNCHANGED <<Placed, Paid, Made>> /\ Refused' = Refused \cup {N}
    BY <1>1, <2>1 DEF Placed, Paid, Refused, Made
  <2>3. Stage' = "mailing" /\ is_payment_success' = is_payment_success /\ UNCHANGED storeVars
    BY <1>4 DEF Stage, CreateNewBooking, StatementFails
  <2>4. Promise!Refuse
    BY <1>1, <2>2, <2>3
       DEF Promise!Refuse, Promise!Present, Promise!storeVars, storeVars, Placed, Paid, Made,
           Refused, Stage
  <2> QED
    BY <2>4 DEF Promise!Next
<1> QED
  BY <1>1, <1>2, <1>3, <1>4 DEF CreateNewBooking, Hangs

LEMMA SeatsArePromise ==
  ASSUME IInv, PInv, CreateDetailBooking
  PROVE  Promise!Next
<1>1. /\ Len(Placed) = N /\ Placed[N] = Ordered /\ Stage = "seating" /\ Stage' = "mailing"
      /\ Made[N] = {booking_id}
  <2>1. Waiting /\ loop = "detail" /\ loop' = "mail"
    BY DEF CreateDetailBooking, Waiting
  <2> QED
    BY <2>1, PresentOrder DEF PInv, StageFits, Made, Stage
<1>2. UNCHANGED <<bookings, nextId, Placed, Paid, Made, Refused, is_payment_success>>
  <2>1. UNCHANGED <<bookings, nextId, pages, is_payment_success>>
    BY DEF CreateDetailBooking
  <2> QED
    BY <2>1 DEF Placed, Paid, Made, Refused
<1>3. PICK s \in SUBSET Chosen :
        details' = details \cup {[booking |-> booking_id, seat |-> x] : x \in s}
  BY DEF CreateDetailBooking
<1>4. {[booking |-> booking_id, seat |-> x] : x \in s}
        \in SUBSET [booking : Made[N], seat : Placed[N].seats]
  BY <1>1 DEF Ordered
<1>5. \E rows \in SUBSET [booking : Made[N], seat : Placed[N].seats] :
        details' = details \cup rows
  BY <1>3, <1>4
<1>6. Promise!GiveSeats
  BY <1>1, <1>2, <1>5
     DEF Promise!GiveSeats, Promise!Present, Promise!orderVars, Placed, Paid, Made, Refused, Stage
<1> QED
  BY <1>6 DEF Promise!Next

LEMMA MailIsPromise ==
  ASSUME SendEmail
  PROVE  Promise!Next
<1>1. Stage = "mailing" /\ Stage' = "open"
  BY DEF SendEmail, GetListTickets, Stage
<1>2. UNCHANGED <<storeVars, Placed, Paid, Made, Refused, is_payment_success>>
  <2>1. UNCHANGED <<storeVars, pages, is_payment_success>>
    BY DEF SendEmail
  <2> QED
    BY <2>1 DEF Placed, Paid, Made, Refused
<1>3. Promise!Mail
  BY <1>1, <1>2
     DEF Promise!Mail, Promise!orderVars, Promise!storeVars, storeVars, Placed, Paid, Made,
         Refused, Stage
<1> QED
  BY <1>3 DEF Promise!Next

LEMMA PayingIsPromise ==
  ASSUME IInv, NEW i \in DOMAIN pages, PayInBrowser(i)
  PROVE  Promise!Next
<1>1. pages \in Seq(Page) /\ i \in 1..Len(pages)
  BY DEF IInv, TypeOK
<1>2. pages[i].state = "open" /\ pages' = [pages EXCEPT ![i].state = "paid"]
      /\ UNCHANGED <<storeVars, loop, is_payment_success>>
  BY DEF PayInBrowser
<1>3. /\ DOMAIN pages' = DOMAIN pages
      /\ \A j \in DOMAIN pages :
           /\ pages'[j].state = (IF j = i THEN "paid" ELSE pages[j].state)
           /\ pages'[j].order = pages[j].order /\ pages'[j].bought = pages[j].bought
           /\ pages'[j].refused = pages[j].refused
  BY <1>1, <1>2, StateAmended
<1>4. i \notin Paid /\ Paid' = Paid \cup {i}
  BY <1>2, <1>3 DEF Paid
<1>5. UNCHANGED <<Placed, Made, Refused, Stage>>
  BY <1>2, <1>3 DEF Placed, Made, Refused, Stage
<1>6. i \in DOMAIN Placed
  BY DEF Placed
<1>7. Promise!Pay(i)
  BY <1>2, <1>4, <1>5
     DEF Promise!Pay, Promise!storeVars, storeVars, Placed, Paid, Made, Refused, Stage
<1> QED
  BY <1>6, <1>7 DEF Promise!Next, Placed

LEMMA RedirectIsPromise ==
  ASSUME IInv, PInv, Redirect(N)
  PROVE  Promise!Next \/ UNCHANGED PromiseVars
<1>1. loop \in {"wait", "stopping"} /\ UNCHANGED <<storeVars, loop>>
  BY DEF Redirect, HandleRequest
<1>2. pages \in Seq(Page) /\ N \in 1..Len(pages) /\ Len(Placed) = N
  BY <1>1, PresentOrder DEF Waiting, N
<1>3. CASE pages[N].state = "open"
  <2>1. UNCHANGED <<storeVars, pages, is_payment_success>> /\ Stage' = Stage
    BY <1>1, <1>3 DEF Redirect, HandleRequest, Stage
  <2> QED
    BY <2>1, QuietStep
<1>4. CASE pages[N].state = "paid"
  <2>1. ~is_payment_success
    BY <1>1, <1>4, PresentOrder DEF Waiting, IInv, PaymentFits
  <2>2. is_payment_success' = TRUE /\ pages' = [pages EXCEPT ![N].state = "told"]
    BY <1>4, <2>1 DEF Redirect, HandleRequest
  <2>3. /\ DOMAIN pages' = DOMAIN pages
        /\ \A j \in DOMAIN pages :
             /\ pages'[j].state = (IF j = N THEN "told" ELSE pages[j].state)
             /\ pages'[j].order = pages[j].order /\ pages'[j].bought = pages[j].bought
             /\ pages'[j].refused = pages[j].refused
    BY <1>2, <2>2, StateAmended
  <2>4. UNCHANGED <<storeVars, Placed, Paid, Made, Refused, Stage>>
    BY <1>1, <1>4, <2>3 DEF Placed, Paid, Made, Refused, Stage
  <2>5. N \in Paid /\ Stage = "waiting"
    BY <1>1, <1>2, <1>4 DEF Paid, Stage
  <2>6. Promise!Note
    BY <1>2, <2>2, <2>4, <2>5
       DEF Promise!Note, Promise!Present, Promise!orderVars, Promise!storeVars, storeVars,
           Placed, Paid, Made, Refused, Stage
  <2> QED
    BY <2>6 DEF Promise!Next
<1> QED
  BY <1>3, <1>4 DEF Redirect

LEMMA PatientIsPromise ==
  ASSUME IInv, PInv, CustomerFits, [PatientNext]_vars
  PROVE  Promise!Next \/ UNCHANGED PromiseVars
<1>1. CASE loop = "events" /\ Gui /\ ~OnButtonPressPay
  <2>1. UNCHANGED <<storeVars, pages, is_payment_success>> /\ loop' \in {"events", "hung"}
    BY <1>1 DEF Gui, OnLoginClicked, OnNavClicked, OnMyAccountClicked, OnLogoutClicked,
                SafeSwitch, SafeSwitchToAccountView, ShowListTickets, GetListTickets, Hangs,
                OnListLinkClick, OnDetailLinkClick, ConfirmFlight, Back, ClickSeat, payment
  <2>2. Stage' = Stage
    BY <1>1, <2>1 DEF Stage
  <2> QED
    BY <2>1, <2>2, QuietStep
<1>2. CASE UNCHANGED vars
  <2>1. UNCHANGED <<storeVars, pages, is_payment_success>> /\ Stage' = Stage
    BY <1>2 DEF vars, payment, Stage
  <2> QED
    BY <2>1, QuietStep
<1> QED
  BY <1>1, <1>2, PayIsPromise, WaitIsPromise, BookingIsPromise, SeatsArePromise, MailIsPromise,
     PayingIsPromise, RedirectIsPromise
     DEF PatientNext, Purchase, N

LEMMA InitIsPromise == Init => CustomerFits /\ Promise!Init
<1> SUFFICES ASSUME Init PROVE CustomerFits /\ Promise!Init
  OBVIOUS
<1>1. CustomerFits
  BY DEF Init, CustomerFits, Waiting
<1>2. Placed = <<>> /\ Made = <<>> /\ Paid = {} /\ Refused = {} /\ Stage = "open"
  BY DEF Init, Placed, Made, Paid, Refused, Stage
<1>3. Promise!Init
  BY <1>2
     DEF Init, StoreInit, Promise!Init, Promise!StoreInit, Placed, Paid, Made, Refused, Stage
<1> QED
  BY <1>1, <1>3

(* To a customer who touches nothing while it waits, the program is the     *)
(* sale of PaidOrders: the order placed is booked as it was placed, once,   *)
(* although its parts are read from globals, and is not forgotten once its  *)
(* payment is noted (receive_result_from_vnpay, global.c:501-563).          *)
THEOREM ImplementsPaidOrders == PatientSpec => PaidOrdersSpec
<1>1. Init => IInv /\ PInv /\ CustomerFits /\ Promise!Init
  BY InitIInv, InitPInv, InitIsPromise
<1>2. CustomerFits /\ IInv /\ [PatientNext]_vars => CustomerFits'
  BY CustomerStep
<1>3. IInv /\ PInv /\ CustomerFits /\ [PatientNext]_vars => [Promise!Next]_(Promise!vars)
  BY PatientIsPromise
     DEF PromiseVars, Placed, Paid, Made, Refused, Stage, Promise!vars, Promise!orderVars,
         Promise!storeVars, storeVars
<1> QED
  BY <1>1, <1>2, <1>3, PatientInvariant, PTL DEF PatientSpec, PaidOrdersSpec, Promise!Spec
=============================================================================
