-------------------------- MODULE FlightSearchProofs --------------------------
(***************************************************************************)
(* Proofs about module FlightSearch, for every table, every form and any   *)
(* bounds: the page of flights shows the right ones, its orders sort, and  *)
(* the flight whose page is open fits.                                     *)
(***************************************************************************)
EXTENDS FlightSearch, ListTheorems, FiniteSetTheorems

LEMMA AssumptionFacts ==
  /\ Table \in Seq([flight_id : STRING, departure_airport : DOMAIN Name,
                    arrival_airport : DOMAIN Name, date : Int, price : Int,
                    duration_minutes : Int, capacity : Nat])
  /\ \A i, j \in DOMAIN Table : Table[i].flight_id = Table[j].flight_id => i = j
  /\ IsFiniteSet(Bookable) /\ \A s \in Bookable : s.row \in 1..99
  /\ RowSize \in Nat /\ MaxBooked \in Nat
  /\ Form \subseteq Query \cup {None}
  /\ None \notin Int /\ None \notin Query
BY SearchAssumption

-----------------------------------------------------------------------------
(* The server's list of flights *)

LEMMA CountType ==
  ASSUME booked \subseteq Bookable, NEW flight, NEW class, NEW failing
  PROVE  Count(flight, class, failing) \in Int
<1> DEFINE taken == {s \in booked : s.flight = flight /\ GetSeatClass(s.row) = class}
<1>1. IsFiniteSet(taken)
  BY AssumptionFacts, FS_Subset
<1>2. Cardinality(taken) \in Nat
  BY <1>1, FS_CardinalityType
<1> QED
  BY <1>2 DEF Count

LEMMA FetchedFacts ==
  ASSUME booked \subseteq Bookable, NEW failing
  PROVE  /\ FetchFlights(failing) \in Seq(Flight)
         /\ IsInjective(FetchFlights(failing))
<1> DEFINE Row == [flight_id : STRING, departure_airport : DOMAIN Name,
                   arrival_airport : DOMAIN Name, date : Int, price : Int,
                   duration_minutes : Int, capacity : Nat]
<1>1. Table \in Seq(Row) /\ DOMAIN Table = 1..Len(Table) /\ Len(Table) \in Nat
  BY AssumptionFacts
<1>2. ASSUME NEW row \in Row PROVE Fetched(row, failing) \in Flight
  <2>1. \A c \in Class : SeatsOf(row, c) \in Int
    <3>1. row.capacity \in Int /\ RowSize \in Int
      BY AssumptionFacts
    <3> QED
      BY <3>1 DEF SeatsOf
  <2>2. \A c \in Class : Count(row.flight_id, c, failing) \in Int
    BY CountType
  <2>3. [c \in Class |-> SeatsOf(row, c) - Count(row.flight_id, c, failing)] \in [Class -> Int]
    BY <2>1, <2>2
  <2> QED
    BY <2>3 DEF Fetched, Flight
<1>3. \A i \in 1..Len(Table) : Table[i] \in Row
  <2> HIDE DEF Row
  <2> QED
    BY <1>1
<1>4. FetchFlights(failing) \in Seq(Flight)
  <2> HIDE DEF Row
  <2>1. \A i \in 1..Len(Table) : Fetched(Table[i], failing) \in Flight
    BY <1>2, <1>3
  <2>2. FetchFlights(failing) = [i \in 1..Len(Table) |-> Fetched(Table[i], failing)]
    BY <1>1 DEF FetchFlights
  <2> QED
    BY <1>1, <2>1, <2>2
<1>5. \A i \in DOMAIN Table : FetchFlights(failing)[i].flight_id = Table[i].flight_id
  BY DEF FetchFlights, Fetched
<1>6. DOMAIN FetchFlights(failing) = DOMAIN Table
  BY DEF FetchFlights
<1>7. IsInjective(FetchFlights(failing))
  <2> SUFFICES ASSUME NEW i \in DOMAIN Table, NEW j \in DOMAIN Table,
                      FetchFlights(failing)[i] = FetchFlights(failing)[j]
               PROVE  i = j
    BY <1>6 DEF IsInjective
  <2> QED
    BY <1>5, AssumptionFacts
<1> QED
  BY <1>4, <1>7

-----------------------------------------------------------------------------
(* The filter *)

Fits(f, q, date) ==
  /\ Name[f.departure_airport] = Name[q.from]
  /\ Name[f.arrival_airport] = Name[q.to]
  /\ f.date = date
  /\ f.available[q.class] >= q.number

LEMMA FilterFacts ==
  ASSUME NEW fs \in Seq(Flight), NEW q, NEW date
  PROVE  /\ FilterFlights(fs, q, date) \in Seq(Flight)
         /\ ToSet(FilterFlights(fs, q, date)) = {f \in ToSet(fs) : Fits(f, q, date)}
         /\ IsInjective(fs) => IsInjective(FilterFlights(fs, q, date))
<1> DEFINE S == {f \in ToSet(fs) : Fits(f, q, date)}
<1>1. FilterFlights(fs, q, date) = Kept(fs, S)
  BY DEF FilterFlights, CheckHaveSeat, Fits
<1>2. ToSet(fs) \cap S = S
  OBVIOUS
<1> HIDE DEF S
<1>3. /\ Kept(fs, S) \in Seq(Flight)
      /\ ToSet(Kept(fs, S)) = ToSet(fs) \cap S
      /\ IsInjective(fs) => IsInjective(Kept(fs, S))
  BY KeptIsSelection
<1> QED
  BY <1>1, <1>2, <1>3 DEF S

-----------------------------------------------------------------------------
(* The orders *)

LEMMA BeforeIsOrder ==
  ASSUME NEW o \in 0..3, NEW f \in Flight, NEW g \in Flight, NEW e \in Flight
  PROVE  /\ Before(o, f, g) => ~Before(o, g, f)
         /\ ~Before(o, f, g) /\ Before(o, e, g) => ~Before(o, f, e)
<1>1. /\ f.price \in Int /\ f.duration_minutes \in Int
      /\ g.price \in Int /\ g.duration_minutes \in Int
      /\ e.price \in Int /\ e.duration_minutes \in Int
  BY DEF Flight
<1>2. CASE o = 0
  BY <1>1, <1>2 DEF Before
<1>3. CASE o = 1
  BY <1>1, <1>3 DEF Before
<1>4. CASE o = 2
  BY <1>1, <1>4 DEF Before
<1>5. CASE o = 3
  BY <1>1, <1>5 DEF Before
<1>6. o = 0 \/ o = 1 \/ o = 2 \/ o = 3
  OBVIOUS
<1> QED
  BY <1>2, <1>3, <1>4, <1>5, <1>6

\* The lists of n flights that have the same elements as fs.
Shuffles(fs) ==
  {s \in Seq(Flight) : /\ Len(s) = Len(fs)
                       /\ ToSet(s) = ToSet(fs)
                       /\ IsInjective(fs) => IsInjective(s)}

LEMMA ExchangeShuffles ==
  ASSUME NEW fs \in Seq(Flight), NEW s \in Shuffles(fs), NEW o,
         NEW i \in 1..Len(fs), NEW j \in 1..Len(fs), i # j
  PROVE  Exchange(o, s, i, j) \in Shuffles(fs)
<1> SUFFICES ASSUME Before(o, s[j], s[i])
             PROVE  [s EXCEPT ![i] = s[j], ![j] = s[i]] \in Shuffles(fs)
  BY DEF Exchange
<1> DEFINE n == Len(fs)
           t == [s EXCEPT ![i] = s[j], ![j] = s[i]]
<1>1. /\ s \in Seq(Flight) /\ DOMAIN s = 1..n /\ n \in Nat /\ Len(s) = n
      /\ ToSet(s) = ToSet(fs) /\ (IsInjective(fs) => IsInjective(s))
  BY DEF Shuffles
<1>2. \A k \in 1..n : s[k] \in Flight
  BY <1>1
<1>3. t \in Seq(Flight) /\ Len(t) = n /\ DOMAIN t = 1..n
  BY <1>1, <1>2
<1>4. /\ t[i] = s[j] /\ t[j] = s[i]
      /\ \A k \in 1..n : k # i /\ k # j => t[k] = s[k]
  BY <1>1
<1> HIDE DEF t, n
<1>5. ToSet(t) = ToSet(s)
  <2>1. \A k \in 1..n : \E l \in 1..n : t[k] = s[l]
    BY <1>4 DEF n
  <2>2. \A k \in 1..n : \E l \in 1..n : s[k] = t[l]
    BY <1>4 DEF n
  <2> QED
    <3>1. ToSet(t) = {t[k] : k \in 1..n} /\ ToSet(s) = {s[k] : k \in 1..n}
      BY <1>1, <1>3 DEF ToSet
    <3> QED
      BY <2>1, <2>2, <3>1
<1>6. IsInjective(s) => IsInjective(t)
  BY <1>1, <1>3, <1>4 DEF IsInjective, n
<1>7. t \in Shuffles(fs)
  BY <1>1, <1>3, <1>5, <1>6 DEF Shuffles, n
<1> QED
  BY <1>7 DEF t

\* h[k] is the list after the inner loop has compared k places.
IsPlaced(h, o, s, i, m) ==
  h[0] = s /\ \A k \in 1..m : h[k] = Exchange(o, h[k - 1], i, i + k)

LEMMA SortPlaceSteps ==
  ASSUME NEW fs \in Seq(Flight), NEW s \in Shuffles(fs), NEW o, NEW i \in 1..Len(fs)
  PROVE  \E h \in [0..(Len(fs) - i) -> Shuffles(fs)] :
           /\ IsPlaced(h, o, s, i, Len(fs) - i)
           /\ SortPlace(o, s, i) = h[Len(fs) - i]
<1> DEFINE m == Len(fs) - i
           V == Shuffles(fs)
           D == SUBSET (1..m)
           step == [p \in V \X (1..m) |-> Exchange(o, p[1], i, i + p[2])]
           Body(g, t) == IF t = {} THEN s
                         ELSE Exchange(o, g[t \ {Max(t)}], i, Behind(i, Len(s))[Max(t)])
           iter == CHOOSE g : g = [t \in D |-> Body(g, t)]
<1>1. /\ m \in Nat /\ Len(s) = Len(fs)
      /\ \A k \in 1..m : i + k \in 1..Len(fs) /\ i + k # i /\ Behind(i, Len(s))[k] = i + k
      /\ DOMAIN Behind(i, Len(s)) = 1..m
  BY DEF Shuffles, Behind
<1>2. SortPlace(o, s, i) = iter[1..m]
  <2> DEFINE E == DOMAIN Behind(i, Len(s))
  <2>1. SortPlace(o, s, i) = (CHOOSE g : g = [t \in SUBSET E |-> Body(g, t)])[E]
    BY DEF SortPlace, FoldLeft, MapThenFoldSet
  <2> HIDE DEF Body, E, m
  <2>2. E = 1..m
    BY <1>1 DEF E
  <2> QED
    BY <2>1, <2>2, Zenon
<1>3. step \in [V \X (1..m) -> V]
  <2>1. ASSUME NEW u \in V, NEW k \in 1..m PROVE Exchange(o, u, i, i + k) \in V
    <3> HIDE DEF m, V
    <3>1. i + k \in 1..Len(fs) /\ i # i + k
      BY <1>1
    <3> QED
      BY <3>1, ExchangeShuffles DEF V
  <2> HIDE DEF m, V
  <2> QED
    BY <2>1
<1> HIDE DEF m, V
<1>4. PICK g \in [D -> V] : IsFold(g, m, s, step)
  <2> HIDE DEF step
  <2> QED
    BY <1>1, <1>3, FoldExists DEF V
<1>5. ASSUME NEW u, NEW t \in D, t # {}, u[t \ {Max(t)}] \in V
      PROVE  Body(u, t) = step[<<u[t \ {Max(t)}], Max(t)>>]
  <2>1. Max(t) \in 1..m
    BY <1>1, <1>5, MaxOfBounded
  <2> QED
    BY <1>1, <1>5, <2>1
<1>6. g = [t \in D |-> Body(g, t)]
  <2>1. ASSUME NEW t \in D PROVE g[t] = Body(g, t)
    <3>1. t \ {Max(t)} \in D
      OBVIOUS
    <3>2. g[t \ {Max(t)}] \in V
      BY <3>1
    <3>3. t # {} => Body(g, t) = step[<<g[t \ {Max(t)}], Max(t)>>]
      BY <1>5, <3>2
    <3>4. t = {} => Body(g, t) = s
      OBVIOUS
    <3> HIDE DEF Body, step
    <3> QED
      BY <1>4, <3>3, <3>4 DEF IsFold
  <2> HIDE DEF Body
  <2> QED
    BY <2>1
<1>7. iter = [t \in D |-> Body(iter, t)]
  <2> HIDE DEF Body, D
  <2> QED
    BY <1>6
<1> HIDE DEF iter
<1>8. RecursesBy(iter, m, V, s, step)
  <2>1. {} \in D
    OBVIOUS
  <2>2. iter[{}] = s
    BY <1>7, <2>1
  <2>3. \A t \in D : iter[t] = Body(iter, t)
    <3> HIDE DEF Body, D
    <3> QED
      BY <1>7
  <2> HIDE DEF Body, step
  <2> QED
    BY <2>2, <2>3, <1>5 DEF RecursesBy
<1>9. GoesByStages(iter, m, V, s, step)
  <2> HIDE DEF step
  <2> QED
    BY <1>1, <1>3, <1>8, FoldSteps DEF V
<1> DEFINE h == Stages(iter, m)
<1>10. /\ h \in [0..m -> V] /\ h[0] = s /\ h[m] = iter[1..m]
       /\ \A k \in 1..m : h[k] = step[<<h[k - 1], k>>]
  BY <1>9 DEF GoesByStages
<1> HIDE DEF h
<1>11. ASSUME NEW k \in 1..m PROVE h[k] = Exchange(o, h[k - 1], i, i + k)
  <2>1. k - 1 \in 0..m
    BY <1>1
  <2>2. h[k - 1] \in V
    BY <1>10, <2>1
  <2> QED
    BY <1>10, <2>2
<1>12. IsPlaced(h, o, s, i, m)
  BY <1>10, <1>11 DEF IsPlaced
<1> QED
  BY <1>2, <1>10, <1>12 DEF m, V

\* The first k places are in order, and hold what comes first.
Placed(o, s, k) == \A a \in 1..k, b \in DOMAIN s : a < b => ~Before(o, s[b], s[a])

\* None of the m places behind i comes before place i.
Leads(o, s, i, m) == \A b \in (i + 1)..(i + m) : ~Before(o, s[b], s[i])

LEMMA ExchangePlaces ==
  ASSUME NEW o \in 0..3, NEW s \in Seq(Flight), NEW i \in 1..Len(s), NEW m \in Nat,
         i + m + 1 <= Len(s), Placed(o, s, i - 1), Leads(o, s, i, m)
  PROVE  /\ Placed(o, Exchange(o, s, i, i + (m + 1)), i - 1)
         /\ Leads(o, Exchange(o, s, i, i + (m + 1)), i, m + 1)
<1> DEFINE j == i + (m + 1)
           t == Exchange(o, s, i, j)
           n == Len(s)
<1>1. /\ n \in Nat /\ DOMAIN s = 1..n /\ i \in 1..n /\ j \in 1..n /\ i < j /\ i \in Int /\ j \in Int
      /\ \A b \in (i + 1)..j : b \in (i + 1)..(i + m) \/ b = j
      /\ \A b \in (i + 1)..j : b \in 1..n /\ b # i
      /\ \A a \in 1..(i - 1) : a \in 1..n /\ a # i /\ a # j /\ a < i /\ a < j
  OBVIOUS
<1>2. \A b \in 1..n : s[b] \in Flight
  BY <1>1
<1>3. \A f \in Flight, g \in Flight : Before(o, f, g) => ~Before(o, g, f)
  BY BeforeIsOrder
<1>4. \A f \in Flight, g \in Flight, e \in Flight :
        ~Before(o, f, g) /\ Before(o, e, g) => ~Before(o, f, e)
  BY BeforeIsOrder
<1>5. j = i + (m + 1) /\ i + (m + 1) = j
  OBVIOUS
<1>6. CASE ~Before(o, s[j], s[i])
  <2>1. t = s
    BY <1>6 DEF Exchange
  <2>2. Leads(o, s, i, m + 1)
    <3> HIDE DEF j
    <3> QED
      BY <1>1, <1>5, <1>6 DEF Leads
  <2> QED
    BY <2>1, <2>2
<1>7. CASE Before(o, s[j], s[i])
  <2>1. t = [s EXCEPT ![i] = s[j], ![j] = s[i]]
    BY <1>7 DEF Exchange
  <2> HIDE DEF t, j, n
  <2>2. /\ DOMAIN t = 1..n /\ t[i] = s[j] /\ t[j] = s[i]
        /\ \A b \in 1..n : b # i /\ b # j => t[b] = s[b]
    BY <1>1, <2>1
  <2>3. Placed(o, t, i - 1)
    <3> SUFFICES ASSUME NEW a \in 1..(i - 1), NEW b \in 1..n, a < b
                 PROVE  ~Before(o, t[b], t[a])
      BY <2>2 DEF Placed
    <3>1. t[a] = s[a]
      BY <1>1, <2>2
    <3>2. b = i \/ b = j \/ t[b] = s[b]
      BY <2>2
    <3>3. \A c \in 1..n : a < c => ~Before(o, s[c], s[a])
      BY <1>1 DEF Placed
    <3> QED
      BY <1>1, <2>2, <3>1, <3>2, <3>3
  <2>4. Leads(o, t, i, m + 1)
    <3> SUFFICES ASSUME NEW b \in (i + 1)..j PROVE ~Before(o, t[b], t[i])
      BY <1>5 DEF Leads
    <3>1. CASE b = j
      BY <1>1, <1>2, <1>3, <1>7, <2>2, <3>1
    <3>2. CASE b # j
      <4>1. b \in (i + 1)..(i + m) /\ b \in 1..n /\ b # i
        BY <1>1, <3>2
      <4>2. ~Before(o, s[b], s[i])
        BY <4>1 DEF Leads
      <4> QED
        BY <1>1, <1>2, <1>4, <1>7, <2>2, <3>2, <4>1, <4>2
    <3> QED
      BY <3>1, <3>2
  <2> QED
    BY <2>3, <2>4 DEF t, j
<1> QED
  BY <1>6, <1>7

\* The inner loop finds the flight for place i.
LEMMA SortPlacePlaces ==
  ASSUME NEW o \in 0..3, NEW fs \in Seq(Flight), NEW s \in Shuffles(fs), NEW i \in 1..Len(fs),
         Placed(o, s, i - 1)
  PROVE  SortPlace(o, s, i) \in Shuffles(fs) /\ Placed(o, SortPlace(o, s, i), i)
<1> DEFINE m == Len(fs) - i
<1>1. m \in Nat /\ Len(fs) \in Nat /\ i \in Nat /\ i + m = Len(fs)
  OBVIOUS
<1>2. PICK h \in [0..m -> Shuffles(fs)] :
        IsPlaced(h, o, s, i, m) /\ SortPlace(o, s, i) = h[m]
  BY SortPlaceSteps
<1> HIDE DEF m
<1>3. h[0] = s /\ \A k \in 1..m : h[k] = Exchange(o, h[k - 1], i, i + k)
  BY <1>2 DEF IsPlaced
<1> DEFINE Good == {k \in 0..m : Placed(o, h[k], i - 1) /\ Leads(o, h[k], i, k)}
<1>4. 0 \in Good
  <2>1. Leads(o, s, i, 0)
    <3>1. \A b \in (i + 1)..(i + 0) : FALSE
      BY <1>1
    <3> QED
      BY <3>1 DEF Leads
  <2> QED
    BY <1>1, <1>3, <2>1
<1>5. ASSUME NEW k \in 1..m, k - 1 \in Good PROVE k \in Good
  <2> DEFINE u == h[k - 1]
             l == k - 1
  <2>1. /\ k - 1 \in 0..m /\ l \in Nat /\ l + 1 = k /\ i + l + 1 <= Len(fs)
        /\ k \in 0..m
    BY <1>1
  <2>2. u \in Seq(Flight) /\ Len(u) = Len(fs)
    BY <2>1 DEF Shuffles
  <2>3. Placed(o, u, i - 1) /\ Leads(o, u, i, l)
    BY <1>5
  <2>4. h[k] = Exchange(o, u, i, i + (l + 1))
    BY <1>3, <2>1
  <2> HIDE DEF u, l
  <2>5. Placed(o, Exchange(o, u, i, i + (l + 1)), i - 1)
    BY <2>1, <2>2, <2>3, ExchangePlaces
  <2>6. Leads(o, Exchange(o, u, i, i + (l + 1)), i, l + 1)
    BY <2>1, <2>2, <2>3, ExchangePlaces
  <2> QED
    BY <2>1, <2>4, <2>5, <2>6
<1>6. m \in Good
  <2> HIDE DEF Good
  <2>1. \A k \in 0..m : k \in Good
    BY <1>1, <1>4, <1>5, InductionUpTo
  <2> QED
    BY <1>1, <2>1
<1> DEFINE t == h[m]
<1>7. t \in Shuffles(fs) /\ DOMAIN t = 1..Len(fs)
  BY <1>1 DEF Shuffles
<1>8. Placed(o, t, i - 1) /\ Leads(o, t, i, m)
  BY <1>6
<1> HIDE DEF t
<1>9. Placed(o, t, i)
  <2> SUFFICES ASSUME NEW a \in 1..i, NEW b \in 1..Len(fs), a < b
               PROVE  ~Before(o, t[b], t[a])
    BY <1>7 DEF Placed
  <2>1. CASE a = i
    <3>1. b \in (i + 1)..(i + m)
      BY <1>1, <2>1
    <3> QED
      BY <1>8, <2>1, <3>1 DEF Leads
  <2>2. CASE a # i
    <3>1. a \in 1..(i - 1)
      BY <1>1, <2>2
    <3> QED
      BY <1>7, <1>8, <3>1 DEF Placed
  <2> QED
    BY <2>1, <2>2
<1> QED
  BY <1>2, <1>7, <1>9 DEF t
\* h[k] is the list after the outer loop has filled k places.
IsSorting(h, o, fs, n) ==
  h[0] = fs /\ \A k \in 1..n : h[k] = SortPlace(o, h[k - 1], k)

LEMMA SortFlightsSteps ==
  ASSUME NEW fs \in Seq(Flight), NEW o
  PROVE  \E h \in [0..Len(fs) -> Shuffles(fs)] :
           IsSorting(h, o, fs, Len(fs)) /\ SortFlights(o, fs) = h[Len(fs)]
<1> DEFINE n == Len(fs)
           V == Shuffles(fs)
           D == SUBSET (1..n)
           step == [p \in V \X (1..n) |-> SortPlace(o, p[1], p[2])]
           places == [i \in 1..Len(fs) |-> i]
           Body(g, t) == IF t = {} THEN fs
                         ELSE SortPlace(o, g[t \ {Max(t)}], places[Max(t)])
           iter == CHOOSE g : g = [t \in D |-> Body(g, t)]
<1>1. n \in Nat /\ fs \in V /\ DOMAIN places = 1..n /\ \A k \in 1..n : places[k] = k
  BY DEF Shuffles
<1>2. SortFlights(o, fs) = iter[1..n]
  <2> DEFINE E == DOMAIN places
  <2>1. SortFlights(o, fs) = (CHOOSE g : g = [t \in SUBSET E |-> Body(g, t)])[E]
    BY DEF SortFlights, FoldLeft, MapThenFoldSet
  <2> HIDE DEF Body, E, n
  <2>2. E = 1..n
    BY <1>1 DEF E
  <2> QED
    BY <2>1, <2>2, Zenon
<1>3. step \in [V \X (1..n) -> V]
  <2>1. ASSUME NEW u \in V, NEW k \in 1..n PROVE SortPlace(o, u, k) \in V
    <3>1. PICK h \in [0..(n - k) -> V] : SortPlace(o, u, k) = h[n - k]
      BY SortPlaceSteps
    <3>2. n - k \in 0..(n - k)
      BY <1>1
    <3> HIDE DEF V, n
    <3> QED
      BY <3>1, <3>2
  <2> HIDE DEF n, V
  <2> QED
    BY <2>1
<1> HIDE DEF n, V, places
<1>4. PICK g \in [D -> V] : IsFold(g, n, fs, step)
  <2> HIDE DEF step
  <2> QED
    BY <1>1, <1>3, FoldExists
<1>5. ASSUME NEW u, NEW t \in D, t # {}, u[t \ {Max(t)}] \in V
      PROVE  Body(u, t) = step[<<u[t \ {Max(t)}], Max(t)>>]
  <2>1. Max(t) \in 1..n
    BY <1>1, <1>5, MaxOfBounded
  <2> QED
    BY <1>1, <1>5, <2>1
<1>6. g = [t \in D |-> Body(g, t)]
  <2>1. ASSUME NEW t \in D PROVE g[t] = Body(g, t)
    <3>1. t \ {Max(t)} \in D
      OBVIOUS
    <3>2. g[t \ {Max(t)}] \in V
      BY <3>1
    <3>3. t # {} => Body(g, t) = step[<<g[t \ {Max(t)}], Max(t)>>]
      BY <1>5, <3>2
    <3>4. t = {} => Body(g, t) = fs
      OBVIOUS
    <3> HIDE DEF Body, step
    <3> QED
      BY <1>4, <3>3, <3>4 DEF IsFold
  <2> HIDE DEF Body
  <2> QED
    BY <2>1
<1>7. iter = [t \in D |-> Body(iter, t)]
  <2> HIDE DEF Body, D
  <2> QED
    BY <1>6
<1> HIDE DEF iter
<1>8. RecursesBy(iter, n, V, fs, step)
  <2>1. {} \in D
    OBVIOUS
  <2>2. iter[{}] = fs
    BY <1>7, <2>1
  <2>3. \A t \in D : iter[t] = Body(iter, t)
    <3> HIDE DEF Body, D
    <3> QED
      BY <1>7
  <2> HIDE DEF Body, step
  <2> QED
    BY <2>2, <2>3, <1>5 DEF RecursesBy
<1>9. GoesByStages(iter, n, V, fs, step)
  <2> HIDE DEF step
  <2> QED
    BY <1>1, <1>3, <1>8, FoldSteps
<1> DEFINE h == Stages(iter, n)
<1>10. /\ h \in [0..n -> V] /\ h[0] = fs /\ h[n] = iter[1..n]
       /\ \A k \in 1..n : h[k] = step[<<h[k - 1], k>>]
  BY <1>9 DEF GoesByStages
<1> HIDE DEF h
<1>11. ASSUME NEW k \in 1..n PROVE h[k] = SortPlace(o, h[k - 1], k)
  <2>1. k - 1 \in 0..n
    BY <1>1
  <2>2. h[k - 1] \in V
    BY <1>10, <2>1
  <2> QED
    BY <1>10, <2>2
<1>12. IsSorting(h, o, fs, n)
  BY <1>10, <1>11 DEF IsSorting
<1> QED
  BY <1>2, <1>10, <1>12 DEF n, V

\* The two loops sort, and neither lose nor repeat a flight.
LEMMA SortFlightsSorts ==
  ASSUME NEW o \in 0..3, NEW fs \in Seq(Flight)
  PROVE  /\ SortFlights(o, fs) \in Shuffles(fs)
         /\ \A i, j \in DOMAIN SortFlights(o, fs) :
              i < j => ~Before(o, SortFlights(o, fs)[j], SortFlights(o, fs)[i])
<1> DEFINE n == Len(fs)
<1>1. n \in Nat
  OBVIOUS
<1>2. PICK h \in [0..n -> Shuffles(fs)] : IsSorting(h, o, fs, n) /\ SortFlights(o, fs) = h[n]
  BY SortFlightsSteps
<1>3. h[0] = fs /\ \A k \in 1..n : h[k] = SortPlace(o, h[k - 1], k)
  BY <1>2 DEF IsSorting
<1> DEFINE Good == {k \in 0..n : Placed(o, h[k], k)}
<1>4. 0 \in Good
  BY <1>1, EmptyInterval DEF Placed
<1>5. ASSUME NEW k \in 1..n, k - 1 \in Good PROVE k \in Good
  <2>1. k - 1 \in 0..n /\ k \in 0..n
    BY <1>1
  <2>2. h[k - 1] \in Shuffles(fs) /\ Placed(o, h[k - 1], k - 1)
    BY <1>5, <2>1
  <2>3. Placed(o, SortPlace(o, h[k - 1], k), k)
    BY <2>2, SortPlacePlaces
  <2> QED
    BY <1>3, <2>1, <2>3
<1>6. n \in Good
  <2> HIDE DEF Good, n
  <2>1. \A k \in 0..n : k \in Good
    BY <1>1, <1>4, <1>5, InductionUpTo
  <2> QED
    BY <1>1, <2>1
<1> DEFINE t == h[n]
<1>7. t \in Shuffles(fs) /\ Placed(o, t, n)
  BY <1>6
<1> HIDE DEF t
<1>8. DOMAIN t = 1..n
  BY <1>7 DEF Shuffles
<1> QED
  BY <1>2, <1>7, <1>8 DEF t, Placed
-----------------------------------------------------------------------------
(* The inductive invariant *)

\* A fetch brings no flight twice.
NoRepeats == IsInjective(served) /\ IsInjective(flights)

\* The query of an open page was not refused.
Asked == screen \in {"list", "detail"} => query \in Query /\ query.number \in Int

\* ListIsSelection says nothing of the page of one flight, from which Cancel
\* leads back: OpenedFits says there that there are days to choose from.
IInv == TypeOK /\ NoRepeats /\ Asked /\ ListIsSelection /\ OpenedFits

Days == {<<>>} \cup [1..5 -> Int]

LEMMA FiveDays == \A d \in [1..5 -> Int] : d # <<>> /\ d[3] \in ToSet(d)
<1> SUFFICES ASSUME NEW d \in [1..5 -> Int] PROVE d # <<>> /\ d[3] \in ToSet(d)
  OBVIOUS
<1>1. DOMAIN d = 1..5 /\ 3 \in 1..5 /\ DOMAIN <<>> = {}
  OBVIOUS
<1> QED
  BY <1>1 DEF ToSet

LEMMA InvInit == Init => IInv
<1> SUFFICES ASSUME Init PROVE IInv
  OBVIOUS
<1>1. <<>> \in Seq(Flight) /\ IsInjective(<<>>)
  BY DEF IsInjective
<1>2. TypeOK
  BY <1>1 DEF Init, TypeOK
<1> QED
  BY <1>1, <1>2 DEF Init, IInv, NoRepeats, Asked, ListIsSelection, OpenedFits

\* What GET FLIGHTS serves.
LEMMA ServedFacts ==
  ASSUME IInv, GetFlights
  PROVE  served' \in Seq(Flight) /\ IsInjective(served')
<1>1. booked \subseteq Bookable /\ served \in Seq(Flight) /\ IsInjective(served)
  BY DEF IInv, TypeOK, NoRepeats
<1>2. CASE UNCHANGED served
  BY <1>1, <1>2
<1>3. ASSUME NEW failing, served' = FetchFlights(failing)
      PROVE  served' \in Seq(Flight) /\ IsInjective(served')
  BY <1>1, <1>3, FetchedFacts
<1> QED
  BY <1>2, <1>3 DEF GetFlights

\* Opening the page of flights shows those of the middle day.
LEMMA PageOfFlights ==
  ASSUME NEW q \in Query, q.number \in Int, NEW shown \in Seq(Flight),
         days \in Days, flights' \in Seq(Flight), IsInjective(flights'),
         query' = q, CreateListWindow(q, shown),
         days' = <<>> => ToSet(shown) = {} /\ IsInjective(shown)
  PROVE  /\ screen' = "list" /\ marked' = 3 /\ combo' = 0
         /\ days' \in Days /\ tem_flights' \in Seq(Flight)
         /\ Asked' /\ ListIsSelection'
<1>1. /\ screen' = "list" /\ marked' = 3 /\ combo' = 0
      /\ days' = IF q.date = None THEN days ELSE [i \in 1..5 |-> q.date - 3 + i]
      /\ tem_flights' = IF days' = <<>> THEN shown ELSE FilterFlights(flights', q, days'[3])
  BY DEF CreateListWindow, CreateDaySelector, CreateFilterBox, GenerateNext5Days
<1>2. days' \in Days
  <2>1. CASE q.date = None
    BY <1>1, <2>1
  <2>2. CASE q.date # None
    <3>1. q.date \in Int
      BY <2>2 DEF Query
    <3>2. [i \in 1..5 |-> q.date - 3 + i] \in [1..5 -> Int]
      BY <3>1
    <3> QED
      BY <1>1, <2>2, <3>2 DEF Days
  <2> QED
    BY <2>1, <2>2
<1>3. Asked'
  BY <1>1 DEF Asked
<1>4. CASE days' = <<>>
  <2>1. tem_flights' = shown
    BY <1>1, <1>4
  <2>2. ListIsSelection'
    BY <1>4, <2>1 DEF ListIsSelection
  <2> QED
    BY <1>1, <1>2, <1>3, <2>1, <2>2
<1>5. CASE days' # <<>>
  <2> DEFINE t == FilterFlights(flights', q, days'[3])
  <2>1. /\ t \in Seq(Flight) /\ IsInjective(t)
        /\ ToSet(t) = {f \in ToSet(flights') : Fits(f, q, days'[3])}
    BY FilterFacts
  <2> HIDE DEF t
  <2>2. tem_flights' = t
    BY <1>1, <1>5 DEF t
  <2>3. ToSet(t) = {f \in ToSet(flights') :
                      /\ OnRoute(f)'
                      /\ days' # <<>> /\ f.date = days'[marked']
                      /\ f.available[query'.class] >= query'.number}
    BY <1>1, <1>5, <2>1 DEF Fits, OnRoute
  <2>4. ListIsSelection'
    BY <2>1, <2>2, <2>3 DEF ListIsSelection
  <2> QED
    BY <1>1, <1>2, <1>3, <2>1, <2>2, <2>4
<1> QED
  BY <1>4, <1>5

-----------------------------------------------------------------------------
(* The steps *)

LEMMA OnListLinkClickInv ==
  ASSUME IInv, NEW f \in Form, OnListLinkClick(f)
  PROVE  IInv'
<1>1. /\ TypeOK /\ screen = "home" /\ served' \in Seq(Flight) /\ IsInjective(served')
      /\ flights' = served' /\ UNCHANGED <<booked, detail_flight>>
      /\ query' = IF served' = <<>> \/ f = None THEN query ELSE f
  BY ServedFacts DEF IInv, OnListLinkClick, ReceiveFlights
<1>2. NoRepeats'
  BY <1>1 DEF NoRepeats
<1>3. query' \in Query \cup {None}
  BY <1>1, AssumptionFacts DEF TypeOK
<1>4. CASE UNCHANGED <<tem_flights, days, marked, combo>> /\ screen' \in {"home", "hung"}
  <2>1. TypeOK'
    BY <1>1, <1>3, <1>4 DEF TypeOK
  <2> QED
    BY <1>2, <1>4, <2>1 DEF IInv, Asked, ListIsSelection, OpenedFits
<1>5. CASE /\ served' # <<>> /\ f \notin Refused
           /\ CreateListWindow(f, FilterFlights(served', f, f.date))
  <2> DEFINE shown == FilterFlights(served', f, f.date)
  <2>1. f \in Query /\ f.number \in Int /\ f # None
    <3>1. f # None /\ f.number # None
      BY <1>5 DEF Refused
    <3> QED
      BY <3>1, AssumptionFacts DEF Query
  <2>2. query' = f
    BY <1>1, <1>5, <2>1
  <2>3. /\ shown \in Seq(Flight) /\ IsInjective(shown)
        /\ ToSet(shown) = {g \in ToSet(served') : Fits(g, f, f.date)}
    BY <1>1, FilterFacts
  <2> HIDE DEF shown
  <2>4. days \in Days
    BY <1>1 DEF TypeOK, Days
  <2>5. days' = <<>> => f.date = None
    <3>1. f.date # None => days' = [i \in 1..5 |-> f.date - 3 + i] /\ f.date \in Int
      BY <1>5, <2>1 DEF CreateListWindow, CreateDaySelector, GenerateNext5Days, Query
    <3>2. f.date # None => days' \in [1..5 -> Int]
      BY <3>1
    <3> QED
      BY <3>2, FiveDays
  <2>6. f.date = None => ToSet(shown) = {}
    <3>1. ASSUME NEW g \in ToSet(served') PROVE g.date \in Int
      <4>1. PICK i \in DOMAIN served' : g = served'[i]
        BY <3>1 DEF ToSet
      <4>2. g \in Flight
        BY <1>1, <4>1
      <4> QED
        BY <4>2 DEF Flight
    <3> QED
      BY <2>3, <3>1, AssumptionFacts DEF Fits
  <2>7. CreateListWindow(f, shown)
    BY <1>5 DEF shown
  <2>8. /\ screen' = "list" /\ marked' = 3 /\ combo' = 0
        /\ days' \in Days /\ tem_flights' \in Seq(Flight)
        /\ Asked' /\ ListIsSelection'
    BY <1>1, <2>1, <2>2, <2>3, <2>4, <2>5, <2>6, <2>7, PageOfFlights
  <2>9. TypeOK'
    BY <1>1, <1>3, <2>8 DEF TypeOK, Days
  <2> QED
    BY <1>2, <2>8, <2>9 DEF IInv, OpenedFits
<1> QED
  BY <1>1, <1>4, <1>5 DEF OnListLinkClick

LEMMA OnDayButtonClickInv ==
  ASSUME IInv, NEW i \in 1..5, OnDayButtonClick(i)
  PROVE  IInv'
<1> DEFINE t == FilterFlights(flights, query, days[i])
<1>1. /\ TypeOK /\ NoRepeats /\ Asked /\ screen = "list" /\ screen' = "list"
      /\ UNCHANGED <<booked, served, flights, query, days, combo, detail_flight>>
      /\ i \in DOMAIN days /\ marked' = i /\ tem_flights' = t
  BY DEF IInv, OnDayButtonClick, server
<1>2. /\ t \in Seq(Flight) /\ IsInjective(t)
      /\ ToSet(t) = {f \in ToSet(flights) : Fits(f, query, days[i])}
  BY <1>1, FilterFacts DEF TypeOK, NoRepeats
<1> HIDE DEF t
<1>3. days # <<>>
  <2>1. DOMAIN <<>> = {}
    OBVIOUS
  <2> QED
    BY <1>1, <2>1
<1>4. TypeOK'
  BY <1>1, <1>2 DEF TypeOK
<1>5. ListIsSelection'
  BY <1>1, <1>2, <1>3 DEF ListIsSelection, Fits, OnRoute
<1> QED
  BY <1>1, <1>4, <1>5 DEF IInv, NoRepeats, Asked, OpenedFits

LEMMA OnSortChangedInv ==
  ASSUME IInv, NEW i \in 0..3, OnSortChanged(i)
  PROVE  IInv'
<1> DEFINE t == SortFlights(i, tem_flights)
<1>1. /\ TypeOK /\ NoRepeats /\ Asked /\ ListIsSelection /\ screen = "list" /\ screen' = "list"
      /\ UNCHANGED <<booked, served, flights, query, days, marked, detail_flight>>
      /\ combo' = i /\ tem_flights' = t
  BY DEF IInv, OnSortChanged, server
<1>2. t \in Shuffles(tem_flights)
  BY <1>1, SortFlightsSorts DEF TypeOK
<1>3. /\ t \in Seq(Flight) /\ ToSet(t) = ToSet(tem_flights)
      /\ IsInjective(tem_flights) => IsInjective(t)
  BY <1>2 DEF Shuffles
<1> HIDE DEF t
<1>4. TypeOK'
  BY <1>1, <1>3 DEF TypeOK
<1>5. ListIsSelection'
  BY <1>1, <1>3 DEF ListIsSelection, OnRoute
<1> QED
  BY <1>1, <1>4, <1>5 DEF IInv, NoRepeats, Asked, OpenedFits

LEMMA OnDetailLinkClickInv ==
  ASSUME IInv, NEW i \in DOMAIN tem_flights, OnDetailLinkClick(i)
  PROVE  IInv'
<1> DEFINE f == tem_flights[i]
<1>1. /\ TypeOK /\ NoRepeats /\ Asked /\ ListIsSelection /\ screen = "list" /\ screen' = "detail"
      /\ UNCHANGED <<booked, served, flights, tem_flights, query, days>>
      /\ marked' = 3 /\ combo' = 0 /\ detail_flight' = f
  BY DEF IInv, OnDetailLinkClick, server, search, NoList
<1>2. f \in Flight /\ f \in ToSet(tem_flights)
  BY <1>1 DEF TypeOK, ToSet
<1> HIDE DEF f
<1>3. /\ OnRoute(f) /\ days # <<>> /\ f.date = days[marked]
      /\ f.available[query.class] >= query.number
  BY <1>1, <1>2 DEF ListIsSelection
<1>4. days[marked] \in ToSet(days)
  BY <1>1, <1>3 DEF TypeOK, ToSet
<1>5. TypeOK'
  BY <1>1, <1>2 DEF TypeOK
<1>6. OpenedFits'
  BY <1>1, <1>3, <1>4 DEF OpenedFits, OnRoute
<1> QED
  BY <1>1, <1>5, <1>6 DEF IInv, NoRepeats, Asked, ListIsSelection

LEMMA OnCancelInv ==
  ASSUME IInv, OnCancel
  PROVE  IInv'
<1>1. /\ TypeOK /\ NoRepeats /\ Asked /\ OpenedFits /\ screen = "detail"
      /\ UNCHANGED <<booked, served, flights, query>> /\ detail_flight' = None
      /\ CreateListWindow(query, tem_flights)
  BY DEF IInv, OnCancel, server
<1>2. /\ query \in Query /\ query.number \in Int /\ days \in Days
      /\ flights \in Seq(Flight) /\ tem_flights \in Seq(Flight) /\ IsInjective(flights)
  BY <1>1 DEF Asked, TypeOK, NoRepeats, Days
<1>3. days # <<>>
  <2>1. ToSet(<<>>) = {}
    BY DEF ToSet
  <2> QED
    BY <1>1, <2>1 DEF OpenedFits
<1>4. days' # <<>>
  <2>1. days' = IF query.date = None THEN days ELSE [i \in 1..5 |-> query.date - 3 + i]
    BY <1>1 DEF CreateListWindow, CreateDaySelector, GenerateNext5Days
  <2>2. query.date # None => query.date \in Int
    BY <1>2 DEF Query
  <2>3. query.date # None => days' \in [1..5 -> Int]
    BY <2>1, <2>2
  <2> QED
    BY <1>3, <2>1, <2>3, FiveDays
<1>5. /\ screen' = "list" /\ marked' = 3 /\ combo' = 0
      /\ days' \in Days /\ tem_flights' \in Seq(Flight)
      /\ Asked' /\ ListIsSelection'
  BY <1>1, <1>2, <1>4, PageOfFlights
<1>6. TypeOK'
  BY <1>1, <1>5 DEF TypeOK, Days
<1> QED
  BY <1>1, <1>5, <1>6 DEF IInv, NoRepeats, OpenedFits

LEMMA OnNavHomeClickedInv ==
  ASSUME IInv, OnNavHomeClicked
  PROVE  IInv'
BY DEF IInv, OnNavHomeClicked, server, search, NoList, TypeOK, NoRepeats, Asked,
       ListIsSelection, OpenedFits

\* What leaves the application alone keeps its part of the invariant.
LEMMA OthersInv ==
  ASSUME IInv, UNCHANGED <<search, page>>,
         booked' \subseteq Bookable, served' \in Seq(Flight), IsInjective(served')
  PROVE  IInv'
<1>1. UNCHANGED <<flights, tem_flights, query, days, marked, combo, detail_flight, screen>>
  BY DEF search, page
<1>2. TypeOK' /\ NoRepeats'
  BY <1>1 DEF IInv, TypeOK, NoRepeats
<1>3. Asked' /\ ListIsSelection' /\ OpenedFits'
  BY <1>1 DEF IInv, Asked, ListIsSelection, OpenedFits, OnRoute
<1> QED
  BY <1>2, <1>3 DEF IInv

LEMMA InvStep == IInv /\ [Next]_vars => IInv'
<1> SUFFICES ASSUME IInv, [Next]_vars PROVE IInv'
  OBVIOUS
<1>1. /\ booked \subseteq Bookable /\ served \in Seq(Flight) /\ IsInjective(served)
  BY DEF IInv, TypeOK, NoRepeats
<1>2. ASSUME NEW f \in Form, OnListLinkClick(f) PROVE IInv'
  BY <1>2, OnListLinkClickInv
<1>3. ASSUME NEW i \in 1..5, OnDayButtonClick(i) PROVE IInv'
  BY <1>3, OnDayButtonClickInv
<1>4. ASSUME NEW i \in 0..3, OnSortChanged(i) PROVE IInv'
  BY <1>4, OnSortChangedInv
<1>5. ASSUME NEW i \in DOMAIN tem_flights, OnDetailLinkClick(i) PROVE IInv'
  BY <1>5, OnDetailLinkClickInv
<1>6. CASE OnCancel
  BY <1>6, OnCancelInv
<1>7. CASE OnNavHomeClicked
  BY <1>7, OnNavHomeClickedInv
<1>8. ASSUME NEW s \in Bookable, BookSeat(s) \/ ReleaseSeat(s) PROVE IInv'
  BY <1>1, <1>8, OthersInv DEF BookSeat, ReleaseSeat
<1>9. CASE OtherSearch
  BY <1>1, <1>9, ServedFacts, OthersInv DEF OtherSearch
<1>10. CASE UNCHANGED vars
  BY <1>1, <1>10, OthersInv DEF vars, server
<1> QED
  BY <1>2, <1>3, <1>4, <1>5, <1>6, <1>7, <1>8, <1>9, <1>10 DEF Next

THEOREM Invariance == Spec => []IInv
BY InvInit, InvStep, PTL DEF Spec

-----------------------------------------------------------------------------
(* The properties *)

(* The lists hold flights, the query was typed into the form, and the days  *)
(* are none or five, whatever is fetched and asked for.                     *)
THEOREM SearchTypeCorrect == Spec => []TypeOK
<1>1. IInv => TypeOK
  BY DEF IInv
<1> QED
  BY <1>1, Invariance, PTL

(* The page of flights shows each flight, as last fetched, that fits the    *)
(* query and the day pressed, once, and no other (list.c, global.c:179-198).*)
THEOREM ListsAreSelections == Spec => []ListIsSelection
<1>1. IInv => ListIsSelection
  BY DEF IInv
<1> QED
  BY <1>1, Invariance, PTL

(* The flight of the open page is one of the route, on a day offered, that  *)
(* had the seats asked for when it was fetched (list.c:170-181).            *)
THEOREM OpenedFlightsFit == Spec => []OpenedFits
<1>1. IInv => OpenedFits
  BY DEF IInv
<1> QED
  BY <1>1, Invariance, PTL

\* Below row 10 the server and the seat map agree on the class of a seat.
LEMMA ClassesAgree ==
  ASSUME NEW row \in 1..99, row < 10
  PROVE  GetSeatClass(row) = ClassOnMap(row)
BY DEF GetSeatClass, ClassOnMap, FirstDigit

LEMMA FetchedFields ==
  ASSUME NEW row, NEW failing
  PROVE  /\ Fetched(row, failing).departure_airport = row.departure_airport
         /\ Fetched(row, failing).arrival_airport = row.arrival_airport
         /\ Fetched(row, failing).date = row.date
         /\ Fetched(row, failing).flight_id = row.flight_id
         /\ Fetched(row, failing).available =
              [c \in Class |-> SeatsOf(row, c) - Count(row.flight_id, c, failing)]
BY DEF Fetched

LEMMA SelectionIsTrue == IInv => ListIsTrue
<1> SUFFICES ASSUME IInv, screen = "list", days # <<>>, flights = FetchFlights({}),
                    \A s \in booked : s.row < 10,
                    NEW i \in DOMAIN Table, OnRoute(Table[i]), Table[i].date = days[marked]
             PROVE  LET class == query.class
                        taken == {s \in booked : /\ s.flight = Table[i].flight_id
                                                 /\ ClassOnMap(s.row) = class}
                    IN (\E j \in DOMAIN tem_flights : tem_flights[j].flight_id = Table[i].flight_id)
                         <=> SeatsOf(Table[i], class) - Cardinality(taken) >= query.number
  BY DEF ListIsTrue
<1> DEFINE class == query.class
           id == Table[i].flight_id
           taken == {s \in booked : s.flight = id /\ ClassOnMap(s.row) = class}
<1>1. class \in Class
  BY DEF IInv, Asked, Query
<1>2. taken = {s \in booked : s.flight = id /\ GetSeatClass(s.row) = class}
  <2>1. ASSUME NEW s \in booked PROVE GetSeatClass(s.row) = ClassOnMap(s.row)
    <3>1. s.row \in 1..99 /\ s.row < 10
      BY AssumptionFacts DEF IInv, TypeOK
    <3> QED
      BY <3>1, ClassesAgree
  <2> QED
    BY <2>1
<1>3. Count(id, class, {}) = Cardinality(taken)
  BY <1>2 DEF Count
<1> HIDE DEF taken
<1>4. \A k \in DOMAIN Table : /\ flights[k] = Fetched(Table[k], {})
                              /\ flights[k].flight_id = Table[k].flight_id
  BY FetchedFields DEF FetchFlights
<1>5. DOMAIN flights = DOMAIN Table
  BY DEF FetchFlights
<1>6. flights[i].available[class] = SeatsOf(Table[i], class) - Cardinality(taken)
  <2>1. flights[i].available =
          [c \in Class |-> SeatsOf(Table[i], c) - Count(id, c, {})]
    BY <1>4, FetchedFields
  <2> HIDE DEF class, id
  <2> QED
    BY <1>1, <1>3, <2>1
<1>7. OnRoute(flights[i]) /\ flights[i].date = days[marked]
  <2>1. flights[i] = Fetched(Table[i], {})
    BY <1>4
  <2> DEFINE g == Fetched(Table[i], {})
  <2>2. /\ g.departure_airport = Table[i].departure_airport
        /\ g.arrival_airport = Table[i].arrival_airport
        /\ g.date = Table[i].date
    BY FetchedFields, Zenon
  <2> HIDE DEF g
  <2>3. OnRoute(g) /\ g.date = days[marked]
    BY <2>2 DEF OnRoute
  <2> QED
    BY <2>1, <2>3 DEF g
<1>8. ToSet(tem_flights) =
        {f \in ToSet(flights) : /\ OnRoute(f)
                                /\ days # <<>> /\ f.date = days[marked]
                                /\ f.available[class] >= query.number}
  BY DEF IInv, ListIsSelection
<1>9. ASSUME NEW j \in DOMAIN tem_flights, tem_flights[j].flight_id = id
      PROVE  flights[i].available[class] >= query.number
  <2>1. tem_flights[j] \in ToSet(tem_flights)
    BY DEF ToSet
  <2>2. tem_flights[j] \in ToSet(flights) /\ tem_flights[j].available[class] >= query.number
    BY <1>8, <2>1
  <2>3. PICK k \in DOMAIN Table : tem_flights[j] = flights[k]
    BY <1>5, <2>2 DEF ToSet
  <2>4. k = i
    BY <1>4, <1>9, <2>3, AssumptionFacts
  <2> QED
    BY <2>2, <2>3, <2>4
<1>10. ASSUME flights[i].available[class] >= query.number
       PROVE  \E j \in DOMAIN tem_flights : tem_flights[j].flight_id = id
  <2>1. flights[i] \in ToSet(flights)
    BY <1>5 DEF ToSet
  <2>2. flights[i] \in ToSet(tem_flights)
    BY <1>7, <1>8, <1>10, <2>1
  <2>3. PICK j \in DOMAIN tem_flights : flights[i] = tem_flights[j]
    BY <2>2 DEF ToSet
  <2> QED
    BY <1>4, <2>3
<1> QED
  BY <1>6, <1>9, <1>10 DEF taken

(* With flights as a fetch without failures would bring them, and seats     *)
(* booked in the rows 1 to 9, a flight of the route and the day is shown    *)
(* exactly if the seats left in the class are enough (flight.c:82-84).      *)
THEOREM ListsAreTrue == Spec => []ListIsTrue
BY SelectionIsTrue, Invariance, PTL

LEMMA SortStep ==
  ASSUME IInv, [Next]_vars, combo' # combo, screen = "list", screen' = "list"
  PROVE  /\ \A i, j \in DOMAIN tem_flights' :
              i < j => ~Before(combo', tem_flights'[j], tem_flights'[i])
         /\ IsInjective(tem_flights')
         /\ ToSet(tem_flights') = ToSet(tem_flights)
<1>1. PICK o \in 0..3 : OnSortChanged(o)
  BY DEF Next, vars, server, search, page, OnListLinkClick, OnDayButtonClick,
         OnDetailLinkClick, OnCancel, OnNavHomeClicked, BookSeat, ReleaseSeat, OtherSearch
<1>2. /\ combo' = o /\ tem_flights' = SortFlights(o, tem_flights)
      /\ tem_flights \in Seq(Flight) /\ IsInjective(tem_flights)
  BY <1>1 DEF OnSortChanged, IInv, TypeOK, ListIsSelection
<1>3. /\ SortFlights(o, tem_flights) \in Shuffles(tem_flights)
      /\ \A i, j \in DOMAIN SortFlights(o, tem_flights) :
           i < j => ~Before(o, SortFlights(o, tem_flights)[j], SortFlights(o, tem_flights)[i])
  BY <1>2, SortFlightsSorts
<1> QED
  BY <1>2, <1>3 DEF Shuffles

(* Choosing another order sorts the cards by it, however many there are,    *)
(* and neither loses nor repeats one (list.c:183-196, 429-453).             *)
THEOREM SortingSorts == Spec => SortSorts
<1>1. IInv /\ [Next]_vars =>
        [combo' # combo /\ screen = "list" /\ screen' = "list" =>
           /\ \A i, j \in DOMAIN tem_flights' :
                i < j => ~Before(combo', tem_flights'[j], tem_flights'[i])
           /\ IsInjective(tem_flights')
           /\ ToSet(tem_flights') = ToSet(tem_flights)]_vars
  BY SortStep
<1> QED
  BY <1>1, Invariance, PTL DEF Spec, SortSorts
=============================================================================
