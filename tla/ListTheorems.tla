----------------------------- MODULE ListTheorems -----------------------------
(***************************************************************************)
(* What loops over sequences compute, for sequences of every length.       *)
(*                                                                         *)
(* Induction is over sets of naturals: a set that has 0 and, with a        *)
(* number, the next one has them all.  The library's well-founded order of *)
(* the naturals gives the least number outside of it.                      *)
(***************************************************************************)
EXTENDS Integers, Lists, WellFoundedInduction, TLAPS

LEMMA LessIsWellFounded == IsWellFoundedOn({p \in Nat \X Nat : p[1] < p[2]}, Nat)
BY NatLessThanWellFounded, Zenon DEF OpToRel

\* Every set of naturals that is not empty has a least element.
LEMMA LeastNatural ==
  ASSUME NEW S \in SUBSET Nat, S # {}
  PROVE  \E n \in S : \A m \in S : n <= m
<1> DEFINE R == {p \in Nat \X Nat : p[1] < p[2]}
<1>1. IsWellFoundedOn(R, Nat)
  BY LessIsWellFounded
<1> HIDE DEF R
<1>2. PICK n \in S : \A m \in S : <<m, n>> \notin R
  BY <1>1, WFMin
<1>3. ASSUME NEW m \in S PROVE n <= m
  <2>1. ~(m < n)
    BY <1>2, <1>3 DEF R
  <2> QED
    BY <2>1, <1>3
<1> QED
  BY <1>2, <1>3

\* Induction.
LEMMA InductionOverSets ==
  ASSUME NEW S, 0 \in S, \A n \in Nat : n \in S => n + 1 \in S
  PROVE  \A n \in Nat : n \in S
<1> SUFFICES ASSUME Nat \ S # {} PROVE FALSE
  OBVIOUS
<1>1. PICK n \in Nat \ S : \A m \in Nat \ S : n <= m
  BY LeastNatural
<1>2. n # 0 /\ n - 1 \in Nat
  BY <1>1
<1>3. n - 1 \in S
  BY <1>1, <1>2
<1> QED
  BY <1>1, <1>2, <1>3

\* The same up to a bound.
LEMMA InductionUpTo ==
  ASSUME NEW n \in Nat, NEW S, 0 \in S, \A k \in 1..n : k - 1 \in S => k \in S
  PROVE  \A k \in 0..n : k \in S
<1> DEFINE Reached == {k \in Nat : k <= n => k \in S}
<1>1. 0 \in Reached
  OBVIOUS
<1>2. ASSUME NEW k \in Nat, k \in Reached PROVE k + 1 \in Reached
  <2>1. k + 1 <= n => k + 1 \in 1..n /\ (k + 1) - 1 = k
    OBVIOUS
  <2> QED
    BY <1>2, <2>1
<1> HIDE DEF Reached
<1>3. \A k \in Nat : k \in Reached
  BY <1>1, <1>2, InductionOverSets
<1> QED
  BY <1>3 DEF Reached

-----------------------------------------------------------------------------
(* Folds *)

LEMMA MaxOfBounded ==
  ASSUME NEW n \in Nat, NEW t \in SUBSET (1..n), t # {}
  PROVE  Max(t) \in t /\ \A y \in t : Max(t) >= y
<1> DEFINE below == {n - y : y \in t}
<1>0. \A y \in t : y \in Int /\ n - y \in Nat
  OBVIOUS
<1>1. below \in SUBSET Nat /\ below # {}
  BY <1>0
<1> HIDE DEF below
<1>2. PICK m \in below : \A k \in below : m <= k
  BY <1>1, LeastNatural
<1>3. PICK x \in t : m = n - x
  BY <1>2 DEF below
<1>4. ASSUME NEW y \in t PROVE x >= y
  <2>1. n - y \in below
    BY DEF below
  <2>2. n - x <= n - y
    BY <2>1, <1>2, <1>3
  <2> QED
    BY <2>2, <1>0
<1> QED
  BY <1>3, <1>4 DEF Max

LEMMA EmptyInterval == 1..0 = {}
OBVIOUS

LEMMA MaxOfPrefix ==
  ASSUME NEW k \in Nat, k # 0
  PROVE  Max(1..k) = k /\ (1..k) \ {k} = 1..(k - 1) /\ 1..k # {}
<1>1. 1..k # {} /\ k \in 1..k
  OBVIOUS
<1>2. Max(1..k) \in 1..k /\ \A y \in 1..k : Max(1..k) >= y
  BY <1>1, MaxOfBounded
<1> QED
  BY <1>1, <1>2

\* g is the function that a fold recurses over, which starts with base and
\* whose step takes the value so far and a place.
IsFold(g, n, base, step) ==
  \A t \in SUBSET (1..n) :
    g[t] = IF t = {} THEN base ELSE step[<<g[t \ {Max(t)}], Max(t)>>]

\* The function that a fold of n elements recurses over exists: a fold whose
\* step keeps its values in V has a value, in V, for every part of 1..n.
LEMMA FoldExists ==
  ASSUME NEW n \in Nat, NEW V, NEW base \in V, NEW step \in [V \X (1..n) -> V]
  PROVE  \E g \in [SUBSET (1..n) -> V] : IsFold(g, n, base, step)
<1> DEFINE Folds(g, k) == \A t \in SUBSET (1..k) :
             g[t] = IF t = {} THEN base ELSE step[<<g[t \ {Max(t)}], Max(t)>>]
           HasFold(k) == \E g \in [SUBSET (1..k) -> V] : Folds(g, k)
           Reached == {k \in Nat : k <= n => HasFold(k)}
<1>1. HasFold(0)
  <2> DEFINE g == [t \in SUBSET (1..0) |-> base]
  <2>1. \A t \in SUBSET (1..0) : t = {}
    BY EmptyInterval
  <2>2. g \in [SUBSET (1..0) -> V] /\ Folds(g, 0)
    BY <2>1
  <2> HIDE DEF g, Folds
  <2> QED
    BY <2>2
<1>2. ASSUME NEW k \in Nat, k + 1 <= n, HasFold(k) PROVE HasFold(k + 1)
  <2>1. PICK g \in [SUBSET (1..k) -> V] : Folds(g, k)
    BY <1>2
  <2> DEFINE h == [t \in SUBSET (1..(k + 1)) |->
                     IF k + 1 \in t THEN step[<<g[t \ {k + 1}], k + 1>>] ELSE g[t]]
  <2>2. k + 1 \in 1..n
    BY <1>2
  <2>3. \A t \in SUBSET (1..(k + 1)) : t \ {k + 1} \in SUBSET (1..k)
    OBVIOUS
  <2>4. \A t \in SUBSET (1..(k + 1)) : k + 1 \notin t => t \in SUBSET (1..k)
    OBVIOUS
  <2>5. h \in [SUBSET (1..(k + 1)) -> V]
    BY <2>2, <2>3, <2>4
  <2>6. ASSUME NEW t \in SUBSET (1..k) PROVE t \in SUBSET (1..(k + 1)) /\ h[t] = g[t]
    <3>1. \A x \in t : x \in 1..k
      OBVIOUS
    <3>2. k + 1 \notin 1..k /\ \A x \in 1..k : x \in 1..(k + 1)
      OBVIOUS
    <3>3. t \in SUBSET (1..(k + 1)) /\ k + 1 \notin t
      BY <3>1, <3>2
    <3>4. h[t] = g[t]
      BY <3>3
    <3> QED
      BY <3>3, <3>4
  <2>7. ASSUME NEW t \in SUBSET (1..(k + 1))
        PROVE  h[t] = IF t = {} THEN base ELSE step[<<h[t \ {Max(t)}], Max(t)>>]
    <3>1. CASE k + 1 \in t
      <4>1. Max(t) = k + 1
        <5>1. Max(t) \in t /\ \A y \in t : Max(t) >= y
          <6>1. k + 1 \in Nat /\ t # {}
            BY <3>1
          <6> QED
            BY <6>1, MaxOfBounded
        <5>2. \A y \in t : y \in Int /\ y <= k + 1
          OBVIOUS
        <5>3. Max(t) \in Int /\ Max(t) <= k + 1 /\ Max(t) >= k + 1
          <6> HIDE DEF Folds, HasFold, Reached, h
          <6> QED
            BY <5>1, <5>2, <3>1
        <5> QED
          BY <5>3
      <4>2. h[t \ {k + 1}] = g[t \ {k + 1}]
        BY <2>3, <2>6
      <4> HIDE DEF Folds
      <4> QED
        BY <3>1, <4>1, <4>2
    <3>2. CASE k + 1 \notin t
      <4>1. t \in SUBSET (1..k)
        BY <3>2
      <4>2. h[t] = g[t]
        BY <4>1, <2>6
      <4>3. h[t \ {Max(t)}] = g[t \ {Max(t)}]
        BY <4>1, <2>6
      <4> HIDE DEF h
      <4> QED
        BY <2>1, <4>1, <4>2, <4>3
    <3> QED
      BY <3>1, <3>2
  <2>8. Folds(h, k + 1)
    BY <2>7
  <2> HIDE DEF h, Folds
  <2> QED
    BY <2>5, <2>8
<1>3. n \in Reached
  <2> HIDE DEF HasFold
  <2>1. 0 \in Reached
    BY <1>1
  <2>2. \A k \in Nat : k \in Reached => k + 1 \in Reached
    BY <1>2
  <2> HIDE DEF Reached
  <2> QED
    BY <2>1, <2>2, InductionOverSets
<1>4. HasFold(n)
  <2> HIDE DEF HasFold
  <2> QED
    BY <1>3
<1> QED
  BY <1>4 DEF IsFold

\* iter is the function that a fold recurses over; its step, applied to values
\* in V, is step.
RecursesBy(iter, n, V, base, step) ==
  /\ iter[{}] = base
  /\ \A t \in SUBSET (1..n) : t # {} /\ iter[t \ {Max(t)}] \in V =>
       iter[t] = step[<<iter[t \ {Max(t)}], Max(t)>>]

\* What the fold has after each number of elements.
Stages(iter, n) == [k \in 0..n |-> iter[1..k]]

GoesByStages(iter, n, V, base, step) ==
  /\ Stages(iter, n) \in [0..n -> V]
  /\ Stages(iter, n)[0] = base
  /\ \A k \in 1..n : Stages(iter, n)[k] = step[<<Stages(iter, n)[k - 1], k>>]
  /\ Stages(iter, n)[n] = iter[1..n]

LEMMA FoldSteps ==
  ASSUME NEW n \in Nat, NEW V, NEW base \in V, NEW step \in [V \X (1..n) -> V],
         NEW iter, RecursesBy(iter, n, V, base, step)
  PROVE  GoesByStages(iter, n, V, base, step)
<1> DEFINE Typed == {k \in 0..n : iter[1..k] \in V}
<1>1. 0 \in Typed
  BY EmptyInterval DEF RecursesBy
<1>2. ASSUME NEW k \in 1..n, iter[1..(k - 1)] \in V
      PROVE  iter[1..k] = step[<<iter[1..(k - 1)], k>>]
  <2>1. Max(1..k) = k /\ (1..k) \ {k} = 1..(k - 1) /\ 1..k # {}
    <3>1. k \in Nat /\ k # 0
      OBVIOUS
    <3> QED
      BY <3>1, MaxOfPrefix
  <2>2. 1..k \in SUBSET (1..n)
    OBVIOUS
  <2> QED
    BY <1>2, <2>1, <2>2 DEF RecursesBy
<1>3. ASSUME NEW k \in 1..n, k - 1 \in Typed PROVE k \in Typed
  <2>1. k \in 0..n /\ iter[1..(k - 1)] \in V
    BY <1>3
  <2>2. iter[1..k] = step[<<iter[1..(k - 1)], k>>]
    BY <1>2, <2>1
  <2> QED
    BY <2>1, <2>2
<1>4. \A k \in 0..n : k \in Typed
  <2> HIDE DEF Typed
  <2> QED
    BY <1>1, <1>3, InductionUpTo
<1> DEFINE h == Stages(iter, n)
<1> USE DEF Stages
<1>5. h \in [0..n -> V]
  BY <1>4
<1>6. h[0] = base
  BY EmptyInterval DEF RecursesBy
<1>7. \A k \in 1..n : h[k] = step[<<h[k - 1], k>>]
  <2> SUFFICES ASSUME NEW k \in 1..n PROVE h[k] = step[<<h[k - 1], k>>]
    OBVIOUS
  <2>1. k \in 0..n /\ k - 1 \in 0..n
    OBVIOUS
  <2>2. iter[1..(k - 1)] \in V
    BY <1>4, <2>1
  <2> QED
    BY <1>2, <2>1, <2>2
<1>8. iter[1..n] = h[n]
  OBVIOUS
<1> HIDE DEF Stages
<1> QED
  BY <1>5, <1>6, <1>7, <1>8 DEF GoesByStages

-----------------------------------------------------------------------------
(* Keeping the elements of a set *)

\* h[k] is what has been kept after k elements.
IsKept(h, s, S) ==
  /\ h[0] = <<>>
  /\ \A k \in 1..Len(s) : h[k] = IF s[k] \in S THEN Append(h[k - 1], s[k]) ELSE h[k - 1]

LEMMA KeptSteps ==
  ASSUME NEW X, NEW s \in Seq(X), NEW S
  PROVE  \E h \in [0..Len(s) -> Seq(X)] : IsKept(h, s, S) /\ Kept(s, S) = h[Len(s)]
<1> DEFINE n == Len(s)
           D == SUBSET (1..n)
           step == [p \in Seq(X) \X (1..n) |->
                      IF s[p[2]] \in S THEN Append(p[1], s[p[2]]) ELSE p[1]]
           Body(g, t) == IF t = {} THEN <<>>
                         ELSE IF s[Max(t)] \in S
                              THEN Append(g[t \ {Max(t)}], s[Max(t)])
                              ELSE g[t \ {Max(t)}]
           iter == CHOOSE g : g = [t \in D |-> Body(g, t)]
<1>1. n \in Nat /\ DOMAIN s = 1..n /\ \A i \in 1..n : s[i] \in X
  OBVIOUS
<1>2. Kept(s, S) = iter[1..n]
  <2>1. Kept(s, S) = (CHOOSE g : g = [t \in SUBSET (DOMAIN s) |-> Body(g, t)])[DOMAIN s]
    BY DEF Kept, FoldLeft, MapThenFoldSet
  <2> QED
    BY <2>1, <1>1, Zenon
<1>3. step \in [Seq(X) \X (1..n) -> Seq(X)]
  BY <1>1
<1>4. PICK g \in [D -> Seq(X)] : IsFold(g, n, <<>>, step)
  <2>1. <<>> \in Seq(X)
    OBVIOUS
  <2> HIDE DEF step, n
  <2> QED
    BY <1>1, <1>3, <2>1, FoldExists
<1>5. \A t \in D : g[t] = Body(g, t)
  <2> SUFFICES ASSUME NEW t \in D, t # {} PROVE g[t] = Body(g, t)
    BY <1>4 DEF IsFold
  <2>1. Max(t) \in 1..n
    BY <1>1, MaxOfBounded
  <2>2. t \ {Max(t)} \in D
    OBVIOUS
  <2>3. g[t \ {Max(t)}] \in Seq(X)
    BY <2>2, <1>4
  <2> QED
    BY <1>4, <2>1, <2>3 DEF IsFold
<1>6. g = [t \in D |-> Body(g, t)]
  BY <1>4, <1>5
<1>7. iter = [t \in D |-> Body(iter, t)]
  <2> HIDE DEF Body, D
  <2> QED
    BY <1>6
<1>8. iter[{}] = <<>>
  <2>1. {} \in D
    OBVIOUS
  <2> HIDE DEF iter
  <2> QED
    BY <1>7, <2>1
<1>9. ASSUME NEW t \in D, t # {}, iter[t \ {Max(t)}] \in Seq(X)
      PROVE  iter[t] = step[<<iter[t \ {Max(t)}], Max(t)>>]
  <2> HIDE DEF iter
  <2>1. Max(t) \in 1..n
    BY <1>1, <1>9, MaxOfBounded
  <2>2. iter[t] = Body(iter, t)
    <3> HIDE DEF Body
    <3> QED
      BY <1>7
  <2> QED
    BY <1>9, <2>1, <2>2
<1> DEFINE h == Stages(iter, n)
<1>10. /\ h \in [0..n -> Seq(X)]
       /\ h[0] = <<>>
       /\ \A k \in 1..n : h[k] = step[<<h[k - 1], k>>]
       /\ h[n] = iter[1..n]
  <2>1. <<>> \in Seq(X)
    OBVIOUS
  <2> HIDE DEF step, n, iter
  <2>2. \A t \in SUBSET (1..n) : t # {} /\ iter[t \ {Max(t)}] \in Seq(X) =>
          iter[t] = step[<<iter[t \ {Max(t)}], Max(t)>>]
    BY <1>9
  <2>3. RecursesBy(iter, n, Seq(X), <<>>, step)
    BY <1>8, <2>2 DEF RecursesBy
  <2>4. GoesByStages(iter, n, Seq(X), <<>>, step)
    BY <1>1, <1>3, <2>1, <2>3, FoldSteps
  <2> QED
    BY <2>4 DEF GoesByStages
<1>11. ASSUME NEW k \in 1..n
       PROVE  h[k] = IF s[k] \in S THEN Append(h[k - 1], s[k]) ELSE h[k - 1]
  <2>1. k - 1 \in 0..n
    BY <1>1
  <2>2. h[k - 1] \in Seq(X)
    BY <1>10, <2>1
  <2>3. h[k] = step[<<h[k - 1], k>>]
    BY <1>10
  <2> HIDE DEF h
  <2> QED
    BY <2>2, <2>3
<1> HIDE DEF h
<1> QED
  BY <1>2, <1>10, <1>11 DEF IsKept

\* Kept selects the elements that are in the set, each as often as it was there.
THEOREM KeptIsSelection ==
  ASSUME NEW X, NEW s \in Seq(X), NEW S
  PROVE  /\ Kept(s, S) \in Seq(X)
         /\ ToSet(Kept(s, S)) = ToSet(s) \cap S
         /\ IsInjective(s) => IsInjective(Kept(s, S))
<1> DEFINE n == Len(s)
<1>1. n \in Nat /\ DOMAIN s = 1..n /\ \A i \in 1..n : s[i] \in X
  OBVIOUS
<1>kept. PICK h \in [0..n -> Seq(X)] : IsKept(h, s, S) /\ Kept(s, S) = h[n]
  BY KeptSteps
<1>2. /\ h[0] = <<>>
      /\ \A k \in 1..n : h[k] = IF s[k] \in S THEN Append(h[k - 1], s[k]) ELSE h[k - 1]
      /\ Kept(s, S) = h[n]
  BY <1>kept DEF IsKept
<1> HIDE DEF n
<1> DEFINE First(k) == {s[i] : i \in 1..k}
           Selects == {k \in 0..n : /\ ToSet(h[k]) = First(k) \cap S
                                    /\ IsInjective(s) => IsInjective(h[k])}
<1>3. 0 \in Selects
  <2>1. ToSet(<<>>) = {} /\ IsInjective(<<>>)
    BY DEF ToSet, IsInjective
  <2>2. First(0) = {}
    BY EmptyInterval
  <2> QED
    BY <1>1, <1>2, <2>1, <2>2
<1>4. ASSUME NEW k \in 1..n, k - 1 \in Selects PROVE k \in Selects
  <2> DEFINE t == h[k - 1]
  <2>1. k \in 0..n /\ k - 1 \in 0..n /\ t \in Seq(X) /\ s[k] \in X
    BY <1>1, <1>2
  <2>2. ToSet(t) = First(k - 1) \cap S /\ (IsInjective(s) => IsInjective(t))
    BY <1>4
  <2>3. First(k) = First(k - 1) \cup {s[k]}
    <3>1. \A i \in 1..k : i \in 1..(k - 1) \/ i = k
      BY <1>1
    <3>2. k \in 1..k /\ \A i \in 1..(k - 1) : i \in 1..k
      BY <1>1
    <3> QED
      BY <3>1, <3>2
  <2>4. CASE s[k] \notin S
    <3>1. h[k] = t
      BY <1>2, <2>4
    <3> HIDE DEF First, t
    <3> QED
      BY <2>1, <2>2, <2>3, <2>4, <3>1
  <2>5. CASE s[k] \in S
    <3>1. h[k] = Append(t, s[k])
      BY <1>2, <2>5
    <3> HIDE DEF t
    <3>2. /\ DOMAIN t = 1..Len(t) /\ Len(t) \in Nat
          /\ DOMAIN Append(t, s[k]) = 1..(Len(t) + 1)
          /\ Append(t, s[k])[Len(t) + 1] = s[k]
          /\ \A i \in 1..Len(t) : Append(t, s[k])[i] = t[i]
      BY <2>1
    <3>3. ToSet(Append(t, s[k])) = ToSet(t) \cup {s[k]}
      BY <3>2 DEF ToSet
    <3>4. IsInjective(s) => s[k] \notin First(k - 1)
      <4> SUFFICES ASSUME IsInjective(s), NEW i \in 1..(k - 1), s[k] = s[i] PROVE FALSE
        OBVIOUS
      <4>1. i \in DOMAIN s /\ k \in DOMAIN s /\ i # k
        BY <1>1
      <4> QED
        BY <4>1 DEF IsInjective
    <3>5. IsInjective(s) => \A i \in 1..Len(t) : t[i] # s[k]
      BY <2>2, <3>2, <3>4 DEF ToSet
    <3>6. IsInjective(s) => IsInjective(Append(t, s[k]))
      <4> HIDE DEF First
      <4> SUFFICES ASSUME IsInjective(s),
                          NEW i \in 1..(Len(t) + 1), NEW j \in 1..(Len(t) + 1),
                          Append(t, s[k])[i] = Append(t, s[k])[j]
                   PROVE  i = j
        BY <3>2 DEF IsInjective
      <4>1. i \in 1..Len(t) \/ i = Len(t) + 1
        BY <3>2
      <4>2. j \in 1..Len(t) \/ j = Len(t) + 1
        BY <3>2
      <4> QED
        BY <2>2, <3>2, <3>5, <4>1, <4>2 DEF IsInjective
    <3> HIDE DEF First
    <3> QED
      BY <2>1, <2>2, <2>3, <2>5, <3>1, <3>3, <3>6
  <2> QED
    BY <2>4, <2>5
<1>5. n \in Selects
  <2> HIDE DEF Selects
  <2>1. \A k \in 0..n : k \in Selects
    BY <1>1, <1>3, <1>4, InductionUpTo
  <2> QED
    BY <1>1, <2>1
<1>6. First(n) = ToSet(s)
  BY <1>1 DEF ToSet
<1>7. h[n] \in Seq(X)
  BY <1>1, <1>2
<1> HIDE DEF First
<1> QED
  BY <1>2, <1>5, <1>6, <1>7

\* What is kept depends only on which elements of s are in the set.
THEOREM KeptAgrees ==
  ASSUME NEW X, NEW s \in Seq(X), NEW S, NEW T,
         \A i \in DOMAIN s : s[i] \in S <=> s[i] \in T
  PROVE  Kept(s, S) = Kept(s, T)
<1> DEFINE n == Len(s)
<1>1. n \in Nat /\ \A i \in 1..n : s[i] \in S <=> s[i] \in T
  OBVIOUS
<1>kept. PICK h \in [0..n -> Seq(X)] : IsKept(h, s, S) /\ Kept(s, S) = h[n]
  BY KeptSteps
<1>2. /\ h[0] = <<>>
      /\ \A k \in 1..n : h[k] = IF s[k] \in S THEN Append(h[k - 1], s[k]) ELSE h[k - 1]
      /\ Kept(s, S) = h[n]
  BY <1>kept DEF IsKept
<1>other. PICK g \in [0..n -> Seq(X)] : IsKept(g, s, T) /\ Kept(s, T) = g[n]
  BY KeptSteps
<1>3. /\ g[0] = <<>>
      /\ \A k \in 1..n : g[k] = IF s[k] \in T THEN Append(g[k - 1], s[k]) ELSE g[k - 1]
      /\ Kept(s, T) = g[n]
  BY <1>other DEF IsKept
<1> HIDE DEF n
<1> DEFINE Equal == {k \in 0..n : h[k] = g[k]}
<1>4. 0 \in Equal
  BY <1>1, <1>2, <1>3
<1>5. ASSUME NEW k \in 1..n, k - 1 \in Equal PROVE k \in Equal
  <2>1. k \in 0..n /\ h[k - 1] = g[k - 1]
    BY <1>1, <1>5
  <2> QED
    BY <2>1, <1>1, <1>2, <1>3
<1>6. \A k \in 0..n : k \in Equal
  <2> HIDE DEF Equal
  <2> QED
    BY <1>1, <1>4, <1>5, InductionUpTo
<1>7. h[n] = g[n]
  BY <1>1, <1>6
<1> QED
  BY <1>2, <1>3, <1>7
=============================================================================
