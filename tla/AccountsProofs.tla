--------------------------- MODULE AccountsProofs ---------------------------
(***************************************************************************)
(* What holds of Accounts for any number of threads, e-mails, passwords    *)
(* and accounts, however requests overlap and statements fail: an index    *)
(* found in the shared array names the right user, and a request that      *)
(* overlaps no other one keeps to the rules of C, makes no duplicate and   *)
(* answers the truth.                                                      *)
(***************************************************************************)
EXTENDS Accounts, WellFoundedInduction, TLAPS

-----------------------------------------------------------------------------
(* The inductive invariant *)

\* A result set is a prefix of the table: rows are only ever appended.
ResultsAreUsers ==
  \A t \in Thread : \A i \in DOMAIN result[t] :
    i \in DOMAIN users /\ result[t][i] = users[i]

\* A handler is in a lookup of its own kind of request.
StageFits ==
  \A t \in Thread : Busy(t) =>
    /\ request[t] \in Request \ {NoRequest}
    /\ stage[t] \in {"check", "recheck", "reload", "login"}
    /\ stage[t] = "login" => request[t].op = "login"
    /\ stage[t] \in {"recheck", "reload"} => request[t].op = "register"
    /\ pc[t] = "scan" => stage[t] # "reload"
    /\ pc[t] = "add" => stage[t] = "reload"
    /\ pc[t] = "free" => stage[t] # "login"

\* The globals as a request that is alone has left them.
OwnArray(t) ==
  /\ pc[t] \in {"count", "malloc", "fill"} => result[t] = users
  /\ pc[t] \in {"malloc", "fill", "scan"} => countUser = Len(users)
  /\ pc[t] = "fill" => ~user.freed /\ Len(user.cell) = Len(users)
  /\ pc[t] = "scan" => ~user.freed /\ user.cell = users
  /\ pc[t] \in {"add", "free"} => ~user.freed

\* What such a request has learnt of its account.
Learnt(t) ==
  /\ stage[t] = "login" => Registered(request[t].email)
  /\ pc[t] = "free" /\ stage[t] = "reload" =>
       \E i \in DOMAIN users : users[i] = [email    |-> request[t].email,
                                           password |-> request[t].password]
  /\ Registered(request[t].email) =>
       /\ pc[t] = "free" => stage[t] = "reload"
       /\ stage[t] = "recheck" => failures[t] >= 1
       /\ stage[t] = "reload" /\ pc[t] # "free" => failures[t] >= 2

AloneFits ==
  \A t \in Thread : Busy(t) /\ alone[t] =>
    /\ \A o \in Thread \ {t} : ~Busy(o)
    /\ OwnArray(t)
    /\ Learnt(t)

IInv == TypeOK /\ CellsAreUsers /\ ResultsAreUsers /\ StageFits /\ AloneFits

-----------------------------------------------------------------------------
(* Framing lemmas *)

LEMMA InitIInv == Init => IInv
<1> SUFFICES ASSUME Init PROVE IInv
  OBVIOUS
<1>1. \A t \in Thread : ~Busy(t)
  BY DEF Init, All, Busy
<1>2. TypeOK
  <2>1. <<>> \in Seq(Row) /\ <<>> \in Seq(Row \cup {None})
    OBVIOUS
  <2>2. users \in Seq(Row) /\ user \in [cell : Seq(Row \cup {None}), freed : BOOLEAN]
    BY <2>1 DEF Init
  <2>3. result \in [Thread -> Seq(Row)]
    BY <2>1 DEF Init, All
  <2>4. request \in [Thread -> Request]
    BY DEF Init, All, NoRequest, Request
  <2> QED
    BY <2>2, <2>3, <2>4 DEF Init, All, TypeOK, Stages, Replies
<1>3. CellsAreUsers /\ ResultsAreUsers
  BY DEF Init, All, CellsAreUsers, ResultsAreUsers
<1> QED
  BY <1>1, <1>2, <1>3 DEF IInv, StageFits, AloneFits

LEMMA ProcessDiesKeepsIInv ==
  ASSUME IInv, ProcessDies
  PROVE  IInv'
<1>1. \A t \in Thread : ~Busy(t)'
  BY DEF ProcessDies, Fresh, All, Busy
<1>2. TypeOK'
  <2>1. <<>> \in Seq(Row) /\ <<>> \in Seq(Row \cup {None})
    OBVIOUS
  <2>2. users' \in Seq(Row) /\ user' \in [cell : Seq(Row \cup {None}), freed : BOOLEAN]
    BY <2>1 DEF IInv, TypeOK, ProcessDies, Fresh, tables
  <2>3. result' \in [Thread -> Seq(Row)]
    BY <2>1 DEF ProcessDies, Fresh, All
  <2>4. request' \in [Thread -> Request]
    BY DEF ProcessDies, Fresh, All, NoRequest, Request
  <2> QED
    BY <2>2, <2>3, <2>4 DEF ProcessDies, Fresh, All, TypeOK, Stages, Replies
<1>3. CellsAreUsers' /\ ResultsAreUsers'
  BY DEF ProcessDies, Fresh, All, CellsAreUsers, ResultsAreUsers
<1> QED
  BY <1>1, <1>2, <1>3 DEF IInv, StageFits, AloneFits

\* A step of the handler of t concerns t alone.
LEMMA HandlerKeepsStage ==
  ASSUME IInv, NEW t \in Thread,
         \A o \in Thread \ {t} :
           pc'[o] = pc[o] /\ stage'[o] = stage[o] /\ request'[o] = request[o],
         Busy(t)' =>
           /\ request'[t] \in Request \ {NoRequest}
           /\ stage'[t] \in {"check", "recheck", "reload", "login"}
           /\ stage'[t] = "login" => request'[t].op = "login"
           /\ stage'[t] \in {"recheck", "reload"} => request'[t].op = "register"
           /\ pc'[t] = "scan" => stage'[t] # "reload"
           /\ pc'[t] = "add" => stage'[t] = "reload"
           /\ pc'[t] = "free" => stage'[t] # "login"
  PROVE  StageFits'
BY DEF IInv, StageFits, Busy

\* If t is handling a request, nobody else's is alone.
LEMMA HandlerKeepsAlone ==
  ASSUME IInv, NEW t \in Thread, Busy(t),
         \A o \in Thread \ {t} : pc'[o] = pc[o],
         alone' = alone,
         Busy(t)' /\ alone[t] => OwnArray(t)' /\ Learnt(t)'
  PROVE  AloneFits'
<1>1. \A o \in Thread \ {t} : Busy(o) => ~alone[o]
  BY DEF IInv, AloneFits
<1>2. alone[t] => \A o \in Thread \ {t} : ~Busy(o)
  BY DEF IInv, AloneFits
<1> QED
  BY <1>1, <1>2 DEF AloneFits, Busy

-----------------------------------------------------------------------------
(* One lemma per step of a handler *)

\* Another place, another stage and perhaps an answer, for one thread.
LEMMA GoesOn ==
  ASSUME IInv, NEW t \in Thread, NEW p \in {"idle", "select"}, NEW s \in Stages,
         NEW r \in Replies,
         pc' = [pc EXCEPT ![t] = p], stage' = [stage EXCEPT ![t] = s],
         reply' \in {reply, [reply EXCEPT ![t] = r]}
  PROVE  /\ pc' \in [Thread -> {"closed", "idle", "spin", "select", "count", "malloc",
                                "fill", "scan", "add", "free"}]
         /\ stage' \in [Thread -> Stages]
         /\ reply' \in [Thread -> Replies]
         /\ \A o \in Thread \ {t} : pc'[o] = pc[o] /\ stage'[o] = stage[o]
         /\ pc'[t] = p /\ stage'[t] = s
<1>1. /\ pc \in [Thread -> {"closed", "idle", "spin", "select", "count", "malloc",
                            "fill", "scan", "add", "free"}]
      /\ stage \in [Thread -> Stages] /\ reply \in [Thread -> Replies]
  BY DEF IInv, TypeOK
<1>2. pc' \in [Thread -> {"closed", "idle", "spin", "select", "count", "malloc",
                          "fill", "scan", "add", "free"}]
  BY <1>1
<1>3. stage' \in [Thread -> Stages] /\ reply' \in [Thread -> Replies]
  BY <1>1
<1>4. pc'[t] = p /\ stage'[t] = s
  BY <1>1
<1>5. \A o \in Thread \ {t} : pc'[o] = pc[o] /\ stage'[o] = stage[o]
  BY <1>1
<1> QED
  BY <1>2, <1>3, <1>4, <1>5

\* Where checkEmailExist, register_user or login_user goes on.
LEMMA AfterAbsentGoes ==
  ASSUME IInv, NEW t \in Thread, Busy(t), AfterAbsent(t)
  PROVE  /\ pc' \in [Thread -> {"closed", "idle", "spin", "select", "count", "malloc",
                                "fill", "scan", "add", "free"}]
         /\ stage' \in [Thread -> Stages]
         /\ reply' \in [Thread -> Replies]
         /\ \A o \in Thread \ {t} : pc'[o] = pc[o] /\ stage'[o] = stage[o]
         /\ \/ pc'[t] = "idle"
            \/ /\ pc'[t] = "select" /\ request[t].op = "register"
               /\ \/ stage[t] = "check" /\ stage'[t] = "recheck"
                  \/ stage[t] = "recheck" /\ stage'[t] = "reload"
<1>1. /\ stage[t] \in {"recheck", "reload"} => request[t].op = "register"
      /\ {"recheck", "reload", "none"} \subseteq Stages
      /\ {"none", "EMAIL_NOT_FOUND", "FAILED"} \subseteq Replies
  BY DEF IInv, StageFits, Stages, Replies
<1>2. CASE stage[t] = "check" /\ request[t].op = "register" /\ Fetch(t, "recheck")
  BY <1>1, <1>2, GoesOn DEF Fetch
<1>3. CASE stage[t] = "check" /\ request[t].op = "login" /\ Finish(t, "EMAIL_NOT_FOUND")
  BY <1>1, <1>3, GoesOn DEF Finish
<1>4. CASE stage[t] = "recheck" /\ Fetch(t, "reload")
  BY <1>1, <1>4, GoesOn DEF Fetch
<1>5. CASE stage[t] \in {"reload", "login"} /\ Finish(t, "FAILED")
  BY <1>1, <1>5, GoesOn DEF Finish
<1> QED
  BY <1>2, <1>3, <1>4, <1>5 DEF AfterAbsent

LEMMA SelectKeepsIInv ==
  ASSUME IInv, NEW t \in Thread, Select(t)
  PROVE  IInv'
<1>0. Busy(t)
  BY DEF Select, Busy
<1>1. CASE /\ Goto(t, "select", "count")
           /\ result' = [result EXCEPT ![t] = users]
           /\ UNCHANGED <<stage, reply, failures>>
  <2>1. TypeOK'
    BY <1>1 DEF IInv, TypeOK, Select, Goto, tables, array
  <2>2. CellsAreUsers' /\ ResultsAreUsers'
    BY <1>1 DEF IInv, TypeOK, Select, tables, array, CellsAreUsers, ResultsAreUsers
  <2>3. pc'[t] = "count" /\ \A o \in Thread \ {t} : pc'[o] = pc[o]
    BY <1>1 DEF Goto, IInv, TypeOK
  <2>4. StageFits'
    BY <1>0, <1>1, <2>3, HandlerKeepsStage DEF IInv, StageFits, Select
  <2>5. Busy(t)' /\ alone[t] => OwnArray(t)' /\ Learnt(t)'
    BY <1>0, <1>1, <2>3 DEF IInv, TypeOK, AloneFits, OwnArray, Learnt, Registered,
                             Select, Goto, tables, array
  <2>6. AloneFits'
    BY <1>0, <2>3, <2>5, HandlerKeepsAlone DEF Select
  <2> QED
    BY <2>1, <2>2, <2>4, <2>6 DEF IInv
<1>2. CASE AfterAbsent(t) /\ Failed(t) /\ UNCHANGED result
  <2>1. TypeOK'
    BY <1>0, <1>2, AfterAbsentGoes DEF IInv, TypeOK, Select, Failed, tables, array
  <2>2. CellsAreUsers' /\ ResultsAreUsers'
    BY <1>2 DEF IInv, Select, tables, array, CellsAreUsers, ResultsAreUsers
  <2>3. StageFits'
    BY <1>0, <1>2, AfterAbsentGoes, HandlerKeepsStage DEF IInv, StageFits, Select, Busy
  <2>4. failures'[t] = failures[t] + 1 /\ failures[t] \in Nat
    BY <1>2 DEF Failed, IInv, TypeOK
  <2>5. Busy(t)' /\ alone[t] => OwnArray(t)' /\ Learnt(t)'
    BY <1>0, <1>2, <2>4, AfterAbsentGoes
       DEF IInv, AloneFits, StageFits, OwnArray, Learnt, Registered, Select, tables, array, Busy
  <2>6. AloneFits'
    BY <1>0, <1>2, <2>5, AfterAbsentGoes, HandlerKeepsAlone DEF Select
  <2> QED
    BY <2>1, <2>2, <2>3, <2>6 DEF IInv
<1> QED
  BY <1>1, <1>2 DEF Select

LEMMA SetCountKeepsIInv ==
  ASSUME IInv, NEW t \in Thread, SetCount(t)
  PROVE  IInv'
<1>0. Busy(t)
  BY DEF SetCount, Goto, Busy
<1>1. TypeOK'
  BY DEF IInv, TypeOK, SetCount, Goto, tables, noted
<1>2. CellsAreUsers' /\ ResultsAreUsers'
  BY DEF IInv, SetCount, tables, CellsAreUsers, ResultsAreUsers
<1>3. pc'[t] = "malloc" /\ \A o \in Thread \ {t} : pc'[o] = pc[o]
  BY DEF SetCount, Goto, IInv, TypeOK
<1>4. StageFits'
  BY <1>0, <1>3, HandlerKeepsStage DEF IInv, StageFits, SetCount
<1>5. Busy(t)' /\ alone[t] => OwnArray(t)' /\ Learnt(t)'
  BY <1>0, <1>3 DEF IInv, AloneFits, OwnArray, Learnt, Registered, SetCount, Goto, tables, noted
<1>6. AloneFits'
  BY <1>0, <1>3, <1>5, HandlerKeepsAlone DEF SetCount, noted
<1> QED
  BY <1>1, <1>2, <1>4, <1>6 DEF IInv

LEMMA MallocKeepsIInv ==
  ASSUME IInv, NEW t \in Thread, Malloc(t)
  PROVE  IInv'
<1>0. Busy(t)
  BY DEF Malloc, Goto, Busy
<1>1. /\ user'.cell \in Seq({None})
      /\ ~user'.freed
      /\ Len(user'.cell) = Len(result[t])
      /\ user' \in [cell : Seq(Row \cup {None}), freed : BOOLEAN]
  <2>1. Len(result[t]) \in Nat
    BY DEF IInv, TypeOK
  <2>2. [i \in 1..Len(result[t]) |-> None] \in Seq({None})
    BY <2>1
  <2>3. user' = [cell |-> [i \in 1..Len(result[t]) |-> None], freed |-> FALSE]
    BY DEF Malloc
  <2> QED
    BY <2>1, <2>2, <2>3
<1>2. TypeOK'
  BY <1>1 DEF IInv, TypeOK, Malloc, Goto, tables, noted
<1>3. CellsAreUsers' /\ ResultsAreUsers'
  BY <1>1 DEF IInv, Malloc, tables, CellsAreUsers, ResultsAreUsers
<1>4. pc'[t] = "fill" /\ \A o \in Thread \ {t} : pc'[o] = pc[o]
  BY DEF Malloc, Goto, IInv, TypeOK
<1>5. StageFits'
  BY <1>0, <1>4, HandlerKeepsStage DEF IInv, StageFits, Malloc
<1>6. Busy(t)' /\ alone[t] => OwnArray(t)' /\ Learnt(t)'
  BY <1>0, <1>1, <1>4
     DEF IInv, AloneFits, OwnArray, Learnt, Registered, Malloc, Goto, tables, noted
<1>7. AloneFits'
  BY <1>0, <1>4, <1>6, HandlerKeepsAlone DEF Malloc, noted
<1> QED
  BY <1>2, <1>3, <1>5, <1>7 DEF IInv

LEMMA FillKeepsIInv ==
  ASSUME IInv, NEW t \in Thread, Fill(t)
  PROVE  IInv'
<1> DEFINE n == Len(result[t])
           written == [i \in DOMAIN user.cell |-> IF i <= n THEN result[t][i] ELSE user.cell[i]]
           fits == ~user.freed /\ n <= Len(user.cell)
<1>0. Busy(t)
  BY DEF Fill, Goto, Busy
<1>1. /\ n \in Nat /\ result[t] \in Seq(Row)
      /\ user.cell \in Seq(Row \cup {None})
      /\ DOMAIN user.cell = 1..Len(user.cell) /\ Len(user.cell) \in Nat
  BY DEF IInv, TypeOK
<1>2. written \in Seq(Row \cup {None}) /\ Len(written) = Len(user.cell)
  <2>1. \A i \in 1..Len(user.cell) : written[i] \in Row \cup {None}
    BY <1>1
  <2> QED
    BY <1>1, <2>1
<1>3. /\ fits => user' = [user EXCEPT !.cell = written] /\ misused' = misused
      /\ ~fits => user' = user /\ misused' = TRUE
  BY DEF Fill
<1>4. user \in [cell : Seq(Row \cup {None}), freed : BOOLEAN]
  BY DEF IInv, TypeOK
<1>5. /\ fits => user'.cell = written /\ user'.freed = FALSE
      /\ user' \in [cell : Seq(Row \cup {None}), freed : BOOLEAN]
  BY <1>2, <1>3, <1>4
<1>6. /\ pc'[t] \in {"add", "scan"} /\ (pc'[t] = "add" <=> stage[t] = "reload")
      /\ \A o \in Thread \ {t} : pc'[o] = pc[o]
      /\ pc' \in [Thread -> {"closed", "idle", "spin", "select", "count", "malloc",
                             "fill", "scan", "add", "free"}]
  BY DEF Fill, Goto, IInv, TypeOK
<1>7. result' \in [Thread -> Seq(Row)]
  <2>1. <<>> \in Seq(Row)
    OBVIOUS
  <2> QED
    BY <2>1 DEF Fill, IInv, TypeOK
<1>8. TypeOK'
  BY <1>3, <1>5, <1>6, <1>7 DEF Fill, IInv, TypeOK, tables, noted
<1>9. ResultsAreUsers'
  BY DEF Fill, IInv, TypeOK, ResultsAreUsers, tables
<1>10. CellsAreUsers'
  <2>1. CASE fits
    <3>1. DOMAIN user'.cell = DOMAIN user.cell
      BY <1>5, <2>1
    <3>2. ASSUME NEW i \in DOMAIN user.cell, i <= n
          PROVE  i \in DOMAIN users /\ user'.cell[i] = users[i]
      <4>1. i \in DOMAIN result[t] /\ user'.cell[i] = result[t][i]
        BY <1>1, <1>5, <2>1, <3>2
      <4> QED
        BY <4>1 DEF IInv, ResultsAreUsers
    <3>3. ASSUME NEW i \in DOMAIN user.cell, ~(i <= n)
          PROVE  user'.cell[i] = user.cell[i]
      BY <1>5, <2>1, <3>3
    <3>4. users' = users
      BY DEF Fill, tables
    <3> QED
      BY <3>1, <3>2, <3>3, <3>4 DEF IInv, CellsAreUsers
  <2>2. CASE ~fits
    BY <1>3, <2>2 DEF Fill, IInv, CellsAreUsers, tables
  <2> QED
    BY <2>1, <2>2
<1>11. StageFits'
  BY <1>0, <1>6, HandlerKeepsStage DEF IInv, StageFits, Fill
<1>12. ASSUME alone[t] PROVE OwnArray(t)' /\ Learnt(t)'
  <2>1. result[t] = users /\ countUser = Len(users) /\ ~user.freed
        /\ Len(user.cell) = Len(users)
    BY <1>0, <1>12 DEF IInv, AloneFits, OwnArray, Fill, Goto
  <2>2. fits
    BY <1>1, <2>1
  <2>3. user'.cell = users
    <3>1. \A i \in 1..Len(users) : written[i] = users[i]
      BY <1>1, <2>1
    <3>2. user'.cell \in Seq(Row \cup {None}) /\ Len(user'.cell) = Len(users)
      BY <1>2, <1>5, <2>1, <2>2
    <3>3. users \in Seq(Row)
      BY DEF IInv, TypeOK
    <3>4. user'.cell = written
      BY <1>5, <2>2
    <3> HIDE DEF written
    <3> QED
      BY <3>1, <3>2, <3>3, <3>4
  <2>4. OwnArray(t)'
    BY <1>5, <1>6, <2>1, <2>2, <2>3 DEF OwnArray, Fill, tables
  <2>5. Learnt(t)
    BY <1>0, <1>12 DEF IInv, AloneFits
  <2>6. Learnt(t)'
    BY <1>6, <2>5 DEF Learnt, Registered, Fill, Goto, tables, noted
  <2> QED
    BY <2>4, <2>6
<1>13. AloneFits'
  BY <1>0, <1>6, <1>12, HandlerKeepsAlone DEF Fill, noted
<1> QED
  BY <1>8, <1>9, <1>10, <1>11, <1>13 DEF IInv

LEMMA LeastNatural ==
  ASSUME NEW S, S \subseteq Nat, S # {}
  PROVE  \E least \in S : \A k \in S : least <= k
<1> DEFINE less == {p \in Nat \X Nat : p[1] < p[2]}
<1>1. IsWellFoundedOn(less, Nat)
  BY NatLessThanWellFounded DEF OpToRel
<1> HIDE DEF less
<1>2. PICK least \in S : \A k \in S : <<k, least>> \notin less
  BY <1>1, WFMin
<1>3. \A k \in S : ~(k < least)
  BY <1>2 DEF less
<1> QED
  BY <1>3

\* A match among cells that hold rows is the account of a user.
LEMMA FoundIsUser ==
  ASSUME IInv, NEW t \in Thread, NEW i \in 1..countUser, FoundAt(t, i)
  PROVE  /\ i \in DOMAIN users /\ i \in Nat \ {0}
         /\ users[i].email = request[t].email
         /\ stage[t] = "login" => users[i].password = request[t].password
<1>1. countUser \in Nat /\ i \in 1..i
  BY DEF IInv, TypeOK
<1>2. IsRow(i) /\ Match(t, user.cell[i])
  BY <1>1 DEF FoundAt
<1>3. i \in DOMAIN users /\ user.cell[i] = users[i]
  BY <1>2 DEF IsRow, IInv, CellsAreUsers
<1> QED
  BY <1>1, <1>2, <1>3 DEF Match

\* A request that is alone reads the table itself.
LEMMA AloneReadsUsers ==
  ASSUME IInv, NEW t \in Thread, pc[t] = "scan", alone[t]
  PROVE  /\ NotFound(t) \/ \E i \in 1..countUser : FoundAt(t, i)
         /\ NotFound(t) /\ stage[t] # "login" => ~Registered(request[t].email)
<1>1. ~user.freed /\ user.cell = users /\ countUser = Len(users)
  BY DEF IInv, AloneFits, OwnArray, Busy
<1>2. /\ users \in Seq(Row) /\ Len(users) \in Nat
      /\ DOMAIN users = 1..Len(users)
  BY DEF IInv, TypeOK
<1>3. \A i \in 1..countUser : IsRow(i) /\ user.cell[i] = users[i]
  <2>1. \A i \in 1..countUser : users[i] \in Row
    BY <1>1, <1>2
  <2> QED
    BY <1>1, <1>2, <2>1, AccountsAssumption DEF IsRow, Row
<1>4. NotFound(t) /\ stage[t] # "login" => ~Registered(request[t].email)
  BY <1>1, <1>2, <1>3 DEF NotFound, Match, Registered
<1>5. ASSUME ~NotFound(t) PROVE \E i \in 1..countUser : FoundAt(t, i)
  <2> DEFINE Hit(k) == k \in 1..countUser /\ Match(t, user.cell[k])
             hits == {k \in 1..countUser : Match(t, user.cell[k])}
  <2>1. hits # {} /\ hits \subseteq Nat
    BY <1>1, <1>2, <1>3, <1>5 DEF NotFound
  <2> HIDE DEF hits
  <2>2. PICK i \in hits : \A k \in hits : i <= k
    BY <2>1, LeastNatural
  <2> USE DEF hits
  <2>3. FoundAt(t, i)
    BY <1>1, <1>2, <1>3, <2>2 DEF FoundAt
  <2> QED
    BY <2>2, <2>3
<1> QED
  BY <1>4, <1>5

\* An account was found: where its request goes on.
LEMMA AfterFoundGoes ==
  ASSUME IInv, NEW t \in Thread, Busy(t), AfterFound(t)
  PROVE  /\ pc' \in [Thread -> {"closed", "idle", "spin", "select", "count", "malloc",
                                "fill", "scan", "add", "free"}]
         /\ stage' \in [Thread -> Stages]
         /\ reply' \in [Thread -> Replies]
         /\ \A o \in Thread \ {t} : pc'[o] = pc[o] /\ stage'[o] = stage[o]
         /\ stage[t] # "login"
         /\ \/ pc'[t] = "idle"
            \/ /\ pc'[t] = "select" /\ request[t].op = "login"
               /\ stage[t] = "check" /\ stage'[t] = "login"
<1>1. /\ stage[t] = "recheck" => request[t].op = "register"
      /\ {"login", "none"} \subseteq Stages
      /\ {"none", "EMAIL_EXISTED", "FAILED"} \subseteq Replies
  BY DEF IInv, StageFits, Stages, Replies
<1>2. CASE stage[t] = "check" /\ request[t].op = "register" /\ Finish(t, "EMAIL_EXISTED")
  BY <1>1, <1>2, GoesOn DEF Finish
<1>3. CASE stage[t] = "check" /\ request[t].op = "login" /\ Fetch(t, "login")
  BY <1>1, <1>3, GoesOn DEF Fetch
<1>4. CASE stage[t] = "recheck" /\ Finish(t, "FAILED")
  BY <1>1, <1>4, GoesOn DEF Finish
<1> QED
  BY <1>2, <1>3, <1>4 DEF AfterFound

LEMMA WelcomeGoes ==
  ASSUME IInv, NEW t \in Thread, NEW id \in Nat \ {0}, Welcome(t, id)
  PROVE  /\ pc' \in [Thread -> {"closed", "idle", "spin", "select", "count", "malloc",
                                "fill", "scan", "add", "free"}]
         /\ stage' \in [Thread -> Stages]
         /\ reply' \in [Thread -> Replies]
         /\ request' \in [Thread -> Request]
         /\ session' \in [Thread -> (Nat \ {0}) \cup {None}]
         /\ \A o \in Thread \ {t} :
              pc'[o] = pc[o] /\ stage'[o] = stage[o] /\ request'[o] = request[o]
         /\ pc'[t] = "idle"
BY DEF IInv, TypeOK, Welcome, Finish, Stages, Replies, Request, NoRequest

LEMMA ScanKeepsIInv ==
  ASSUME IInv, NEW t \in Thread, Scan(t)
  PROVE  IInv'
<1>0. Busy(t) /\ pc[t] = "scan"
  BY DEF Scan, Busy
<1>1. CellsAreUsers' /\ ResultsAreUsers'
  BY DEF IInv, Scan, tables, CellsAreUsers, ResultsAreUsers
<1>2. misused' \in BOOLEAN
  BY DEF IInv, TypeOK, Scan
<1>3. ASSUME NEW id \in Nat \ {0}, Welcome(t, id)
      PROVE  IInv'
  <2>1. TypeOK'
    BY <1>2, <1>3, WelcomeGoes DEF IInv, TypeOK, Scan, tables, noted
  <2>2. StageFits'
    BY <1>3, WelcomeGoes, HandlerKeepsStage DEF Busy
  <2>3. AloneFits'
    BY <1>0, <1>3, WelcomeGoes, HandlerKeepsAlone DEF Busy, Scan, noted
  <2> QED
    BY <1>1, <2>1, <2>2, <2>3 DEF IInv
<1>4. ASSUME AfterFound(t), UNCHANGED <<request, session>>,
             alone[t] => \E i \in 1..countUser : FoundAt(t, i)
      PROVE  IInv'
  <2>1. TypeOK'
    BY <1>0, <1>2, <1>4, AfterFoundGoes DEF IInv, TypeOK, Scan, tables, noted
  <2>2. StageFits'
    BY <1>0, <1>4, AfterFoundGoes, HandlerKeepsStage DEF IInv, StageFits, Busy
  <2>3. ASSUME alone[t], Busy(t)' PROVE OwnArray(t)' /\ Learnt(t)'
    <3>1. pc'[t] = "select" /\ stage'[t] = "login"
      BY <1>0, <1>4, <2>3, AfterFoundGoes DEF Busy
    <3>2. Registered(request[t].email)
      BY <1>4, <2>3, FoundIsUser DEF Registered
    <3> QED
      BY <1>4, <3>1, <3>2 DEF OwnArray, Learnt, Registered, Scan, tables
  <2>4. AloneFits'
    BY <1>0, <1>4, <2>3, AfterFoundGoes, HandlerKeepsAlone DEF Scan, noted
  <2> QED
    BY <1>1, <2>1, <2>2, <2>4 DEF IInv
<1>5. ASSUME Absent(t), UNCHANGED <<request, session>>, alone[t] => NotFound(t)
      PROVE  IInv'
  <2>1. CASE stage[t] = "login"
    <3>1. AfterAbsent(t)
      BY <1>5, <2>1 DEF Absent
    <3>2. pc'[t] = "idle"
      BY <1>0, <2>1, <3>1, AfterAbsentGoes DEF IInv, StageFits
    <3>3. TypeOK'
      BY <1>0, <1>2, <1>5, <3>1, AfterAbsentGoes DEF IInv, TypeOK, Scan, tables, noted
    <3>4. StageFits'
      BY <1>0, <1>5, <3>1, <3>2, AfterAbsentGoes, HandlerKeepsStage DEF Busy
    <3>5. AloneFits'
      BY <1>0, <3>1, <3>2, AfterAbsentGoes, HandlerKeepsAlone DEF Busy, Scan, noted
    <3> QED
      BY <1>1, <3>3, <3>4, <3>5 DEF IInv
  <2>2. CASE stage[t] # "login"
    <3>1. pc' = [pc EXCEPT ![t] = "free"] /\ UNCHANGED <<stage, reply>>
      BY <1>5, <2>2 DEF Absent
    <3>2. pc'[t] = "free" /\ \A o \in Thread \ {t} : pc'[o] = pc[o]
      BY <3>1 DEF IInv, TypeOK
    <3>3. TypeOK'
      BY <1>2, <1>5, <3>1 DEF IInv, TypeOK, Scan, tables, noted
    <3>4. StageFits'
      BY <1>0, <1>5, <2>2, <3>1, <3>2, HandlerKeepsStage DEF IInv, StageFits
    <3>5. ASSUME alone[t] PROVE OwnArray(t)' /\ Learnt(t)'
      <4>1. ~Registered(request[t].email)
        BY <1>0, <1>5, <2>2, <3>5, AloneReadsUsers
      <4>2. ~user.freed /\ stage[t] # "reload"
        BY <1>0, <3>5 DEF IInv, AloneFits, OwnArray, StageFits
      <4> QED
        BY <1>5, <2>2, <3>1, <3>2, <4>1, <4>2 DEF OwnArray, Learnt, Registered, Scan, tables
    <3>6. AloneFits'
      BY <1>0, <3>2, <3>5, HandlerKeepsAlone DEF Scan, noted
    <3> QED
      BY <1>1, <3>3, <3>4, <3>6 DEF IInv
  <2> QED
    BY <2>1, <2>2
<1>6. alone[t] => NotFound(t) \/ \E i \in 1..countUser : FoundAt(t, i)
  BY <1>0, AloneReadsUsers
<1>7. CASE \E i \in 1..countUser : FoundAt(t, i) /\ Welcome(t, UserId(i))
  BY <1>3, <1>7, FoundIsUser DEF UserId
<1>8. CASE /\ (\E i \in 1..countUser : FoundAt(t, i))
                \/ ~(NotFound(t) \/ \E i \in 1..countUser : FoundAt(t, i))
           /\ AfterFound(t) /\ UNCHANGED <<request, session>>
  BY <1>4, <1>6, <1>8
<1>9. CASE /\ NotFound(t) \/ ~(NotFound(t) \/ \E i \in 1..countUser : FoundAt(t, i))
           /\ Absent(t) /\ UNCHANGED <<request, session>>
  BY <1>5, <1>6, <1>9
<1>10. CASE \E id \in 1..MaxUsers : Welcome(t, id)
  BY <1>3, <1>10, AccountsAssumption
<1> QED
  BY <1>7, <1>8, <1>9, <1>10 DEF Scan

LEMMA AddUserKeepsIInv ==
  ASSUME IInv, NEW t \in Thread, AddUser(t)
  PROVE  IInv'
<1> DEFINE row == [email |-> request[t].email, password |-> request[t].password]
<1>0. Busy(t) /\ pc[t] = "add" /\ stage[t] = "reload"
  BY DEF AddUser, Busy, IInv, StageFits
<1>1. row \in Row
  BY <1>0 DEF IInv, StageFits, Request, NoRequest, Row
<1>2. users \in Seq(Row)
  BY DEF IInv, TypeOK
<1>3. CASE /\ users' = Append(users, row)
           /\ Goto(t, "add", "free")
           /\ UNCHANGED <<stage, reply, failures>>
  <2>1. /\ users' \in Seq(Row) /\ Len(users') = Len(users) + 1
        /\ users'[Len(users')] = row
        /\ \A i \in DOMAIN users : i \in DOMAIN users' /\ users'[i] = users[i]
    BY <1>1, <1>2, <1>3
  <2>2. TypeOK'
    BY <1>3, <2>1 DEF IInv, TypeOK, AddUser, Goto, array
  <2>3. CellsAreUsers' /\ ResultsAreUsers'
    BY <2>1 DEF IInv, CellsAreUsers, ResultsAreUsers, AddUser, array
  <2>4. pc'[t] = "free" /\ \A o \in Thread \ {t} : pc'[o] = pc[o]
    BY <1>3 DEF Goto, IInv, TypeOK
  <2>5. StageFits'
    BY <1>0, <1>3, <2>4, HandlerKeepsStage DEF IInv, StageFits, AddUser
  <2>6. ASSUME alone[t] PROVE OwnArray(t)' /\ Learnt(t)'
    <3>1. ~user.freed
      BY <1>0, <2>6 DEF IInv, AloneFits, OwnArray
    <3>2. Len(users') \in DOMAIN users'
      BY <1>2, <2>1
    <3> QED
      BY <1>0, <1>3, <2>1, <2>4, <3>1, <3>2 DEF OwnArray, Learnt, AddUser, array
  <2>7. AloneFits'
    BY <1>0, <2>4, <2>6, HandlerKeepsAlone DEF AddUser
  <2> QED
    BY <2>2, <2>3, <2>5, <2>7 DEF IInv
<1>4. CASE Finish(t, "FAILED") /\ Failed(t) /\ UNCHANGED tables
  <2>1. pc'[t] = "idle" /\ \A o \in Thread \ {t} : pc'[o] = pc[o] /\ stage'[o] = stage[o]
    BY <1>4 DEF Finish, IInv, TypeOK
  <2>2. TypeOK'
    BY <1>4 DEF IInv, TypeOK, AddUser, Finish, Failed, Stages, Replies, array, tables
  <2>3. CellsAreUsers' /\ ResultsAreUsers'
    BY <1>4 DEF IInv, CellsAreUsers, ResultsAreUsers, AddUser, array, tables
  <2>4. StageFits'
    BY <2>1, HandlerKeepsStage DEF AddUser, Busy
  <2>5. AloneFits'
    BY <1>0, <2>1, HandlerKeepsAlone DEF AddUser, Busy
  <2> QED
    BY <2>2, <2>3, <2>4, <2>5 DEF IInv
<1> QED
  BY <1>3, <1>4 DEF AddUser

LEMMA FreeKeepsIInv ==
  ASSUME IInv, NEW t \in Thread, Free(t)
  PROVE  IInv'
<1>0. Busy(t) /\ pc[t] = "free"
  BY DEF Free, Busy
<1>1. /\ user' \in [cell : Seq(Row \cup {None}), freed : BOOLEAN]
      /\ user'.cell = user.cell /\ misused' \in BOOLEAN
  <2>1. user \in [cell : Seq(Row \cup {None}), freed : BOOLEAN] /\ misused \in BOOLEAN
    BY DEF IInv, TypeOK
  <2>2. user' = user \/ user' = [user EXCEPT !.freed = TRUE]
    BY DEF Free
  <2> QED
    BY <2>1, <2>2 DEF Free
<1>2. CellsAreUsers' /\ ResultsAreUsers'
  BY <1>1 DEF IInv, CellsAreUsers, ResultsAreUsers, Free, tables
<1>3. CASE stage[t] = "reload" /\ Finish(t, "SUCCESS")
  <2>1. pc'[t] = "idle" /\ \A o \in Thread \ {t} : pc'[o] = pc[o] /\ stage'[o] = stage[o]
    BY <1>3 DEF Finish, IInv, TypeOK
  <2>2. TypeOK'
    BY <1>1, <1>3 DEF IInv, TypeOK, Free, Finish, Stages, Replies, noted, tables
  <2>3. StageFits'
    BY <2>1, HandlerKeepsStage DEF Free, Busy
  <2>4. AloneFits'
    BY <1>0, <2>1, HandlerKeepsAlone DEF Free, Busy, noted
  <2> QED
    BY <1>2, <2>2, <2>3, <2>4 DEF IInv
<1>4. CASE stage[t] # "reload" /\ AfterAbsent(t)
  <2>1. TypeOK'
    BY <1>0, <1>1, <1>4, AfterAbsentGoes DEF IInv, TypeOK, Free, noted, tables
  <2>2. StageFits'
    BY <1>0, <1>4, AfterAbsentGoes, HandlerKeepsStage DEF IInv, StageFits, Free, Busy
  <2>3. ASSUME alone[t], Busy(t)' PROVE OwnArray(t)' /\ Learnt(t)'
    <3>1. pc'[t] = "select" /\ stage'[t] \in {"recheck", "reload"}
      BY <1>0, <1>4, <2>3, AfterAbsentGoes DEF Busy
    <3>2. ~Registered(request[t].email)
      BY <1>0, <1>4, <2>3 DEF IInv, AloneFits, Learnt
    <3> QED
      BY <3>1, <3>2 DEF OwnArray, Learnt, Registered, Free, tables
  <2>4. AloneFits'
    BY <1>0, <1>4, <2>3, AfterAbsentGoes, HandlerKeepsAlone DEF Free, noted
  <2> QED
    BY <1>2, <2>1, <2>2, <2>4 DEF IInv
<1> QED
  BY <1>3, <1>4 DEF Free

-----------------------------------------------------------------------------
(* Connections and messages *)

LEMMA ReceiveKeepsIInv ==
  ASSUME IInv, NEW t \in Thread, NEW r \in Request \ {NoRequest}, Receive(t, r)
  PROVE  IInv'
<1>0. pc[t] = "idle" /\ ~Busy(t)
  BY DEF Receive, Goto, Busy
<1>1. TypeOK'
  BY DEF IInv, TypeOK, Receive, Goto, All, Stages, Replies, tables, array
<1>2. CellsAreUsers' /\ ResultsAreUsers'
  BY DEF IInv, CellsAreUsers, ResultsAreUsers, Receive, tables, array
<1>3. /\ pc'[t] = "select" /\ stage'[t] = "check" /\ request'[t] = r
      /\ \A o \in Thread \ {t} :
           pc'[o] = pc[o] /\ stage'[o] = stage[o] /\ request'[o] = request[o]
  BY DEF Receive, Goto, IInv, TypeOK
<1>4. StageFits'
  BY <1>3, HandlerKeepsStage
<1>5. \A p \in Thread : alone'[p] => \A o \in Thread : ~Busy(o)
  BY DEF Receive, All
<1>6. AloneFits'
  BY <1>0, <1>3, <1>5 DEF AloneFits, OwnArray, Learnt, Busy
<1> QED
  BY <1>1, <1>2, <1>4, <1>6 DEF IInv

\* What happens to a connection whose thread handles no request.
LEMMA ConnectionKeepsIInv ==
  ASSUME IInv, NEW t \in Thread,
         Accept(t) \/ Logout(t) \/ ReadPadding(t) \/ Disconnect(t)
  PROVE  IInv'
<1>1. CASE ProcessDies
  BY <1>1, ProcessDiesKeepsIInv
<1>2. CASE ~ProcessDies
  <2>1. ~Busy(t) /\ ~Busy(t)'
    BY <1>2 DEF Accept, Logout, ReadPadding, Disconnect, Goto, Busy, IInv, TypeOK
  <2>2. \A o \in Thread \ {t} : pc'[o] = pc[o] /\ request'[o] = request[o]
    BY <1>2 DEF Accept, Logout, ReadPadding, Disconnect, Goto, IInv, TypeOK
  <2>3. UNCHANGED <<users, user, countUser, misused, stage, result, alone, failures>>
    BY <1>2 DEF Accept, Logout, ReadPadding, Disconnect, tables, array, noted
  <2>4. TypeOK'
    <3>1. pc' \in [Thread -> {"closed", "idle", "spin", "select", "count", "malloc",
                              "fill", "scan", "add", "free"}]
      BY <1>2 DEF Accept, Logout, ReadPadding, Disconnect, Goto, IInv, TypeOK
    <3>2. request' \in [Thread -> Request] /\ reply' \in [Thread -> Replies]
      <4>1. NoRequest \in Request /\ "none" \in Replies
        BY DEF NoRequest, Request, Replies
      <4>2. /\ request' \in {request, [request EXCEPT ![t] = NoRequest]}
            /\ reply' \in {reply, [reply EXCEPT ![t] = "none"]}
        <5>1. CASE Accept(t)
          BY <5>1 DEF Accept
        <5>2. CASE Logout(t)
          BY <5>2 DEF Logout
        <5>4. CASE ReadPadding(t)
          BY <5>4 DEF ReadPadding
        <5>3. CASE Disconnect(t)
          BY <1>2, <5>3 DEF Disconnect
        <5> QED
          BY <1>2, <5>1, <5>2, <5>3, <5>4
      <4>3. request \in [Thread -> Request] /\ reply \in [Thread -> Replies]
        BY DEF IInv, TypeOK
      <4> QED
        BY <4>1, <4>2, <4>3
    <3>3. session' \in [Thread -> (Nat \ {0}) \cup {None}]
      BY <1>2 DEF Accept, Logout, ReadPadding, Disconnect, IInv, TypeOK
    <3> QED
      BY <2>3, <3>1, <3>2, <3>3 DEF IInv, TypeOK
  <2>5. CellsAreUsers' /\ ResultsAreUsers'
    BY <2>3 DEF IInv, CellsAreUsers, ResultsAreUsers
  <2>6. StageFits'
    BY <2>1, <2>2, <2>3, HandlerKeepsStage
  <2>7. AloneFits'
    <3> SUFFICES ASSUME NEW p \in Thread, Busy(p)', alone'[p]
                 PROVE  /\ \A o \in Thread \ {p} : ~Busy(o)'
                        /\ OwnArray(p)'
                        /\ Learnt(p)'
      BY DEF AloneFits
    <3>1. p # t /\ pc'[p] = pc[p] /\ request'[p] = request[p] /\ Busy(p) /\ alone[p]
      BY <2>1, <2>2, <2>3 DEF Busy
    <3>2. /\ \A o \in Thread \ {p} : ~Busy(o)
          /\ OwnArray(p)
          /\ Learnt(p)
      BY <3>1 DEF IInv, AloneFits
    <3>3. \A o \in Thread \ {p} : ~Busy(o)'
      BY <2>1, <2>2, <3>2 DEF Busy
    <3>4. OwnArray(p)'
      BY <2>3, <3>1, <3>2 DEF OwnArray
    <3>5. Learnt(p)'
      BY <2>3, <3>1, <3>2 DEF Learnt, Registered
    <3> QED
      BY <3>3, <3>4, <3>5
  <2> QED
    BY <2>4, <2>5, <2>6, <2>7 DEF IInv
<1> QED
  BY <1>1, <1>2

LEMMA NextKeepsIInv == IInv /\ [Next]_vars => IInv'
<1> SUFFICES ASSUME IInv, [Next]_vars PROVE IInv'
  OBVIOUS
<1>1. CASE UNCHANGED vars
  BY <1>1 DEF vars, tables, array, local, noted, IInv, TypeOK, CellsAreUsers,
              ResultsAreUsers, StageFits, AloneFits, OwnArray, Learnt, Registered, Busy
<1>2. CASE ProcessDies
  BY <1>2, ProcessDiesKeepsIInv
<1>3. ASSUME NEW t \in Thread, Accept(t) \/ Logout(t) \/ ReadPadding(t) \/ Disconnect(t) PROVE IInv'
  BY <1>3, ConnectionKeepsIInv
<1>4. ASSUME NEW t \in Thread, Ask(t) PROVE IInv'
  BY <1>4, ReceiveKeepsIInv DEF Ask
<1>5. ASSUME NEW t \in Thread, Handle(t) PROVE IInv'
  BY <1>5, SelectKeepsIInv, SetCountKeepsIInv, MallocKeepsIInv, FillKeepsIInv,
     ScanKeepsIInv, AddUserKeepsIInv, FreeKeepsIInv DEF Handle
<1> QED
  BY <1>1, <1>2, <1>3, <1>4, <1>5 DEF Next

LEMMA Invariance == Spec => []IInv
BY InitIInv, NextKeepsIInv, PTL DEF Spec

-----------------------------------------------------------------------------
(* Theorems *)

(* The variables of the account handlers keep their types, the undefined   *)
(* outcomes of racing threads included (auth.c, user.c).                   *)
THEOREM TypeCorrect == Spec => []TypeOK
<1>1. IInv => TypeOK
  BY DEF IInv
<1> QED
  BY Invariance, <1>1, PTL

(* A cell of the shared array that holds a row holds the user of its index *)
(* (user.c:31-38).                                                         *)
THEOREM ArrayIsTable == Spec => []CellsAreUsers
<1>1. IInv => CellsAreUsers
  BY DEF IInv
<1> QED
  BY Invariance, <1>1, PTL

(* A login that did not rest on undefined bytes is let in as the user with *)
(* its e-mail and password (auth.c:96-113).                                *)
THEOREM LoginsAreOwn == Spec => LoginIsOwn
<1> DEFINE Own == \A t \in Thread :
              session'[t] \notin {None, session[t]} /\ ~misused' =>
                /\ users[session'[t]].email = request[t].email
                /\ users[session'[t]].password = request[t].password
<1>1. ASSUME IInv, [Next]_vars PROVE Own
  <2> SUFFICES ASSUME NEW p \in Thread, session'[p] \notin {None, session[p]}, ~misused'
               PROVE  /\ users[session'[p]].email = request[p].email
                      /\ users[session'[p]].password = request[p].password
    OBVIOUS
  <2>1. PICK t \in Thread : Scan(t)
    <3>1. session \in [Thread -> (Nat \ {0}) \cup {None}]
      BY <1>1 DEF IInv, TypeOK
    <3>2. ~ProcessDies
      BY DEF ProcessDies, Fresh, All
    <3>3. \A t \in Thread : ~Accept(t) /\ ~Logout(t)
      BY <3>1 DEF Accept, Logout
    <3>4. \A t \in Thread : ~ReadPadding(t) /\ ~Disconnect(t)
      BY <3>1, <3>2 DEF ReadPadding, Disconnect
    <3>5. \A t \in Thread : ~Ask(t) /\ ~Select(t) /\ ~SetCount(t) /\ ~Malloc(t)
      BY DEF Ask, Receive, Select, SetCount, Malloc
    <3>6. \A t \in Thread : ~Fill(t) /\ ~AddUser(t) /\ ~Free(t)
      BY DEF Fill, AddUser, Free
    <3>7. ~UNCHANGED vars
      BY DEF vars, local
    <3> QED
      BY <1>1, <3>2, <3>3, <3>4, <3>5, <3>6, <3>7 DEF Next, Handle
  <2>2. PICK i \in 1..countUser : FoundAt(t, i) /\ Welcome(t, UserId(i))
    BY <2>1 DEF Scan
  <2>3. p = t /\ session'[p] = i /\ stage[t] = "login"
    BY <1>1, <2>2 DEF Welcome, UserId, IInv, TypeOK
  <2> QED
    BY <1>1, <2>2, <2>3, FoundIsUser
<1>2. IInv /\ [Next]_vars => [Own]_vars
  BY <1>1
<1> QED
  BY Invariance, <1>2, PTL DEF Spec, LoginIsOwn

(* A request that overlaps no other one uses the array as C allows,        *)
(* whatever earlier ones left in the globals (auth.c:10, 54-113).          *)
THEOREM MisuseIsARace == Spec => MisuseNeedsOverlap
<1> DEFINE Raced == misused' /\ ~misused => \E t \in Thread : pc'[t] # pc[t] /\ ~alone[t]
<1>1. ASSUME IInv, [Next]_vars PROVE Raced
  <2> SUFFICES ASSUME misused', ~misused PROVE \E t \in Thread : pc'[t] # pc[t] /\ ~alone[t]
    OBVIOUS
  <2>1. PICK t \in Thread : Fill(t) \/ Scan(t) \/ Free(t)
    BY <1>1 DEF Next, vars, array, ProcessDies, Fresh, Accept, Ask, Receive, Logout,
                ReadPadding, Disconnect, Handle, Select, SetCount, Malloc, AddUser
  <2>2. CASE Fill(t)
    <3>1. pc'[t] # pc[t] /\ Busy(t)
      BY <1>1, <2>2 DEF Fill, Goto, IInv, TypeOK, Busy
    <3>2. ~(~user.freed /\ Len(result[t]) <= Len(user.cell))
      BY <2>2 DEF Fill
    <3>3. Len(users) \in Nat
      BY <1>1 DEF IInv, TypeOK
    <3>4. ~alone[t]
      BY <1>1, <2>2, <3>1, <3>2, <3>3 DEF IInv, AloneFits, OwnArray, Fill, Goto
    <3> QED
      BY <3>1, <3>4
  <2>3. CASE Scan(t)
    <3>1. ~(NotFound(t) \/ \E i \in 1..countUser : FoundAt(t, i)) /\ pc[t] = "scan"
      BY <2>3 DEF Scan
    <3>2. ~alone[t]
      BY <1>1, <3>1, AloneReadsUsers
    <3>3. pc'[t] # "scan"
      BY <1>1, <2>3 DEF Scan, Welcome, AfterFound, Absent, AfterAbsent, Fetch, Finish,
                        IInv, TypeOK
    <3> QED
      BY <3>1, <3>2, <3>3
  <2>4. CASE Free(t)
    <3>1. user.freed /\ pc[t] = "free"
      BY <2>4 DEF Free
    <3>2. ~alone[t]
      BY <1>1, <3>1 DEF IInv, AloneFits, OwnArray, Busy
    <3>3. pc'[t] # "free"
      BY <1>1, <2>4 DEF Free, AfterAbsent, Fetch, Finish, IInv, TypeOK
    <3> QED
      BY <3>1, <3>2, <3>3
  <2> QED
    BY <2>1, <2>2, <2>3, <2>4
<1>2. IInv /\ [Next]_vars => [Raced]_vars
  BY <1>1
<1> QED
  BY Invariance, <1>2, PTL DEF Spec, MisuseNeedsOverlap

(* A second account for an e-mail takes an overlapping request or two      *)
(* failing looks for it (server.c:152-155, auth.c:54-57, 70).              *)
THEOREM DuplicatesAreExplained == Spec => DuplicateNeedsOverlapOrFailures
<1> DEFINE Explained ==
             Len(users') > Len(users) =>
               \E t \in Thread :
                 /\ pc[t] = "add" /\ pc'[t] = "free"
                 /\ Registered(request[t].email) => ~alone[t] \/ failures[t] >= 2
<1>1. ASSUME IInv, [Next]_vars PROVE Explained
  <2> SUFFICES ASSUME Len(users') > Len(users)
               PROVE  \E t \in Thread :
                        /\ pc[t] = "add" /\ pc'[t] = "free"
                        /\ Registered(request[t].email) => ~alone[t] \/ failures[t] >= 2
    OBVIOUS
  <2>0. users' # users
    <3>1. Len(users) \in Nat
      BY <1>1 DEF IInv, TypeOK
    <3> QED
      BY <3>1
  <2>1. PICK t \in Thread : AddUser(t)
    <3>1. PICK t \in Thread : Accept(t) \/ Ask(t) \/ Logout(t) \/ ReadPadding(t) \/ Disconnect(t) \/ Handle(t)
      BY <1>1, <2>0 DEF Next, vars, tables, ProcessDies
    <3>2. ~(Accept(t) \/ Ask(t) \/ Logout(t) \/ ReadPadding(t) \/ Disconnect(t))
      BY <2>0 DEF Accept, Ask, Receive, Logout, ReadPadding, Disconnect, ProcessDies, tables
    <3>3. ~(Select(t) \/ SetCount(t) \/ Malloc(t) \/ Fill(t) \/ Scan(t) \/ Free(t))
      BY <2>0 DEF Select, SetCount, Malloc, Fill, Scan, Free, tables
    <3> QED
      BY <3>1, <3>2, <3>3 DEF Handle
  <2>2. pc[t] = "add" /\ pc'[t] = "free"
    BY <1>1, <2>0, <2>1 DEF AddUser, Goto, tables, IInv, TypeOK
  <2>3. Registered(request[t].email) /\ alone[t] => failures[t] >= 2
    BY <1>1, <2>2 DEF IInv, StageFits, AloneFits, Learnt, Busy
  <2> QED
    BY <2>2, <2>3
<1>2. IInv /\ [Next]_vars => [Explained]_vars
  BY <1>1
<1> QED
  BY Invariance, <1>2, PTL DEF Spec, DuplicateNeedsOverlapOrFailures

(* Alone and without failing statements, every answer is the truth about   *)
(* the account it concerns (server.c:152-185).                             *)
THEOREM AnswersAreTrue == Spec => AnswersTrue
<1> DEFINE Truth == \A t \in Thread :
              Busy(t) /\ pc'[t] = "idle" /\ alone[t] /\ failures'[t] = 0 =>
                Says(reply'[t], request[t])
<1>1. ASSUME IInv, [Next]_vars PROVE Truth
  <2> SUFFICES ASSUME NEW p \in Thread, Busy(p), pc'[p] = "idle", alone[p], failures'[p] = 0
               PROVE  Says(reply'[p], request[p])
    OBVIOUS
  <2>1. \A o \in Thread \ {p} : ~Busy(o)
    BY <1>1 DEF IInv, AloneFits
  <2>2. Select(p) \/ Scan(p) \/ AddUser(p) \/ Free(p)
    <3>1. PICK t \in Thread : \/ Accept(t) \/ Ask(t) \/ Logout(t) \/ ReadPadding(t) \/ Disconnect(t)
                              \/ Handle(t) \/ ProcessDies
      BY <1>1 DEF Next, vars, local, Busy
    <3>2. Handle(t) => t = p
      BY <2>1 DEF Handle, Select, SetCount, Malloc, Fill, Scan, AddUser, Free, Goto, Busy
    <3>3. ~ProcessDies
      BY DEF ProcessDies, Fresh, All
    <3>4. ~(Accept(t) \/ Ask(t) \/ Logout(t) \/ ReadPadding(t) \/ Disconnect(t))
      BY <1>1, <3>3 DEF Accept, Ask, Receive, Logout, ReadPadding, Disconnect, Goto, Busy, IInv, TypeOK
    <3> QED
      BY <1>1, <3>1, <3>2, <3>3, <3>4
         DEF Handle, SetCount, Malloc, Fill, Goto, IInv, TypeOK
  <2>3. Learnt(p) /\ OwnArray(p)
    BY <1>1 DEF IInv, AloneFits
  <2>4. failures[p] \in Nat
    BY <1>1 DEF IInv, TypeOK
  <2>5. CASE Select(p)
    <3>1. failures'[p] = failures[p] + 1
      BY <1>1, <2>5 DEF Select, Goto, Failed, IInv, TypeOK
    <3> QED
      BY <2>4, <3>1
  <2>6. CASE AddUser(p)
    <3>1. failures'[p] = failures[p] + 1
      BY <1>1, <2>6 DEF AddUser, Goto, Failed, IInv, TypeOK
    <3> QED
      BY <2>4, <3>1
  <2>7. CASE Free(p)
    <3>1. pc[p] = "free" /\ failures[p] = 0
      BY <2>7 DEF Free, noted
    <3>2. CASE stage[p] = "reload"
      <4>1. reply'[p] = "SUCCESS"
        BY <1>1, <2>7, <3>2 DEF Free, Finish, IInv, TypeOK
      <4> QED
        BY <2>3, <3>1, <3>2, <4>1 DEF Learnt, Says
    <3>3. CASE stage[p] # "reload"
      <4>1. ~Registered(request[p].email)
        BY <2>3, <3>1, <3>3 DEF Learnt
      <4>2. reply'[p] = "EMAIL_NOT_FOUND"
        BY <1>1, <2>7, <3>1, <3>3
           DEF Free, AfterAbsent, Fetch, Finish, IInv, StageFits, TypeOK, Busy
      <4> QED
        BY <4>1, <4>2 DEF Says
    <3> QED
      BY <3>2, <3>3
  <2>8. CASE Scan(p)
    <3>1. pc[p] = "scan" /\ failures[p] = 0 /\ stage[p] # "reload"
      BY <1>1, <2>8 DEF Scan, noted, IInv, StageFits, Busy
    <3>2. NotFound(p) \/ \E i \in 1..countUser : FoundAt(p, i)
      BY <1>1, <3>1, AloneReadsUsers
    <3>3. CASE \E i \in 1..countUser : FoundAt(p, i) /\ Welcome(p, UserId(i))
      <4>1. PICK i \in 1..countUser : FoundAt(p, i) /\ Welcome(p, UserId(i))
        BY <3>3
      <4>2. stage[p] = "login" /\ reply'[p] = "SUCCESS"
        BY <1>1, <4>1 DEF Welcome, Finish, IInv, TypeOK
      <4>3. /\ i \in DOMAIN users /\ users[i].email = request[p].email
            /\ users[i].password = request[p].password
        BY <1>1, <4>1, <4>2, FoundIsUser
      <4>4. users[i] \in Row
        BY <1>1, <4>3 DEF IInv, TypeOK
      <4>5. users[i] = [email |-> request[p].email, password |-> request[p].password]
        BY <4>3, <4>4 DEF Row
      <4> QED
        BY <4>2, <4>3, <4>5 DEF Says
    <3>4. CASE AfterFound(p) /\ \E i \in 1..countUser : FoundAt(p, i)
      <4>1. Registered(request[p].email)
        BY <1>1, <3>4, FoundIsUser DEF Registered
      <4>2. stage[p] # "recheck"
        BY <2>3, <3>1, <4>1 DEF Learnt
      <4>3. reply'[p] = "EMAIL_EXISTED"
        BY <1>1, <3>4, <4>2 DEF AfterFound, Fetch, Finish, IInv, TypeOK
      <4> QED
        BY <4>1, <4>3 DEF Says
    <3>5. CASE Absent(p)
      <4>1. stage[p] = "login"
        BY <1>1, <3>1, <3>5 DEF Absent, IInv, TypeOK
      <4>2. reply'[p] = "FAILED" /\ request[p].op = "login"
        BY <1>1, <3>5, <4>1 DEF Absent, AfterAbsent, Finish, IInv, TypeOK, StageFits
      <4>3. Registered(request[p].email)
        BY <2>3, <4>1 DEF Learnt
      <4> QED
        BY <4>2, <4>3 DEF Says
    <3> QED
      BY <2>8, <3>2, <3>3, <3>4, <3>5 DEF Scan
  <2> QED
    BY <2>2, <2>5, <2>6, <2>7, <2>8
<1>2. IInv /\ [Next]_vars => [Truth]_vars
  BY <1>1
<1> QED
  BY Invariance, <1>2, PTL DEF Spec, AnswersTrue
=============================================================================
