------------------------------ MODULE WireProofs ------------------------------
(***************************************************************************)
(* What holds of Wire for lists of any sizes the application's buffer has  *)
(* room for, and any number of requests: without marks between messages,   *)
(* the ends still understand each other unless the network cuts one.       *)
(***************************************************************************)
EXTENDS Wire, SequenceTheorems, TLAPS

\* A list fits the 4095 bytes of a recv, the taken seats with their number.
ListsFit == TextCells \subseteq 1..ClientRead /\ SeatCells \subseteq 1..(ClientRead - 1)

-----------------------------------------------------------------------------
(* The inductive invariant *)

IsRequest(x) == x \notin {"zeros", "LOGOUT"}

\* At most one request that will be answered is on its way, the one asked last.
OneRequest ==
  /\ \A i, j \in DOMAIN toServer : IsRequest(toServer[i]) /\ IsRequest(toServer[j]) => i = j
  /\ \A i \in DOMAIN toServer : IsRequest(toServer[i]) =>
       toServer[i] = asked.kind /\ awaits = FirstRecv(asked.kind) /\ toClient = <<>>

\* What has come and is not received yet is what is awaited, to its end.
AnswerFits ==
  \/ toClient = <<>>
  \/ /\ awaits = "count" /\ asked.kind \in Lists
     /\ \E n \in TextCells : toClient = Sent("count", 1) \o Sent("text", n)
  \/ /\ awaits = "count" /\ asked.kind = "FLIGHTS"
     /\ toClient = Sent("zero", 1)
  \/ /\ awaits = "head" /\ asked.kind = "SEATS"
     /\ \/ toClient = Sent("NOTHING", 1)
        \/ toClient = Sent("unread", 1)
        \/ \E n \in SeatCells : toClient = Sent("head", 1) \o Sent("text", n)
  \/ /\ awaits = "text" /\ asked.kind # "LOGOUT"
     /\ \E n \in 1..ClientRead : toClient = Sent("text", n)
  \/ /\ awaits = "text" /\ asked.kind \notin {"FLIGHTS", "LIST", "SEATS", "LOGOUT"}
     /\ toClient = Sent("SUCCESS", 1)

Understood ==
  /\ OneRequest
  /\ AnswerFits
  /\ awaits # "lost"
  /\ ordered = "some" => awaits = "text" /\ asked.kind = "SEATS"

\* A request never comes second in what a recv of the server returns.
Aligned ==
  /\ \A i \in DOMAIN toServer : toServer[i] # "zeros" => i % 2 = 1
  /\ Len(toServer) % 2 = 1 => toServer[Len(toServer)] # "zeros"

Welcomed == toClient # <<>> /\ toClient[1].part = "SUCCESS"

\* Who is logged in, while LOGOUT or the answer to LOGIN are on their way.
SessionFits ==
  /\ \A i \in DOMAIN toServer : toServer[i] = "LOGOUT" =>
       i = Len(toServer) /\ awaits = "none" /\ ~logged_in /\ is_logged_in
  /\ (\A i \in DOMAIN toServer : toServer[i] # "LOGOUT") =>
       IF Welcomed THEN is_logged_in /\ ~logged_in ELSE is_logged_in = logged_in

IInv ==
  /\ TypeOK
  /\ toServer # <<>> => asked.no # 0
  /\ ~cut => Understood
  /\ ~cut /\ ~hasty => Aligned /\ SessionFits

-----------------------------------------------------------------------------
(* Messages *)

LEMMA SentIs ==
  ASSUME NEW p, NEW n \in Nat
  PROVE  /\ Len(Sent(p, n)) = n /\ DOMAIN Sent(p, n) = 1..n
         /\ \A i \in 1..n : Sent(p, n)[i] = [to |-> asked.no, part |-> p, last |-> i = n]
  BY DEF Sent

Part == {"count", "zero", "text", "head", "NOTHING", "unread", "SUCCESS"}

Cell == [to : 1..MaxAsked, last : BOOLEAN, part : Part]

LEMMA SentType ==
  ASSUME NEW p \in Part, NEW n \in Nat,
         asked.no \in 1..MaxAsked
  PROVE  Sent(p, n) \in Seq(Cell)
<1>1. \A i \in 1..n : [to |-> asked.no, part |-> p, last |-> i = n] \in Cell
  BY DEF Cell
<1> QED
  BY <1>1 DEF Sent

\* A number and the list behind it.
IsNumbered(s, p, n) ==
  /\ Len(s) = n + 1
  /\ s[1].to = asked.no /\ s[1].part = p /\ s[1].last
  /\ \A i \in 2..(n + 1) : s[i].part = "text" /\ (s[i].last <=> i = n + 1)
  /\ SubSeq(s, 2, Len(s)) = Sent("text", n)

LEMMA TwoParts ==
  ASSUME NEW p, NEW n \in Nat \ {0}, asked.no \in Nat
  PROVE  IsNumbered(Sent(p, 1) \o Sent("text", n), p, n)
<1> DEFINE s == Sent(p, 1) \o Sent("text", n)
           S == [to : Nat, part : {p, "text"}, last : BOOLEAN]
           a == Sent(p, 1)
           b == Sent("text", n)
<1>1. a \in Seq(S)
  <2>1. \A i \in 1..1 : [to |-> asked.no, part |-> p, last |-> i = 1] \in S
    OBVIOUS
  <2> QED
    BY <2>1 DEF Sent
<1>2. b \in Seq(S)
  <2>1. \A i \in 1..n : [to |-> asked.no, part |-> "text", last |-> i = n] \in S
    OBVIOUS
  <2> QED
    BY <2>1 DEF Sent
<1>3. /\ Len(a) = 1 /\ a[1] = [to |-> asked.no, part |-> p, last |-> TRUE]
      /\ Len(b) = n
      /\ \A i \in 1..n : b[i] = [to |-> asked.no, part |-> "text", last |-> i = n]
  <2>1. Len(a) = 1 /\ a[1] = [to |-> asked.no, part |-> p, last |-> 1 = 1]
    <3>1. a = [i \in 1..1 |-> [to |-> asked.no, part |-> p, last |-> i = 1]]
      BY DEF Sent
    <3> HIDE DEF a
    <3> QED
      BY <1>1, <3>1
  <2>2. Len(b) = n /\ \A i \in 1..n : b[i] = [to |-> asked.no, part |-> "text", last |-> i = n]
    BY SentIs
  <2> QED
    BY <2>1, <2>2
<1> HIDE DEF S, s, a, b
<1>4. s = a \o b
  BY DEF s, a, b
<1>5. /\ s \in Seq(S) /\ Len(s) = n + 1 /\ s[1] = a[1]
      /\ \A i \in 2..(n + 1) : s[i] = b[i - 1]
  <2>1. /\ s \in Seq(S) /\ Len(s) = Len(a) + Len(b)
        /\ \A i \in 1..(Len(a) + Len(b)) : s[i] = IF i <= Len(a) THEN a[i] ELSE b[i - Len(a)]
    BY <1>1, <1>2, <1>4, ConcatProperties, Zenon
  <2>2. /\ Len(a) + Len(b) = n + 1
        /\ \A i \in 1..(n + 1) : s[i] = IF i <= 1 THEN a[i] ELSE b[i - 1]
    BY <2>1, <1>3
  <2> QED
    BY <2>1, <2>2
<1>6. \A i \in 2..(n + 1) : s[i] = [to |-> asked.no, part |-> "text", last |-> i = n + 1]
  <2> TAKE i \in 2..(n + 1)
  <2>1. i - 1 \in 1..n /\ ((i - 1 = n) <=> (i = n + 1))
    OBVIOUS
  <2> QED
    BY <1>3, <1>5, <2>1
<1>7. SubSeq(s, 2, Len(s)) = b
  <2> DEFINE t == SubSeq(s, 2, n + 1)
  <2>1. t \in Seq(S) /\ Len(t) = n /\ \A i \in 1..n : t[i] = s[i + 1]
    <3>1. n \in Nat /\ s \in Seq(S) /\ Len(s) = n + 1
      BY <1>2, <1>3, <1>5
    <3>2. t \in Seq(S) /\ Len(t) = n
      BY <3>1
    <3>3. ASSUME NEW i \in 1..n PROVE t[i] = s[i + 1]
      BY <3>1
    <3> QED
      BY <3>2, <3>3
  <2>2. \A i \in 1..n : t[i] = b[i]
    BY <1>5, <2>1
  <2> HIDE DEF t
  <2>3. t = b
    BY <1>2, <1>3, <2>1, <2>2, SeqEqual
  <2> QED
    BY <1>5, <2>3 DEF t
<1>8. s[1].to = asked.no /\ s[1].part = p /\ s[1].last
  BY <1>3, <1>5
<1>9. \A i \in 2..(n + 1) : s[i].part = "text" /\ (s[i].last <=> i = n + 1)
  <2> TAKE i \in 2..(n + 1)
  <2>1. s[i] = [to |-> asked.no, part |-> "text", last |-> i = n + 1]
    BY <1>6
  <2>2. s[i].part = "text"
    BY <2>1
  <2>3. s[i].last <=> i = n + 1
    <3>1. CASE i = n + 1
      <4>1. s[i] = [to |-> asked.no, part |-> "text", last |-> TRUE]
        BY <2>1, <3>1
      <4> QED
        BY <3>1, <4>1
    <3>2. CASE i # n + 1
      <4>1. s[i] = [to |-> asked.no, part |-> "text", last |-> FALSE]
        BY <2>1, <3>2
      <4> QED
        BY <3>2, <4>1
    <3> QED
      BY <3>1, <3>2
  <2> QED
    BY <2>2, <2>3
<1>10. IsNumbered(s, p, n)
  BY <1>5, <1>7, <1>8, <1>9 DEF IsNumbered, b
<1> QED
  BY <1>10 DEF s

LEMMA CellsIs ==
  ASSUME NEW kind \in Kind
  PROVE  /\ Cells(kind) \in Seq(Kind \cup {"zeros"})
         /\ Len(Cells(kind)) = (IF kind \in AtLogin THEN 8 ELSE 1)
         /\ Cells(kind)[1] = kind
         /\ \A i \in 2..Len(Cells(kind)) : Cells(kind)[i] = "zeros"
  BY DEF Cells, LoginCells

-----------------------------------------------------------------------------
(* Types *)

\* What a step changes, in parts.
ServerType == toServer \in Seq(Kind \cup {"zeros"}) /\ is_logged_in \in BOOLEAN
CellsType  == toClient \in Seq(Cell)
AppType ==
  /\ logged_in \in BOOLEAN
  /\ asked \in [kind : Kind, no : 0..MaxAsked]
  /\ awaits \in {"none", "count", "text", "head", "lost", "hung"}
  /\ awaits = "count" => asked.kind \in Lists
  /\ awaits = "head" => asked.kind = "SEATS"
  /\ awaits = "text" => asked.kind # "LOGOUT"
  /\ ordered \in {"all", "some", "unread"}
  /\ cut \in BOOLEAN /\ hasty \in BOOLEAN

LEMMA TypeParts ==
  /\ TypeOK <=> ServerType /\ CellsType /\ AppType
  /\ TypeOK' <=> ServerType' /\ CellsType' /\ AppType'
  BY DEF TypeOK, ServerType, CellsType, AppType, Cell, Part

LEMMA InitIInv == Init => IInv
<1> SUFFICES ASSUME Init PROVE IInv
  OBVIOUS
<1>1. <<>> \in Seq(Kind \cup {"zeros"}) /\ <<>> \in Seq(Cell) /\ DOMAIN <<>> = {} /\ Len(<<>>) = 0
  OBVIOUS
<1>2. TypeOK
  <2>1. ServerType /\ CellsType
    BY <1>1 DEF Init, ServerType, CellsType
  <2>2. "CALL" \in Kind /\ 0 \in 0..MaxAsked
    BY WireAssumption DEF Kind, LoggedIn
  <2>3. AppType
    BY <2>2 DEF Init, AppType
  <2> QED
    BY <2>1, <2>3, TypeParts
<1>3. Understood
  BY <1>1 DEF Init, Understood, OneRequest, AnswerFits
<1>4. Aligned /\ SessionFits
  <2>1. toServer = <<>> /\ toClient = <<>> /\ is_logged_in = logged_in
    BY DEF Init
  <2>2. Len(toServer) % 2 = 0
    BY <2>1
  <2> QED
    BY <1>1, <2>1, <2>2 DEF Aligned, SessionFits, Welcomed
<1> QED
  BY <1>2, <1>3, <1>4 DEF IInv, Init

LEMMA SendType ==
  ASSUME TypeOK, NEW kind \in Kind, Send(kind)
  PROVE  TypeOK' /\ asked'.no # 0
<1> USE TypeParts
<1>1. asked' = [kind |-> kind, no |-> asked.no + 1] /\ asked.no + 1 \in 1..MaxAsked
  BY WireAssumption DEF Send, AppType
<1>2. awaits' = FirstRecv(kind)
  BY DEF Send
<1>3. AppType'
  BY <1>1, <1>2 DEF Send, AppType, FirstRecv, Lists
<1>4. ServerType'
  <2>1. toServer' = toServer \o Cells(kind)
    BY DEF Send
  <2>2. Cells(kind) \in Seq(Kind \cup {"zeros"})
    BY CellsIs
  <2> QED
    BY <2>1, <2>2 DEF ServerType, Send
<1>5. CellsType'
  BY DEF CellsType, Send
<1> QED
  BY <1>1, <1>3, <1>4, <1>5

LEMMA AnswerType ==
  ASSUME TypeOK, asked.no # 0, NEW kind \in LoggedIn \ {"LOGOUT"}, NEW answer \in Answers(kind)
  PROVE  answer \in Seq(Cell)
<1>1. asked.no \in 1..MaxAsked
  BY DEF TypeOK
<1>2. \A p \in Part : \A n \in Nat : Sent(p, n) \in Seq(Cell)
  BY <1>1, SentType
<1>3. \A a, b \in Seq(Cell) : a \o b \in Seq(Cell)
  OBVIOUS
<1>4. \A p \in {"count", "head"} : \A n \in Nat : Sent(p, 1) \o Sent("text", n) \in Seq(Cell)
  BY <1>2, <1>3 DEF Part
<1>5. CASE kind \in Lists
  <2>1. CASE answer = Sent("zero", 1)
    BY <2>1, <1>2 DEF Part
  <2>2. CASE \E n \in TextCells : answer = Sent("count", 1) \o Sent("text", n)
    BY <2>2, <1>4, WireAssumption
  <2> QED
    BY <1>5, <2>1, <2>2 DEF Answers, Lists
<1>6. CASE kind = "SEATS"
  <2>1. CASE answer = Sent("NOTHING", 1) \/ answer = Sent("unread", 1)
    BY <2>1, <1>2 DEF Part
  <2>2. CASE \E n \in SeatCells : answer = Sent("head", 1) \o Sent("text", n)
    BY <2>2, <1>4, WireAssumption
  <2> QED
    BY <1>6, <2>1, <2>2 DEF Answers
<1>7. CASE kind = "CALL"
  <2>1. answer = Sent("text", 1)
    BY <1>7 DEF Answers
  <2> QED
    BY <2>1, <1>2 DEF Part
<1> QED
  BY <1>5, <1>6, <1>7 DEF LoggedIn, Lists

LEMMA ServerRecvType ==
  ASSUME TypeOK, asked.no # 0, ServerRecv
  PROVE  TypeOK'
<1> USE TypeParts
<1>1. PICK n \in 1..Least(ServerRead, Len(toServer)) :
        /\ toServer' = SubSeq(toServer, n + 1, Len(toServer))
        /\ cut' = (cut \/ n < Least(ServerRead, Len(toServer)))
  BY DEF ServerRecv
<1>2. toServer' \in Seq(Kind \cup {"zeros"})
  BY <1>1 DEF ServerType, Least, ServerRead
<1>3. Head(toServer) \in Kind \cup {"zeros"} /\ Handle(Head(toServer))
  BY DEF ServerRecv, ServerType
<1>4. is_logged_in' \in BOOLEAN
  BY <1>3 DEF Handle, ServerType
<1>5. toClient' \in Seq(Cell)
  <2>1. asked.no \in 1..MaxAsked
    BY DEF AppType
  <2>2. \A a \in Seq(Cell) : toClient \o a \in Seq(Cell)
    BY DEF CellsType
  <2>3. Sent("SUCCESS", 1) \in Seq(Cell) /\ Sent("text", 1) \in Seq(Cell)
    BY <2>1, SentType DEF Part
  <2>4. \A kind \in LoggedIn \ {"LOGOUT"} : \A answer \in Answers(kind) : answer \in Seq(Cell)
    BY AnswerType
  <2> QED
    BY <1>3, <2>2, <2>3, <2>4 DEF Handle, CellsType
<1>6. AppType'
  BY <1>1 DEF ServerRecv, AppType
<1> QED
  BY <1>2, <1>4, <1>5, <1>6 DEF ServerType, CellsType

LEMMA ClientRecvType ==
  ASSUME TypeOK, ClientRecv
  PROVE  TypeOK' /\ UNCHANGED <<toServer, asked>>
<1> USE TypeParts
<1>1. \A n \in Nat : Take(n) => toClient' \in Seq(Cell) /\ cut' \in BOOLEAN
  BY DEF Take, CellsType
<1>2. \A n \in Takable : n \in Nat
  BY DEF Takable
<1>3. CASE RecvForeign
  BY <1>3 DEF RecvForeign, ServerType, CellsType, AppType
<1>4. CASE RecvCount
  <2>1. toClient' \in Seq(Cell) /\ cut' \in BOOLEAN
    BY <1>1, <1>4 DEF RecvCount
  <2>2. awaits' \in {"text", "hung"} /\ asked.kind # "LOGOUT"
    BY <1>4 DEF RecvCount, AppType, Lists
  <2> QED
    BY <1>4, <2>1, <2>2 DEF RecvCount, ServerType, CellsType, AppType
<1>5. CASE RecvText
  <2>1. toClient' \in Seq(Cell) /\ cut' \in BOOLEAN /\ ordered' \in {"all", "some", "unread"}
        /\ awaits' \in {"none", "lost"}
    BY <1>1, <1>2, <1>5 DEF RecvText, AppType
  <2> QED
    BY <1>5, <2>1 DEF RecvText, ServerType, CellsType, AppType
<1>6. CASE RecvHead
  <2>1. toClient' \in Seq(Cell) /\ cut' \in BOOLEAN /\ ordered' \in {"all", "some", "unread"}
        /\ awaits' \in {"none", "text"} /\ asked.kind = "SEATS"
    BY <1>1, <1>2, <1>6 DEF RecvHead, AppType
  <2> QED
    BY <1>6, <2>1 DEF RecvHead, ServerType, CellsType, AppType
<1> QED
  BY <1>3, <1>4, <1>5, <1>6 DEF ClientRecv, RecvForeign, RecvCount, RecvText, RecvHead

-----------------------------------------------------------------------------
(* Requests and answers *)

LEMMA NothingAsked ==
  ASSUME Understood, awaits = "none"
  PROVE  toClient = <<>> /\ \A i \in DOMAIN toServer : ~IsRequest(toServer[i])
<1>1. toClient = <<>>
  BY DEF Understood, AnswerFits
<1>2. \A i \in DOMAIN toServer : ~IsRequest(toServer[i])
  BY DEF Understood, OneRequest, IsRequest, FirstRecv
<1> QED
  BY <1>1, <1>2

LEMMA SendUnderstood ==
  ASSUME TypeOK, Understood, NEW kind \in Kind, Send(kind)
  PROVE  Understood'
<1>1. toClient = <<>> /\ \A i \in DOMAIN toServer : ~IsRequest(toServer[i])
  BY NothingAsked DEF Send
<1>2. /\ toServer' = toServer \o Cells(kind) /\ awaits' = FirstRecv(kind) /\ asked'.kind = kind
      /\ UNCHANGED <<toClient, ordered>>
  BY DEF Send
<1>3. \A i \in DOMAIN toServer' : IsRequest(toServer'[i]) => i = Len(toServer) + 1 /\ toServer'[i] = kind
  <2>1. /\ toServer \in Seq(Kind \cup {"zeros"}) /\ Cells(kind) \in Seq(Kind \cup {"zeros"})
        /\ Cells(kind)[1] = kind /\ \A i \in 2..Len(Cells(kind)) : Cells(kind)[i] = "zeros"
    BY CellsIs DEF TypeOK
  <2> DEFINE z == Cells(kind)
  <2> HIDE DEF z
  <2>2. toServer \in Seq(Kind \cup {"zeros"}) /\ z \in Seq(Kind \cup {"zeros"})
        /\ z[1] = kind /\ \A i \in 2..Len(z) : z[i] = "zeros"
    BY <2>1 DEF z
  <2>3. toServer' = toServer \o z
    BY <1>2 DEF z
  <2>4. \A i \in DOMAIN toServer' :
          IF i <= Len(toServer) THEN i \in DOMAIN toServer /\ toServer'[i] = toServer[i]
          ELSE i - Len(toServer) \in 1..Len(z) /\ toServer'[i] = z[i - Len(toServer)]
    BY <2>2, <2>3
  <2> SUFFICES ASSUME NEW i \in DOMAIN toServer', IsRequest(toServer'[i])
               PROVE  i = Len(toServer) + 1 /\ toServer'[i] = kind
    OBVIOUS
  <2>5. ~(i <= Len(toServer))
    BY <1>1, <2>4
  <2>6. i - Len(toServer) \in 1..Len(z) /\ toServer'[i] = z[i - Len(toServer)]
    BY <2>4, <2>5
  <2>7. i - Len(toServer) \notin 2..Len(z)
    BY <2>2, <2>6 DEF IsRequest
  <2>8. Len(toServer) \in Nat /\ Len(z) \in Nat /\ i \in Int
    BY <2>2, <2>3
  <2>9. i - Len(toServer) = 1
    BY <2>6, <2>7, <2>8
  <2> QED
    BY <2>2, <2>6, <2>8, <2>9
<1>4. OneRequest'
  <2>1. Len(toServer) \in Nat
    BY DEF TypeOK
  <2> QED
    BY <1>1, <1>2, <1>3, <2>1 DEF OneRequest
<1>5. AnswerFits' /\ awaits' # "lost" /\ ordered' # "some"
  BY <1>1, <1>2 DEF AnswerFits, FirstRecv, Understood, Send
<1> QED
  BY <1>4, <1>5 DEF Understood

\* The answers in one piece.
LEMMA SentOne ==
  ASSUME TypeOK, asked.no # 0
  PROVE  \A p \in Part : Sent(p, 1) \in Seq(Cell)
<1>1. asked.no \in 1..MaxAsked
  BY DEF TypeOK
<1> QED
  BY <1>1, SentType

LEMMA ServerUnderstood ==
  ASSUME TypeOK, asked.no # 0, Understood, ServerRecv
  PROVE  Understood'
<1>1. PICK n \in 1..Least(ServerRead, Len(toServer)) :
        toServer' = SubSeq(toServer, n + 1, Len(toServer))
  BY DEF ServerRecv
<1>2. /\ toServer \in Seq(Kind \cup {"zeros"}) /\ toServer # <<>> /\ n \in 1..Len(toServer)
      /\ UNCHANGED <<asked, awaits, ordered>> /\ Handle(Head(toServer))
      /\ Head(toServer) = toServer[1]
  BY <1>1 DEF TypeOK, ServerRecv, Least, ServerRead
<1>3. \A i \in DOMAIN toServer' : i \in Nat /\ i + n \in DOMAIN toServer /\ i + n # 1 /\ toServer'[i] = toServer[i + n]
  BY <1>1, <1>2
<1>4. CASE ~IsRequest(Head(toServer))
  <2>1. UNCHANGED toClient
    BY <1>2, <1>4 DEF Handle, IsRequest, AtLogin, LoggedIn
  <2>2. OneRequest'
    <3>1. ASSUME NEW i \in DOMAIN toServer', NEW j \in DOMAIN toServer',
                 IsRequest(toServer'[i]), IsRequest(toServer'[j])
          PROVE  i = j
      <4>1. i + n = j + n
        BY <1>3, <3>1 DEF Understood, OneRequest
      <4> QED
        BY <1>2, <1>3, <4>1
    <3>2. ASSUME NEW i \in DOMAIN toServer', IsRequest(toServer'[i])
          PROVE  toServer'[i] = asked.kind /\ awaits = FirstRecv(asked.kind) /\ toClient = <<>>
      BY <1>3, <3>2 DEF Understood, OneRequest
    <3> QED
      BY <1>2, <2>1, <3>1, <3>2 DEF OneRequest
  <2>3. AnswerFits'
    BY <1>2, <2>1 DEF Understood, AnswerFits, Sent
  <2> QED
    BY <1>2, <2>2, <2>3 DEF Understood
<1>5. CASE IsRequest(Head(toServer))
  <2>1. /\ Head(toServer) = asked.kind /\ awaits = FirstRecv(asked.kind) /\ toClient = <<>>
        /\ 1 \in DOMAIN toServer
    BY <1>2, <1>5 DEF Understood, OneRequest
  <2>2. \A i \in DOMAIN toServer' : ~IsRequest(toServer'[i])
    BY <1>2, <1>3, <1>5, <2>1 DEF Understood, OneRequest
  <2>3. AnswerFits'
    <3>1. \A s : toClient' = toClient \o s /\ s \in Seq(Cell) => toClient' = s
      BY <2>1
    <3>2. CASE UNCHANGED toClient
      BY <2>1, <3>2 DEF AnswerFits
    <3>3. CASE asked.kind \in AtLogin /\ ~(UNCHANGED toClient)
      <4>1. PICK p \in {"SUCCESS", "text"} : toClient' = toClient \o Sent(p, 1)
        BY <1>2, <2>1, <3>3 DEF Handle, AtLogin, LoggedIn
      <4>2. toClient' = Sent(p, 1)
        BY <2>1, <4>1, <3>1, SentOne DEF Part
      <4>3. awaits' = "text" /\ asked' = asked /\ asked.kind \notin {"FLIGHTS", "LIST", "SEATS", "LOGOUT"}
        BY <1>2, <2>1, <3>3 DEF FirstRecv, AtLogin, Lists
      <4>4. toClient' = Sent(p, 1)'
        BY <4>2, <4>3 DEF Sent
      <4>5. 1 \in 1..ClientRead
        BY DEF ClientRead
      <4> QED
        BY <4>3, <4>4, <4>5 DEF AnswerFits
    <3>4. CASE asked.kind \notin AtLogin /\ ~(UNCHANGED toClient)
      <4>1. /\ asked.kind \in LoggedIn \ {"LOGOUT"} /\ asked' = asked
            /\ \E answer \in Answers(asked.kind) : toClient' = toClient \o answer
        BY <1>2, <2>1, <3>4 DEF Handle, AtLogin, LoggedIn
      <4>2. PICK answer \in Answers(asked.kind) : toClient' = toClient \o answer
        BY <4>1
      <4>3. answer \in Seq(Cell)
        BY <4>1, AnswerType
      <4>4. toClient' = answer
        BY <2>1, <4>2, <4>3
      <4>5. CASE asked.kind \in Lists
        <5>1. awaits' = "count" /\ asked' = asked
          BY <1>2, <2>1, <4>1, <4>5 DEF FirstRecv, Lists
        <5>2. CASE \E m \in TextCells : answer = Sent("count", 1) \o Sent("text", m)
          <6>1. PICK m \in TextCells : answer = Sent("count", 1) \o Sent("text", m)
            BY <5>2
          <6>2. toClient' = (Sent("count", 1) \o Sent("text", m))'
            BY <4>1, <4>4, <6>1 DEF Sent
          <6> QED
            BY <4>5, <5>1, <6>2 DEF AnswerFits
        <5>3. CASE asked.kind = "FLIGHTS" /\ answer = Sent("zero", 1)
          <6>1. toClient' = Sent("zero", 1)'
            BY <4>1, <4>4, <5>3 DEF Sent
          <6> QED
            BY <5>1, <5>3, <6>1 DEF AnswerFits
        <5> QED
          BY <4>2, <4>5, <5>2, <5>3 DEF Answers, Lists
      <4>6. CASE asked.kind = "SEATS"
        <5>1. awaits' = "head" /\ asked'.kind = "SEATS"
          BY <1>2, <2>1, <4>1, <4>6 DEF FirstRecv
        <5>2. CASE answer = Sent("NOTHING", 1) \/ answer = Sent("unread", 1)
          <6>1. toClient' = Sent("NOTHING", 1)' \/ toClient' = Sent("unread", 1)'
            BY <4>1, <4>4, <5>2 DEF Sent
          <6> QED
            BY <5>1, <6>1 DEF AnswerFits
        <5>3. CASE \E m \in SeatCells : answer = Sent("head", 1) \o Sent("text", m)
          <6>1. PICK m \in SeatCells : answer = Sent("head", 1) \o Sent("text", m)
            BY <5>3
          <6>2. toClient' = (Sent("head", 1) \o Sent("text", m))'
            BY <4>1, <4>4, <6>1 DEF Sent
          <6> QED
            BY <5>1, <6>2 DEF AnswerFits
        <5> QED
          BY <4>2, <4>6, <5>2, <5>3 DEF Answers
      <4>7. CASE asked.kind = "CALL"
        <5>1. toClient' = Sent("text", 1)'
          BY <4>1, <4>2, <4>4, <4>7 DEF Answers, Sent
        <5>2. awaits' = "text" /\ asked'.kind # "LOGOUT" /\ 1 \in 1..ClientRead
          BY <1>2, <2>1, <4>1, <4>7 DEF FirstRecv, ClientRead, Lists
        <5> QED
          BY <5>1, <5>2 DEF AnswerFits
      <4> QED
        BY <4>1, <4>5, <4>6, <4>7 DEF LoggedIn, Lists
    <3> QED
      BY <3>2, <3>3, <3>4
  <2> QED
    BY <1>2, <2>2, <2>3 DEF Understood, OneRequest
<1> QED
  BY <1>4, <1>5

\* A list of one part.
IsPlain(s, p, n) ==
  /\ Len(s) = n
  /\ \A i \in 1..n : s[i].to = asked.no /\ s[i].part = p /\ (s[i].last <=> i = n)
  /\ SubSeq(s, n + 1, n) = <<>>

LEMMA OnePart ==
  ASSUME NEW p, NEW n \in Nat \ {0}, asked.no \in Nat
  PROVE  IsPlain(Sent(p, n), p, n)
<1> DEFINE s == Sent(p, n)
           S == [to : Nat, part : {p}, last : BOOLEAN]
<1>1. s \in Seq(S)
  <2>1. \A i \in 1..n : [to |-> asked.no, part |-> p, last |-> i = n] \in S
    OBVIOUS
  <2>2. s = [i \in 1..n |-> [to |-> asked.no, part |-> p, last |-> i = n]]
    BY DEF Sent
  <2> HIDE DEF S, s
  <2> QED
    BY <2>1, <2>2
<1>2. Len(s) = n /\ \A i \in 1..n : s[i] = [to |-> asked.no, part |-> p, last |-> i = n]
  BY SentIs
<1> HIDE DEF S, s
<1>3. \A i \in 1..n : s[i].to = asked.no /\ s[i].part = p /\ (s[i].last <=> i = n)
  <2> TAKE i \in 1..n
  <2>1. s[i] = [to |-> asked.no, part |-> p, last |-> i = n]
    BY <1>2
  <2>2. s[i].to = asked.no /\ s[i].part = p
    BY <2>1
  <2>3. s[i].last <=> i = n
    <3>1. CASE i = n
      <4>1. s[i] = [to |-> asked.no, part |-> p, last |-> TRUE]
        BY <2>1, <3>1
      <4> QED
        BY <3>1, <4>1
    <3>2. CASE i # n
      <4>1. s[i] = [to |-> asked.no, part |-> p, last |-> FALSE]
        BY <2>1, <3>2
      <4> QED
        BY <3>2, <4>1
    <3> QED
      BY <3>1, <3>2
  <2> QED
    BY <2>2, <2>3
<1>5. SubSeq(s, n + 1, n) = <<>>
  <2>1. n + 1 \in Int /\ n < n + 1
    OBVIOUS
  <2> QED
    BY <1>1, <2>1
<1> QED
  BY <1>2, <1>3, <1>5 DEF IsPlain, s

Received == toClient' = <<>> \/ \E n \in Nat \ {0} : toClient' = Sent("text", n)

LEMMA CountUnderstood ==
  ASSUME TypeOK, ListsFit, Understood, RecvCount
  PROVE  /\ AnswerFits' /\ awaits' # "lost" /\ ordered' # "some"
         /\ Received /\ ~Welcomed /\ UNCHANGED logged_in
<1>1. asked.no \in Nat /\ awaits = "count" /\ toClient # <<>>
  BY DEF TypeOK, RecvCount, Mine
<1>2. /\ UNCHANGED <<asked, ordered, logged_in>> /\ Take(1) /\ asked.kind \in Lists
      /\ awaits' = IF toClient[1].part = "zero" THEN "hung" ELSE "text"
  BY <1>1 DEF RecvCount, TypeOK
<1>6. toClient = Sent("zero", 1) \/ \E n \in TextCells : toClient = Sent("count", 1) \o Sent("text", n)
  BY <1>1 DEF Understood, AnswerFits
<1>7. toClient[1].part # "SUCCESS"
  <2>1. CASE toClient = Sent("zero", 1)
    <3>1. IsPlain(toClient, "zero", 1)
      BY <1>1, <2>1, OnePart
    <3> QED
      BY <3>1 DEF IsPlain
  <2>2. CASE \E n \in TextCells : toClient = Sent("count", 1) \o Sent("text", n)
    <3>1. PICK n \in TextCells : toClient = Sent("count", 1) \o Sent("text", n)
      BY <2>2
    <3>2. n \in Nat \ {0}
      BY WireAssumption
    <3>3. IsNumbered(toClient, "count", n)
      BY <1>1, <3>1, <3>2, TwoParts
    <3> QED
      BY <3>3 DEF IsNumbered
  <2> QED
    BY <1>6, <2>1, <2>2
<1>3. ordered # "some" /\ ~Welcomed /\ awaits' # "lost"
  BY <1>1, <1>2, <1>7 DEF Understood, Welcomed
<1>4. CASE toClient = Sent("zero", 1)
  <2>1. IsPlain(toClient, "zero", 1)
    BY <1>1, <1>4, OnePart
  <2>2. toClient' = <<>>
    BY <1>2, <2>1 DEF Take, IsPlain
  <2> QED
    BY <1>2, <1>3, <2>2 DEF AnswerFits, Received
<1>5. CASE \E n \in TextCells : toClient = Sent("count", 1) \o Sent("text", n)
  <2>1. PICK n \in TextCells : toClient = Sent("count", 1) \o Sent("text", n)
    BY <1>5
  <2>2. n \in Nat \ {0} /\ n \in 1..ClientRead
    BY WireAssumption DEF ListsFit
  <2>3. toClient[1].part = "count" /\ SubSeq(toClient, 2, Len(toClient)) = Sent("text", n)
    <3>1. IsNumbered(toClient, "count", n)
      BY <1>1, <2>1, <2>2, TwoParts
    <3> QED
      BY <3>1 DEF IsNumbered
  <2>4. toClient' = Sent("text", n) /\ awaits' = "text" /\ asked'.kind # "LOGOUT"
    <3>1. toClient' = SubSeq(toClient, 1 + 1, Len(toClient)) /\ awaits' = "text"
      BY <1>2, <2>3 DEF Take
    <3> QED
      BY <1>2, <2>3, <3>1 DEF Lists
  <2>5. toClient' = Sent("text", n)'
    BY <1>2, <2>4 DEF Sent
  <2> QED
    BY <1>2, <1>3, <2>2, <2>4, <2>5 DEF AnswerFits, Received
<1> QED
  BY <1>4, <1>5, <1>6

LEMMA TextUnderstood ==
  ASSUME TypeOK, Understood, RecvText, ~cut'
  PROVE  /\ AnswerFits' /\ awaits' # "lost" /\ ordered' # "some"
         /\ Received /\ logged_in' = (logged_in \/ Welcomed) /\ toClient' = <<>>
<1>1. asked.no \in Nat /\ awaits = "text" /\ toClient # <<>> /\ Head(toClient) = toClient[1]
  BY DEF TypeOK, RecvText, Mine
<1>2. PICK n \in Takable :
        /\ Take(n)
        /\ ordered' = IF asked.kind # "SEATS" THEN ordered ELSE IF Ends(n) THEN "all" ELSE "some"
        /\ awaits' \in {"none"} \cup {lost \in {"lost"} : asked.kind \in Lists /\ ~Ends(n)}
  BY DEF RecvText
<1>3. logged_in' = (logged_in \/ Welcomed)
  BY <1>1 DEF RecvText, Welcomed
<1>4. ordered = "some" => asked.kind = "SEATS"
  BY DEF Understood
<1>5. ordered \in {"all", "some", "unread"}
  BY DEF TypeOK
<1>6. CASE \E m \in 1..ClientRead : toClient = Sent("text", m)
  <2>1. PICK m \in 1..ClientRead : toClient = Sent("text", m)
    BY <1>6
  <2>2. m \in Nat \ {0} /\ m <= 7
    BY DEF ClientRead
  <2>3. /\ Len(toClient) = m /\ SubSeq(toClient, m + 1, m) = <<>>
        /\ \A i \in 1..m : toClient[i].part = "text" /\ (toClient[i].last <=> i = m)
    <3>1. IsPlain(toClient, "text", m)
      BY <1>1, <2>1, <2>2, OnePart
    <3> QED
      BY <3>1 DEF IsPlain
  <2>4. n \in 1..m
    BY <2>2, <2>3 DEF Takable, Least, ClientRead
  <2>5. n = m
    <3>1. n < 7 => toClient[n].last
      BY <1>2, Zenon DEF Take, ClientRead
    <3>2. n < 7 => n = m
      BY <2>3, <2>4, <3>1, Zenon
    <3> QED
      BY <2>2, <2>4, <3>2
  <2>6. toClient' = <<>> /\ Ends(n)
    BY <1>2, <2>3, <2>4, <2>5 DEF Take, Ends
  <2> QED
    BY <1>2, <1>3, <1>4, <1>5, <2>6 DEF AnswerFits, Received
<1>7. CASE asked.kind \notin {"FLIGHTS", "LIST", "SEATS", "LOGOUT"} /\ toClient = Sent("SUCCESS", 1)
  <2>1. Len(toClient) = 1 /\ SubSeq(toClient, 1 + 1, 1) = <<>>
    <3>1. IsPlain(toClient, "SUCCESS", 1)
      BY <1>1, <1>7, OnePart
    <3> QED
      BY <3>1 DEF IsPlain
  <2>2. n = 1
    BY <2>1 DEF Takable, Least, ClientRead
  <2>3. toClient' = <<>>
    BY <1>2, <2>1, <2>2 DEF Take
  <2> QED
    BY <1>2, <1>3, <1>4, <1>5, <1>7, <2>3 DEF AnswerFits, Received, Lists
<1> QED
  BY <1>1, <1>6, <1>7 DEF Understood, AnswerFits

LEMMA HeadUnderstood ==
  ASSUME TypeOK, ListsFit, Understood, RecvHead, ~cut'
  PROVE  /\ AnswerFits' /\ awaits' # "lost"
         /\ ordered' = "some" => awaits' = "text" /\ asked'.kind = "SEATS"
         /\ Received /\ ~Welcomed /\ UNCHANGED logged_in
<1>1. /\ asked.no \in Nat /\ awaits = "head" /\ toClient # <<>> /\ Head(toClient) = toClient[1]
      /\ asked.kind = "SEATS" /\ asked' = asked /\ UNCHANGED logged_in
  BY DEF TypeOK, RecvHead, Mine
<1>2. PICK n \in Takable :
        /\ Take(n)
        /\ \/ /\ Head(toClient).part \in {"NOTHING", "unread"}
              /\ ordered' = IF Head(toClient).part = "NOTHING" THEN "all" ELSE "unread"
              /\ awaits' = "none"
           \/ /\ Head(toClient).part = "head" /\ ListIsElsewhere(n)
              /\ ordered' = "some"
              /\ awaits' = "text"
           \/ /\ Head(toClient).part = "head" /\ ~ListIsElsewhere(n)
              /\ ordered' = IF Ends(n) THEN "all" ELSE "some"
              /\ awaits' = "none"
  BY DEF RecvHead
<1>3. CASE toClient = Sent("NOTHING", 1) \/ toClient = Sent("unread", 1)
  <2>1. PICK p \in {"NOTHING", "unread"} :
          Len(toClient) = 1 /\ SubSeq(toClient, 1 + 1, 1) = <<>> /\ toClient[1].part = p
    <3>1. PICK p \in {"NOTHING", "unread"} : toClient = Sent(p, 1)
      BY <1>3
    <3>2. IsPlain(toClient, p, 1)
      BY <1>1, <3>1, OnePart
    <3> QED
      BY <3>2 DEF IsPlain
  <2>2. n = 1
    BY <2>1 DEF Takable, Least, ClientRead
  <2>3. toClient' = <<>> /\ ordered' \in {"all", "unread"} /\ awaits' = "none"
    BY <1>1, <1>2, <2>1, <2>2 DEF Take
  <2> QED
    BY <1>1, <2>1, <2>3 DEF AnswerFits, Received, Welcomed
<1>4. CASE \E m \in SeatCells : toClient = Sent("head", 1) \o Sent("text", m)
  <2>1. PICK m \in SeatCells : toClient = Sent("head", 1) \o Sent("text", m)
    BY <1>4
  <2>2. m \in Nat \ {0} /\ m <= 6
    BY WireAssumption DEF ListsFit, ClientRead
  <2>3. /\ Len(toClient) = m + 1
        /\ toClient[1].part = "head"
        /\ \A i \in 2..(m + 1) : toClient[i].part = "text" /\ (toClient[i].last <=> i = m + 1)
        /\ SubSeq(toClient, 2, Len(toClient)) = Sent("text", m)
    <3>1. IsNumbered(toClient, "head", m)
      BY <1>1, <2>1, <2>2, TwoParts
    <3> QED
      BY <3>1 DEF IsNumbered
  <2>4. n \in 1..(m + 1)
    BY <2>2, <2>3 DEF Takable, Least, ClientRead
  <2>5. toClient[1].part = "head"
    BY <2>3
  <2>6. CASE n = 1
    <3>1. toClient' = Sent("text", m) /\ ordered' = "some" /\ awaits' = "text"
      BY <1>1, <1>2, <2>3, <2>5, <2>6 DEF Take, ListIsElsewhere
    <3>2. toClient' = Sent("text", m)' /\ m \in 1..ClientRead
      BY <1>1, <2>2, <3>1 DEF Sent, ClientRead
    <3> QED
      BY <1>1, <2>2, <2>5, <3>1, <3>2 DEF AnswerFits, Received, Welcomed
  <2>7. CASE n # 1
    <3>1. n \in 2..(m + 1)
      BY <2>2, <2>4, <2>7
    <3>2. toClient[n].part = "text" /\ (toClient[n].last <=> n = m + 1)
      BY <2>3, <3>1
    <3>3. n = m + 1
      <4>1. n < 7 => toClient[n].last
        BY <1>2, Zenon DEF Take, ClientRead
      <4>2. n < 7 => n = m + 1
        BY <3>2, <4>1, Zenon
      <4> QED
        BY <2>2, <3>1, <4>2
    <3>4. toClient' = <<>>
      <4>1. toClient \in Seq(Cell)
        BY TypeParts DEF CellsType
      <4>2. toClient' = SubSeq(toClient, n + 1, Len(toClient)) /\ Len(toClient) < n + 1 /\ n + 1 \in Int
        BY <1>2, <2>2, <2>3, <3>3 DEF Take
      <4> QED
        BY <4>1, <4>2
    <3>5. ordered' = "all" /\ awaits' = "none"
      BY <1>1, <1>2, <2>5, <2>7, <3>2, <3>3 DEF ListIsElsewhere, Ends
    <3> QED
      BY <1>1, <2>5, <3>4, <3>5 DEF AnswerFits, Received, Welcomed
  <2> QED
    BY <2>6, <2>7
<1> QED
  BY <1>1, <1>3, <1>4 DEF Understood, AnswerFits

LEMMA ClientUnderstood ==
  ASSUME TypeOK, ListsFit, Understood, ClientRecv, ~cut'
  PROVE  /\ Understood' /\ Received
         /\ logged_in' = (logged_in \/ Welcomed) /\ (Welcomed => toClient' = <<>>)
         /\ awaits # "none"
<1>1. toClient # <<>> /\ awaits # "none" /\ UNCHANGED <<toServer, asked>>
  BY ClientRecvType DEF ClientRecv, RecvCount, RecvText, RecvHead, RecvForeign, Mine
<1>2. OneRequest'
  BY <1>1 DEF Understood, OneRequest
<1>3. CASE RecvForeign
  <2>1. asked.no \in Nat /\ toClient \in Seq(Cell)
    BY TypeParts DEF TypeOK, CellsType
  <2>2. \A p : \A n \in Nat \ {0} : toClient = Sent(p, n) => Mine
    <3> SUFFICES ASSUME NEW p, NEW n \in Nat \ {0}, toClient = Sent(p, n) PROVE Mine
      OBVIOUS
    <3>1. IsPlain(toClient, p, n)
      BY <2>1, OnePart
    <3>2. toClient[1].to = asked.no /\ Head(toClient) = toClient[1]
      BY <1>1, <2>1, <3>1 DEF IsPlain
    <3> QED
      BY <1>1, <3>2 DEF Mine
  <2>3. \A p : \A n \in Nat \ {0} : toClient = Sent(p, 1) \o Sent("text", n) => Mine
    <3> SUFFICES ASSUME NEW p, NEW n \in Nat \ {0}, toClient = Sent(p, 1) \o Sent("text", n) PROVE Mine
      OBVIOUS
    <3>1. toClient[1].to = asked.no
      <4>1. IsNumbered(toClient, p, n)
        BY <2>1, TwoParts
      <4> QED
        BY <4>1 DEF IsNumbered
    <3>2. toClient[1].to = asked.no /\ Head(toClient) = toClient[1]
      BY <1>1, <2>1, <3>1
    <3> QED
      BY <1>1, <3>2 DEF Mine
  <2>4. \A n \in TextCells \cup SeatCells \cup 1..ClientRead \cup {1} : n \in Nat \ {0}
    BY WireAssumption DEF ClientRead
  <2>5. Mine
    BY <1>1, <2>2, <2>3, <2>4 DEF Understood, AnswerFits
  <2> QED
    BY <1>3, <2>5 DEF RecvForeign
<1>4. CASE RecvCount
  <2>1. AnswerFits' /\ awaits' # "lost" /\ ordered' # "some" /\ Received
        /\ ~Welcomed /\ logged_in' = logged_in /\ logged_in \in BOOLEAN
    BY <1>4, CountUnderstood DEF TypeOK
  <2>2. logged_in' = (logged_in \/ Welcomed) /\ (Welcomed => toClient' = <<>>)
    BY <2>1, Zenon
  <2> QED
    BY <1>1, <1>2, <2>1, <2>2 DEF Understood
<1>5. CASE RecvText
  BY <1>1, <1>2, <1>5, TextUnderstood DEF Understood
<1>6. CASE RecvHead
  <2>1. /\ AnswerFits' /\ awaits' # "lost" /\ Received
        /\ ordered' = "some" => awaits' = "text" /\ asked'.kind = "SEATS"
        /\ ~Welcomed /\ logged_in' = logged_in /\ logged_in \in BOOLEAN
    BY <1>6, HeadUnderstood DEF TypeOK
  <2>2. logged_in' = (logged_in \/ Welcomed) /\ (Welcomed => toClient' = <<>>)
    BY <2>1, Zenon
  <2> QED
    BY <1>1, <1>2, <2>1, <2>2 DEF Understood
<1> QED
  BY <1>3, <1>4, <1>5, <1>6 DEF ClientRecv

-----------------------------------------------------------------------------
(* The session *)

LEMMA SendSession ==
  ASSUME TypeOK, Understood, Aligned, SessionFits, NEW kind \in Kind, Send(kind), ~hasty'
  PROVE  Aligned' /\ SessionFits'
<1>1. toClient = <<>> /\ \A i \in DOMAIN toServer : ~IsRequest(toServer[i])
  BY NothingAsked DEF Send
<1>2. /\ toServer' = toServer \o Cells(kind) /\ awaits' = FirstRecv(kind)
      /\ logged_in' = (logged_in /\ kind # "LOGOUT")
      /\ kind \in (IF logged_in THEN LoggedIn ELSE AtLogin)
      /\ UNCHANGED <<toClient, is_logged_in>>
  BY DEF Send
<1>3. toServer \in Seq(Kind \cup {"zeros"}) /\ logged_in \in BOOLEAN /\ is_logged_in \in BOOLEAN
  BY DEF TypeOK
<1>4. \A i \in 1..Len(toServer) : toServer[i] # "LOGOUT"
  BY Zenon DEF Send, Contains
<1>5. \A i \in DOMAIN toServer : toServer[i] = "zeros"
  BY <1>1, <1>3, <1>4 DEF IsRequest
<1>6. Len(toServer) \in Nat /\ Len(toServer) % 2 = 0
  <2>1. Len(toServer) \in Nat /\ DOMAIN toServer = 1..Len(toServer)
    BY <1>3
  <2>2. Len(toServer) % 2 # 1
    <3> SUFFICES ASSUME Len(toServer) % 2 = 1 PROVE FALSE
      OBVIOUS
    <3>1. toServer[Len(toServer)] # "zeros"
      BY DEF Aligned
    <3>2. Len(toServer) \in DOMAIN toServer
      BY <2>1
    <3> QED
      BY <1>5, <3>1, <3>2
  <2> QED
    BY <2>1, <2>2
<1> DEFINE z == Cells(kind)
<1>7. /\ z \in Seq(Kind \cup {"zeros"}) /\ z[1] = kind
      /\ Len(z) = (IF kind \in AtLogin THEN 8 ELSE 1)
      /\ \A i \in 2..Len(z) : z[i] = "zeros"
  BY CellsIs
<1>8. toServer' = toServer \o z
  BY <1>2
<1> HIDE DEF z
<1>9. /\ Len(toServer') = Len(toServer) + Len(z) /\ DOMAIN toServer' = 1..(Len(toServer) + Len(z))
      /\ toServer'[Len(toServer) + 1] = kind
      /\ \A i \in DOMAIN toServer' : i # Len(toServer) + 1 => toServer'[i] = "zeros"
  <2>1. /\ Len(toServer') = Len(toServer) + Len(z) /\ DOMAIN toServer' = 1..(Len(toServer) + Len(z))
        /\ \A i \in 1..(Len(toServer) + Len(z)) :
             toServer'[i] = IF i <= Len(toServer) THEN toServer[i] ELSE z[i - Len(toServer)]
    <3>1. z \in Seq(Kind \cup {"zeros"})
      BY <1>7
    <3>2. /\ toServer' \in Seq(Kind \cup {"zeros"}) /\ Len(toServer') = Len(toServer) + Len(z)
          /\ \A i \in 1..(Len(toServer) + Len(z)) :
               toServer'[i] = IF i <= Len(toServer) THEN toServer[i] ELSE z[i - Len(toServer)]
      BY <1>3, <1>8, <3>1, ConcatProperties, Zenon
    <3> QED
      BY <3>2
  <2>2. toServer'[Len(toServer) + 1] = kind
    BY <1>6, <1>7, <2>1
  <2>3. ASSUME NEW i \in DOMAIN toServer', i # Len(toServer) + 1
        PROVE  toServer'[i] = "zeros"
    <3>1. CASE i <= Len(toServer)
      <4>1. i \in DOMAIN toServer /\ toServer'[i] = toServer[i]
        BY <1>3, <1>6, <2>1, <2>3, <3>1
      <4> QED
        BY <1>5, <4>1
    <3>2. CASE ~(i <= Len(toServer))
      <4>1. i \in 1..(Len(toServer) + Len(z)) /\ Len(toServer) \in Nat /\ Len(z) \in Nat
        BY <1>6, <1>7, <2>1, <2>3
      <4>2. i - Len(toServer) \in 2..Len(z)
        BY <2>3, <3>2, <4>1
      <4>3. toServer'[i] = z[i - Len(toServer)]
        BY <2>1, <3>2, <4>1
      <4> QED
        BY <1>7, <4>2, <4>3
    <3> QED
      BY <3>1, <3>2
  <2> QED
    BY <2>1, <2>2, <2>3
<1>10. kind # "zeros" /\ (kind = "LOGOUT" => kind \notin AtLogin)
  BY DEF Kind, AtLogin, LoggedIn
<1>11. Aligned'
  <2>1. (Len(toServer) + 1) % 2 = 1 /\ (Len(toServer) + 8) % 2 = 0
    BY <1>6
  <2>2. \A i \in DOMAIN toServer' : toServer'[i] # "zeros" => i % 2 = 1
    BY <1>9, <2>1
  <2>3. Len(toServer') % 2 = 1 => toServer'[Len(toServer')] # "zeros"
    <3>1. CASE kind \in AtLogin
      <4>1. Len(toServer') = Len(toServer) + 8
        BY <1>7, <1>9, <3>1
      <4> QED
        BY <2>1, <4>1
    <3>2. CASE kind \notin AtLogin
      <4>1. Len(toServer') = Len(toServer) + 1
        BY <1>7, <1>9, <3>2
      <4> QED
        BY <1>9, <1>10, <4>1
    <3> QED
      BY <3>1, <3>2
  <2> QED
    BY <2>2, <2>3 DEF Aligned
<1>12. ~Welcomed /\ ~Welcomed' /\ is_logged_in = logged_in
  <2>1. ~Welcomed /\ ~Welcomed'
    BY <1>1, <1>2 DEF Welcomed
  <2>2. \A i \in DOMAIN toServer : toServer[i] # "LOGOUT"
    BY <1>5
  <2> QED
    BY <2>1, <2>2 DEF SessionFits
<1>13. CASE kind = "LOGOUT"
  <2>1. logged_in /\ ~logged_in' /\ is_logged_in' /\ awaits' = "none"
    <3>1. "LOGOUT" \notin AtLogin
      BY DEF AtLogin
    <3> QED
      BY <1>2, <1>3, <1>12, <1>13, <3>1 DEF FirstRecv, Lists
  <2>2. Len(toServer') = Len(toServer) + 1
    BY <1>7, <1>9, <1>10, <1>13
  <2>3. \A i \in DOMAIN toServer' : toServer'[i] = "LOGOUT" => i = Len(toServer')
    BY <1>9, <2>2
  <2>4. ~(\A i \in DOMAIN toServer' : toServer'[i] # "LOGOUT")
    BY <1>6, <1>9, <1>13, <2>2
  <2> QED
    BY <1>11, <2>1, <2>3, <2>4 DEF SessionFits
<1>14. CASE kind # "LOGOUT"
  <2>1. \A i \in DOMAIN toServer' : toServer'[i] # "LOGOUT"
    BY <1>9, <1>14
  <2>2. logged_in' = logged_in
    BY <1>2, <1>3, <1>14
  <2> QED
    BY <1>2, <1>11, <1>12, <2>1, <2>2 DEF SessionFits
<1> QED
  BY <1>11, <1>13, <1>14

\* An answer is not the welcome.
LEMMA AnswerIsNoWelcome ==
  ASSUME TypeOK, NEW kind \in LoggedIn \ {"LOGOUT"}, NEW answer \in Answers(kind)
  PROVE  answer[1].part # "SUCCESS"
<1>1. asked.no \in Nat
  BY DEF TypeOK
<1>2. \A p : \A n \in Nat \ {0} : Sent(p, n)[1].part = p
  <2> SUFFICES ASSUME NEW p, NEW n \in Nat \ {0} PROVE Sent(p, n)[1].part = p
    OBVIOUS
  <2>1. IsPlain(Sent(p, n), p, n)
    BY <1>1, OnePart
  <2> QED
    BY <2>1 DEF IsPlain
<1>3. \A p : \A n \in Nat \ {0} : (Sent(p, 1) \o Sent("text", n))[1].part = p
  <2> SUFFICES ASSUME NEW p, NEW n \in Nat \ {0}
               PROVE (Sent(p, 1) \o Sent("text", n))[1].part = p
    OBVIOUS
  <2>1. IsNumbered(Sent(p, 1) \o Sent("text", n), p, n)
    BY <1>1, TwoParts
  <2> QED
    BY <2>1 DEF IsNumbered
<1> QED
  BY <1>2, <1>3, WireAssumption DEF Answers, LoggedIn

LEMMA OddBelow ==
  ASSUME NEW k \in Nat \ {0, 1}, (k - 2) % 2 = 1
  PROVE  k % 2 = 1 /\ k - 2 >= 1
<1>1. k - 2 # 0 /\ k - 2 \in Nat
  <2>1. k = 2 => (k - 2) % 2 = 0
    OBVIOUS
  <2> QED
    BY <2>1
<1>2. PICK j \in Nat : k = j + 2
  BY <1>1
<1>3. (j + 2) % 2 = j % 2
  BY <1>2
<1> QED
  BY <1>1, <1>2, <1>3

LEMMA ServerSession ==
  ASSUME TypeOK, asked.no # 0, Understood, Aligned, SessionFits, ServerRecv, ~cut'
  PROVE  Aligned' /\ SessionFits'
<1>1. PICK n \in 1..Least(ServerRead, Len(toServer)) :
        /\ toServer' = SubSeq(toServer, n + 1, Len(toServer))
        /\ cut' = (cut \/ n < Least(ServerRead, Len(toServer)))
  BY DEF ServerRecv
<1>2. /\ toServer \in Seq(Kind \cup {"zeros"}) /\ toServer # <<>>
      /\ UNCHANGED <<asked, awaits, logged_in>> /\ Handle(toServer[1])
      /\ Len(toServer) \in Nat \ {0} /\ DOMAIN toServer = 1..Len(toServer)
      /\ logged_in \in BOOLEAN /\ is_logged_in \in BOOLEAN
  BY DEF TypeOK, ServerRecv
<1>3. n = IF Len(toServer) = 1 THEN 1 ELSE 2
  <2>1. ~(n < Least(ServerRead, Len(toServer)))
    BY <1>1, Zenon
  <2> QED
    BY <1>1, <1>2, <2>1 DEF Least, ServerRead
<1>4. /\ Len(toServer') = (IF Len(toServer) = 1 THEN 0 ELSE Len(toServer) - 2)
      /\ DOMAIN toServer' = 1..Len(toServer')
      /\ \A i \in DOMAIN toServer' : i + 2 \in DOMAIN toServer /\ toServer'[i] = toServer[i + 2]
  <2>1. CASE Len(toServer) = 1
    BY <1>1, <1>2, <1>3, <2>1
  <2>2. CASE Len(toServer) # 1
    <3>1. /\ toServer' = SubSeq(toServer, 3, Len(toServer))
          /\ Len(toServer) \in Nat /\ Len(toServer) >= 2
      BY <1>1, <1>2, <1>3, <2>2
    <3>2. Len(toServer') = Len(toServer) - 2
      BY <1>2, <3>1
    <3>3. /\ DOMAIN toServer' = 1..(Len(toServer) - 2)
          /\ \A i \in 1..(Len(toServer) - 2) : toServer'[i] = toServer[i + 2]
      BY <1>2, <3>1
    <3>4. \A i \in 1..(Len(toServer) - 2) : i + 2 \in 1..Len(toServer)
      BY <3>1
    <3> QED
      BY <1>2, <2>2, <3>2, <3>3, <3>4
  <2> QED
    BY <2>1, <2>2
<1>5. Aligned'
  <2>1. ASSUME NEW i \in DOMAIN toServer', toServer'[i] # "zeros"
        PROVE  i % 2 = 1
    <3>1. (i + 2) % 2 = 1 /\ i \in Nat
      BY <1>4, <2>1 DEF Aligned
    <3> QED
      BY <3>1
  <2>2. ASSUME Len(toServer') % 2 = 1
        PROVE  toServer'[Len(toServer')] # "zeros"
    <3>0. Len(toServer) # 1 /\ Len(toServer') = Len(toServer) - 2
      <4>1. Len(toServer) = 1 => Len(toServer') = 0 /\ 0 % 2 = 0
        BY <1>4
      <4>2. Len(toServer) # 1
        <5> SUFFICES ASSUME Len(toServer) = 1 PROVE FALSE
          OBVIOUS
        <5>1. Len(toServer') % 2 = 0 % 2 /\ 0 % 2 = 0
          BY <4>1
        <5> QED
          BY <2>2, <5>1
      <4> QED
        BY <1>4, <4>2
    <3>1. Len(toServer) # 1 /\ Len(toServer) % 2 = 1 /\ Len(toServer') = Len(toServer) - 2
          /\ Len(toServer') \in DOMAIN toServer'
      <4>1. (Len(toServer) - 2) % 2 = 1 /\ Len(toServer) \in Nat \ {0, 1}
        BY <1>2, <2>2, <3>0
      <4>2. Len(toServer) % 2 = 1 /\ Len(toServer) - 2 >= 1
        BY <4>1, OddBelow
      <4>3. Len(toServer') \in 1..Len(toServer')
        BY <3>0, <4>1, <4>2
      <4> QED
        BY <1>4, <3>0, <4>2, <4>3
    <3>2. toServer'[Len(toServer')] = toServer[Len(toServer)]
      BY <1>2, <1>4, <3>1
    <3> QED
      BY <3>1, <3>2 DEF Aligned
  <2> QED
    BY <2>1, <2>2 DEF Aligned
<1>6. Len(toServer) # 1 => toServer[2] = "zeros"
  <2> SUFFICES ASSUME Len(toServer) # 1 PROVE toServer[2] = "zeros"
    OBVIOUS
  <2>1. 2 \in DOMAIN toServer /\ 2 % 2 # 1
    BY <1>2
  <2> QED
    BY <2>1 DEF Aligned
<1>7. CASE toServer[1] = "LOGOUT"
  <2>1. 1 = Len(toServer) /\ awaits = "none" /\ ~logged_in /\ is_logged_in
    BY <1>2, <1>7 DEF SessionFits
  <2>2. ~is_logged_in' /\ UNCHANGED toClient
    BY <1>2, <1>7, <2>1 DEF Handle, AtLogin, LoggedIn
  <2>3. ~Welcomed'
    BY <2>1, <2>2, NothingAsked DEF Welcomed
  <2>4. \A i \in DOMAIN toServer' : FALSE
    BY <1>4, <2>1
  <2>5. is_logged_in' \in BOOLEAN /\ logged_in' \in BOOLEAN
    BY <1>2, ServerRecvType DEF TypeOK
  <2> QED
    BY <1>2, <1>5, <2>1, <2>2, <2>3, <2>4, <2>5 DEF SessionFits
<1>8. CASE toServer[1] = "zeros"
  <2>1. UNCHANGED <<is_logged_in, toClient>>
    BY <1>2, <1>8 DEF Handle, AtLogin, LoggedIn
  <2>2. Welcomed' = Welcomed
    BY <2>1 DEF Welcomed
  <2>3. ASSUME NEW i \in DOMAIN toServer', toServer'[i] = "LOGOUT"
        PROVE  i = Len(toServer') /\ awaits = "none" /\ ~logged_in /\ is_logged_in
    <3>1. i + 2 = Len(toServer) /\ awaits = "none" /\ ~logged_in /\ is_logged_in
      BY <1>4, <2>3 DEF SessionFits
    <3>2. i \in Nat \ {0} /\ Len(toServer) # 1
      BY <1>4, <3>1
    <3> QED
      BY <1>2, <1>4, <3>1, <3>2
  <2>4. ASSUME \A i \in DOMAIN toServer' : toServer'[i] # "LOGOUT"
        PROVE  \A i \in DOMAIN toServer : toServer[i] # "LOGOUT"
    <3> SUFFICES ASSUME NEW i \in DOMAIN toServer PROVE toServer[i] # "LOGOUT"
      OBVIOUS
    <3>1. CASE i = 1
      BY <1>8, <3>1
    <3>2. CASE i = 2
      <4>1. Len(toServer) # 1
        BY <1>2, <3>2
      <4> QED
        BY <1>6, <3>2, <4>1
    <3>3. CASE i # 1 /\ i # 2
      <4>1. i - 2 \in DOMAIN toServer'
        <5>1. i \in 1..Len(toServer) /\ Len(toServer) # 1 /\ i >= 3
          BY <1>2, <3>3
        <5>2. Len(toServer') = Len(toServer) - 2
          BY <1>4, <5>1
        <5>3. i - 2 \in 1..Len(toServer')
          BY <1>2, <5>1, <5>2
        <5> QED
          BY <1>4, <5>3
      <4>2. i \in Int /\ (i - 2) + 2 = i
        BY <1>2
      <4>3. toServer'[i - 2] = toServer[i]
        BY <1>4, <4>1, <4>2
      <4> QED
        BY <2>4, <4>1, <4>3
    <3> QED
      BY <3>1, <3>2, <3>3
  <2>5. (\A i \in DOMAIN toServer : toServer[i] # "LOGOUT") =>
          IF Welcomed THEN is_logged_in /\ ~logged_in ELSE is_logged_in = logged_in
    BY DEF SessionFits
  <2>6. SessionFits'
    BY <1>2, <2>1, <2>2, <2>3, <2>4, <2>5, Zenon DEF SessionFits
  <2> QED
    BY <1>5, <2>6
<1>9. CASE IsRequest(toServer[1])
  <2>1. /\ 1 \in DOMAIN toServer /\ toServer[1] = asked.kind
        /\ awaits = FirstRecv(asked.kind) /\ toClient = <<>>
    BY <1>2, <1>9 DEF Understood, OneRequest
  <2>2. awaits # "none"
    BY <1>9, <2>1 DEF IsRequest, FirstRecv
  <2>3. \A i \in DOMAIN toServer : toServer[i] # "LOGOUT"
    BY <2>2 DEF SessionFits
  <2>4. \A i \in DOMAIN toServer' : toServer'[i] # "LOGOUT"
    BY <1>4, <2>3
  <2>5. is_logged_in = logged_in
    BY <2>1, <2>3 DEF SessionFits, Welcomed
  <2>6. IF Welcomed' THEN is_logged_in' /\ ~logged_in ELSE is_logged_in' = logged_in
    <3>1. \A a \in Seq(Cell) : toClient' = toClient \o a => toClient' = a
      BY <2>1
    <3>2. CASE UNCHANGED <<is_logged_in, toClient>>
      BY <2>1, <2>5, <3>2 DEF Welcomed
    <3>3. CASE ~is_logged_in /\ toServer[1] \in AtLogin
      <4>1. PICK ok \in BOOLEAN :
              /\ is_logged_in' = (ok /\ toServer[1] = "LOGIN")
              /\ toClient' = toClient \o Sent(IF is_logged_in' THEN "SUCCESS" ELSE "text", 1)
        BY <1>2, <3>3 DEF Handle, AtLogin, LoggedIn
      <4> DEFINE word == IF is_logged_in' THEN "SUCCESS" ELSE "text"
      <4>2. Sent(word, 1) \in Seq(Cell)
        BY SentOne DEF Part
      <4>3. toClient' = Sent(word, 1)
        BY <3>1, <4>1, <4>2
      <4>4. IsPlain(Sent(word, 1), word, 1)
        BY OnePart DEF TypeOK
      <4>5. toClient'[1].part = word /\ toClient' # <<>>
        BY <4>3, <4>4 DEF IsPlain
      <4>6. Welcomed' <=> is_logged_in'
        BY <4>5 DEF Welcomed
      <4>7. is_logged_in' \in BOOLEAN
        BY <4>1
      <4> QED
        BY <1>2, <2>5, <3>3, <4>6, <4>7
    <3>4. CASE is_logged_in /\ toServer[1] \in LoggedIn \ {"LOGOUT"}
      <4>1. PICK answer \in Answers(toServer[1]) : toClient' = toClient \o answer
        BY <1>2, <3>4 DEF Handle, AtLogin, LoggedIn
      <4>2. answer \in Seq(Cell) /\ answer[1].part # "SUCCESS"
        BY <3>4, AnswerType, AnswerIsNoWelcome
      <4>3. ~Welcomed'
        BY <3>1, <4>1, <4>2 DEF Welcomed
      <4>4. UNCHANGED is_logged_in
        BY <1>2, <3>4 DEF Handle, AtLogin, LoggedIn
      <4> QED
        BY <2>5, <4>3, <4>4
    <3> QED
      BY <1>2, <1>9, <3>2, <3>3, <3>4 DEF Handle, IsRequest
  <2> QED
    BY <1>2, <1>5, <2>4, <2>6 DEF SessionFits
<1> QED
  BY <1>7, <1>8, <1>9 DEF IsRequest

LEMMA ClientSession ==
  ASSUME TypeOK, ListsFit, Understood, Aligned, SessionFits, ClientRecv, ~cut'
  PROVE  Aligned' /\ SessionFits'
<1>1. /\ Received /\ logged_in' = (logged_in \/ Welcomed) /\ (Welcomed => toClient' = <<>>)
      /\ awaits # "none"
  BY ClientUnderstood
<1>2. UNCHANGED <<toServer, is_logged_in>> /\ logged_in \in BOOLEAN
  BY DEF TypeOK, ClientRecv, RecvCount, RecvText, RecvHead, RecvForeign
<1>3. Aligned'
  BY <1>2 DEF Aligned
<1>4. \A i \in DOMAIN toServer : toServer[i] # "LOGOUT"
  BY <1>1 DEF SessionFits
<1>5. ~Welcomed'
  <2>1. asked.no \in Nat
    BY DEF TypeOK
  <2>2. ASSUME NEW n \in Nat \ {0}, toClient' = Sent("text", n)
        PROVE  toClient'[1].part = "text"
    <3>1. IsPlain(toClient', "text", n)
      BY <2>1, <2>2, OnePart
    <3> QED
      BY <3>1 DEF IsPlain
  <2> QED
    BY <1>1, <2>2 DEF Received, Welcomed
<1>6. is_logged_in' = logged_in'
  <2>1. IF Welcomed THEN is_logged_in /\ ~logged_in ELSE is_logged_in = logged_in
    BY <1>4 DEF SessionFits
  <2>2. is_logged_in \in BOOLEAN
    BY DEF TypeOK
  <2> QED
    BY <1>1, <1>2, <2>1, <2>2, Zenon
<1> QED
  BY <1>2, <1>3, <1>4, <1>5, <1>6 DEF SessionFits

-----------------------------------------------------------------------------
(* The invariant and the theorems *)

LEMMA IInvStep ==
  ASSUME ListsFit, IInv, [Next]_vars
  PROVE  IInv'
<1>1. TypeOK /\ (toServer # <<>> => asked.no # 0) /\ cut \in BOOLEAN /\ hasty \in BOOLEAN
  BY DEF IInv, TypeOK
<1>2. ASSUME NEW kind \in Kind, Send(kind) PROVE IInv'
  <2>1. TypeOK' /\ asked'.no # 0
    BY <1>1, <1>2, SendType
  <2>2. ~cut' => Understood'
    <3>1. cut' = cut
      BY <1>2 DEF Send
    <3> QED
      BY <1>1, <1>2, <3>1, SendUnderstood DEF IInv
  <2>3. ~cut' /\ ~hasty' => Aligned' /\ SessionFits'
    <3>1. cut' = cut /\ (~hasty' => ~hasty)
      BY <1>1, <1>2, Zenon DEF Send
    <3> QED
      BY <1>1, <1>2, <3>1, SendSession DEF IInv
  <2> QED
    BY <2>1, <2>2, <2>3 DEF IInv
<1>3. CASE ServerRecv
  <2>1. asked.no # 0 /\ (~cut' => ~cut) /\ UNCHANGED <<asked, hasty>>
    BY <1>1, <1>3, Zenon DEF ServerRecv
  <2>2. TypeOK'
    BY <1>1, <1>3, <2>1, ServerRecvType
  <2>3. ~cut' => Understood'
    BY <1>1, <1>3, <2>1, ServerUnderstood DEF IInv
  <2>4. ~cut' /\ ~hasty' => Aligned' /\ SessionFits'
    BY <1>1, <1>3, <2>1, ServerSession DEF IInv
  <2> QED
    BY <2>1, <2>2, <2>3, <2>4 DEF IInv
<1>4. CASE ClientRecv
  <2>1. (~cut' => ~cut) /\ hasty' = hasty
    BY <1>1, <1>4, Zenon DEF ClientRecv, RecvCount, RecvText, RecvHead, RecvForeign, Take
  <2>2. TypeOK' /\ UNCHANGED <<toServer, asked>>
    BY <1>1, <1>4, ClientRecvType
  <2>3. ~cut' => Understood'
    BY <1>1, <1>4, <2>1, ClientUnderstood DEF IInv
  <2>4. ~cut' /\ ~hasty' => Aligned' /\ SessionFits'
    BY <1>1, <1>4, <2>1, ClientSession DEF IInv
  <2> QED
    BY <1>1, <2>2, <2>3, <2>4 DEF IInv
<1>5. CASE UNCHANGED vars
  <2>1. TypeOK'
    BY <1>1, <1>5 DEF vars, TypeOK
  <2>2. ~cut' => Understood'
    BY <1>5 DEF vars, IInv, Understood, OneRequest, AnswerFits, Sent
  <2>3. ~cut' /\ ~hasty' => Aligned' /\ SessionFits'
    BY <1>5 DEF vars, IInv, Aligned, SessionFits, Welcomed
  <2> QED
    BY <1>5, <2>1, <2>2, <2>3 DEF vars, IInv
<1> QED
  BY <1>2, <1>3, <1>4, <1>5 DEF Next

LEMMA Invariant ==
  ASSUME ListsFit
  PROVE  Spec => []IInv
<1>1. Init => IInv
  BY InitIInv
<1>2. ListsFit /\ IInv /\ [Next]_vars => IInv'
  BY IInvStep
<1> QED
  BY <1>1, <1>2, PTL DEF Spec

(* The type invariant, for any lists that fit the application's buffer.    *)
THEOREM TypeCorrect ==
  ASSUME ListsFit
  PROVE  Spec => []TypeOK
<1>1. IInv => TypeOK
  BY DEF IInv
<1> QED
  BY <1>1, Invariant, PTL

(* Unless the network cuts a message in two, the application takes no rest *)
(* of one answer for another and parses no half list, whatever recv        *)
(* returns at a time, for any lists that fit its buffer.                   *)
THEOREM MixUpsNeedACut ==
  ASSUME ListsFit
  PROVE  Spec => []MixUpNeedsCut
<1>1. IInv => MixUpNeedsCut
  BY DEF IInv, Understood, MixUpNeedsCut
<1> QED
  BY <1>1, Invariant, PTL

(* The seat map that opens knows every taken seat, whether the list came   *)
(* with its number or behind it, or none if the server could not read them *)
(* (ticket_detail.c:82-138, server.c:215-252).                             *)
THEOREM SeatsAreComplete ==
  ASSUME ListsFit
  PROVE  Spec => []SeatsComplete
<1>1. IInv => SeatsComplete
  BY DEF IInv, TypeOK, Understood, SeatsComplete
<1> QED
  BY <1>1, Invariant, PTL

(* Whatever LOGIN leaves behind in the server's buffer, and although       *)
(* LOGOUT has no answer, the two ends agree on who is logged in when       *)
(* everything has arrived, for a user who waits for LOGOUT to be read.     *)
THEOREM EndsAgree ==
  ASSUME ListsFit
  PROVE  Spec => []SessionsAgree
<1>1. IInv => SessionsAgree
  <2> SUFFICES ASSUME IInv, awaits = "none", toServer = <<>>, ~cut, ~hasty
               PROVE  logged_in = is_logged_in
    BY DEF SessionsAgree
  <2>1. toClient = <<>> /\ SessionFits
    BY NothingAsked DEF IInv
  <2>2. ~Welcomed /\ \A i \in DOMAIN toServer : FALSE
    BY <2>1 DEF Welcomed
  <2> QED
    BY <2>1, <2>2 DEF SessionFits
<1> QED
  BY <1>1, Invariant, PTL
=============================================================================
