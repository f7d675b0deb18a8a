------------------------------ MODULE Accounts ------------------------------
(***************************************************************************)
(* REGISTER and LOGIN: handle_client (backend/server.c:128-194), auth.c    *)
(* and user.c.  Both look an account up in a copy of the table users that  *)
(* fetch_users makes in one array, the globals user and countUser of       *)
(* auth.c, which every thread allocates, fills, reads and frees without a  *)
(* lock.  REGISTER looks for the e-mail twice, fetches the table a third   *)
(* time and inserts; nothing in the table keeps e-mails apart.             *)
(*                                                                         *)
(* An action is one step of a thread between two accesses to the array or  *)
(* the table; a loop over the array is one step.  Names and phones are     *)
(* left out, a hash stands for its password, and the message is parsed in  *)
(* one step: what threads do to each other's strtok is the subject of      *)
(* BookingServer.                                                          *)
(***************************************************************************)
EXTENDS Naturals, Sequences, FiniteSets

CONSTANTS
  Thread,     \* the connection slots, each served by one thread at a time
  Email,
  Password,
  MaxUsers,   \* bound: the rows of users
  None        \* no row, no session: bytes malloc left as they were, 0

ASSUME AccountsAssumption ==
  /\ MaxUsers \in Nat
  /\ None \notin [email : Email, password : Password] \cup Nat

VARIABLES
  users,      \* table users: the i-th row has user_id i
  user,       \* global of auth.c: the array, its cells and whether it is freed
  countUser,  \* global of auth.c
  misused,    \* an access to the array was undefined behaviour
  pc,         \* where in handle_client the thread of a slot is
  stage,      \* the lookup it is in: check, recheck, reload or login
  request,    \* buffer: the last message received
  result,     \* res of fetch_users
  reply,      \* what was sent in answer
  session,    \* user_id of a client that is logged in
  alone,      \* history: no other request was handled during this one
  failures    \* history: the statements of this request that failed

tables == users
array  == <<user, countUser, misused>>
local  == <<pc, stage, request, result, reply, session>>
noted  == <<alone, failures>>
vars   == <<tables, array, local, noted>>

-----------------------------------------------------------------------------

Row == [email : Email, password : Password]

Request == [op : {"register", "login"}, email : Email, password : Password]
             \cup [op : {"none"}]
NoRequest == [op |-> "none"]

Replies == {"none", "SUCCESS", "FAILED", "EMAIL_EXISTED", "EMAIL_NOT_FOUND"}

Stages == {"none", "check", "recheck", "reload", "login"}

Busy(t) == pc[t] \notin {"closed", "idle", "spin"}

All(value) == [t \in Thread |-> value]

Fresh ==
  /\ user' = [cell |-> <<>>, freed |-> FALSE] /\ countUser' = 0 /\ misused' = FALSE
  /\ pc' = All("closed") /\ stage' = All("none") /\ request' = All(NoRequest)
  /\ result' = All(<<>>) /\ reply' = All("none") /\ session' = All(None)
  /\ alone' = All(TRUE) /\ failures' = All(0)

Init ==
  /\ users = <<>>
  /\ user = [cell |-> <<>>, freed |-> FALSE] /\ countUser = 0 /\ misused = FALSE
  /\ pc = All("closed") /\ stage = All("none") /\ request = All(NoRequest)
  /\ result = All(<<>>) /\ reply = All("none") /\ session = All(None)
  /\ alone = All(TRUE) /\ failures = All(0)

\* The process dies and is started again: the table stays.
ProcessDies == Fresh /\ UNCHANGED tables

-----------------------------------------------------------------------------
(* Steps of a thread *)

Goto(t, here, there) ==
  /\ pc[t] = here
  /\ pc' = [pc EXCEPT ![t] = there]

\* The handler sends its answer and goes back to recv.
Finish(t, answer) ==
  /\ pc' = [pc EXCEPT ![t] = "idle"]
  /\ stage' = [stage EXCEPT ![t] = "none"]
  /\ reply' = [reply EXCEPT ![t] = answer]

\* checkEmailExist, or register_user after it, fetches the table (again).
Fetch(t, next) ==
  /\ pc' = [pc EXCEPT ![t] = "select"]
  /\ stage' = [stage EXCEPT ![t] = next]
  /\ UNCHANGED reply

AfterAbsentSwapped(t) ==     \* variant: an unknown e-mail answered like a taken one
  \/ stage[t] = "check" /\ request[t].op = "register" /\ Fetch(t, "recheck")
  \/ stage[t] = "check" /\ request[t].op = "login" /\ Finish(t, "EMAIL_EXISTED")
  \/ stage[t] = "recheck" /\ Fetch(t, "reload")
  \/ stage[t] \in {"reload", "login"} /\ Finish(t, "FAILED")

AfterAbsentNoReload(t) ==     \* variant: register_user frees an array it has not fetched
  \/ stage[t] = "check" /\ request[t].op = "register" /\ Fetch(t, "recheck")
  \/ stage[t] = "check" /\ request[t].op = "login" /\ Finish(t, "EMAIL_NOT_FOUND")
  \/ /\ stage[t] = "recheck"
     /\ pc' = [pc EXCEPT ![t] = "add"]
     /\ stage' = [stage EXCEPT ![t] = "reload"]
     /\ UNCHANGED reply
  \/ stage[t] \in {"reload", "login"} /\ Finish(t, "FAILED")

\* The account was not found, or the table could not be fetched: to
\* checkEmailExist that is the same.
AfterAbsent(t) ==
  \/ stage[t] = "check" /\ request[t].op = "register" /\ Fetch(t, "recheck")
  \/ stage[t] = "check" /\ request[t].op = "login" /\ Finish(t, "EMAIL_NOT_FOUND")
  \/ stage[t] = "recheck" /\ Fetch(t, "reload")
  \/ stage[t] \in {"reload", "login"} /\ Finish(t, "FAILED")

\* The account was found by a look for its e-mail.
AfterFound(t) ==
  \/ stage[t] = "check" /\ request[t].op = "register" /\ Finish(t, "EMAIL_EXISTED")
  \/ stage[t] = "check" /\ request[t].op = "login" /\ Fetch(t, "login")
  \/ stage[t] = "recheck" /\ Finish(t, "FAILED")

Failed(t) == failures' = [failures EXCEPT ![t] = @ + 1]

\* connect_db, SELECT * FROM users and mysql_store_result.
Select(t) ==
  /\ pc[t] = "select"
  /\ UNCHANGED <<tables, array, request, session, alone>>
  /\ \/ /\ Goto(t, "select", "count")
        /\ result' = [result EXCEPT ![t] = users]
        /\ UNCHANGED <<stage, reply, failures>>
     \/ /\ AfterAbsent(t)
        /\ Failed(t)
        /\ UNCHANGED result

\* *count = num_rows
SetCount(t) ==
  /\ Goto(t, "count", "malloc")
  /\ countUser' = Len(result[t])
  /\ UNCHANGED <<tables, user, misused, stage, request, result, reply, session, noted>>

\* *users = malloc(sizeof(User) * num_rows): the array there was is lost.
Malloc(t) ==
  /\ Goto(t, "malloc", "fill")
  /\ user' = [cell |-> [i \in 1..Len(result[t]) |-> None], freed |-> FALSE]
  /\ UNCHANGED <<tables, countUser, misused, stage, request, result, reply, session, noted>>

FillReversed(t) ==     \* variant: newest row first
  /\ Goto(t, "fill", IF stage[t] = "reload" THEN "add" ELSE "scan")
  /\ result' = [result EXCEPT ![t] = <<>>]
  /\ UNCHANGED <<tables, countUser, stage, request, reply, session, noted>>
  /\ LET n == Len(result[t]) IN
     IF ~user.freed /\ n <= Len(user.cell)
     THEN /\ user' = [user EXCEPT !.cell =
                        [i \in DOMAIN @ |-> IF i <= n THEN result[t][n + 1 - i] ELSE @[i]]]
          /\ UNCHANGED misused
     ELSE misused' = TRUE /\ UNCHANGED user

\* The rows are copied to *users, the array another thread may have put
\* there, too short or freed meanwhile.
Fill(t) ==
  /\ Goto(t, "fill", IF stage[t] = "reload" THEN "add" ELSE "scan")
  /\ result' = [result EXCEPT ![t] = <<>>]
  /\ UNCHANGED <<tables, countUser, stage, request, reply, session, noted>>
  /\ LET n == Len(result[t]) IN
     IF ~user.freed /\ n <= Len(user.cell)
     THEN /\ user' = [user EXCEPT !.cell =
                        [i \in DOMAIN @ |-> IF i <= n THEN result[t][i] ELSE @[i]]]
          /\ UNCHANGED misused
     ELSE misused' = TRUE /\ UNCHANGED user

MatchEmailOnly(t, row) == row.email = request[t].email     \* variant: no password

MatchAlways(t, row) ==     \* variant: the password is compared in every lookup
  /\ row.email = request[t].email
  /\ row.password = request[t].password

\* The comparisons of checkEmailExist and of login_user.
Match(t, row) ==
  /\ row.email = request[t].email
  /\ stage[t] = "login" => row.password = request[t].password

\* What the loop over user[0..countUser-1] reads: rows, or undefined bytes.
IsRow(i) == ~user.freed /\ i \in DOMAIN user.cell /\ user.cell[i] # None

FoundAt(t, i) ==
  /\ i \in 1..countUser
  /\ \A j \in 1..i : IsRow(j) /\ (Match(t, user.cell[j]) <=> j = i)

NotFound(t) == \A j \in 1..countUser : IsRow(j) /\ ~Match(t, user.cell[j])

\* user[i].user_id
UserId(i) == i

\* login_user succeeds, and handle_client lets the client in.
Welcome(t, id) ==
  /\ stage[t] = "login"
  /\ Finish(t, "SUCCESS")
  /\ session' = [session EXCEPT ![t] = id]
  /\ request' = [request EXCEPT ![t] = NoRequest]

\* The array of an unsuccessful login_user is not freed.
Absent(t) ==
  IF stage[t] = "login" THEN AfterAbsent(t)
  ELSE pc' = [pc EXCEPT ![t] = "free"] /\ UNCHANGED <<stage, reply>>

\* The loop of checkEmailExist or login_user.  Undefined bytes may match
\* or not, and be anybody's id.
Scan(t) ==
  /\ pc[t] = "scan"
  /\ UNCHANGED <<tables, user, countUser, result, noted>>
  /\ LET defined == NotFound(t) \/ \E i \in 1..countUser : FoundAt(t, i) IN
     /\ misused' = (misused \/ ~defined)
     /\ \/ \E i \in 1..countUser : FoundAt(t, i) /\ Welcome(t, UserId(i))
        \/ /\ (\E i \in 1..countUser : FoundAt(t, i)) \/ ~defined
           /\ AfterFound(t)
           /\ UNCHANGED <<request, session>>
        \/ /\ NotFound(t) \/ ~defined
           /\ Absent(t)
           /\ UNCHANGED <<request, session>>
        \/ ~defined /\ \E id \in 1..MaxUsers : Welcome(t, id)

\* add_user: INSERT INTO users.
AddUser(t) ==
  /\ pc[t] = "add"
  /\ UNCHANGED <<array, request, result, session, alone>>
  /\ \/ /\ users' = Append(users, [email    |-> request[t].email,
                                   password |-> request[t].password])
        /\ Goto(t, "add", "free")
        /\ UNCHANGED <<stage, reply, failures>>
     \/ /\ Finish(t, "FAILED")
        /\ Failed(t)
        /\ UNCHANGED tables

\* free(user), whosever array that is now.
Free(t) ==
  /\ pc[t] = "free"
  /\ IF user.freed THEN misused' = TRUE /\ UNCHANGED user
     ELSE user' = [user EXCEPT !.freed = TRUE] /\ UNCHANGED misused
  /\ IF stage[t] = "reload" THEN Finish(t, "SUCCESS") ELSE AfterAbsent(t)
  /\ UNCHANGED <<tables, countUser, request, result, session, noted>>

-----------------------------------------------------------------------------
(* Connections and messages *)

Accept(t) ==
  /\ Goto(t, "closed", "idle")
  /\ session' = [session EXCEPT ![t] = None]
  /\ request' = [request EXCEPT ![t] = NoRequest]
  /\ reply' = [reply EXCEPT ![t] = "none"]
  /\ UNCHANGED <<tables, array, stage, result, noted>>

\* recv of a REGISTER or a LOGIN, and its strtoks.
Receive(t, r) ==
  /\ session[t] = None
  /\ Goto(t, "idle", "select")
  /\ stage' = [stage EXCEPT ![t] = "check"]
  /\ request' = [request EXCEPT ![t] = r]
  /\ reply' = [reply EXCEPT ![t] = "none"]
  /\ alone' = All(\A o \in Thread : ~Busy(o))
  /\ failures' = [failures EXCEPT ![t] = 0]
  /\ UNCHANGED <<tables, array, result, session>>

Registering == {t \in Thread : Busy(t) /\ request[t].op = "register"}

Ask(t) == \E r \in Request \ {NoRequest} :
  /\ r.op = "register" => Len(users) + Cardinality(Registering) < MaxUsers
  /\ Receive(t, r)

Logout(t) ==
  /\ pc[t] = "idle"
  /\ session[t] # None
  /\ session' = [session EXCEPT ![t] = None]
  /\ reply' = [reply EXCEPT ![t] = "none"]
  /\ UNCHANGED <<tables, array, pc, stage, request, result, noted>>

\* The application pads LOGIN and REGISTER to 4096 bytes (login.c:81,
\* register.c:417) and the server has read 1024 of them: while nobody is
\* logged in, the zeros of a later recv replace the message and are ignored.
ReadPadding(t) ==
  /\ session[t] = None
  /\ pc[t] = "idle" /\ request[t] # NoRequest
  /\ request' = [request EXCEPT ![t] = NoRequest]
  /\ UNCHANGED <<tables, array, pc, stage, result, reply, session, noted>>

\* The client goes away.  Logged in, the thread ends.  Otherwise the last
\* message is parsed again: zeros are ignored for ever; a LOGIN or REGISTER
\* whose padding never came, cut at its blank, has no token left, and strcpy
\* reads NULL.
Disconnect(t) ==
  \/ /\ session[t] # None
     /\ Goto(t, "idle", "closed")
     /\ session' = [session EXCEPT ![t] = None]
     /\ UNCHANGED <<tables, array, stage, request, result, reply, noted>>
  \/ /\ session[t] = None /\ request[t] = NoRequest
     /\ Goto(t, "idle", "spin")
     /\ UNCHANGED <<tables, array, stage, request, result, reply, session, noted>>
  \/ /\ session[t] = None /\ request[t] # NoRequest
     /\ pc[t] = "idle"
     /\ ProcessDies

Handle(t) ==
  \/ Select(t) \/ SetCount(t) \/ Malloc(t) \/ Fill(t) \/ Scan(t)
  \/ AddUser(t) \/ Free(t)

Next ==
  \/ ProcessDies
  \/ \E t \in Thread : Accept(t) \/ Ask(t) \/ Logout(t) \/ ReadPadding(t) \/ Disconnect(t)
                       \/ Handle(t)

Spec == Init /\ [][Next]_vars

-----------------------------------------------------------------------------
(* Properties *)

TypeOK ==
  /\ users \in Seq(Row)
  /\ user \in [cell : Seq(Row \cup {None}), freed : BOOLEAN]
  /\ countUser \in Nat
  /\ misused \in BOOLEAN
  /\ pc \in [Thread -> {"closed", "idle", "spin", "select", "count", "malloc",
                        "fill", "scan", "add", "free"}]
  /\ stage \in [Thread -> Stages]
  /\ request \in [Thread -> Request]
  /\ result \in [Thread -> Seq(Row)]
  /\ reply \in [Thread -> Replies]
  /\ session \in [Thread -> (Nat \ {0}) \cup {None}]
  /\ alone \in [Thread -> BOOLEAN]
  /\ failures \in [Thread -> Nat]

(* Whatever threads do to each other's array, a cell that holds a row holds *)
(* the row whose user_id is its place: an index found in the array names    *)
(* the right user (user.c:31-38, auth.c:105-107).                           *)
CellsAreUsers ==
  \A i \in DOMAIN user.cell :
    user.cell[i] # None => i \in DOMAIN users /\ user.cell[i] = users[i]

(* A login that did not rest on undefined bytes lets the client in as the   *)
(* user with its e-mail and password (auth.c:96-113), even when the array   *)
(* it reads is another thread's.                                            *)
LoginIsOwn ==
  [][\A t \in Thread :
       session'[t] \notin {None, session[t]} /\ ~misused' =>
         /\ users[session'[t]].email = request[t].email
         /\ users[session'[t]].password = request[t].password]_vars

(* The array is read, written and freed as C allows, unless the request     *)
(* overlaps another one (auth.c:10, 54-113; user.c:29-38): what earlier     *)
(* requests left in the globals does no harm.  It speaks of the first       *)
(* misuse of a process: after that, memory is anybody's guess.              *)
MisuseNeedsOverlap ==
  [][misused' /\ ~misused =>
       \E t \in Thread : pc'[t] # pc[t] /\ ~alone[t]]_vars

Registered(email) == \E i \in DOMAIN users : users[i].email = email

(* A second account with the same e-mail is made only when the request      *)
(* overlapped another one, or when both looks for the e-mail failed and     *)
(* were taken for "not there" (server.c:152-155, auth.c:54-57, 70).         *)
DuplicateNeedsOverlapOrFailures ==
  [][Len(users') > Len(users) =>
       \E t \in Thread :
         /\ pc[t] = "add" /\ pc'[t] = "free"
         /\ Registered(request[t].email) => ~alone[t] \/ failures[t] >= 2]_vars

\* What each answer to request r says about the table.
Says(answer, r) ==
  CASE answer = "EMAIL_EXISTED"   -> Registered(r.email)
    [] answer = "EMAIL_NOT_FOUND" -> ~Registered(r.email)
    [] answer = "SUCCESS"         -> \E i \in DOMAIN users :
                                       users[i] = [email |-> r.email, password |-> r.password]
    [] answer = "FAILED"          -> r.op = "login" /\ Registered(r.email)
    [] OTHER                      -> FALSE

(* A request that overlaps no other one and meets no failing statement is   *)
(* answered with the truth about its account (server.c:152-185).            *)
AnswersTrue ==
  [][\A t \in Thread :
       Busy(t) /\ pc'[t] = "idle" /\ alone[t] /\ failures'[t] = 0 =>
         Says(reply'[t], request[t])]_vars
=============================================================================
