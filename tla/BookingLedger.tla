---------------------------- MODULE BookingLedger ---------------------------
(***************************************************************************)
(* What the booking service promises to its clients, without threads,      *)
(* globals or parsing.  A client is signed in as one user or nobody, asks  *)
(* one thing at a time and is told the outcome; what happens to the books  *)
(* in between is what was asked for and nothing else.                      *)
(*                                                                         *)
(* The service may refuse anything (a database that fails), may forget a   *)
(* client at any time (a connection or the process that goes away), and    *)
(* may leave out any of the seats it says it has attached: the code        *)
(* answers SUCCESS whether or not the rows went in.                        *)
(***************************************************************************)
EXTENDS BookingStore

CONSTANTS
  Client,
  Nobody,     \* the user of a client that is not signed in
  Order       \* what a client can ask for: records with a field op

VARIABLES
  who,        \* the user each client is signed in as
  asked,      \* the order under way, per client
  told,       \* the answer to the last order, per client
  made        \* the id of the booking made for the order under way, or 0

clientVars == <<who, asked, told, made>>
vars == <<storeVars, who, asked, told, made>>

Idle == [op |-> "none"]
Silence == [kind |-> "none"]

Init ==
  /\ StoreInit
  /\ who = [c \in Client |-> Nobody]
  /\ asked = [c \in Client |-> Idle]
  /\ told = [c \in Client |-> Silence]
  /\ made = [c \in Client |-> 0]

\* A client that is signed in books for its own user.
Ask(c) ==
  /\ asked[c] = Idle
  /\ asked' \in [Client -> Order \cup {Idle}]
  /\ \A d \in Client \ {c} : asked'[d] = asked[d]
  /\ asked'[c].op = "create" => asked'[c].user = who[c]
  /\ told' = [told EXCEPT ![c] = Silence]
  /\ UNCHANGED <<storeVars, who, made>>

Tell(c, answer) ==
  /\ asked' = [asked EXCEPT ![c] = Idle]
  /\ told' = [told EXCEPT ![c] = answer]

SignIn(c) ==
  /\ asked[c].op = "login"
  /\ who' = [who EXCEPT ![c] = asked[c].user]
  /\ Tell(c, [kind |-> "welcome", user |-> asked[c].user])
  /\ UNCHANGED <<storeVars, made>>

SignOut(c) ==
  /\ asked[c] = Idle
  /\ who' = [who EXCEPT ![c] = Nobody]
  /\ told' = [told EXCEPT ![c] = Silence]
  /\ UNCHANGED <<storeVars, asked, made>>

Book(c) ==
  /\ asked[c].op = "create"
  /\ made[c] = 0
  /\ made' = [made EXCEPT ![c] = nextId]
  /\ InsertBooking(asked[c].user, asked[c].price, asked[c].flight)
  /\ UNCHANGED <<who, asked, told>>

TellBooking(c) ==
  /\ made[c] # 0
  /\ Tell(c, [kind |-> "created", id |-> made[c]])
  /\ made' = [made EXCEPT ![c] = 0]
  /\ UNCHANGED <<storeVars, who>>

Cancel(c) ==
  /\ asked[c].op = "delete"
  /\ asked[c].booking \in BookingIds
  /\ DeleteBooking(asked[c].booking)
  /\ Tell(c, [kind |-> "ok"])
  /\ UNCHANGED <<who, made>>

AttachSeat(c, seat) ==
  /\ asked[c].op = "detail"
  /\ seat \in asked[c].seats
  /\ InsertDetail(asked[c].booking, seat)
  /\ UNCHANGED clientVars

TellAttached(c) ==
  /\ asked[c].op = "detail"
  /\ Tell(c, [kind |-> "ok"])
  /\ UNCHANGED <<storeVars, who, made>>

Refuse(c) ==
  /\ asked[c].op \in {"login", "create", "delete"}
  /\ made[c] = 0
  /\ Tell(c, [kind |-> "failed"])
  /\ UNCHANGED <<storeVars, who, made>>

\* The clients in C are forgotten.
Forget(C) ==
  /\ who' = [c \in Client |-> IF c \in C THEN Nobody ELSE who[c]]
  /\ asked' = [c \in Client |-> IF c \in C THEN Idle ELSE asked[c]]
  /\ told' = [c \in Client |-> IF c \in C THEN Silence ELSE told[c]]
  /\ made' = [c \in Client |-> IF c \in C THEN 0 ELSE made[c]]
  /\ UNCHANGED storeVars

Next ==
  \/ \E C \in SUBSET Client : Forget(C)
  \/ \E c \in Client :
       \/ Ask(c) \/ SignIn(c) \/ SignOut(c) \/ Book(c) \/ TellBooking(c) \/ Cancel(c)
       \/ \E seat \in Seat : AttachSeat(c, seat)
       \/ TellAttached(c) \/ Refuse(c)

Spec == Init /\ [][Next]_vars
=============================================================================
