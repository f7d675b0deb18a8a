---------------------------- MODULE MCMyBookings ----------------------------
(* Small instances of MyBookings.                                          *)
EXTENDS MyBookings

\* One user logged in at two applications, another one at a third.
MCOwner == [c \in Client |-> IF c = "visitor" THEN "bo" ELSE "an"]

\* The rows come by their primary key.
MCRowsOf == [ids \in SUBSET (1..MaxId) |-> SetToSortSeq(ids, <)]
=============================================================================
