--------------------------- MODULE MCNotifications ---------------------------
(* Small instances of Notifications.                                       *)
EXTENDS Notifications

\* Two announcements, of different flights.
MCFlightOf == <<"f1", "f2">>

\* The rows come by their primary key.
MCRowsOf == [ids \in SUBSET Announcement |-> SetToSortSeq(ids, <)]
=============================================================================
