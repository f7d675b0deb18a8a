-------------------------- MODULE MCBookingServer --------------------------
(* Small instances of BookingServer: the seats 2A and 12A, whose codes     *)
(* differ in width, and lists of one and of both.                          *)
EXTENDS BookingServer, TLC

Near == <<"2", "A">>
Far  == <<"1", "2", "A">>
Seats == {Near, Far}

Both(s, r) == s \o <<Comma>> \o r

RaceLists   == {Far, Both(Near, Far), Both(Far, Near)}
SerialLists == {Near, Far, Both(Near, Far), Both(Far, Near)}

ThreadSymmetry == Permutations(User) \cup Permutations(Flight) \cup Permutations(Thread)
=============================================================================
