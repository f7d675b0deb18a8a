---------------------------- MODULE MCFlightSearch --------------------------
EXTENDS FlightSearch

MCName == [SGN |-> "Tan Son Nhat", VCL |-> "Chu Lai", CJJ |-> "Chu Lai"]

MCFlight(id, to, day, cost, minutes, rows) ==
  [flight_id |-> id, departure_airport |-> "SGN", arrival_airport |-> to, date |-> day,
   price |-> cost, duration_minutes |-> minutes, capacity |-> RowSize * rows]

\* Three flights on one day, one of them with rows beyond the ninth, and one
\* two days earlier.
MCTable ==
  << MCFlight("VN001", "VCL", 3, 2, 1, 11), MCFlight("VN002", "CJJ", 3, 1, 2, 4),
     MCFlight("VN003", "VCL", 3, 1, 3, 5), MCFlight("VN004", "VCL", 1, 3, 1, 4) >>

MCForm ==
  { [from |-> "SGN", to |-> "VCL", class |-> c, date |-> 3, number |-> n] :
      c \in Class, n \in {2} }
  \cup { [from |-> "SGN", to |-> "CJJ", class |-> "Business", date |-> 4, number |-> 4],
         [from |-> "VCL", to |-> "SGN", class |-> "Economy", date |-> 3, number |-> 1],
         [from |-> "SGN", to |-> "VCL", class |-> "Economy", date |-> None, number |-> 1],
         [from |-> "SGN", to |-> "SGN", class |-> "Economy", date |-> 3, number |-> 1],
         [from |-> "SGN", to |-> "VCL", class |-> "Economy", date |-> 3, number |-> None],
         None }

MCSeat(id, r) == [flight |-> id, row |-> r, column |-> "A"]

MCBookable ==
  { MCSeat("VN001", 1), MCSeat("VN001", 10), MCSeat("VN002", 4), MCSeat("VN003", 2) }

MCMayFail == {<<"VN002", "Economy">>}
=============================================================================
