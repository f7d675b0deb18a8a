SPECIFICATION CalmSpec
CONSTANTS
  Client = {"desk", "laptop"}
  User = {"an", "bo"}
  Owner <- MCOwner
  RowsOf <- MCRowsOf
  Flight = {f1}
  Price = {100}
  Seat = {s1}
  MaxId = 3
  Garbage = Garbage
INVARIANT CancelsShown
CHECK_DEADLOCK FALSE
