SPECIFICATION CalmSpec
CONSTANTS
  Client = {"desk", "laptop"}
  User = {"an", "bo"}
  Owner <- MCOwner
  RowsOf <- MCRowsOf
  Flight = {f1}
  Price = {100}
  Seat = {s1}
  MaxId = 2
  Garbage = Garbage
INVARIANTS
  OwnBookingsOnly
  OwnerCancels
PROPERTIES
  ScreenIsAccurate
  ListArrives
CHECK_DEADLOCK FALSE
