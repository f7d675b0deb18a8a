SPECIFICATION Spec
CONSTANTS
  User = {u1}
  Flight = {f1, f2}
  Class = {"Economy"}
  Price <- MCPrice
  Seat <- MCSeat
  FlightPrice <- MCFlightPrice
  Capacity <- MCCapacity
  MaxPages = 2
  MaxIdle = 1
  IntMax = 250
  None = None
INVARIANT SeatSoldOnce
CHECK_DEADLOCK FALSE
