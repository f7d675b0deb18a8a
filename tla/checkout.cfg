SPECIFICATION Spec
CONSTANTS
  User = {u1, u2}
  Flight = {f1}
  Class = {"Economy"}
  Price <- MCPrice
  Seat <- MCSeat
  FlightPrice <- MCFlightPrice
  Capacity <- MCCapacity
  MaxPages = 2
  MaxIdle = 1
  IntMax = 250
  None = None
SYMMETRY Symmetry
INVARIANTS
  SelectionAgrees
  SessionAgrees
  BookedOnPayment
CHECK_DEADLOCK FALSE
