SPECIFICATION Spec
CONSTANTS
  Client = {"c1", "c2"}
  Flight = {"f1", "f2"}
  Announcement = {1, 2}
  FlightOf <- MCFlightOf
  RowsOf <- MCRowsOf
  MaxBooked = 2
  None = None
INVARIANTS
  ListIsTable
  NotifiedExactly
PROPERTIES
  NotificationsOpen
CHECK_DEADLOCK FALSE
