SPECIFICATION OneLifeSpec
CONSTANTS
  Thread = {t1, t2}
  User = {u1, u2}
  Flight = {f1}
  Price = {100}
  Char = {"1", "2", "A"}
  Seat <- Seats
  Size = 7
  SeatLists <- RaceLists
  MaxId = 1
  Junk = Junk
  None = None
SYMMETRY ThreadSymmetry
INVARIANTS
  DetailsReferToBookings
  AnsweredIdWasIssued
  StrtokStaysInList
PROPERTIES
  BookingUserIsRequester
CHECK_DEADLOCK FALSE
