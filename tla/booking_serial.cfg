SPECIFICATION SerialSpec
CONSTANTS
  Thread = {t1, t2}
  User = {u1, u2}
  Flight = {f1, f2}
  Price = {100}
  Char = {"1", "2", "A"}
  Seat <- Seats
  Size = 7
  SeatLists <- SerialLists
  MaxId = 2
  Junk = Junk
  None = None
SYMMETRY ThreadSymmetry
PROPERTIES
  LedgerSpec
  AnswerNamesOwnBooking
  BookingAsAsked
  SeatsAsAsked
  OnlyAskedDeletions
  SessionIsOwn
