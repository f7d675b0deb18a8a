SPECIFICATION Spec
CONSTANTS
  TextCells = {1, 7}
  SeatCells = {1, 2}
  MaxAsked = 8
INVARIANTS
  MixUpNeedsCut
  SeatsComplete
  SessionsAgree
PROPERTIES
  Answered
CHECK_DEADLOCK FALSE
