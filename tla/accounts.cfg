SPECIFICATION Spec
CONSTANTS
  Thread = {t1, t2}
  Email = {e1, e2}
  Password = {p1, p2}
  MaxUsers = 2
  None = None
SYMMETRY Symmetry
INVARIANTS
  CellsAreUsers
PROPERTIES
  LoginIsOwn
  MisuseNeedsOverlap
  DuplicateNeedsOverlapOrFailures
  AnswersTrue
