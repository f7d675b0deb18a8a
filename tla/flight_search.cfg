SPECIFICATION Spec
CONSTANTS
  Table <- MCTable
  Name <- MCName
  Form <- MCForm
  Bookable <- MCBookable
  MaxBooked = 1
  MayFail <- MCMayFail
  RowSize = 2
  None = None
INVARIANTS
  TypeOK
  ListIsSelection
  ListIsTrue
  OpenedFits
PROPERTIES
  SortSorts
