SPECIFICATION Spec
CONSTANTS
  None = None
  Rows = {1, 2, 3}
  Fields = {"createdAt", "name", "secret"}
  Columns = {"id", "name"}
  Unique = {"id"}
  MaxInt = 15
  DefaultSize = 2
  MaxSize = 3
  MaxVisits = 2
  Allowed <- AllowedFields
  PageParams <- Pages
  SizeParams <- Sizes
  SortParams <- Sorts
INVARIANTS TypeOK NothingMissed NothingTwice
PROPERTY WalkEnds
CHECK_DEADLOCK FALSE
