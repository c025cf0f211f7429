SPECIFICATION MCSpec
CONSTANTS
  Index = {1, 2, 3, 4, 5}
  MaxRows = 3
  Columns = {0, 1}
INVARIANTS
  TypeOK
  MergeRight
  ArraysFit
  SameEntries
CHECK_DEADLOCK FALSE
