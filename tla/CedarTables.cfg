CONSTANTS
  Code <- MCCode
  Value = {0, 1}
  MaxPar = 2
  MaxRows = 2
SPECIFICATION TabSpec
INVARIANT TablesTypeOK
INVARIANT TextsAgree
INVARIANT FlatLinesUp
INVARIANT DdsHoldsTab
INVARIANT FlatAsksMost
CHECK_DEADLOCK FALSE
