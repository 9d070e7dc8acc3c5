CONSTANTS
  Block = 3
  MaxSize = 10
SPECIFICATION StreamSpec
CHECK_DEADLOCK FALSE
INVARIANT StreamedAsIs
