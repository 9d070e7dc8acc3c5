CONSTANTS
  Block = 3
  MaxSize = 10
SPECIFICATION StreamFairSpec
INVARIANT StreamTypeOK
INVARIANT WholeBlocks
PROPERTY StreamReturns
CHECK_DEADLOCK FALSE
