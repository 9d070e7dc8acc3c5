CONSTANTS
  Width = 2
  Bits = 2
  Blank = 2
  Size = 13
  MaxText = 7
  Cipher <- MCCipher
CHECK_DEADLOCK FALSE
SPECIFICATION EncSpec
INVARIANT EncTypeOK
INVARIANT EncodedIsWhole
INVARIANT RoundTrip
INVARIANT OnlyBlanksRunOver
INVARIANT CutCostsOneBlock
