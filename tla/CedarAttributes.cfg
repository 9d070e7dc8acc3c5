CONSTANTS
  p1 = p1
  d1 = d1
  d2 = d2
  i1 = i1
  i2 = i2
  Process = {p1}
  Kindat = {d1, d2}
  Kinst = {i1, i2}
  Header = Header
  MaxRecords = 3
SPECIFICATION AttrSpec
SYMMETRY MCSymmetry
INVARIANT AttrTypeOK
INVARIANT TellsTheUnknown
INVARIANT OneTablePerKind
