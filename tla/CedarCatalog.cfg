CONSTANTS
  p1 = p1
  s1 = s1
  s2 = s2
  k1 = k1
  c1 = c1
  row1 = row1
  row2 = row2
  Process = {p1}
  Name = {"Catalog"}
  Type = {"mysql"}
  TypeKey <- MCTypeKey
  Configured = {"Catalog"}
  Session = {s1, s2}
  Uninitialized = Uninitialized
  Null = Null
  Unconnected = Unconnected
  Kinst = {k1}
  Parcod = {c1}
  Row = {row1, row2}
  NoRow = NoRow
  ManyRows = ManyRows
  Absent = Absent
SPECIFICATION CatSpec
SYMMETRY MCSymmetry
INVARIANT CatTypeOK
INVARIANT ReleasedAtRest
PROPERTY EntriesGenuine
PROPERTY LossIsForever
PROPERTY CachesAreMemos
