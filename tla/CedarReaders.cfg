CONSTANTS
  p1 = p1
  s1 = s1
  k1 = k1
  c1 = c1
  row1 = row1
  x1 = x1
  x2 = x2
  Process = {p1}
  Name = {"Catalog"}
  Type = {"mysql"}
  TypeKey <- MCTypeKey
  Configured = {"Catalog"}
  Session = {s1}
  Uninitialized = Uninitialized
  Null = Null
  Unconnected = Unconnected
  Kinst = {k1}
  Parcod = {c1}
  Row = {row1}
  NoRow = NoRow
  ManyRows = ManyRows
  Absent = Absent
  Header = Header
  DataRecord <- MCDataRecord
  Kindat = {x1, x2}
  MaxRecords = 2
  MainRows <- MCMainRows
  SiteRows <- MCSiteRows
SPECIFICATION ReadFairSpec
INVARIANT ReadTypeOK
INVARIANT DescribedOrSilenced
PROPERTY ToldExactly
PROPERTY CallReturns
PROPERTY LossFailsCalls
