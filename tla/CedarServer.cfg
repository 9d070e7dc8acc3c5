CONSTANTS
  p1 = p1
  s1 = s1
  s2 = s2
  u1 = u1
  u2 = u2
  odd = odd
  Process = {p1}
  Name = {"Authenticate", "Reporter"}
  Type = {"mysql"}
  TypeKey <- MCTypeKey
  Configured = {"Authenticate", "Reporter"}
  Session = {s1, s2}
  Uninitialized = Uninitialized
  Null = Null
  Unconnected = Unconnected
  User = {u1, u2, odd}
  Plain = {u1, u2}
  NoUser = NoUser
  MaxContainers = 2
SPECIFICATION ServSpec
SYMMETRY MCSymmetry
INVARIANT ServTypeOK
INVARIANT RecordedIffServed
INVARIANT AllOrNothing
PROPERTY ProtectedNeedsSession
PROPERTY LossDenies
PROPERTY LossDivertsReports
