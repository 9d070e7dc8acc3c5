CONSTANTS
  p1 = p1
  p2 = p2
  s1 = s1
  s2 = s2
  s3 = s3
  s4 = s4
  Process = {p1, p2}
  Name = {"Catalog", "Reporter", "Test"}
  Type = {"mysql"}
  TypeKey <- MCTypeKey
  Configured = {"Catalog", "Reporter", "Test"}
  Session = {s1, s2, s3, s4}
  Uninitialized = Uninitialized
  Null = Null
  Unconnected = Unconnected
SPECIFICATION Spec
SYMMETRY MCSymmetry
INVARIANT TypeOK
INVARIANT FlagMatchesPointer
INVARIANT SessionsOwned
PROPERTY ImplementsDBLink
