CONSTANTS
  Sym = {s1}
  MaxChanges = 3
SPECIFICATION StorSpec
INVARIANT StorTypeOK
PROPERTY LookIsJustified
PROPERTY ListIsJustified
PROPERTY ListingPredicts
