CONSTANTS
  a = a  b = b  k1 = k1
  None = None
  Targets = {a, b}
  Order <- OrderAB
  Reported = {a}
  Clients = {c1, c2}
  Poller = Poller
  Keys = {k1}
  Asks <- OneWindowAsks
  Writes <- OtherSaves
  FirstMode <- FirstOnce
  BucketLength = 10
  MaxTime = 3
  MaxWrites = 1
  MaxPolls = 1
  MaxCrashes = 1
SYMMETRY Symmetry
SPECIFICATION Spec
INVARIANTS TypeOK ClaimExcludes ClaimHasOwner KeyDispatchesOnce MeasuredAfterLast OnceMovesOn
PROPERTY ResetKeepsSaves
CHECK_DEADLOCK FALSE
