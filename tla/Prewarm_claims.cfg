CONSTANTS
  a = a  b = b  k1 = k1
  None = None
  Targets = {a, b}
  Order <- OrderAB
  Reported = {a, b}
  Clients = {c1, c2, c3}
  Poller = Poller
  Keys = {k1}
  Asks <- TwoWindowAsks
  Writes <- OtherSaves
  FirstMode <- FirstOnce
  BucketLength = 10
  MaxTime = 0
  MaxWrites = 1
  MaxPolls = 0
  MaxCrashes = 0
SYMMETRY Symmetry
SPECIFICATION Spec
INVARIANT ClaimExcludes
CHECK_DEADLOCK FALSE
