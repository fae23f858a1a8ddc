CONSTANTS
  a = a  b = b  k1 = k1
  None = None
  Targets = {a, b}
  Order <- OrderAB
  Reported = {a}
  Clients = {c1}
  Poller = Poller
  Keys = {k1}
  Asks <- TwoWindowAsks
  Writes <- RearmSaves
  FirstMode <- FirstOnce
  BucketLength = 10
  MaxTime = 3
  MaxWrites = 1
  MaxPolls = 2
  MaxCrashes = 0
SYMMETRY Symmetry
SPECIFICATION Spec
INVARIANT OnceMovesOn
CHECK_DEADLOCK FALSE
