CONSTANTS
  t1 = t1  t2 = t2  p1 = p1  p2 = p2  k1 = k1  k2 = k2
  None = None
  Tasks = {t1}
  Providers = {p1}
  Requests = {r1, r2, r3, r4}
  Keys = {k1}
  Calls <- ClassifyCalls
  ApiProviders = {}
  CodeWriters = {}
  MaxParticipants = 2
  AllowApiSpend = FALSE
  ExternalApproved = FALSE
  EarlyReads = FALSE
  MaxPending = 4
  MaxFailures = 0
  MaxCrashes = 0
SYMMETRY Symmetry
SPECIFICATION Spec
INVARIANT RevisionsIncrease
CHECK_DEADLOCK FALSE
