CONSTANTS
  t1 = t1  t2 = t2  p1 = p1  p2 = p2  k1 = k1  k2 = k2
  None = None
  Tasks = {t1}
  Providers = {p1, p2}
  Requests = {r1, r2, r3, r4, r5}
  Keys = {k1}
  Calls <- ApprovalCalls
  ApiProviders = {p2}
  CodeWriters = {p1}
  MaxParticipants = 2
  AllowApiSpend = TRUE
  ExternalApproved = FALSE
  EarlyReads = FALSE
  MaxPending = 3
  MaxFailures = 0
  MaxCrashes = 0
SYMMETRY Symmetry
SPECIFICATION Spec
INVARIANTS ApprovedFirst DecidedOnce
PROPERTY ImplementsService
CHECK_DEADLOCK FALSE
