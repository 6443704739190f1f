CONSTANTS
  p1 = p1
  k1 = k1
  Callers = {c1, c2}
  Paths = {p1}
  Keys = {k1}
  Members <- MCMembers
  MaxCallers = 2
  MaxJobs = 2
  MaxConcurrent = 1
  MaxId = 6
  Operations = {o1}
  Grants = {2, 3}
  RequestTimeout = 2
  Attempts = 2
  EndOfTime = 5
  Provers = {q1, q2, q3}
  Plan <- MCPlan
  CELLS = 2
  LocalCallers = 3
  LocalInitializers = 2
  MAX_VISITS = 4
  Counts = {3}
  WORD = 3
  item_limit = 2
  Limits <- MCLimits
  LEAF = 2
  ItemBytes = {1, 2, 3}
  OVERHEAD = 1
  LIMIT = 5
SPECIFICATION ServiceSpec
INVARIANTS
  ServiceTypeOK
  RenewerDiligent
PROPERTIES
  LeaseSound
  ProofSound
  TransferExact
  ServiceSettles
