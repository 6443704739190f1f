CONSTANTS
  j1 = j1
  j2 = j2
  PageOf <- MCPages
  Views = {"s1", "s2", "s3", "s4", "s5"}
  RootOf <- MCRoots
  Owners = {"w1", "w2"}
  Pinned <- MCPinned
  Jobs = {j1, j2}
  TasksOf <- MCTasks
  PAGES_BATCH = 2
  max_root_nodes = 6
  StaleIndexes <- MCStale
  StaysBad = {"D"}
  MaxDamage = 1
  c1 = c1
  c2 = c2
  Callers = {c1, c2}
  Tree <- MCTree
  Targets <- MCTargets
  OpsOf <- MCOps
  max_cached_nodes = 5
  PAGE_LEARNING_JOBS = 1
  a1 = a1
  a2 = a2
  b1 = b1
  b2 = b2
  A = A
  B = B
  Scopes = {A,B}
  Requests = {a1,a2,b1,b2}
  ScopeOf <- MCScopes
  LocalScopes = {B}
  Hung = {A}
  LOCAL_OUTSTANDING = 2
  LOCAL_RUNNING = 1
  PROCESS_OUTSTANDING = 3
  PROCESS_RUNNING = 2
  LocalCredits = 4
  ProcessCredits = 5
  BodySize <- MCSizes
  CacheEntries = 2
  max_bytes = 2
SPECIFICATION MountSpec
INVARIANTS
  MountTypeOK
  SyncExact
  TableExact
PROPERTIES
  RecordsFollowPins
  ViewTrue
  WorkAccounted
  MountAnswers
