CONSTANTS
  p1 = p1
  p2 = p2
  k1 = k1
  k2 = k2
  Callers = {c1, c2, c3}
  Paths = {p1, p2}
  Keys = {k1, k2}
  Members <- Committed
  MaxCallers = 3
  MaxJobs = 2
  MaxConcurrent = 1
  MaxId = 6
SPECIFICATION Spec
SYMMETRY CallerSymmetry
INVARIANTS
  TypeOK
  WaitersServed
  SharedRightly
  PermitsExact
