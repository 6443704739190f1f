CONSTANTS
  o1 = o1
  o2 = o2
  b1 = b1
  Owners = {o1, o2}
  Blobs = {b1}
  Needs <- OneContent
  MaxIds = 3
  MaxEntries = 22
  Headroom = 3
  Slack = 1
  MaxDelete = 2
  MaxFaults = 1
SPECIFICATION Spec
SYMMETRY Symmetry
INVARIANTS
  TypeOK
  DiskAccounted
  PinnedSurvives
CHECK_DEADLOCK FALSE
