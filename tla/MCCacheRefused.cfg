CONSTANTS
  o1 = o1
  o2 = o2
  b1 = b1
  Owners = {o1, o2}
  Blobs = {b1}
  Needs <- OneContent
  MaxIds = 3
  MaxEntries = 24
  Headroom = 4
  Slack = 1
  MaxDelete = 2
  MaxFaults = 0
SPECIFICATION Spec
PROPERTY RefusedCanCollect
CHECK_DEADLOCK FALSE
