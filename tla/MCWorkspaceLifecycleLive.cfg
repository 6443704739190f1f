SPECIFICATION LiveSpec
CONSTANTS
  Ws = {w1}
  Tasks = {t1, t2}
  None = None
  MaxWorkspaces = 1
  MaxOperations = 2
  MaxHydrations = 1
PROPERTIES
  LifecycleEnds
CHECK_DEADLOCK FALSE
