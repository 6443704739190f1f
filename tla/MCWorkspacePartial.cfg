SPECIFICATION Spec
CONSTANTS
  Ws = {w1}
  Tasks = {t1}
  None = None
  MaxWorkspaces = 1
  MaxOperations = 2
  MaxHydrations = 1
INVARIANT PartialOwnersObservable
CHECK_DEADLOCK FALSE
