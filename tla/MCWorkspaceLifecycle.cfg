SPECIFICATION Spec
CONSTANTS
  Ws = {w1}
  Tasks = {t1, t2}
  None = None
  MaxWorkspaces = 1
  MaxOperations = 2
  MaxHydrations = 1
SYMMETRY TaskSymmetry
INVARIANTS
  TypeOK
  TeardownOrdered
PROPERTIES
  NoLostEdits
  DestroySound
  ShutdownSound
CHECK_DEADLOCK FALSE
