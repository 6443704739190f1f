CONSTANTS
  Muts = {m1}
  Handles = {h1, h2}
  Controls = {c1, c2}
  MaxInFlight = 2
SPECIFICATION FairSpec
INVARIANTS
  TypeOK
  PauseExcludes
  NoLeakedHandle
PROPERTIES
  SealSound
  ImplementsGate
  FenceMovesOn
