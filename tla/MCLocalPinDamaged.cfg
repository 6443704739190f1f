CONSTANT MaxEpoch = 2
SPECIFICATION Spec
INVARIANT DamagedStaysUnknown
