SPECIFICATION Spec
CONSTANTS
  N = 3
  RING_K = 1
  Timeout = 3
  MaxFaults = 1
INVARIANTS
  NoFalseOffline
PROPERTIES
  BothKnow
  GoneIsNoticed
