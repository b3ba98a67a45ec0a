SPECIFICATION SlabSpec
CONSTANTS
  MAX_ATOMS = 2
  MAX_BUBBLES = 2
  MAX_ROOTS = 1
  MAX_BINDS = 2
  Name = {n1, long}
  Long = {long}
  Cut = Cut
  Absent = Absent
  TMax = 1
INVARIANTS
  SlotsSound
  WalkComplete
PROPERTIES
  TickReapsGarbage
