SPECIFICATION Spec
CONSTANTS
  MaxPid = 3
  MaxWork = 4
  Coop = {2}
INVARIANTS
  RecordsOfLiving
PROPERTIES
  KillFindsAll
  ChildrenFirst
  ToldEnds
CHECK_DEADLOCK FALSE
