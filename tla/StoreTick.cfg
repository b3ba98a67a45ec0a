SPECIFICATION Spec
CONSTANTS
  MaxAtomId = 1
  MaxBubbleId = 2
  Name = {n1}
  Unbound = Unbound
  TMax = 1
  TInit = 1
  HeatRead = 1
  HeatWrite = 1
  ThermalInit = {TRUE, FALSE}
  ForwardRefs = FALSE
  Snapshots <- SomeFiles
  Rollbacks <- TwoRollbacks
  Ticker = {t1, t2}
  Cooler = {}
  Pinnable = {}
  MayPanic = FALSE
  MaxGen = 2
INVARIANTS
  TypeOK
  SnapCovers
  StoreSound
PROPERTIES
  NeverReapReachable
  ReachGenGrowsWithReach
SYMMETRY Symmetry
