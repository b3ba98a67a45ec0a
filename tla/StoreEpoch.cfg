SPECIFICATION FairSpec
CONSTANTS
  MaxAtomId = 1
  MaxBubbleId = 2
  Name = {n1}
  Unbound = Unbound
  TMax = 1
  TInit = 1
  HeatRead = 1
  HeatWrite = 1
  ThermalInit = {TRUE, FALSE}
  ForwardRefs = FALSE
  Snapshots <- TwoClosures
  Rollbacks <- OneRollback
  Ticker = {t1}
  Cooler = {c1}
  Pinnable = {0}
  MayPanic = TRUE
  MaxGen = 1
INVARIANTS
  RetainedPresent
PROPERTIES
  OnlyCollectionRemoves
  RefinesAtomic
  HeldPinsSurvive
  GarbageIsReaped
