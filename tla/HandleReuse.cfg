SPECIFICATION FairSpec
CONSTANTS
  Thread = {t1, t2}
  MaxSlots = 2
  GenLimit = 4
  MaxStores = 3
  Token = {k1}
  None = None
INVARIANTS
  TableSound
PROPERTIES
  OnlyOwnHandleFrees
  CallsReturn
