SPECIFICATION Spec
CONSTANTS
  MaxAtomId = 0
  Bubble = {b1}
  Native = native
  Version = {v1, v2}
  Unbound = Unbound
  Gone = Gone
  NoFile = NoFile
  Unreadable = Unreadable
  Torn = Torn
  CompactAt = 4
  MaxJournal = 3
  MayFail = FALSE
  MayTear = FALSE
  MayCorrupt = FALSE
  DirtySync = FALSE
INVARIANTS
  WorldSound
  SavedOnDisk
PROPERTIES
  ImplementsDurable
SYMMETRY Symmetry
