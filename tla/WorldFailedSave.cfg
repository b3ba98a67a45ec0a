SPECIFICATION Spec
CONSTANTS
  MaxAtomId = 1
  Bubble = {b1}
  Native = native
  Version = {v1, v2}
  Unbound = Unbound
  Gone = Gone
  NoFile = NoFile
  Unreadable = Unreadable
  Torn = Torn
  CompactAt = 3
  MaxJournal = 3
  MayFail = TRUE
  MayTear = FALSE
  MayCorrupt = FALSE
  DirtySync = FALSE
INVARIANTS
  SavedOnDisk
SYMMETRY Symmetry
