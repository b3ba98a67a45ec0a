SPECIFICATION Spec
CONSTANTS
  MaxAtomId = 0
  Bubble = {b1}
  Native = native
  Version = {v1, v2}
  Unbound = Unbound
  Gone = Gone
  NoFile = NoFile
  Unreadable = Unreadable
  Torn = Torn
  CompactAt = 2
  MaxJournal = 1
  MayFail = TRUE
  MayTear = TRUE
  MayCorrupt = TRUE
  DirtySync = TRUE
PROPERTIES
  UnreadableKept
  CompactHeals
SYMMETRY Symmetry
