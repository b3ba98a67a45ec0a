SPECIFICATION Spec
CONSTANTS
  Content = {fresh, c1, c2}
  Fresh = fresh
  NoWorld = NoWorld
  Unreadable = Unreadable
  CAP = 2
  MaxEntry = 4
  MayFail = TRUE
  FormatLate = FALSE
INVARIANTS
  TypeOK
  PromptSaved
PROPERTIES
  JournalDoesNotWake
  DiskKept
