SPECIFICATION Spec
CONSTANTS
  Name = {plain, 0}
  Reads <- OwnReads
  MaxId = 2
  None = None
INVARIANTS
  MapsAgree
  NoMisnaming
  UniqueName
CHECK_DEADLOCK FALSE
