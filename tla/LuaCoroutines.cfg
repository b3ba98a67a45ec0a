SPECIFICATION Spec
CONSTANTS
  Main = main
  Coroutine = {co1, co2}
  Module = {m1}
  BodyVarargs = {TRUE}
  MaxOps = 5
SYMMETRY CoroutineSymmetry
INVARIANTS
  ThreadsSound
  FramesKept
  ClosedOnce
  LoadedOnce
PROPERTIES
  NoRevival
CHECK_DEADLOCK FALSE
