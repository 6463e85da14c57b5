CONSTANTS
  VisibleLines = 2
  ActiveLines = 2
  Values = {1}
  Inputs = {0, 1}
  StateActions = {"save", "load"}
  WQ_Size = 2
  BusyMargin = 1
  WakeDepth = 2
  SemBound = 1
SPECIFICATION Spec
INVARIANTS SurfaceReturned
PROPERTY ImplementsSync
