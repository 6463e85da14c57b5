CONSTANTS
  VisibleLines = 3
  ActiveLines = 1
  Values = {1}
  Inputs = {0}
  StateActions = {"save", "load"}
  WQ_Size = 2
  BusyMargin = 1
  WakeDepth = 2
  SemBound = 1
SPECIFICATION LiveSpec
PROPERTY CallsReturn
