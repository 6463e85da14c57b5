CONSTANTS
  Snapshots <- MCSnapshots
  srwframes = 4
  Fails = TRUE
SPECIFICATION Spec
INVARIANTS NoGap
PROPERTY ImplementsHistory
