CONSTANTS
  NumSelectors = 2
  NumBuffers = 3
  Resets <- MCResets
SPECIFICATION CDBSpec
INVARIANTS PoolTypeOK BuffersConserved OneSource
PROPERTY ImplementsPool
