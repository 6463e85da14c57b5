CONSTANTS
  Machines <- MCMachines
  Inputs <- MCInputs
  Step <- MCStep
  Commanded <- MCCommanded
  NoInput = 0
  Closed = 2
  Fails = TRUE
  SaveStates <- MCSaveStates
  MaxLen = 4
  Capacity = 2
SPECIFICATION Spec
INVARIANTS StreamMatchesMode MovieReplays
