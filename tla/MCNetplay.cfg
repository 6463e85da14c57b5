CONSTANTS
  AllCheats = {c1}
  Machines <- MCMachines
  Inputs <- MCInputs
  Step <- MCStep
  Commanded <- MCCommanded
  Capacity = 1
SPECIFICATION Spec
INVARIANTS TypeOK LockStep RecordingFollows CheatsKept
