CONSTANTS
  AllCheats = {}
  Machines <- MCMachines
  Inputs <- MCInputs
  Step <- MCStep
  Commanded <- MCCommanded
  Capacity = 1
SPECIFICATION Spec
INVARIANT RecordedInNetplay
