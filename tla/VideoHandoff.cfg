SPECIFICATION LiveSpec
INVARIANTS VideoTypeOK NoTornFrame SyncHonoured
PROPERTIES ExitTerminates RequestsAnswered
