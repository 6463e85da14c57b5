CONSTANTS
  LBA_Read_Minimum <- MCMinimum
  LBA_Read_Maximum <- MCMaximum
  Requests <- MCRequests
  Hints <- MCHints
  BadSectors <- MCBad
  FlakySectors <- MCFlaky
  FastPW <- MCFastPW
  SBSize = 2
  max_ra = 1
  speedmult_ra = 2
  MaxQueue = 2
SPECIFICATION LiveSpec
INVARIANTS WindowInRing ReadAheadBounded RequestPending NoLostWakeup
PROPERTIES ImplementsST CallsReturn ReadAheadRests
