CONSTANTS
  Streams <- MCStreams
  Size <- MCSize
  LoopPos <- MCLoopPos
  Skips <- MCSkips
  Leads <- MCLeads
  Counts <- MCCounts
  Advances <- MCAdvances
  Buffer_Size = 8
  Overbuffer_Count = 2
  FailingStreams = {3}
  AffinityFails = TRUE
SPECIFICATION LiveSpec
INVARIANTS OneTurn RefillOutOfSight
PROPERTIES ImplementsStream CallsReturn
CHECK_DEADLOCK FALSE
