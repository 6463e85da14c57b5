CONSTANTS
  Leadout = 2
  TotalBuffers = 2
  MaxRepeat = 1
  Ends <- MCEnds
SPECIFICATION FairSpec
INVARIANTS TypeOK NoSectorLost
PROPERTIES PlayEnds AuthEnds
