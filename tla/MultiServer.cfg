SPECIFICATION FairSpec
CONSTANTS
  PoolSize = 3
  MaxSessions = 4
  MaxPosts = 2
INVARIANTS
  TypeOK
  KeepsAccepting
  LostAtMostOne
PROPERTIES
  LateStopIsClean
  StopEnds
CHECK_DEADLOCK FALSE
