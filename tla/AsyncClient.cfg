SPECIFICATION FairSpec
CONSTANT MaxSends = 4
INVARIANTS
  TypeOK
  OneLife
  OnlyFailureStrands
PROPERTIES
  ImplementsChannel
  Reconnects
  CloseEndsRunUnlessArmed
CHECK_DEADLOCK FALSE
