SPECIFICATION FairSpec
CONSTANTS
  Senders = {s1, s2}
  MaxSends = 4
INVARIANTS
  TypeOK
  NoLostWakeup
  AtMostOneAfterStop
PROPERTIES
  ImplementsChannel
  QueuedIsTaken
  StopReturnsUnlessBlocking
CHECK_DEADLOCK FALSE
