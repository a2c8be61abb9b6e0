SPECIFICATION FairSpec
CONSTANTS
  Senders = {s1}
  MaxSends = 1
PROPERTY StopReturns
CHECK_DEADLOCK FALSE
