SPECIFICATION FairSpec
CONSTANTS
  MaxRequests = 2
  Window = 1
  SizeMax = 255
PROPERTY RequestIsAnswered
CHECK_DEADLOCK FALSE
