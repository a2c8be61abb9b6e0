SPECIFICATION FairSpec
CONSTANT MaxSends = 1
PROPERTY CloseEndsRun
CHECK_DEADLOCK FALSE
