SPECIFICATION FairSpec
CONSTANT WorkerCount = 2
PROPERTY ClientIsServed
CHECK_DEADLOCK FALSE
