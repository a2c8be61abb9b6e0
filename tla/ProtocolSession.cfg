SPECIFICATION FairSpec
CONSTANTS
  t1 = t1
  t2 = t2
  Threads <- MCThreads
  Base = 3
  Header = 2
  FrameSize = 1
  BufferSize = 3
  MaxBytes = 4
  MaxFrames = 2
INVARIANTS
  TypeOK
  SplitsTheStream
PROPERTIES
  LeaveIsReportedUnlessFull
  ResponseIsWritten
CHECK_DEADLOCK FALSE
