SPECIFICATION FairSpec
CONSTANTS
  BufSize = 5
  Byte = {0, 1, 2, 3}
  Sizes <- Lengths
  MaxIn = 10
  Short = {0, 1}
INVARIANTS
  TypeOK
  OutputInOrder
PROPERTIES
  RetriesUnlessUnresolved
  WriterGoesOn
  CloseEndsRunIfReading
CHECK_DEADLOCK FALSE
