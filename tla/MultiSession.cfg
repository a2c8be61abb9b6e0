SPECIFICATION FairSpec
CONSTANTS
  MaxRequests = 4
  Window = 2
  SizeMax = 255
INVARIANTS
  TypeOK
  PatientInOrder
  EntryIsTransient
PROPERTIES
  PatientIsAnswered
  LeaveIsReported
CHECK_DEADLOCK FALSE
