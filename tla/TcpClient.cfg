SPECIFICATION FairSpec
CONSTANT MaxSends = 4
INVARIANTS
  TypeOK
  OneLife
  WriteBufferAlive
  CloseIsFinal
PROPERTIES
  ImplementsChannel
  LossReportedBetweenConnects
  DisconnectLeadsToConnect
  FrontIsWritten
  CloseEndsRun
CHECK_DEADLOCK FALSE
