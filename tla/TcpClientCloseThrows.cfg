SPECIFICATION Spec
CONSTANT MaxSends = 1
INVARIANT CloseReturns
CHECK_DEADLOCK FALSE
