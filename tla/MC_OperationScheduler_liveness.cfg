CONSTANTS
  u1 = u1
  u2 = u2
  s1 = s1
  s2 = s2
  AbortPacket = AbortPacket
  UserOperations <- MCUserOperations
  SystemOperations <- MCOneSystemOperation
  AbortingFlag = 8
  MaxEntries = 2
  MaxSpawns = 2
  Faults <- MCQueueFaults
SPECIFICATION FairSpec
PROPERTIES DestructorReturns OperationsSettle
CHECK_DEADLOCK FALSE
