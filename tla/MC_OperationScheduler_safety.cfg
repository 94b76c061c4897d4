CONSTANTS
  u1 = u1
  u2 = u2
  s1 = s1
  s2 = s2
  AbortPacket = AbortPacket
  UserOperations <- MCUserOperations
  SystemOperations <- MCSystemOperations
  AbortingFlag = 8
  MaxEntries = 2
  MaxSpawns = 2
  Faults <- MCFaults
SPECIFICATION Spec
SYMMETRY Symmetry
INVARIANTS TypeOK CounterExact SingleOwner NoOperationLeftBehind AbortIsBarrier
PROPERTIES ImplementsChannel
CHECK_DEADLOCK FALSE
