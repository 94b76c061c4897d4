CONSTANTS
  MaxSockets = 3
  MaxDescriptors = 2
  MaxBacklog = 2
  MaxBytes = 0
  MaxSpace = 1
  Faults <- MCNoFaults
SPECIFICATION FairSpec
PROPERTIES ClientsAccepted
CHECK_DEADLOCK FALSE
