CONSTANTS
  MaxSockets = 2
  MaxDescriptors = 2
  MaxBacklog = 1
  MaxBytes = 3
  MaxSpace = 2
  Faults <- MCFaults
SPECIFICATION Spec
INVARIANTS WireInOrder NoEdgeLost
CHECK_DEADLOCK FALSE
