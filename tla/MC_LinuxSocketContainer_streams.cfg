CONSTANTS
  MaxSockets = 1
  MaxDescriptors = 1
  MaxBacklog = 1
  MaxBytes = 4
  MaxSpace = 2
  Faults <- MCFaults
SPECIFICATION FairSpec
PROPERTIES PeerEndNoticed OutgoingDrained
CHECK_DEADLOCK FALSE
