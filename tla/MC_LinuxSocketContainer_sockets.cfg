CONSTANTS
  MaxSockets = 3
  MaxDescriptors = 2
  MaxBacklog = 1
  MaxBytes = 1
  MaxSpace = 1
  Faults <- MCFaults
SPECIFICATION Spec
INVARIANTS MapsAgree OpenMeansConnected
PROPERTIES ImplementsLifecycle
CHECK_DEADLOCK FALSE
