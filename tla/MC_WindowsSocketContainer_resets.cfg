CONSTANTS
  MaxSockets = 6
  MaxOpens = 1
  MaxBacklog = 2
  MaxFailures = 2
  Calls <- MCServerCalls
  Faults <- MCClientFaults
SPECIFICATION Spec
PROPERTIES ClientsCannotClose
CHECK_DEADLOCK FALSE
