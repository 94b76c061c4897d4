CONSTANTS
  MaxSockets = 5
  MaxOpens = 1
  MaxBacklog = 1
  MaxFailures = 2
  Calls <- MCCalls
  Faults <- MCFaults
SPECIFICATION FairSpec
INVARIANTS TypeOK EverySocketServed
PROPERTIES AcceptsEndAtLimit ImplementsLifecycle ClientsAccepted PeerEndNoticed
CHECK_DEADLOCK FALSE
