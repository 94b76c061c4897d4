CONSTANTS
  Texts <- MCTexts
  Namespace = "farseer.sample"
  ReservedNames <- MCReservedNames
  Numbers <- MCNumbers
  MaxElements = 2
SPECIFICATION Spec
INVARIANTS AcceptedAsWritten RegistrySound FramesExact
CHECK_DEADLOCK FALSE
