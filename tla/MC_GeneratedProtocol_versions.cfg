CONSTANTS
  Texts <- MCVersions
  Namespace = "farseer.sample"
  ReservedNames <- MCReservedNames
  Numbers <- MCNumbers
  MaxElements = 2
SPECIFICATION Spec
INVARIANTS IdentifiersTellTypes
CHECK_DEADLOCK FALSE
