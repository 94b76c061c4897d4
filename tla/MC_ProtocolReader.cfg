CONSTANTS
  a = a
  b = b
  NoSocket = NoSocket
  Sockets <- MCSockets
  Frames <- MCFrames
  Streams <- MCStreams
  MaxFrames = 2
  BitsPerByte = 2
  IdentifierBytes = 2
  MaxRequests = 1
  MessageRegistrations = {"ping", "sum"}
  RequestRegistrations = {"sum"}
SPECIFICATION FairSpec
INVARIANTS TypeOK BuffersFramed OneShotConsumers RequestsAnswered
PROPERTIES ImplementsDelivery FramesHandled
CHECK_DEADLOCK FALSE
