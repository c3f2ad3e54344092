SPECIFICATION Spec
CONSTANTS
  MaxByte = 1
  Width = 2
  MaxMessageSize = 2
  Messages <- MCMessages
  Responses <- MCResponses
  MaxSent = 3
INVARIANTS
  TypeOK
  InSync
  OutputWhole
PROPERTIES
  ImplementsPort
  RunsOut
  EndsAfterClose
CHECK_DEADLOCK FALSE
