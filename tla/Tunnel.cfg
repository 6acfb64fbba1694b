CONSTANTS
  Sessions = {1, 2}
  Requests <- MCRequests
  Responses <- MCResponses
  Descriptors = 4
  MaxTries = 1
SPECIFICATION Spec
INVARIANTS OwnDescriptors RightBytes
PROPERTIES SessionEnds
CHECK_DEADLOCK FALSE
