SPECIFICATION ProtocolSpec
CONSTANTS
  Radix = 8
  Messages <- SampleMessages
  SpareRoom <- RoomSizes
  NewBytes = {0, 3, 7}
INVARIANTS
  RoundTrip
  AcceptsOnlyEncodings
  StaysInside
CHECK_DEADLOCK FALSE
