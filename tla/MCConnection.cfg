\* Every kind of frame, two in a row, every way to cut the stream.
SPECIFICATION LiveSpec
CONSTANTS
  Bytes <- MCBytes
  U64Max = 99
  OverflowChecks = TRUE
  BareSignIsZero = FALSE
  NotUtf8 = {"x80"}
  Frames <- MCFrames
  MaxFrames = 2
INVARIANTS
  ReceivedInOrder
  StreamIsWhole
  EndTellsTruth
PROPERTIES
  Delivered
  Told
CHECK_DEADLOCK FALSE
