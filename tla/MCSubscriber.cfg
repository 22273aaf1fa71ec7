\* One client of two channels: three calls, of up to two channels each, while
\* messages are published.
SPECIFICATION SessionSpec
CONSTANTS
  Channels = {a, b}
  Subscribers = {s1}
  Capacity = 1
  MaxSent = 1
  MaxList = 2
  MaxCalls = 3
  Abandons = TRUE
  GoesOn = FALSE
  None = None
INVARIANTS
  InStep
PROPERTIES
  FailsForCause
  CallsReturn
CHECK_DEADLOCK FALSE
