\* A client of one channel whose calls may fail and which goes on.
SPECIFICATION SessionSpec
CONSTANTS
  Channels = {a}
  Subscribers = {s1}
  Capacity = 1
  MaxSent = 1
  MaxList = 1
  MaxCalls = 3
  Abandons = FALSE
  GoesOn = TRUE
  None = None
PROPERTIES
  EveryCallReturns
CHECK_DEADLOCK FALSE
