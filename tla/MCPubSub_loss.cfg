\* A client that subscribes twice to a channel.
SPECIFICATION SafeSpec
CONSTANTS
  Channels = {a}
  Subscribers = {s1}
  Capacity = 2
  MaxSent = 3
  MaxList = 1
  None = None
PROPERTIES
  OnlyLagLosesMessages
CHECK_DEADLOCK FALSE
