\* One client on two channels that keep two messages each; commands name up to two.
SPECIFICATION Spec
CONSTANTS
  Channels = {a, b}
  Subscribers = {s1}
  Capacity = 2
  MaxSent = 3
  MaxList = 2
  None = None
INVARIANTS
  TypeOK
  ClientViewAccurate
  CountsAccurate
PROPERTIES
  RefinesFeed
  CatchesUp
CHECK_DEADLOCK FALSE
