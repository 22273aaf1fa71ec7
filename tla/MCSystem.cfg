\* One client, one key; deadlines in time, at once and out of range.
SPECIFICATION SystemSpec
CONSTANTS
  Conns = {c1}
  MaxConnections = 1
  MaxBackoff = 1
  Keys = {k1}
  Values = {v1}
  Durations = {0, 1, 2}
  MaxInstant = 1
  MaxNow = 1
  None = None
PROPERTIES
  RefinesDb
  PurgeTaskStops
CHECK_DEADLOCK FALSE
