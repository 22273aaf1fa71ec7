\* One SET with a duration the clock cannot represent, another connection.
SPECIFICATION SafeSpec
CONSTANTS
  Keys = {k1}
  Values = {v1}
  Tasks = {t1, t2}
  Durations = {9}
  MaxInstant = 4
  MaxNow = 1
  None = None
PROPERTIES
  OnlyFaultyTaskPanics
CHECK_DEADLOCK FALSE
