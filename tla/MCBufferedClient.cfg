\* Two callers, a queue of two: calls given up, a connection that breaks.
SPECIFICATION LiveSpec
CONSTANTS
  Callers = {c1, c2}
  Keys = {k}
  Values = {v1}
  None = None
  Capacity = 2
  MaxCalls = 2
INVARIANTS
  TypeOK
  OneInFlight
  FailsOnlyWhenBroken
  EndsDrained
PROPERTIES
  RefinesCallStore
  Answered
  Ends
CHECK_DEADLOCK FALSE
