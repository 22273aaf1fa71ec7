\* Two keys, two handlers, deadlines from "now" to "never representable".
SPECIFICATION Spec
CONSTANTS
  Keys = {k1, k2}
  Values = {v1, v2}
  Tasks = {t1, t2}
  Durations = {0, 1, 9}
  MaxInstant = 5
  MaxNow = 2
  None = None
INVARIANTS
  TypeOK
  IndexMatchesEntries
  NoLostWakeup
  ShutdownSignalled
PROPERTIES
  RefinesStoreSafety
  RefinesStore
  PurgerExits
CHECK_DEADLOCK FALSE
