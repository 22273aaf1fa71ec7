\* Two clients, room for one: the second waits for the first.
SPECIFICATION Spec
CONSTANTS
  Conns = {c1, c2}
  MaxConnections = 1
  MaxBackoff = 4
INVARIANTS
  TypeOK
  PermitsConserved
  ServingWithinLimit
  DbOutlivesHandlers
PROPERTIES
  ShutdownCompletes
  DeadConnectionFreed
  ListenerKeepsAccepting
CHECK_DEADLOCK FALSE
