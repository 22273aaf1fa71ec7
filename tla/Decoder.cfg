\* Every buffer of up to seven bytes, byte by byte.
SPECIFICATION ArriveSpec
CONSTANTS
  U64Max = 11
  OverflowChecks = FALSE
  BareSignIsZero = TRUE
  NotUtf8 = {"x80"}
  Bytes = {"+", "-", "$", "*", "1", "x80", "CR", "LF"}
  MaxBytes = 7
  Surplus = 2
INVARIANTS
  SameEnd
PROPERTIES
  AnswerIsFinal
CHECK_DEADLOCK FALSE
