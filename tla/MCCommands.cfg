SPECIFICATION Spec
CONSTANTS
  Heads <- MCHeads
  Tails <- MCTails
  MaxItems = 6
  Keys = {"key", "room"}
  Values = {"7x", "blob"}
  Expirations = {0, 1, 2, 3, 21, 22, 41}
  NotUtf8 = {"blob"}
  Capitals <- MCCapitals
  Numerals <- MCNumerals
  Milli = 2
  Second = 8
  U64Max = 19
  None = None
INVARIANTS
  ReadsTheFormats
  ServedAsCalled
CHECK_DEADLOCK FALSE
