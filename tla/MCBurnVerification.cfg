SPECIFICATION Spec
CHECK_DEADLOCK FALSE
CONSTANTS
  U16Max = 430
  U64Max = 3
  Burns <- MCBurns
  Headers <- MCHeaders
  Positions = {0, 1, 2}
  HookLengths = {0, 1, 2, 3}
  Amounts = {1, 2, 3}
INVARIANTS
  RegionsAreSigned
  NumbersAreAsSigned
  ClientIsUnderstood
