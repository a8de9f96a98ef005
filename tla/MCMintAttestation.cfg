SPECIFICATION Spec
CONSTANTS
  MaxHook = 2
  U32Max = 10
  Lengths <- MCLengths
  Words = {0, 1, 2, 3, 4, 10}
  AccountCounts = {0, 1, 2, 3, 4, 6, 9}
  Structs <- MCStructs
INVARIANTS
  NeverOutOfBounds
  AcceptedIsEncoding
  EncodedIsShown
