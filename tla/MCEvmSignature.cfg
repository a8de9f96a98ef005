SPECIFICATION Spec
CHECK_DEADLOCK FALSE
CONSTANTS
  Order = 11
  Words <- MCWords
  HashLengths = {31, 32}
  HashValues = {0, 1, 5, 10, 11}
  Lengths = {64, 65}
  RecoveryIds = {0, 1, 26, 27, 28, 29}
  Enabled = {1, 4, 10}
INVARIANTS
  AcceptedAreTheSigners
