SPECIFICATION Spec
CONSTANTS
  Hashes = {h1, h2}
  AccountOverhead = 2
  RentPerByte = 1
  Funds = {0, 1, 3, 4, 5}
  Gifts = {0, 1, 2, 3, 4}
  MaxLamports = 6
INVARIANTS
  MarkedOnce
  CreationNeedsOnlyRent
