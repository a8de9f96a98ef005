SPECIFICATION Spec
CONSTANTS
  admin = admin
  alice = alice
  bob = bob
  usdc = usdc
  evm1 = evm1
  Keys <- MCKeys
  DefaultKey = DefaultKey
  Tokens = {usdc}
  Custody = Custody
  UpgradeAuthority = admin
  EvmKeys = {evm1}
  CustodyBump <- MCBump
  Intents <- MCIntents
  InitialBalance <- MCBalance
  U64Max = 3
  MaxSupportedTokens = 1
  MaxBurnSigners = 1
  Amounts = {0, 1, 2}
  Donations = {1}
  Fees = {0, 1, 2}
  Delays = {1}
  Nominees = {}
  DelegateCandidates = {}
  DenylistCandidates = {}
  MaxSlot = 2
INVARIANTS
  TypeOK
  CustodyAccounted
  BurnsAccounted
  LedgerNeverOverflows
  ChargedOnce
  BurnWithinMandate
PROPERTIES
  BurnTakesChargeOrEverything
  CoveredBurnStaysPossible
  KeepsEachAccount
