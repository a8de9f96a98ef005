SPECIFICATION Spec
CONSTANTS
  alice = alice
  bob = bob
  usdc = usdc
  eurc = eurc
  evm1 = evm1
  Keys <- MCKeys
  DefaultKey = DefaultKey
  Tokens = {usdc, eurc}
  Custody = Custody
  UpgradeAuthority = bob
  EvmKeys = {evm1}
  CustodyBump <- MCBump
  Intents <- MCIntents
  InitialBalance <- MCBalance
  U64Max = 3
  MaxSupportedTokens = 2
  MaxBurnSigners = 1
  Amounts = {1}
  Donations = {}
  Fees = {0}
  Delays = {1}
  Nominees = {}
  DelegateCandidates = {bob}
  DenylistCandidates = {alice, bob}
  MaxSlot = 2
PROPERTIES
  OutflowsAreConsented
  CoveredBurnStaysPossible
  EverAuthorizedForGood
  DenylistKeepsOut
  PauseFreezes
  KeepsEachAccount
