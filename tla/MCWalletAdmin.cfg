SPECIFICATION Spec
CONSTANTS
  admin = admin
  nominee = nominee
  usdc = usdc
  eurc = eurc
  evm1 = evm1
  evm2 = evm2
  evm3 = evm3
  Keys <- MCKeys
  DefaultKey = DefaultKey
  Tokens = {usdc, eurc}
  Custody = Custody
  UpgradeAuthority = admin
  EvmKeys = {evm1, evm2, evm3}
  CustodyBump <- MCBump
  Intents = {}
  InitialBalance <- MCBalance
  U64Max = 2
  MaxSupportedTokens = 1
  MaxBurnSigners = 2
  Amounts = {1}
  Donations = {}
  Fees = {}
  Delays = {0, 1}
  Nominees = {nominee, DefaultKey}
  DelegateCandidates = {DefaultKey}
  DenylistCandidates = {}
  MaxSlot = 0
INVARIANTS
  ListsWellFormed
  DefaultKeyIsPowerless
PROPERTIES
  RemovedSignerCannotBurn
