SPECIFICATION Spec
CONSTANTS
  admin = admin
  nominee = nominee
  usdc = usdc
  eurc = eurc
  evm1 = evm1
  evm2 = evm2
  evm3 = evm3
  Keys <- MCKeys
  DefaultKey = DefaultKey
  Tokens = {usdc, eurc}
  Custody = Custody
  UpgradeAuthority = admin
  EvmKeys = {evm1, evm2, evm3}
  CustodyBump <- MCBump
  Hashes = {}
  Signatures = {}
  InitialBalance <- MCBalance
  U64Max = 2
  MaxSupportedTokens = 1
  MaxAttesters = 2
  BurnAmounts = {}
  Fundings = {}
  Nominees = {nominee, DefaultKey}
  MaxSlot = 0
INVARIANTS
  ListsWellFormed
  RolesAreHeld
PROPERTIES
  RemovedAttesterIsOut
