SPECIFICATION Spec
CONSTANTS
  admin = admin
  alice = alice
  usdc = usdc
  eurc = eurc
  evm1 = evm1
  evm2 = evm2
  h1 = h1
  h2 = h2
  h3 = h3
  Keys <- MCKeys
  DefaultKey = DefaultKey
  Tokens = {usdc, eurc}
  Custody = Custody
  UpgradeAuthority = admin
  EvmKeys = {evm1, evm2}
  CustodyBump <- MCBump
  Hashes = {h1, h2, h3}
  Signatures <- MCSignatures
  InitialBalance <- MCBalance
  U64Max = 4
  MaxSupportedTokens = 2
  MaxAttesters = 2
  BurnAmounts = {0, 2}
  Fundings = {1}
  Nominees = {}
  MaxSlot = 2
INVARIANTS
  TypeOK
  MintedOnce
  MintedInWholeSets
  CustodyAccounted
  PayableSetGoesThrough
PROPERTIES
  MintsAreOneShot
