SPECIFICATION SystemSpec
CONSTANTS
  admin = admin
  alice = alice
  usdc = usdc
  evm1 = evm1
  Keys <- MCKeys
  DefaultKey = DefaultKey
  Tokens = {usdc}
  Custody = Custody
  UpgradeAuthority = admin
  EvmKeys = {evm1}
  CustodyBump <- MCBump
  Intents <- MCIntents
  InitialBalance <- MCBalance
  MinterBalance <- MCMinterBalance
  U64Max = 6
  MaxSupportedTokens = 1
  MaxBurnSigners = 1
  MaxAttesters = 1
  Lifetime = 0
  BurnWithin = 1
  Amounts = {1, 2}
  Donations = {}
  Fees = {0, 1}
  Delays = {2, 3}
  Nominees = {}
  DelegateCandidates = {admin}
  DenylistCandidates = {}
  MaxSlot = 3
INVARIANTS
  PromisesAreCovered
  MintedCanBeBurned
  BurnsMatchMints
