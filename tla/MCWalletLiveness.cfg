SPECIFICATION LiveSpec
CONSTANTS
  admin = admin
  alice = alice
  usdc = usdc
  evm1 = evm1
  Keys <- MCKeys
  DefaultKey = DefaultKey
  Tokens = {usdc}
  Custody = Custody
  UpgradeAuthority = admin
  EvmKeys = {evm1}
  CustodyBump <- MCBump
  Intents <- MCIntents
  InitialBalance <- MCBalance
  U64Max = 3
  MaxSupportedTokens = 1
  MaxBurnSigners = 1
  Amounts = {1, 2}
  Donations = {}
  Fees = {0}
  Delays = {1, 2}
  Nominees = {}
  DelegateCandidates = {}
  DenylistCandidates = {alice}
  MaxSlot = 3
PROPERTIES
  WithdrawalCompletes
