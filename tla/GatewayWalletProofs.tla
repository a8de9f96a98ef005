------------------------ MODULE GatewayWalletProofs ------------------------
(***************************************************************************)
(* Machine-checked proofs about the GatewayWallet program, for all keys,   *)
(* tokens, intents, limits and balances that satisfy the assumptions of    *)
(* module GatewayWallet: first the ledger, then the configuration (lists,  *)
(* roles, delegates, the pause) and what depositors consent to, then that  *)
(* the program keeps everybody's account as WalletVault says.              *)
(***************************************************************************)
EXTENDS GatewayWalletProperties, CollectionLemmas

-----------------------------------------------------------------------------
(* Type correctness. *)

LEMMA TypeInit == Init => TypeOK
<1> SUFFICES ASSUME Init PROVE TypeOK
  OBVIOUS
<1> USE KeysAssumption, ConfigAssumption, SupplyAssumption, InputsAssumption
<1>1. wallet \in Wallet
  <2>1. <<>> \in Seq(Tokens) /\ <<>> \in Seq(Nat) /\ <<>> \in Seq(EvmKeys)
    OBVIOUS
  <2>2. 0 \in U64
    BY DEF U64
  <2> QED
    BY <2>1, <2>2 DEF Init, NoWallet, Wallet, Addresses
<1>2. /\ deposit \in [Tokens -> [Addresses -> GatewayDeposit]]
      /\ requested \in [Tokens -> [Addresses -> [slot : U64, delay : U64]]]
  <2>1. NoDeposit \in GatewayDeposit /\ NoRequest \in [slot : U64, delay : U64]
    BY DEF NoDeposit, GatewayDeposit, NoRequest, U64
  <2> QED
    BY <2>1 DEF Init
<1>3. delegate \in [Tokens -> [Addresses -> [Addresses -> DelegateStatus]]]
  BY DEF Init, DelegateStatus
<1>4. balance \in [Tokens -> [Holders -> Nat]] /\ donated \in [Tokens -> Nat]
  BY DEF Init, Holders
<1>5. burned \in [Specs -> Seq(GatewayBurned)]
  BY DEF Init
<1>6. slot \in 0 .. MaxSlot
  BY DEF Init, U64
<1>7. /\ denylisted \in SUBSET Addresses
      /\ used \in SUBSET Specs
      /\ grants \in SUBSET (Tokens \X Addresses \X Addresses)
  BY DEF Init
<1> QED
  BY <1>1, <1>2, <1>3, <1>4, <1>5, <1>6, <1>7 DEF TypeOK

\* An instruction that writes only the wallet account.
LEMMA SetWalletType ==
  ASSUME TypeOK, NEW w \in Wallet, SetWallet(w)
  PROVE  TypeOK'
BY DEF TypeOK, SetWallet

LEMMA AdministerType ==
  ASSUME TypeOK, NEW signer \in Keys, Administer(signer)
  PROVE  TypeOK'
<1> USE KeysAssumption, ConfigAssumption, InputsAssumption
<1>0. wallet \in Wallet /\ signer \in Addresses /\ DefaultKey \in Addresses
  BY DEF TypeOK, Addresses
<1>1. ASSUME NEW delay \in Delays, Initialize(signer, delay)
      PROVE  TypeOK'
  <2>1. [wallet EXCEPT
          !.initialized = TRUE, !.owner = signer, !.pauser = signer,
          !.denylister = signer, !.token_controller = signer,
          !.fee_recipient = signer, !.withdrawal_delay = delay] \in Wallet
    BY <1>0 DEF Wallet
  <2> QED
    BY <1>1, <2>1, SetWalletType DEF Initialize
<1>2. ASSUME NEW delay \in Delays, UpdateWithdrawalDelay(signer, delay)
      PROVE  TypeOK'
  <2>1. [wallet EXCEPT !.withdrawal_delay = delay] \in Wallet
    BY <1>0 DEF Wallet
  <2> QED
    BY <1>2, <2>1, SetWalletType DEF UpdateWithdrawalDelay
<1>3. CASE AcceptOwnership(signer)
  <2>1. [wallet EXCEPT !.owner = wallet.pending_owner,
                       !.pending_owner = DefaultKey] \in Wallet
    BY <1>0 DEF Wallet
  <2> QED
    BY <1>3, <2>1, SetWalletType DEF AcceptOwnership
<1>4. CASE Pause(signer) \/ Unpause(signer)
  <2>1. /\ [wallet EXCEPT !.paused = TRUE] \in Wallet
        /\ [wallet EXCEPT !.paused = FALSE] \in Wallet
    BY <1>0 DEF Wallet
  <2> QED
    BY <1>4, <2>1, SetWalletType DEF Pause, Unpause
<1>5. ASSUME NEW k \in Nominees,
             \/ TransferOwnership(signer, k)
             \/ UpdatePauser(signer, k)
             \/ UpdateDenylister(signer, k)
             \/ UpdateTokenController(signer, k)
             \/ UpdateFeeRecipient(signer, k)
      PROVE  TypeOK'
  <2>1. /\ [wallet EXCEPT !.pending_owner = k] \in Wallet
        /\ [wallet EXCEPT !.pauser = k] \in Wallet
        /\ [wallet EXCEPT !.denylister = k] \in Wallet
        /\ [wallet EXCEPT !.token_controller = k] \in Wallet
        /\ [wallet EXCEPT !.fee_recipient = k] \in Wallet
    BY <1>0 DEF Wallet
  <2> QED
    BY <1>5, <2>1, SetWalletType
    DEF TransferOwnership, UpdatePauser, UpdateDenylister,
        UpdateTokenController, UpdateFeeRecipient
<1>6. ASSUME NEW s \in EvmKeys \cup {DefaultKey}, AddBurnSigner(signer, s)
      PROVE  TypeOK'
  <2>1. s \in EvmKeys
    BY <1>6 DEF AddBurnSigner
  <2>2. Append(wallet.burn_signers, s) \in Seq(EvmKeys)
    BY <1>0, <2>1 DEF Wallet
  <2>3. [wallet EXCEPT !.burn_signers = Append(@, s)] \in Wallet
    BY <1>0, <2>2 DEF Wallet
  <2> QED
    BY <1>0, <1>6, <2>3, SetWalletType DEF AddBurnSigner
<1>7. ASSUME NEW s \in EvmKeys \cup {DefaultKey}, RemoveBurnSigner(signer, s)
      PROVE  TypeOK'
  <2>1. CASE ~ IsBurnSigner(s)
    BY <1>0, <1>7, <2>1, SetWalletType DEF RemoveBurnSigner
  <2>2. CASE IsBurnSigner(s)
    <3>1. WithoutFirst(wallet.burn_signers, s) \in Seq(EvmKeys)
      BY <1>0, <2>2, WithoutFirstType DEF Wallet, IsBurnSigner
    <3>2. [wallet EXCEPT !.burn_signers = WithoutFirst(@, s)] \in Wallet
      BY <1>0, <3>1 DEF Wallet
    <3> QED
      BY <1>7, <2>2, <3>2, SetWalletType DEF RemoveBurnSigner
  <2> QED
    BY <2>1, <2>2
<1>8. ASSUME NEW t \in Tokens, AddToken(signer, t)
      PROVE  TypeOK'
  <2>1. /\ Append(wallet.supported_tokens, t) \in Seq(Tokens)
        /\ Append(wallet.custody_token_account_bumps, CustodyBump[t])
             \in Seq(Nat)
    BY <1>0 DEF Wallet
  <2>2. [wallet EXCEPT
          !.supported_tokens = Append(@, t),
          !.custody_token_account_bumps = Append(@, CustodyBump[t])] \in Wallet
    BY <1>0, <2>1 DEF Wallet
  <2> QED
    BY <1>0, <1>8, <2>2, SetWalletType DEF AddToken
<1>9. ASSUME NEW k \in DenylistCandidates,
             DenylistAccount(signer, k) \/ UndenylistAccount(signer, k)
      PROVE  TypeOK'
  BY <1>9 DEF TypeOK, DenylistAccount, UndenylistAccount, SetDenylisted
<1> QED
  BY <1>1, <1>2, <1>3, <1>4, <1>5, <1>6, <1>7, <1>8, <1>9 DEF Administer

-----------------------------------------------------------------------------
(* Token balances. *)

\* A transfer between different holders moves the amount and nothing else.
LEMMA TransferEffect ==
  ASSUME NEW b \in [Tokens -> [Holders -> Nat]], NEW t \in Tokens,
         NEW from \in Holders, NEW to \in Holders, from # to,
         NEW amount \in Nat, Holds(b, t, from, amount),
         NEW c, c = Transfer(b, t, from, to, amount)
  PROVE  /\ c \in [Tokens -> [Holders -> Nat]]
         /\ c[t][from] = b[t][from] - amount
         /\ c[t][to] = b[t][to] + amount
         /\ \A h \in Holders : h # from /\ h # to => c[t][h] = b[t][h]
         /\ \A u \in Tokens : u # t => c[u] = b[u]
<1>1. b[t] \in [Holders -> Nat] /\ b[t][from] - amount \in Nat
  BY DEF Holds
<1> QED
  BY <1>1 DEF Transfer

\* A burn destroys the amount and nothing else.
LEMMA BurnEffect ==
  ASSUME NEW b \in [Tokens -> [Holders -> Nat]], NEW t \in Tokens,
         NEW h \in Holders, NEW amount \in Nat, Holds(b, t, h, amount),
         NEW c, c = Burn(b, t, h, amount)
  PROVE  /\ c \in [Tokens -> [Holders -> Nat]]
         /\ c[t][h] = b[t][h] - amount
         /\ \A x \in Holders : x # h => c[t][x] = b[t][x]
         /\ \A u \in Tokens : u # t => c[u] = b[u]
<1>1. b[t] \in [Holders -> Nat] /\ b[t][h] - amount \in Nat
  BY DEF Holds
<1> QED
  BY <1>1 DEF Burn

-----------------------------------------------------------------------------
(* Deductions from a deposit account. *)

ClaimOf(d) == d.available_amount + d.withdrawing_amount

LEMMA ClaimsAreNatural == \A d \in GatewayDeposit : ClaimOf(d) \in Nat
BY ConfigAssumption DEF GatewayDeposit, U64, ClaimOf

\* reduce_balance deducts the value, or everything there is.
LEMMA DeductionFacts ==
  ASSUME NEW d \in GatewayDeposit, NEW value \in Nat
  PROVE  LET a == FromAvailable(d, value)
             w == FromWithdrawing(d, value)
             e == ReducedBalance(d, value)
         IN  /\ a \in Nat /\ w \in Nat
             /\ a + w <= value
             /\ a + w = value \/ a + w = ClaimOf(d)
             /\ e \in GatewayDeposit
             /\ ClaimOf(e) = ClaimOf(d) - (a + w)
             /\ e.opened = d.opened
             /\ e.available_amount = d.available_amount - a
             /\ e.withdrawing_amount = d.withdrawing_amount - w
             /\ w > 0 => e.available_amount = 0
<1> DEFINE a == FromAvailable(d, value)
           w == FromWithdrawing(d, value)
           e == ReducedBalance(d, value)
<1>1. /\ d.available_amount \in Nat /\ d.available_amount <= U64Max
      /\ d.withdrawing_amount \in Nat /\ d.withdrawing_amount <= U64Max
      /\ U64Max \in Nat
  BY ConfigAssumption DEF GatewayDeposit, U64
<1>2. /\ a \in Nat /\ a <= d.available_amount /\ a <= value
      /\ a = value \/ a = d.available_amount
  BY <1>1 DEF FromAvailable, Lesser
<1>3. /\ w \in Nat /\ w <= d.withdrawing_amount /\ w <= value - a
      /\ w = value - a \/ w = d.withdrawing_amount
  BY <1>1, <1>2 DEF FromWithdrawing, Lesser
<1>4. e = [d EXCEPT !.available_amount = @ - a, !.withdrawing_amount = @ - w]
  BY DEF ReducedBalance
<1> HIDE DEF a, w, e
<1>5. d.available_amount - a \in U64 /\ d.withdrawing_amount - w \in U64
  BY <1>1, <1>2, <1>3 DEF U64
<1>6. /\ e \in GatewayDeposit /\ e.opened = d.opened
      /\ e.available_amount = d.available_amount - a
      /\ e.withdrawing_amount = d.withdrawing_amount - w
  BY <1>4, <1>5 DEF GatewayDeposit
<1>7. ClaimOf(e) = ClaimOf(d) - (a + w)
  BY <1>1, <1>2, <1>3, <1>6 DEF ClaimOf
<1>8. a + w <= value /\ (a + w = value \/ a + w = ClaimOf(d))
  BY <1>1, <1>2, <1>3 DEF ClaimOf
<1>9. w > 0 => e.available_amount = 0
  BY <1>1, <1>2, <1>3, <1>6
<1> QED
  BY <1>2, <1>3, <1>6, <1>7, <1>8, <1>9 DEF a, w, e

-----------------------------------------------------------------------------
(* Custody: what the deposit accounts add up to moves with the tokens.     *)

\* The inductive invariant: types are needed for the arithmetic, and custody
\* covering the claims keeps the next step's arithmetic within Nat.
LedgerInv == TypeOK /\ CustodyAccounted

LEMMA FiniteAddresses == IsFiniteSet(Addresses)
BY KeysAssumption, FS_AddElement DEF Addresses

\* An update of one deposit account moves the sum of its token's claims by the
\* difference it makes, and no other token's.
LEMMA OwedMoves ==
  ASSUME TypeOK, NEW t \in Tokens, NEW k \in Addresses,
         NEW e \in GatewayDeposit,
         deposit' = [deposit EXCEPT ![t][k] = e]
  PROVE  /\ deposit' \in [Tokens -> [Addresses -> GatewayDeposit]]
         /\ Owed(t) \in Nat
         /\ Owed(t)' = Owed(t) + (ClaimOf(e) - ClaimOf(deposit[t][k]))
         /\ \A u \in Tokens : u # t => Owed(u)' = Owed(u)
<1>1. deposit \in [Tokens -> [Addresses -> GatewayDeposit]]
  BY DEF TypeOK
<1>2. \A d \in GatewayDeposit : ClaimOf(d) \in Nat
  BY ClaimsAreNatural
<1>3. \A u \in Tokens, x \in Addresses :
        /\ deposit[u][x] \in GatewayDeposit
        /\ Claims(u)[x] = ClaimOf(deposit[u][x])
        /\ Claims(u)'[x] = ClaimOf(deposit'[u][x])
        /\ Claims(u)[x] \in Nat
  BY <1>1, <1>2 DEF Claims, Claim, ClaimOf
<1>4. /\ deposit'[t][k] = e
      /\ \A u \in Tokens, x \in Addresses :
           <<u, x>> # <<t, k>> => deposit'[u][x] = deposit[u][x]
  BY <1>1
<1>5. Owed(t)' = Owed(t) + (ClaimOf(e) - ClaimOf(deposit[t][k]))
  <2> DEFINE f == Claims(t)
             g == Claims(t)'
             m == ClaimOf(e) - ClaimOf(deposit[t][k])
  <2>1. m \in Int /\ g[k] = f[k] + m
    BY <1>2, <1>3, <1>4
  <2>2. /\ \A x \in Addresses : f[x] \in Int
        /\ \A x \in Addresses : x # k => g[x] = f[x]
    BY <1>3, <1>4
  <2> HIDE DEF f, g, m
  <2>3. SumFunctionOnSet(g, Addresses) = SumFunctionOnSet(f, Addresses) + m
    BY <2>1, <2>2, FiniteAddresses, SumMoves
  <2> QED
    BY <2>3 DEF Owed, f, g, m
<1>6. ASSUME NEW u \in Tokens, u # t PROVE Owed(u)' = Owed(u)
  <2> DEFINE f == Claims(u)
             g == Claims(u)'
  <2>1. \A x \in Addresses : f[x] \in Nat /\ g[x] = f[x]
    BY <1>3, <1>4, <1>6
  <2> HIDE DEF f, g
  <2>2. SumFunctionOnSet(g, Addresses) = SumFunctionOnSet(f, Addresses)
    BY <2>1, FiniteAddresses, SumSame
  <2> QED
    BY <2>2 DEF Owed, f, g
<1>7. Owed(t) \in Nat
  <2> DEFINE f == Claims(t)
  <2>1. \A x \in Addresses : f[x] \in Nat
    BY <1>3
  <2> HIDE DEF f
  <2>2. SumFunctionOnSet(f, Addresses) \in Nat
    BY <2>1, FiniteAddresses, SumOfNaturals
  <2> QED
    BY <2>2 DEF Owed, f
<1> QED
  BY <1>1, <1>4, <1>5, <1>6, <1>7

\* A step that changes neither claims, nor custody, nor donations.
LEMMA CustodyKept ==
  ASSUME CustodyAccounted, UNCHANGED <<deposit, balance, donated>>
  PROVE  CustodyAccounted'
<1>1. \A t \in Tokens : Owed(t)' = Owed(t)
  BY DEF Owed, Claims, Claim
<1> QED
  BY <1>1 DEF CustodyAccounted

\* A step that moves custody and the claims of one token alike.
LEMMA CustodyMoves ==
  ASSUME LedgerInv, NEW t \in Tokens, NEW k \in Addresses,
         NEW e \in GatewayDeposit,
         deposit' = [deposit EXCEPT ![t][k] = e],
         balance'[t][Custody]
           = balance[t][Custody] + (ClaimOf(e) - ClaimOf(deposit[t][k])),
         \A u \in Tokens : u # t => balance'[u] = balance[u],
         UNCHANGED donated
  PROVE  CustodyAccounted'
<1>1. /\ Owed(t) \in Nat
      /\ Owed(t)' = Owed(t) + (ClaimOf(e) - ClaimOf(deposit[t][k]))
      /\ \A u \in Tokens : u # t => Owed(u)' = Owed(u)
  BY OwedMoves DEF LedgerInv
<1>2. donated[t] \in Nat
  BY DEF LedgerInv, TypeOK
<1>3. ClaimOf(e) \in Nat /\ ClaimOf(deposit[t][k]) \in Nat
  <2>1. deposit[t][k] \in GatewayDeposit
    BY DEF LedgerInv, TypeOK
  <2> QED
    BY <2>1, ClaimsAreNatural
<1>4. balance'[t][Custody] = Owed(t)' + donated'[t]
  BY <1>1, <1>2, <1>3 DEF LedgerInv, CustodyAccounted
<1>5. \A u \in Tokens : u # t => balance'[u][Custody] = Owed(u)' + donated'[u]
  BY <1>1 DEF LedgerInv, CustodyAccounted
<1> QED
  BY <1>4, <1>5 DEF CustodyAccounted

-----------------------------------------------------------------------------
(* Every instruction preserves LedgerInv. *)

LEMMA SendersAreHolders ==
  /\ Addresses \subseteq Holders /\ Keys \subseteq Addresses
  /\ Custody \in Holders /\ Custody \notin Addresses
BY KeysAssumption DEF Holders, Addresses

LEMMA DepositStep ==
  ASSUME LedgerInv, NEW t \in Tokens, NEW sender \in Keys,
         NEW depositor \in Addresses, NEW amount \in Amounts,
         DepositInto(t, sender, depositor, amount)
  PROVE  LedgerInv'
<1> DEFINE d == deposit[t][depositor]
           e == Deposited(d, amount)
<1>1. /\ d \in GatewayDeposit /\ amount \in Nat
      /\ balance \in [Tokens -> [Holders -> Nat]]
      /\ d.available_amount + amount \in U64
  BY ConfigAssumption, InputsAssumption
  DEF LedgerInv, TypeOK, DepositInto, GatewayDeposit, U64
<1>2. /\ e \in GatewayDeposit
      /\ e.available_amount = d.available_amount + amount
      /\ e.withdrawing_amount = d.withdrawing_amount
  BY <1>1 DEF Deposited, GatewayDeposit
<1>3. ClaimOf(e) - ClaimOf(d) = amount
  BY <1>1, <1>2, ConfigAssumption DEF ClaimOf, GatewayDeposit, U64
<1>4. deposit' = [deposit EXCEPT ![t][depositor] = e]
  BY DEF DepositInto
<1>5. /\ balance' \in [Tokens -> [Holders -> Nat]]
      /\ balance'[t][Custody] = balance[t][Custody] + amount
      /\ \A u \in Tokens : u # t => balance'[u] = balance[u]
  <2>1. /\ balance' = Transfer(balance, t, sender, Custody, amount)
        /\ Holds(balance, t, sender, amount)
    BY DEF DepositInto
  <2>2. sender \in Holders /\ Custody \in Holders /\ sender # Custody
    BY SendersAreHolders
  <2> QED
    BY <1>1, <2>1, <2>2, TransferEffect
<1>6. donated' = donated
  BY DEF DepositInto
<1> HIDE DEF e
<1>7. TypeOK'
  BY <1>2, <1>4, <1>5, OwedMoves DEF LedgerInv, TypeOK, DepositInto
<1>8. balance'[t][Custody] = balance[t][Custody] + (ClaimOf(e) - ClaimOf(d))
  BY <1>3, <1>5
<1>9. CustodyAccounted'
  BY <1>2, <1>4, <1>5, <1>6, <1>8, CustodyMoves
<1> QED
  BY <1>7, <1>9 DEF LedgerInv

LEMMA InitiateWithdrawalStep ==
  ASSUME LedgerInv, NEW t \in Tokens, NEW k \in Keys, NEW amount \in Amounts,
         InitiateWithdrawal(t, k, amount)
  PROVE  LedgerInv'
<1> DEFINE d == deposit[t][k]
           delay == wallet.withdrawal_delay
           e == InitiatedWithdrawal(d, amount, delay)
<1>1. /\ d \in GatewayDeposit /\ amount \in Nat /\ k \in Addresses
      /\ balance \in [Tokens -> [Holders -> Nat]]
      /\ slot \in U64 /\ delay \in U64
  <2>1. amount \in Nat /\ slot \in U64
    BY ConfigAssumption, InputsAssumption DEF LedgerInv, TypeOK, U64
  <2> QED
    BY <2>1, SendersAreHolders DEF LedgerInv, TypeOK, Wallet
<1>2. /\ d.available_amount - amount \in U64
      /\ d.withdrawing_amount + amount \in U64
      /\ slot + delay \in U64
  BY <1>1, ConfigAssumption DEF InitiateWithdrawal, GatewayDeposit, U64
<1>3. /\ e \in GatewayDeposit
      /\ e.available_amount = d.available_amount - amount
      /\ e.withdrawing_amount = d.withdrawing_amount + amount
  BY <1>1, <1>2 DEF InitiatedWithdrawal, GatewayDeposit
<1>4. ClaimOf(e) - ClaimOf(d) = 0
  BY <1>1, <1>3, ConfigAssumption DEF ClaimOf, GatewayDeposit, U64
<1>5. deposit' = [deposit EXCEPT ![t][k] = e]
  BY DEF InitiateWithdrawal
<1>6. requested' \in [Tokens -> [Addresses -> [slot : U64, delay : U64]]]
  BY <1>1 DEF LedgerInv, TypeOK, InitiateWithdrawal
<1>7. UNCHANGED <<balance, donated>>
  BY DEF InitiateWithdrawal
<1> HIDE DEF e
<1>8. TypeOK'
  BY <1>1, <1>3, <1>5, <1>6, OwedMoves
  DEF LedgerInv, TypeOK, InitiateWithdrawal
<1>9. balance'[t][Custody] = balance[t][Custody] + (ClaimOf(e) - ClaimOf(d))
  BY <1>1, <1>4, <1>7, SendersAreHolders
<1>10. CustodyAccounted'
  BY <1>1, <1>3, <1>5, <1>7, <1>9, CustodyMoves
<1> QED
  BY <1>8, <1>10 DEF LedgerInv

LEMMA WithdrawStep ==
  ASSUME LedgerInv, NEW t \in Tokens, NEW k \in Keys, Withdraw(t, k)
  PROVE  LedgerInv'
<1> DEFINE d == deposit[t][k]
           e == CompletedWithdrawal(d)
           amount == d.withdrawing_amount
<1>1. /\ d \in GatewayDeposit /\ k \in Addresses
      /\ balance \in [Tokens -> [Holders -> Nat]]
  BY SendersAreHolders DEF LedgerInv, TypeOK
<1>2. amount \in Nat /\ 0 \in U64
  BY <1>1, ConfigAssumption DEF GatewayDeposit, U64
<1>3. /\ e \in GatewayDeposit
      /\ e.available_amount = d.available_amount
      /\ e.withdrawing_amount = 0
  BY <1>1, <1>2 DEF CompletedWithdrawal, GatewayDeposit
<1>4. ClaimOf(e) - ClaimOf(d) = - amount
  BY <1>1, <1>3, ConfigAssumption DEF ClaimOf, GatewayDeposit, U64
<1>5. deposit' = [deposit EXCEPT ![t][k] = e]
  BY DEF Withdraw
<1>6. requested' \in [Tokens -> [Addresses -> [slot : U64, delay : U64]]]
  BY <1>1, <1>2 DEF LedgerInv, TypeOK, Withdraw, NoRequest
<1>7. /\ balance' \in [Tokens -> [Holders -> Nat]]
      /\ balance'[t][Custody] = balance[t][Custody] - amount
      /\ \A u \in Tokens : u # t => balance'[u] = balance[u]
  <2>1. /\ balance' = Transfer(balance, t, Custody, k, amount)
        /\ Holds(balance, t, Custody, amount)
    BY DEF Withdraw
  <2>2. k \in Holders /\ Custody \in Holders /\ k # Custody
    BY SendersAreHolders
  <2> HIDE DEF amount
  <2> QED
    BY <1>1, <1>2, <2>1, <2>2, TransferEffect
<1>8. balance'[t][Custody] = balance[t][Custody] + (ClaimOf(e) - ClaimOf(d))
  BY <1>1, <1>2, <1>4, <1>7, SendersAreHolders
<1> HIDE DEF e, amount
<1>9. TypeOK'
  BY <1>1, <1>3, <1>5, <1>6, <1>7, OwedMoves DEF LedgerInv, TypeOK, Withdraw
<1>10. donated' = donated
  BY DEF Withdraw
<1>11. CustodyAccounted'
  BY <1>1, <1>3, <1>5, <1>7, <1>8, <1>10, CustodyMoves
<1> QED
  BY <1>9, <1>11 DEF LedgerInv

LEMMA DelegateStep ==
  ASSUME LedgerInv, NEW t \in Tokens, NEW d \in Keys,
         NEW k \in DelegateCandidates,
         AddDelegate(t, d, k) \/ RemoveDelegate(t, d, k)
  PROVE  LedgerInv'
<1>1. k \in Addresses /\ d \in Addresses
  BY InputsAssumption, SendersAreHolders
<1>2. PICK status \in DelegateStatus :
        /\ SetDelegate(t, d, k, status)
        /\ grants' \in SUBSET (Tokens \X Addresses \X Addresses)
  <2>1. CASE AddDelegate(t, d, k)
    BY <1>1, <2>1 DEF AddDelegate, DelegateStatus, LedgerInv, TypeOK
  <2>2. CASE RemoveDelegate(t, d, k)
    <3>1. RemovedStatus(delegate[t][d][k]) \in DelegateStatus
      BY <1>1 DEF RemovedStatus, DelegateStatus, LedgerInv, TypeOK
    <3> QED
      BY <2>2, <3>1 DEF RemoveDelegate, LedgerInv, TypeOK
  <2> QED
    BY <2>1, <2>2
<1>3. TypeOK'
  <2>1. delegate' \in [Tokens -> [Addresses -> [Addresses -> DelegateStatus]]]
    BY <1>1, <1>2 DEF SetDelegate, LedgerInv, TypeOK
  <2> QED
    BY <1>2, <2>1 DEF SetDelegate, LedgerInv, TypeOK
<1>4. CustodyAccounted'
  BY <1>2, CustodyKept DEF SetDelegate, LedgerInv
<1> QED
  BY <1>3, <1>4 DEF LedgerInv

LEMMA DonateStep ==
  ASSUME LedgerInv, NEW t \in Tokens, NEW k \in Keys,
         NEW amount \in Donations, Donate(t, k, amount)
  PROVE  LedgerInv'
<1>1. /\ amount \in Nat
      /\ balance \in [Tokens -> [Holders -> Nat]]
      /\ donated \in [Tokens -> Nat]
  BY ConfigAssumption, InputsAssumption DEF LedgerInv, TypeOK, U64
<1>2. /\ balance' \in [Tokens -> [Holders -> Nat]]
      /\ balance'[t][Custody] = balance[t][Custody] + amount
      /\ \A u \in Tokens : u # t => balance'[u] = balance[u]
  <2>1. /\ balance' = Transfer(balance, t, k, Custody, amount)
        /\ Holds(balance, t, k, amount)
    BY DEF Donate
  <2>2. k \in Holders /\ Custody \in Holders /\ k # Custody
    BY SendersAreHolders
  <2> QED
    BY <1>1, <2>1, <2>2, TransferEffect
<1>3. /\ donated' \in [Tokens -> Nat]
      /\ donated'[t] = donated[t] + amount
      /\ \A u \in Tokens : u # t => donated'[u] = donated[u]
  BY <1>1 DEF Donate
<1>4. TypeOK'
  BY <1>2, <1>3 DEF LedgerInv, TypeOK, Donate
<1>5. \A u \in Tokens : Owed(u)' = Owed(u)
  BY DEF Owed, Claims, Claim, Donate
<1>6. Owed(t) \in Nat
  <2>1. \A x \in Addresses : Claims(t)[x] \in Nat
    BY ConfigAssumption
    DEF Claims, Claim, LedgerInv, TypeOK, GatewayDeposit, U64
  <2> QED
    BY <2>1, FiniteAddresses, SumOfNaturals DEF Owed
<1>7. CustodyAccounted'
  BY <1>1, <1>2, <1>3, <1>5, <1>6 DEF CustodyAccounted, LedgerInv
<1> QED
  BY <1>4, <1>7 DEF LedgerInv

\* What a burn does: it deducts at most value + fee from one deposit account,
\* splits what it deducted into the value burned and the fee, and takes
\* exactly that from custody.
LEMMA BurnFacts ==
  ASSUME TypeOK, NEW s \in EvmKeys, NEW user \in Users,
         NEW intent \in Intents, NEW fee \in Fees,
         GatewayBurn(s, user, intent, fee)
  PROVE  LET spec == intent.spec
             t == spec.source_token
             k == spec.source_depositor
             d == deposit[t][k]
             a == FromAvailable(d, Charge(spec, fee))
             w == FromWithdrawing(d, Charge(spec, fee))
             settled == Settlement(spec, a + w)
         IN  /\ spec \in Specs /\ t \in Tokens /\ k \in Addresses
             /\ spec.value \in Nat /\ fee \in Nat /\ intent.max_fee >= fee
             /\ a \in Nat /\ w \in Nat
             /\ settled.fee \in Nat /\ settled.burn \in Nat
             /\ settled.fee + settled.burn = a + w
             /\ a + w <= spec.value + fee
             /\ settled.burn <= spec.value
             /\ settled.fee > 0 => settled.burn = spec.value
             /\ balance' \in [Tokens -> [Holders -> Nat]]
             /\ balance'[t][Custody] = balance[t][Custody] - (a + w)
             /\ \A u \in Tokens : u # t => balance'[u] = balance[u]
<1> DEFINE spec == intent.spec
           t == spec.source_token
           k == spec.source_depositor
           d == deposit[t][k]
           charge == Charge(spec, fee)
           a == FromAvailable(d, charge)
           w == FromWithdrawing(d, charge)
           settled == Settlement(spec, a + w)
           moved == Transfer(balance, t, Custody, wallet.fee_recipient,
                             settled.fee)
<1>1. /\ spec \in Specs /\ t \in Tokens /\ k \in Addresses
      /\ spec.value \in Nat /\ fee \in Nat
  <2>1. intent \in BurnIntent /\ spec \in Specs
    BY ConfigAssumption DEF Specs
  <2>2. spec \in TransferSpec /\ U64 \subseteq Nat
    BY <2>1, ConfigAssumption DEF BurnIntent, U64
  <2> QED
    BY <2>1, <2>2, InputsAssumption DEF TransferSpec
<1>2. intent.max_fee >= fee /\ balance[t][Custody] >= charge
  BY DEF GatewayBurn, CanBurn, FeeAllowed
<1>3. d \in GatewayDeposit /\ charge = spec.value + fee /\ charge \in Nat
  BY <1>1 DEF TypeOK, Charge
<1>4. a \in Nat /\ w \in Nat /\ a + w <= charge
  BY <1>3, DeductionFacts
<1> HIDE DEF spec, t, k, d, charge, a, w
<1>5. /\ settled.fee \in Nat /\ settled.burn \in Nat
      /\ settled.fee + settled.burn = a + w
      /\ settled.burn <= spec.value
      /\ settled.fee > 0 => settled.burn = spec.value
  BY <1>1, <1>3, <1>4 DEF Settlement, ActualFee
<1>6. /\ moved \in [Tokens -> [Holders -> Nat]]
      /\ moved[t][Custody] = balance[t][Custody] - settled.fee
      /\ \A u \in Tokens : u # t => moved[u] = balance[u]
  <2>1. balance \in [Tokens -> [Holders -> Nat]] /\ balance[t][Custody] \in Nat
    BY <1>1, SendersAreHolders DEF TypeOK
  <2>2. /\ wallet.fee_recipient \in Holders /\ Custody \in Holders
        /\ Custody # wallet.fee_recipient
    BY SendersAreHolders DEF TypeOK, Wallet
  <2>3. Holds(balance, t, Custody, settled.fee)
    <3> HIDE DEF settled
    <3> QED
      BY <1>2, <1>3, <1>4, <1>5, <2>1 DEF Holds
  <2> HIDE DEF settled
  <2> QED
    BY <1>1, <1>5, <2>1, <2>2, <2>3, TransferEffect
<1>7. balance' = Burn(moved, t, Custody, settled.burn)
  BY DEF GatewayBurn, spec, t, k, d, charge, a, w
<1> HIDE DEF settled, moved
<1>8. /\ balance' \in [Tokens -> [Holders -> Nat]]
      /\ balance'[t][Custody] = moved[t][Custody] - settled.burn
      /\ \A u \in Tokens : u # t => balance'[u] = moved[u]
  <2>1. Holds(moved, t, Custody, settled.burn)
    <3>1. balance[t][Custody] \in Nat
      BY <1>1, SendersAreHolders DEF TypeOK
    <3> QED
      BY <1>2, <1>3, <1>4, <1>5, <1>6, <3>1 DEF Holds
  <2> QED
    BY <1>1, <1>5, <1>6, <1>7, <2>1, SendersAreHolders, BurnEffect
<1>9. balance'[t][Custody] = balance[t][Custody] - (a + w)
  <2>1. balance[t][Custody] \in Nat
    BY <1>1, SendersAreHolders DEF TypeOK
  <2> QED
    BY <1>4, <1>5, <1>6, <1>8, <2>1
<1>10. /\ a + w <= spec.value + fee
       /\ \A u \in Tokens : u # t => balance'[u] = balance[u]
  BY <1>3, <1>4, <1>6, <1>8
<1> QED
  BY <1>1, <1>2, <1>4, <1>5, <1>8, <1>9, <1>10
  DEF spec, t, k, d, charge, a, w, settled

LEMMA BurnStep ==
  ASSUME LedgerInv, NEW s \in EvmKeys, NEW user \in Users,
         NEW intent \in Intents, NEW fee \in Fees,
         GatewayBurn(s, user, intent, fee)
  PROVE  LedgerInv'
<1> DEFINE spec == intent.spec
           t == spec.source_token
           k == spec.source_depositor
           d == deposit[t][k]
           charge == Charge(spec, fee)
           a == FromAvailable(d, charge)
           w == FromWithdrawing(d, charge)
           e == ReducedBalance(d, charge)
           settled == Settlement(spec, a + w)
           event == BurnEvent(spec, settled, a, w)
<1>1. TypeOK
  BY DEF LedgerInv
<1>2. /\ spec \in Specs /\ t \in Tokens /\ k \in Addresses
      /\ spec.value \in Nat /\ fee \in Nat /\ a \in Nat /\ w \in Nat
      /\ settled.fee \in Nat /\ settled.burn \in Nat
      /\ balance' \in [Tokens -> [Holders -> Nat]]
      /\ balance'[t][Custody] = balance[t][Custody] - (a + w)
      /\ \A u \in Tokens : u # t => balance'[u] = balance[u]
  <2> HIDE DEF spec, t, k, d, charge, a, w, settled
  <2> QED
    BY <1>1, BurnFacts DEF spec, t, k, d, charge, a, w, settled
<1>3. /\ deposit' = [deposit EXCEPT ![t][k] = e]
      /\ burned' = [burned EXCEPT ![spec] = Append(@, event)]
      /\ used' = used \cup {spec}
      /\ UNCHANGED <<wallet, delegate, denylisted, slot, requested, grants,
                     donated>>
  BY DEF GatewayBurn
<1>4. event \in GatewayBurned
  BY <1>2 DEF BurnEvent, GatewayBurned
<1> HIDE DEF spec, t, k, event, settled
<1>5. d \in GatewayDeposit /\ charge \in Nat
  BY <1>1, <1>2 DEF TypeOK, Charge
<1>6. /\ e \in GatewayDeposit
      /\ ClaimOf(e) = ClaimOf(d) - (a + w)
  BY <1>5, DeductionFacts
<1> HIDE DEF e, a, w, charge
<1>7. burned' \in [Specs -> Seq(GatewayBurned)]
  <2>1. Append(burned[spec], event) \in Seq(GatewayBurned)
    BY <1>1, <1>2, <1>4 DEF TypeOK
  <2> QED
    BY <1>1, <1>2, <1>3, <2>1 DEF TypeOK
<1>8. deposit' \in [Tokens -> [Addresses -> GatewayDeposit]]
  BY <1>1, <1>2, <1>3, <1>6, OwedMoves
<1>9. TypeOK'
  BY <1>1, <1>2, <1>3, <1>7, <1>8 DEF TypeOK
<1>10. ClaimOf(d) \in Nat /\ balance[t][Custody] \in Nat
  <2>1. ClaimOf(d) \in Nat
    BY <1>5, ClaimsAreNatural
  <2> QED
    BY <1>1, <1>2, <2>1, SendersAreHolders DEF TypeOK
<1>11. balance'[t][Custody] = balance[t][Custody] + (ClaimOf(e) - ClaimOf(d))
  BY <1>2, <1>6, <1>10
<1>12. CustodyAccounted'
  BY <1>2, <1>3, <1>6, <1>11, CustodyMoves
<1> QED
  BY <1>9, <1>12 DEF LedgerInv

LEMMA AdministerStep ==
  ASSUME LedgerInv, NEW signer \in Keys, Administer(signer)
  PROVE  LedgerInv'
<1>1. TypeOK'
  BY AdministerType DEF LedgerInv
<1>2. UNCHANGED <<deposit, balance, donated>>
  BY DEF Administer, Initialize, UpdateWithdrawalDelay, AcceptOwnership,
         Pause, Unpause, TransferOwnership, UpdatePauser, UpdateDenylister,
         UpdateTokenController, UpdateFeeRecipient, AddBurnSigner,
         RemoveBurnSigner, AddToken, DenylistAccount, UndenylistAccount,
         SetWallet, SetDenylisted
<1> QED
  BY <1>1, <1>2, CustodyKept DEF LedgerInv

LEMMA LedgerStep == LedgerInv /\ [Next]_vars => LedgerInv'
<1> SUFFICES ASSUME LedgerInv, [Next]_vars PROVE LedgerInv'
  OBVIOUS
<1>1. ASSUME NEW k \in Keys, Administer(k) PROVE LedgerInv'
  BY <1>1, AdministerStep
<1>2. ASSUME NEW t \in Tokens, NEW k \in Keys, UseAccount(t, k)
      PROVE  LedgerInv'
  <2>1. ASSUME NEW amount \in Amounts, Deposit(t, k, amount)
        PROVE  LedgerInv'
    BY <2>1, DepositStep, SendersAreHolders DEF Deposit
  <2>2. ASSUME NEW amount \in Amounts, InitiateWithdrawal(t, k, amount)
        PROVE  LedgerInv'
    BY <2>2, InitiateWithdrawalStep
  <2>3. ASSUME NEW amount \in Amounts, NEW depositor \in Addresses,
               DepositFor(t, k, depositor, amount)
        PROVE  LedgerInv'
    BY <2>3, DepositStep DEF DepositFor
  <2>4. CASE Withdraw(t, k)
    BY <2>4, WithdrawStep
  <2>5. ASSUME NEW amount \in Donations, Donate(t, k, amount)
        PROVE  LedgerInv'
    BY <2>5, DonateStep
  <2>6. ASSUME NEW a \in DelegateCandidates,
               AddDelegate(t, k, a) \/ RemoveDelegate(t, k, a)
        PROVE  LedgerInv'
    BY <2>6, DelegateStep
  <2> QED
    BY <1>2, <2>1, <2>2, <2>3, <2>4, <2>5, <2>6 DEF UseAccount
<1>3. CASE SubmitBurn
  BY <1>3, BurnStep DEF SubmitBurn
<1>4. CASE Tick
  <2>1. TypeOK'
    BY <1>4, InputsAssumption DEF Tick, LedgerInv, TypeOK, U64
  <2> QED
    BY <1>4, <2>1, CustodyKept DEF Tick, LedgerInv
<1>5. CASE UNCHANGED vars
  <2>1. TypeOK'
    BY <1>5 DEF vars, LedgerInv, TypeOK
  <2> QED
    BY <1>5, <2>1, CustodyKept DEF vars, LedgerInv
<1> QED
  BY <1>1, <1>2, <1>3, <1>4, <1>5 DEF Next

LEMMA LedgerInit == Init => LedgerInv
<1> SUFFICES ASSUME Init PROVE LedgerInv
  OBVIOUS
<1>1. ASSUME NEW t \in Tokens
      PROVE  balance[t][Custody] = Owed(t) + donated[t]
  <2>1. \A x \in Addresses : Claims(t)[x] = 0
    BY <1>1 DEF Init, Claims, Claim, NoDeposit
  <2>2. Owed(t) = 0
    BY <2>1, FiniteAddresses, SumOfZeros DEF Owed
  <2>3. donated[t] \in Nat /\ balance[t][Custody] = donated[t]
    BY TypeInit DEF Init, TypeOK
  <2> QED
    BY <2>2, <2>3
<1> QED
  BY <1>1, TypeInit DEF LedgerInv, CustodyAccounted

-----------------------------------------------------------------------------
(* What is charged, and to whom. *)

\* Only the burn instruction writes UsedTransferSpecHash accounts and emits
\* GatewayBurned events.
LEMMA OnlyBurnsCharge ==
  ASSUME [Next]_vars
  PROVE  \/ UNCHANGED <<used, burned>>
         \/ \E s \in EvmKeys, k \in Users, intent \in Intents, fee \in Fees :
              GatewayBurn(s, k, intent, fee)
<1>1. ASSUME NEW k \in Keys, Administer(k) PROVE UNCHANGED <<used, burned>>
  BY <1>1
  DEF Administer, Initialize, UpdateWithdrawalDelay, AcceptOwnership,
      Pause, Unpause, TransferOwnership, UpdatePauser, UpdateDenylister,
      UpdateTokenController, UpdateFeeRecipient, AddBurnSigner,
      RemoveBurnSigner, AddToken, DenylistAccount, UndenylistAccount,
      SetWallet, SetDenylisted
<1>2. ASSUME NEW t \in Tokens, NEW k \in Keys, UseAccount(t, k)
      PROVE  UNCHANGED <<used, burned>>
  BY <1>2
  DEF UseAccount, Deposit, DepositFor, DepositInto, InitiateWithdrawal,
      Withdraw, Donate, AddDelegate, RemoveDelegate, SetDelegate
<1>3. CASE Tick \/ UNCHANGED vars
  BY <1>3 DEF Tick, vars
<1> QED
  BY <1>1, <1>2, <1>3 DEF Next, SubmitBurn

\* What a burn writes: it marks a spec that was not marked, and appends one
\* event that is within what an intent for the spec allows.
LEMMA BurnCharges ==
  ASSUME TypeOK, NEW s \in EvmKeys, NEW user \in Users,
         NEW intent \in Intents, NEW fee \in Fees,
         GatewayBurn(s, user, intent, fee)
  PROVE  \E event \in GatewayBurned :
           /\ intent.spec \in Specs \ used
           /\ used' = used \cup {intent.spec}
           /\ burned' = [burned EXCEPT ![intent.spec] = Append(@, event)]
           /\ event.value <= intent.spec.value
           /\ event.fee > 0 => event.value = intent.spec.value
           /\ event.fee <= intent.max_fee
           /\ event.from_available + event.from_withdrawing
                = event.value + event.fee
<1> DEFINE spec == intent.spec
           d == deposit[spec.source_token][spec.source_depositor]
           a == FromAvailable(d, Charge(spec, fee))
           w == FromWithdrawing(d, Charge(spec, fee))
           settled == Settlement(spec, a + w)
           event == BurnEvent(spec, settled, a, w)
<1>1. /\ spec \in Specs /\ spec.value \in Nat /\ fee \in Nat
      /\ intent.max_fee >= fee /\ intent.max_fee \in Nat
      /\ a \in Nat /\ w \in Nat
      /\ settled.fee \in Nat /\ settled.burn \in Nat
      /\ settled.fee + settled.burn = a + w
      /\ a + w <= spec.value + fee
      /\ settled.burn <= spec.value
      /\ settled.fee > 0 => settled.burn = spec.value
  <2>1. intent.max_fee \in Nat
    BY ConfigAssumption DEF BurnIntent, U64
  <2> HIDE DEF spec, d, a, w, settled
  <2> QED
    BY <2>1, BurnFacts DEF spec, d, a, w, settled
<1>2. /\ spec \notin used
      /\ used' = used \cup {spec}
      /\ burned' = [burned EXCEPT ![spec] = Append(@, event)]
  BY DEF GatewayBurn, CanBurn, IsTransferSpecHashUsed
<1>3. /\ event \in GatewayBurned
      /\ event.value = settled.burn /\ event.fee = settled.fee
      /\ event.from_available = a /\ event.from_withdrawing = w
  <2> HIDE DEF settled, a, w
  <2> QED
    BY <1>1 DEF BurnEvent, GatewayBurned
<1> HIDE DEF spec, d, a, w, settled, event
<1>4. settled.fee <= fee
  BY <1>1
<1>5. /\ event.value <= spec.value
      /\ event.fee > 0 => event.value = spec.value
      /\ event.fee <= intent.max_fee
      /\ event.from_available + event.from_withdrawing
           = event.value + event.fee
  BY <1>1, <1>3, <1>4
<1> QED
  BY <1>1, <1>2, <1>3, <1>5 DEF spec

\* ChargedOnce and BurnWithinMandate are each inductive relative to TypeOK.
LEMMA ChargedOnceStep ==
  ASSUME TypeOK, ChargedOnce, [Next]_vars
  PROVE  ChargedOnce'
<1>1. CASE UNCHANGED <<used, burned>>
  BY <1>1 DEF ChargedOnce
<1>2. ASSUME NEW s \in EvmKeys, NEW k \in Users, NEW intent \in Intents,
             NEW fee \in Fees, GatewayBurn(s, k, intent, fee)
      PROVE  ChargedOnce'
  <2>1. PICK event \in GatewayBurned :
          /\ intent.spec \in Specs \ used
          /\ used' = used \cup {intent.spec}
          /\ burned' = [burned EXCEPT ![intent.spec] = Append(@, event)]
    BY <1>2, BurnCharges
  <2>2. burned[intent.spec] = <<>>
    BY <2>1 DEF ChargedOnce
  <2>3. burned'[intent.spec] = <<event>>
    BY <2>1, <2>2 DEF TypeOK
  <2>4. Len(burned'[intent.spec]) = 1 /\ burned'[intent.spec] # <<>>
    BY <2>3
  <2>5. ASSUME NEW spec \in Specs, spec # intent.spec
        PROVE  /\ burned'[spec] = burned[spec]
               /\ spec \in used' <=> spec \in used
    BY <2>1, <2>5 DEF TypeOK
  <2> QED
    BY <2>1, <2>4, <2>5 DEF ChargedOnce
<1> QED
  BY <1>1, <1>2, OnlyBurnsCharge

LEMMA MandateStep ==
  ASSUME TypeOK, BurnWithinMandate, [Next]_vars
  PROVE  BurnWithinMandate'
<1>1. CASE UNCHANGED <<used, burned>>
  BY <1>1 DEF BurnWithinMandate
<1>2. ASSUME NEW s \in EvmKeys, NEW k \in Users, NEW intent \in Intents,
             NEW fee \in Fees, GatewayBurn(s, k, intent, fee)
      PROVE  BurnWithinMandate'
  <2> DEFINE Within(spec, e) ==
        /\ e.value <= spec.value
        /\ e.fee > 0 => e.value = spec.value
        /\ \E i \in Intents : i.spec = spec /\ e.fee <= i.max_fee
        /\ e.from_available + e.from_withdrawing = e.value + e.fee
  <2>1. PICK event \in GatewayBurned :
          /\ intent.spec \in Specs
          /\ burned' = [burned EXCEPT ![intent.spec] = Append(@, event)]
          /\ Within(intent.spec, event)
    BY <1>2, BurnCharges
  <2>2. \A spec \in Specs : \A i \in DOMAIN burned[spec] :
          Within(spec, burned[spec][i])
    BY DEF BurnWithinMandate
  <2> HIDE DEF Within
  <2>3. ASSUME NEW spec \in Specs, NEW i \in DOMAIN burned'[spec]
        PROVE  Within(spec, burned'[spec][i])
    <3>1. CASE spec # intent.spec
      <4>1. burned'[spec] = burned[spec]
        BY <2>1, <3>1 DEF TypeOK
      <4> QED
        BY <2>2, <2>3, <4>1
    <3>2. CASE spec = intent.spec
      <4>1. /\ burned[spec] \in Seq(GatewayBurned)
            /\ burned'[spec] = Append(burned[spec], event)
        BY <2>1, <3>2 DEF TypeOK
      <4>2. CASE i \in DOMAIN burned[spec]
        <5>1. burned'[spec][i] = burned[spec][i]
          BY <4>1, <4>2
        <5> QED
          BY <2>2, <4>2, <5>1
      <4>3. CASE i \notin DOMAIN burned[spec]
        <5>1. burned'[spec][i] = event
          BY <2>3, <4>1, <4>3
        <5> QED
          BY <2>1, <3>2, <5>1
      <4> QED
        BY <4>2, <4>3
    <3> QED
      BY <3>1, <3>2
  <2> QED
    BY <2>3 DEF BurnWithinMandate, Within
<1> QED
  BY <1>1, <1>2, OnlyBurnsCharge

-----------------------------------------------------------------------------
(* The theorems. *)

\* Every behaviour of the program satisfies the inductive invariant.
THEOREM LedgerInvariant == Spec => []LedgerInv
<1>1. LedgerInv /\ [Next]_vars => LedgerInv'
  BY LedgerStep
<1> QED
  BY <1>1, LedgerInit, PTL DEF Spec

\* Every account always holds data of its declared type: no instruction can
\* drive an amount of a deposit account (state.rs) below zero or beyond u64.
THEOREM TypeCorrect == Spec => []TypeOK
<1>1. LedgerInv => TypeOK
  BY DEF LedgerInv
<1> QED
  BY <1>1, LedgerInvariant, PTL

\* For any number of depositors, tokens and intents, custody always holds
\* exactly what the deposit accounts add up to and what was sent to it from
\* outside: the claims of all depositors are covered at the same time.
THEOREM CustodyIsAccounted == Spec => []CustodyAccounted
<1>1. LedgerInv => CustodyAccounted
  BY DEF LedgerInv
<1> QED
  BY <1>1, LedgerInvariant, PTL

\* However many intents there are for a transfer spec, and whatever fees and
\* signers they carry, the spec is charged at most once, and exactly the specs
\* that were charged have a UsedTransferSpecHash account.
THEOREM SpecsAreChargedOnce == Spec => []ChargedOnce
<1>1. Init => ChargedOnce
  BY DEF Init, ChargedOnce
<1>2. TypeOK /\ ChargedOnce /\ [Next]_vars => ChargedOnce'
  BY ChargedOnceStep
<1> QED
  BY <1>1, <1>2, TypeCorrect, PTL DEF Spec

\* Every burn event is within what an intent allows: no more than the value, a
\* fee only on top of the whole value and within its max_fee, and the parts it
\* names add up.
THEOREM BurnsAreWithinMandate == Spec => []BurnWithinMandate
<1>1. Init => BurnWithinMandate
  BY DEF Init, BurnWithinMandate
<1>2. TypeOK /\ BurnWithinMandate /\ [Next]_vars => BurnWithinMandate'
  BY MandateStep
<1> QED
  BY <1>1, <1>2, TypeCorrect, PTL DEF Spec

-----------------------------------------------------------------------------
(* The supply. *)

Supply(b, t) == SumFunctionOnSet(b[t], Holders)

LEMMA FiniteHolders == IsFiniteSet(Holders)
BY FiniteAddresses, FS_AddElement DEF Holders

\* SumMoves for the balances of one token.
LEMMA BalancesSum ==
  \A f, g : \A holder \in Holders, change \in Int :
    /\ \A x \in Holders : f[x] \in Int
    /\ \A x \in Holders : x # holder => g[x] = f[x]
    /\ g[holder] = f[holder] + change
    => SumFunctionOnSet(g, Holders) = SumFunctionOnSet(f, Holders) + change
<1> SUFFICES ASSUME NEW f, NEW g, NEW holder \in Holders, NEW change \in Int,
                    \A x \in Holders : f[x] \in Int,
                    \A x \in Holders : x # holder => g[x] = f[x],
                    g[holder] = f[holder] + change
             PROVE  SumFunctionOnSet(g, Holders)
                      = SumFunctionOnSet(f, Holders) + change
  OBVIOUS
<1> QED
  BY FiniteHolders, SumMoves

\* A transfer leaves each token's supply as it is.
LEMMA TransferKeepsSupply ==
  ASSUME NEW b \in [Tokens -> [Holders -> Nat]], NEW t \in Tokens,
         NEW from \in Holders, NEW to \in Holders, from # to,
         NEW amount \in Nat, Holds(b, t, from, amount),
         NEW c, c = Transfer(b, t, from, to, amount), NEW u \in Tokens
  PROVE  Supply(c, u) = Supply(b, u)
<1>1. /\ c \in [Tokens -> [Holders -> Nat]]
      /\ c[t][from] = b[t][from] - amount
      /\ c[t][to] = b[t][to] + amount
      /\ \A h \in Holders : h # from /\ h # to => c[t][h] = b[t][h]
      /\ u # t => c[u] = b[u]
  BY TransferEffect
<1>2. CASE u # t
  BY <1>1, <1>2 DEF Supply
<1>3. CASE u = t
  <2> DEFINE f == b[t]
             g == c[t]
             m == [h \in Holders |-> IF h = from THEN f[h] - amount ELSE f[h]]
             out == - amount
  <2>1. m[from] = f[from] + out /\ out \in Int
    OBVIOUS
  <2>2. /\ \A h \in Holders : f[h] \in Int
        /\ \A h \in Holders : h # from => m[h] = f[h]
    OBVIOUS
  <2>7. g[to] = m[to] + amount /\ amount \in Int
    BY <1>1
  <2>8. /\ \A h \in Holders : m[h] \in Int
        /\ \A h \in Holders : h # to => g[h] = m[h]
    BY <1>1
  <2>3. SumFunctionOnSet(f, Holders) \in Nat
    BY FiniteHolders, SumOfNaturals
  <2> HIDE DEF f, g, m, out
  <2>4. SumFunctionOnSet(m, Holders) = SumFunctionOnSet(f, Holders) + out
    BY <2>1, <2>2, BalancesSum
  <2>5. SumFunctionOnSet(g, Holders) = SumFunctionOnSet(m, Holders) + amount
    BY <2>7, <2>8, BalancesSum
  <2>6. SumFunctionOnSet(g, Holders) = SumFunctionOnSet(f, Holders)
    BY <2>3, <2>4, <2>5 DEF out
  <2> QED
    BY <1>3, <2>6 DEF Supply, f, g
<1> QED
  BY <1>2, <1>3

\* A burn takes the amount out of its token's supply.
LEMMA BurnLowersSupply ==
  ASSUME NEW b \in [Tokens -> [Holders -> Nat]], NEW t \in Tokens,
         NEW h \in Holders, NEW amount \in Nat, Holds(b, t, h, amount),
         NEW c, c = Burn(b, t, h, amount)
  PROVE  /\ Supply(c, t) = Supply(b, t) - amount
         /\ \A u \in Tokens : u # t => Supply(c, u) = Supply(b, u)
<1>1. /\ c[t][h] = b[t][h] - amount
      /\ \A x \in Holders : x # h => c[t][x] = b[t][x]
      /\ \A u \in Tokens : u # t => c[u] = b[u]
  BY BurnEffect
<1> DEFINE f == b[t]
           g == c[t]
           out == - amount
<1>2. g[h] = f[h] + out /\ out \in Int
  BY <1>1
<1>6. /\ \A x \in Holders : f[x] \in Int
      /\ \A x \in Holders : x # h => g[x] = f[x]
  BY <1>1
<1>3. SumFunctionOnSet(f, Holders) \in Nat
  BY FiniteHolders, SumOfNaturals
<1> HIDE DEF f, g, out
<1>4. SumFunctionOnSet(g, Holders) = SumFunctionOnSet(f, Holders) + out
  BY <1>2, <1>6, BalancesSum
<1>5. Supply(c, t) = Supply(b, t) - amount
  BY <1>3, <1>4 DEF Supply, f, g, out
<1> QED
  BY <1>1, <1>5 DEF Supply

\* What an instruction does to the balances and the burn events, one line for
\* each kind.
LEMMA BalancesMove ==
  ASSUME LedgerInv, [Next]_vars
  PROVE  \/ UNCHANGED <<balance, burned>>
         \/ /\ UNCHANGED burned
            /\ \A u \in Tokens : Supply(balance', u) = Supply(balance, u)
         \/ \E s \in EvmKeys, k \in Users, intent \in Intents, fee \in Fees :
              GatewayBurn(s, k, intent, fee)
<1> DEFINE Kept == /\ UNCHANGED burned
                   /\ \A u \in Tokens : Supply(balance', u) = Supply(balance, u)
<1>0. /\ balance \in [Tokens -> [Holders -> Nat]]
      /\ \A n \in U64 : n \in Nat
      /\ Amounts \subseteq Nat /\ Donations \subseteq Nat
  BY ConfigAssumption, InputsAssumption DEF LedgerInv, TypeOK, U64
<1>1. ASSUME NEW t \in Tokens, NEW k \in Keys, NEW d \in Addresses,
             NEW amount \in Amounts, DepositInto(t, k, d, amount)
      PROVE  Kept
  <2>1. /\ balance' = Transfer(balance, t, k, Custody, amount)
        /\ Holds(balance, t, k, amount) /\ burned' = burned
    BY <1>1 DEF DepositInto
  <2>2. k \in Holders /\ Custody \in Holders /\ k # Custody /\ amount \in Nat
    BY <1>0, SendersAreHolders
  <2> QED
    BY <1>0, <2>1, <2>2, TransferKeepsSupply
<1>2. ASSUME NEW t \in Tokens, NEW k \in Keys, Withdraw(t, k)
      PROVE  Kept
  <2> DEFINE amount == deposit[t][k].withdrawing_amount
  <2>1. /\ balance' = Transfer(balance, t, Custody, k, amount)
        /\ Holds(balance, t, Custody, amount) /\ burned' = burned
    BY <1>2 DEF Withdraw
  <2>2. k \in Holders /\ Custody \in Holders /\ k # Custody /\ amount \in Nat
    <3>1. deposit[t][k] \in GatewayDeposit
      BY SendersAreHolders DEF LedgerInv, TypeOK
    <3> QED
      BY <1>0, <3>1, SendersAreHolders DEF GatewayDeposit
  <2> HIDE DEF amount
  <2> QED
    BY <1>0, <2>1, <2>2, TransferKeepsSupply
<1>3. ASSUME NEW t \in Tokens, NEW k \in Keys, NEW amount \in Donations,
             Donate(t, k, amount)
      PROVE  Kept
  <2>1. /\ balance' = Transfer(balance, t, k, Custody, amount)
        /\ Holds(balance, t, k, amount) /\ burned' = burned
    BY <1>3 DEF Donate
  <2>2. k \in Holders /\ Custody \in Holders /\ k # Custody /\ amount \in Nat
    BY <1>0, SendersAreHolders
  <2> QED
    BY <1>0, <2>1, <2>2, TransferKeepsSupply
<1>4. ASSUME NEW t \in Tokens, NEW k \in Keys, UseAccount(t, k)
      PROVE  UNCHANGED <<balance, burned>> \/ Kept
  <2>1. ASSUME NEW a \in DelegateCandidates,
               AddDelegate(t, k, a) \/ RemoveDelegate(t, k, a)
        PROVE  UNCHANGED <<balance, burned>>
    BY <2>1 DEF AddDelegate, RemoveDelegate, SetDelegate
  <2>2. ASSUME NEW amount \in Amounts, InitiateWithdrawal(t, k, amount)
        PROVE  UNCHANGED <<balance, burned>>
    BY <2>2 DEF InitiateWithdrawal
  <2> HIDE DEF Kept
  <2> QED
    BY <1>1, <1>2, <1>3, <1>4, <2>1, <2>2, SendersAreHolders
    DEF UseAccount, Deposit, DepositFor
<1>5. ASSUME NEW k \in Keys, Administer(k)
      PROVE  UNCHANGED <<balance, burned>>
  BY <1>5
  DEF Administer, Initialize, UpdateWithdrawalDelay, AcceptOwnership,
      Pause, Unpause, TransferOwnership, UpdatePauser, UpdateDenylister,
      UpdateTokenController, UpdateFeeRecipient, AddBurnSigner,
      RemoveBurnSigner, AddToken, DenylistAccount, UndenylistAccount,
      SetWallet, SetDenylisted
<1>6. ASSUME Tick \/ UNCHANGED vars
      PROVE  UNCHANGED <<balance, burned>>
  BY <1>6 DEF Tick, vars
<1> HIDE DEF Kept
<1>7. \/ UNCHANGED <<balance, burned>>
      \/ Kept
      \/ \E s \in EvmKeys, k \in Users, intent \in Intents, fee \in Fees :
           GatewayBurn(s, k, intent, fee)
  BY <1>4, <1>5, <1>6 DEF Next, SubmitBurn
<1> QED
  BY <1>7 DEF Kept

\* A burn takes out of the supply what its event says was burned.
LEMMA BurnReducesSupply ==
  ASSUME LedgerInv, NEW s \in EvmKeys, NEW user \in Users,
         NEW intent \in Intents, NEW fee \in Fees,
         GatewayBurn(s, user, intent, fee)
  PROVE  \E event \in GatewayBurned :
           LET t == intent.spec.source_token
           IN  /\ intent.spec \in Specs /\ t \in Tokens
               /\ burned' = [burned EXCEPT ![intent.spec] = Append(@, event)]
               /\ Supply(balance', t) = Supply(balance, t) - event.value
               /\ \A u \in Tokens :
                    u # t => Supply(balance', u) = Supply(balance, u)
<1> DEFINE spec == intent.spec
           t == spec.source_token
           d == deposit[t][spec.source_depositor]
           charge == Charge(spec, fee)
           a == FromAvailable(d, charge)
           w == FromWithdrawing(d, charge)
           settled == Settlement(spec, a + w)
           event == BurnEvent(spec, settled, a, w)
           moved == Transfer(balance, t, Custody, wallet.fee_recipient,
                             settled.fee)
<1>1. TypeOK
  BY DEF LedgerInv
<1>2. /\ spec \in Specs /\ t \in Tokens /\ spec.value \in Nat /\ fee \in Nat
      /\ a \in Nat /\ w \in Nat /\ settled.fee \in Nat /\ settled.burn \in Nat
      /\ settled.fee + settled.burn = a + w
      /\ a + w <= spec.value + fee
  <2> HIDE DEF spec, t, d, charge, a, w, settled
  <2> QED
    BY <1>1, BurnFacts DEF spec, t, d, charge, a, w, settled
<1>3. /\ balance[t][Custody] >= charge /\ charge = spec.value + fee
      /\ balance' = Burn(moved, t, Custody, settled.burn)
      /\ burned' = [burned EXCEPT ![spec] = Append(@, event)]
  BY DEF GatewayBurn, CanBurn, Charge
<1> HIDE DEF spec, t, d, charge, a, w, settled
<1>4. event \in GatewayBurned /\ event.value = settled.burn
  BY <1>2 DEF BurnEvent, GatewayBurned
<1>5. /\ balance \in [Tokens -> [Holders -> Nat]]
      /\ wallet.fee_recipient \in Holders /\ Custody \in Holders
      /\ Custody # wallet.fee_recipient
      /\ balance[t][Custody] \in Nat
  <2>1. balance \in [Tokens -> [Holders -> Nat]] /\ wallet \in Wallet
    BY <1>1 DEF TypeOK
  <2>2. wallet.fee_recipient \in Addresses
    BY <2>1 DEF Wallet
  <2> QED
    BY <1>2, <2>1, <2>2, SendersAreHolders
<1>6. Holds(balance, t, Custody, settled.fee)
  BY <1>2, <1>3, <1>5 DEF Holds
<1>7. /\ moved \in [Tokens -> [Holders -> Nat]]
      /\ moved[t][Custody] = balance[t][Custody] - settled.fee
  BY <1>2, <1>5, <1>6, TransferEffect
<1>8. \A u \in Tokens : Supply(moved, u) = Supply(balance, u)
  BY <1>2, <1>5, <1>6, TransferKeepsSupply
<1> HIDE DEF moved, event
<1>9. Holds(moved, t, Custody, settled.burn)
  BY <1>2, <1>3, <1>5, <1>7 DEF Holds
<1>10. /\ Supply(balance', t) = Supply(moved, t) - settled.burn
       /\ \A u \in Tokens : u # t => Supply(balance', u) = Supply(moved, u)
  <2> DEFINE value == settled.burn
             after == balance'
  <2>1. after = Burn(moved, t, Custody, value) /\ value \in Nat
    BY <1>2, <1>3
  <2> HIDE DEF value, after
  <2>2. /\ Supply(after, t) = Supply(moved, t) - value
        /\ \A u \in Tokens : u # t => Supply(after, u) = Supply(moved, u)
    <3>1. t \in Tokens /\ Holds(moved, t, Custody, value)
      BY <1>2, <1>9 DEF value
    <3>2. moved \in [Tokens -> [Holders -> Nat]] /\ Custody \in Holders
      BY <1>5, <1>7
    <3> QED
      BY ONLY <2>1, <3>1, <3>2, BurnLowersSupply
  <2> QED
    BY <2>2 DEF value, after
<1> QED
  BY <1>2, <1>3, <1>4, <1>8, <1>10 DEF spec, t

\* The specs with an event are finitely many, which sums over them need.
BurnsInv == BurnsAccounted /\ \A t \in Tokens : IsFiniteSet(EventsOf(t))

Events(b, t) == {spec \in Specs : spec.source_token = t /\ b[spec] # <<>>}
Values(b, t) == [spec \in Events(b, t) |-> b[spec][1].value]

\* c has an event more than b, which counts for its token only.
Adds(b, c, spec, event, t) ==
  /\ IsFiniteSet(Events(c, t))
  /\ SumFunctionOnSet(Values(c, t), Events(c, t))
       = SumFunctionOnSet(Values(b, t), Events(b, t))
           + (IF spec.source_token = t THEN event.value ELSE 0)
  /\ SumFunctionOnSet(Values(b, t), Events(b, t)) \in Nat

\* A first event for a spec adds its value to the sum of its token's events,
\* and leaves those of other tokens alone.
LEMMA EventsAdd ==
  ASSUME NEW b \in [Specs -> Seq(GatewayBurned)], NEW spec \in Specs,
         b[spec] = <<>>, NEW event \in GatewayBurned,
         NEW c, c = [b EXCEPT ![spec] = Append(@, event)],
         NEW t \in Tokens, IsFiniteSet(Events(b, t))
  PROVE  Adds(b, c, spec, event, t)
<1> DEFINE E == Events(b, t)
           F == Events(c, t)
           f == Values(b, t)
           g == Values(c, t)
<1>1. /\ c[spec] = <<event>> /\ <<event>> # <<>> /\ <<event>>[1] = event
      /\ \A x \in Specs : x # spec => c[x] = b[x]
  BY Append(<<>>, event) = <<event>>
<1>2. \A x \in E : x # spec /\ x \in Specs
  BY DEF Events
<1>3. \A x \in E : f[x] \in Nat
  <2>1. ASSUME NEW x \in E PROVE f[x] \in Nat
    <3>1. /\ b[x] \in Seq(GatewayBurned) /\ b[x] # <<>>
          /\ f[x] = b[x][1].value
      BY <2>1 DEF Events, Values
    <3>2. b[x][1] \in GatewayBurned
      BY <3>1
    <3> QED
      BY <3>1, <3>2 DEF GatewayBurned
  <2> QED
    BY <2>1
<1>4. SumFunctionOnSet(f, E) \in Nat
  <2> HIDE DEF f, E
  <2> QED
    BY <1>3, SumOfNaturals DEF E
<1>5. ASSUME NEW x \in E PROVE x \in F /\ g[x] = f[x]
  BY <1>1, <1>2 DEF Events, Values
<1>6. SumFunctionOnSet(g, E) = SumFunctionOnSet(f, E)
  <2>1. \A x \in E : f[x] \in Nat /\ g[x] = f[x]
    BY <1>3, <1>5
  <2> HIDE DEF f, g, E
  <2> QED
    BY <2>1, SumSame DEF E
<1>7. CASE spec.source_token # t
  <2>1. F = E
    BY <1>1, <1>7 DEF Events
  <2> HIDE DEF f, g, E, F
  <2> QED
    BY <1>4, <1>6, <1>7, <2>1 DEF Adds, f, g, E, F
<1>8. CASE spec.source_token = t
  <2>1. F = E \cup {spec} /\ F \ {spec} = E /\ spec \in F
    BY <1>1, <1>2, <1>8 DEF Events
  <2>2. g[spec] = event.value /\ event.value \in Nat
    BY <1>1, <2>1 DEF Values, GatewayBurned
  <2>3. \A x \in F : g[x] \in Int
    <3>1. \A x \in E : g[x] \in Nat
      BY <1>3, <1>5
    <3>2. \A x \in F : x \in E \/ x = spec
      BY <2>1
    <3> HIDE DEF f, g, E, F
    <3> QED
      BY <2>2, <3>1, <3>2
  <2> HIDE DEF f, g, E, F
  <2>4. IsFiniteSet(F)
    BY <2>1, FS_AddElement DEF E
  <2>5. SumFunctionOnSet(g, F) = g[spec] + SumFunctionOnSet(g, F \ {spec})
    BY <2>1, <2>3, <2>4, SumRemoves
  <2>6. SumFunctionOnSet(g, F) = SumFunctionOnSet(f, E) + event.value
    <3>1. SumFunctionOnSet(g, F \ {spec}) = SumFunctionOnSet(f, E)
      BY <1>6, <2>1
    <3> QED
      BY <1>4, <2>2, <2>5, <3>1
  <2> QED
    BY <1>4, <1>8, <2>4, <2>6 DEF Adds, f, g, E, F
<1> QED
  BY <1>7, <1>8

LEMMA BurnsStep ==
  ASSUME LedgerInv, ChargedOnce, BurnsInv, [Next]_vars
  PROVE  BurnsInv'
<1>1. \A t \in Tokens :
        /\ EventsOf(t) = Events(burned, t)
        /\ BurnedValue(t) = Values(burned, t)
        /\ EventsOf(t)' = Events(burned', t)
        /\ BurnedValue(t)' = Values(burned', t)
  BY DEF EventsOf, BurnedValue, Events, Values
<1> DEFINE Total(b, t) == SumFunctionOnSet(Values(b, t), Events(b, t))
           Whole(t) == SumFunctionOnSet(InitialBalance[t], Holders)
<1>2. \A t \in Tokens : /\ IsFiniteSet(Events(burned, t))
                        /\ Supply(balance, t) + Total(burned, t) = Whole(t)
  BY <1>1 DEF BurnsInv, BurnsAccounted, Supply
<1>3. SUFFICES ASSUME NEW t \in Tokens
               PROVE  /\ IsFiniteSet(Events(burned', t))
                      /\ Supply(balance', t) + Total(burned', t) = Whole(t)
  BY <1>1 DEF BurnsInv, BurnsAccounted, Supply
<1>4. CASE UNCHANGED <<balance, burned>>
  BY <1>2, <1>4
<1>5. CASE /\ UNCHANGED burned
           /\ \A u \in Tokens : Supply(balance', u) = Supply(balance, u)
  BY <1>2, <1>5
<1>6. ASSUME NEW s \in EvmKeys, NEW user \in Users, NEW intent \in Intents,
             NEW fee \in Fees, GatewayBurn(s, user, intent, fee)
      PROVE  /\ IsFiniteSet(Events(burned', t))
             /\ Supply(balance', t) + Total(burned', t) = Whole(t)
  <2> DEFINE spec == intent.spec
  <2>1. PICK event \in GatewayBurned :
          /\ spec \in Specs
          /\ burned' = [burned EXCEPT ![spec] = Append(@, event)]
          /\ Supply(balance', spec.source_token)
               = Supply(balance, spec.source_token) - event.value
          /\ \A u \in Tokens : u # spec.source_token =>
               Supply(balance', u) = Supply(balance, u)
    BY <1>6, BurnReducesSupply
  <2>2. burned \in [Specs -> Seq(GatewayBurned)]
    BY DEF LedgerInv, TypeOK
  <2>3. burned[spec] = <<>>
    BY <1>6, <2>1 DEF ChargedOnce, GatewayBurn, CanBurn,
                      IsTransferSpecHashUsed
  <2>4. Supply(balance, t) \in Nat
    <3>1. \A h \in Holders : balance[t][h] \in Nat
      BY DEF LedgerInv, TypeOK
    <3> QED
      BY <3>1, FiniteHolders, SumOfNaturals DEF Supply
  <2> HIDE DEF spec, Total, Whole
  <2>5. /\ IsFiniteSet(Events(burned', t))
        /\ Total(burned', t)
             = Total(burned, t)
                 + (IF spec.source_token = t THEN event.value ELSE 0)
        /\ Total(burned, t) \in Nat
    <3> DEFINE after == burned'
    <3>1. after = [burned EXCEPT ![spec] = Append(@, event)]
      BY <2>1
    <3>2. spec \in Specs /\ IsFiniteSet(Events(burned, t))
      BY <1>2, <2>1
    <3> HIDE DEF after
    <3>3. Adds(burned, after, spec, event, t)
      BY <2>2, <2>3, <3>1, <3>2, EventsAdd
    <3> QED
      BY <3>3 DEF Adds, after, Total
  <2>6. event.value \in Nat
    BY DEF GatewayBurned
  <2>7. CASE spec.source_token = t
    BY <1>2, <2>1, <2>4, <2>5, <2>6, <2>7
  <2>8. CASE spec.source_token # t
    BY <1>2, <2>1, <2>4, <2>5, <2>8
  <2> QED
    BY <2>7, <2>8
<1> HIDE DEF Total, Whole
<1> QED
  BY <1>4, <1>5, <1>6, BalancesMove

LEMMA BurnsInit == Init => BurnsInv
<1> SUFFICES ASSUME Init, NEW t \in Tokens
             PROVE  /\ IsFiniteSet(EventsOf(t))
                    /\ SumFunctionOnSet(balance[t], Holders)
                         + SumFunctionOnSet(BurnedValue(t), EventsOf(t))
                       = SumFunctionOnSet(InitialBalance[t], Holders)
  BY DEF BurnsInv, BurnsAccounted
<1>1. EventsOf(t) = {} /\ balance = InitialBalance
  BY DEF Init, EventsOf
<1>2. SumFunctionOnSet(BurnedValue(t), {}) = 0
  BY SumOfNothing
<1>3. SumFunctionOnSet(InitialBalance[t], Holders) \in Nat
  <2>1. \A h \in Holders : InitialBalance[t][h] \in Nat
    BY SupplyAssumption
  <2> QED
    BY <2>1, FiniteHolders, SumOfNaturals
<1> QED
  BY <1>1, <1>2, <1>3, FS_EmptySet

THEOREM BurnsInvariant == Spec => []BurnsInv
BY BurnsInit, BurnsStep, LedgerInvariant, SpecsAreChargedOnce, PTL DEF Spec

\* For any number of holders, tokens and specs, and with partial burns, fees
\* and donations in any order, the supply that is left and what the events say
\* was burned make up the initial supply of each token.
THEOREM BurnsAreAccounted == Spec => []BurnsAccounted
<1>1. BurnsInv => BurnsAccounted
  BY DEF BurnsInv
<1> QED
  BY <1>1, BurnsInvariant, PTL

\* A claim is part of custody, custody and a sender's balance are parts of the
\* supply, and the supply has only shrunk.
LEMMA SupplyBoundsClaims ==
  LedgerInv /\ BurnsInv => LedgerNeverOverflows
<1> SUFFICES ASSUME LedgerInv, BurnsInv, NEW t \in Tokens, NEW k \in Addresses
             PROVE  /\ \A sender \in Keys :
                         Claim(t, k) + balance[t][sender] <= U64Max
                    /\ Claim(t, k) <= balance[t][Custody]
  BY DEF LedgerNeverOverflows
<1> DEFINE claims == Claims(t)
           f == balance[t]
           left == SumFunctionOnSet(f, Holders)
           gone == SumFunctionOnSet(BurnedValue(t), EventsOf(t))
           whole == SumFunctionOnSet(InitialBalance[t], Holders)
<1>1. \A h \in Holders : f[h] \in Nat
  BY DEF LedgerInv, TypeOK
<1>2. \A x \in Addresses : claims[x] = Claim(t, x) /\ claims[x] \in Nat
  BY ConfigAssumption DEF Claims, Claim, LedgerInv, TypeOK, GatewayDeposit, U64
<1>3. gone \in Nat
  <2>1. \A x \in EventsOf(t) : BurnedValue(t)[x] \in Nat
    <3>1. ASSUME NEW x \in EventsOf(t)
          PROVE  BurnedValue(t)[x] \in Nat
      <4>1. /\ burned[x] \in Seq(GatewayBurned) /\ burned[x] # <<>>
            /\ BurnedValue(t)[x] = burned[x][1].value
        BY DEF LedgerInv, TypeOK, EventsOf, BurnedValue
      <4>2. burned[x][1] \in GatewayBurned
        BY <4>1
      <4> QED
        BY <4>1, <4>2 DEF GatewayBurned
    <3> QED
      BY <3>1
  <2>2. IsFiniteSet(EventsOf(t))
    BY DEF BurnsInv
  <2> QED
    BY <2>1, <2>2, SumOfNaturals
<1>4. left + gone = whole /\ whole <= U64Max /\ U64Max \in Nat
  BY SupplyAssumption, ConfigAssumption DEF BurnsInv, BurnsAccounted
<1>5. balance[t][Custody] = Owed(t) + donated[t] /\ donated[t] \in Nat
  BY DEF LedgerInv, TypeOK, CustodyAccounted
<1> HIDE DEF claims, f, left, gone, whole
<1>6. Owed(t) \in Nat /\ Claim(t, k) <= Owed(t) /\ Claim(t, k) \in Nat
  <2>1. /\ SumFunctionOnSet(claims, Addresses) \in Nat
        /\ claims[k] <= SumFunctionOnSet(claims, Addresses)
    BY <1>2, FiniteAddresses, SumOfNaturals
  <2> QED
    BY <1>2, <2>1 DEF Owed, claims
<1>7. left \in Nat
  BY <1>1, FiniteHolders, SumOfNaturals DEF left
<1>8. Claim(t, k) <= balance[t][Custody]
  BY <1>5, <1>6
<1>9. ASSUME NEW sender \in Keys
      PROVE  Claim(t, k) + balance[t][sender] <= U64Max
  <2>1. sender \in Holders /\ Custody \in Holders /\ sender # Custody
    BY SendersAreHolders
  <2>2. f[Custody] + f[sender] <= left
    BY <1>1, <2>1, FiniteHolders, SumOfTwo DEF left
  <2>3. f[Custody] \in Nat /\ f[sender] \in Nat
    BY <1>1, <2>1
  <2>4. f[Custody] + f[sender] <= U64Max
    BY <1>3, <1>4, <1>7, <2>2, <2>3
  <2>5. f[sender] = balance[t][sender] /\ f[Custody] = balance[t][Custody]
    BY DEF f
  <2> QED
    BY <1>4, <1>6, <1>8, <2>3, <2>4, <2>5
<1> QED
  BY <1>8, <1>9

\* A deposit that the sender can pay never fails for the width of the deposit
\* account's amounts, whatever the supply, as long as the mint's fits u64.
THEOREM LedgerFits == Spec => []LedgerNeverOverflows
BY SupplyBoundsClaims, LedgerInvariant, BurnsInvariant, PTL

-----------------------------------------------------------------------------
(* The lists. *)

Aligned ==
  Len(wallet.custody_token_account_bumps) = Len(wallet.supported_tokens)

\* What ListsWellFormed says of the wallet account alone, and that the two
\* token lists have one length, which AddToken needs to keep them in step.
ListsOK ==
  /\ Aligned
  /\ Len(wallet.supported_tokens) <= MaxSupportedTokens
  /\ Len(wallet.burn_signers) <= MaxBurnSigners
  /\ NoDuplicates(wallet.supported_tokens)
  /\ NoDuplicates(wallet.burn_signers)
  /\ \A t \in Tokens : IsTokenSupported(t) => IsCustody(t)

ListsInv ==
  /\ ListsOK
  /\ \A t \in Tokens, k \in Addresses : deposit[t][k].opened => IsCustody(t)

Lists(w) ==
  <<w.supported_tokens, w.custody_token_account_bumps, w.burn_signers>>

\* Most of the administration leaves the lists alone.
LEMMA ListsMove ==
  ASSUME TypeOK, NEW signer \in Keys, Administer(signer)
  PROVE  \/ Lists(wallet') = Lists(wallet)
         \/ \E s \in EvmKeys \ {DefaultKey} :
              /\ ~ IsBurnSigner(s)
              /\ Len(wallet.burn_signers) < MaxBurnSigners
              /\ wallet' = [wallet EXCEPT !.burn_signers = Append(@, s)]
         \/ \E s \in EvmKeys :
              /\ IsBurnSigner(s)
              /\ wallet' = [wallet EXCEPT !.burn_signers = WithoutFirst(@, s)]
         \/ \E t \in Tokens :
              /\ ~ IsTokenSupported(t)
              /\ Len(wallet.supported_tokens) < MaxSupportedTokens
              /\ wallet' = [wallet EXCEPT
                   !.supported_tokens = Append(@, t),
                   !.custody_token_account_bumps = Append(@, CustodyBump[t])]
<1>0. wallet \in Wallet
  BY DEF TypeOK
<1>1. ASSUME NEW delay \in Delays,
             Initialize(signer, delay) \/ UpdateWithdrawalDelay(signer, delay)
      PROVE  Lists(wallet') = Lists(wallet)
  BY <1>0, <1>1
  DEF Initialize, UpdateWithdrawalDelay, SetWallet, Lists, Wallet
<1>2. CASE AcceptOwnership(signer) \/ Pause(signer) \/ Unpause(signer)
  BY <1>0, <1>2
  DEF AcceptOwnership, Pause, Unpause, SetWallet, Lists, Wallet
<1>3. ASSUME NEW k \in Nominees,
             \/ TransferOwnership(signer, k)
             \/ UpdatePauser(signer, k)
             \/ UpdateDenylister(signer, k)
             \/ UpdateTokenController(signer, k)
             \/ UpdateFeeRecipient(signer, k)
      PROVE  Lists(wallet') = Lists(wallet)
  BY <1>0, <1>3
  DEF TransferOwnership, UpdatePauser, UpdateDenylister,
      UpdateTokenController, UpdateFeeRecipient, SetWallet, Lists, Wallet
<1>4. ASSUME NEW s \in EvmKeys \cup {DefaultKey}, AddBurnSigner(signer, s)
      PROVE  \/ wallet' = wallet
             \/ /\ s \in EvmKeys \ {DefaultKey}
                /\ ~ IsBurnSigner(s)
                /\ Len(wallet.burn_signers) < MaxBurnSigners
                /\ wallet' = [wallet EXCEPT !.burn_signers = Append(@, s)]
  BY <1>4 DEF AddBurnSigner, SetWallet
<1>5. ASSUME NEW s \in EvmKeys \cup {DefaultKey}, RemoveBurnSigner(signer, s)
      PROVE  \/ wallet' = wallet
             \/ /\ s \in EvmKeys
                /\ IsBurnSigner(s)
                /\ wallet' =
                     [wallet EXCEPT !.burn_signers = WithoutFirst(@, s)]
  <2>1. IsBurnSigner(s) => s \in EvmKeys
    BY <1>0 DEF IsBurnSigner, Wallet, Range
  <2> QED
    BY <1>5, <2>1 DEF RemoveBurnSigner, SetWallet
<1>6. ASSUME NEW t \in Tokens, AddToken(signer, t)
      PROVE  \/ wallet' = wallet
             \/ /\ ~ IsTokenSupported(t)
                /\ Len(wallet.supported_tokens) < MaxSupportedTokens
                /\ wallet' = [wallet EXCEPT
                     !.supported_tokens = Append(@, t),
                     !.custody_token_account_bumps = Append(@, CustodyBump[t])]
  BY <1>6 DEF AddToken, SetWallet, RoomForToken
<1>7. ASSUME NEW k \in DenylistCandidates,
             DenylistAccount(signer, k) \/ UndenylistAccount(signer, k)
      PROVE  wallet' = wallet
  BY <1>7 DEF DenylistAccount, UndenylistAccount, SetDenylisted
<1> QED
  BY <1>1, <1>2, <1>3, <1>4, <1>5, <1>6, <1>7 DEF Administer

\* The lists stay well-formed, and a custody account that could be named still
\* can.
LEMMA ListsKept ==
  ASSUME TypeOK, ListsOK, Lists(wallet') = Lists(wallet)
  PROVE  ListsOK' /\ \A t \in Tokens : IsCustody(t) => IsCustody(t)'
<1>1. /\ wallet'.supported_tokens = wallet.supported_tokens
      /\ wallet'.custody_token_account_bumps
           = wallet.custody_token_account_bumps
      /\ wallet'.burn_signers = wallet.burn_signers
  BY DEF Lists
<1> QED
  BY <1>1
  DEF ListsOK, Aligned, IsTokenSupported, IsCustody, CustodyTokenAccountBump

LEMMA SignerListStep ==
  ASSUME TypeOK, ListsOK, NEW signers \in Seq(EvmKeys),
         wallet' = [wallet EXCEPT !.burn_signers = signers],
         Len(signers) <= MaxBurnSigners, NoDuplicates(signers)
  PROVE  ListsOK' /\ \A t \in Tokens : IsCustody(t) => IsCustody(t)'
<1>1. /\ wallet'.supported_tokens = wallet.supported_tokens
      /\ wallet'.custody_token_account_bumps
           = wallet.custody_token_account_bumps
      /\ wallet'.burn_signers = signers
  BY DEF TypeOK, Wallet
<1> QED
  BY <1>1
  DEF ListsOK, Aligned, IsTokenSupported, IsCustody, CustodyTokenAccountBump

\* A token is appended to both lists, at the same position.
LEMMA TokenListStep ==
  ASSUME TypeOK, ListsOK, NEW t \in Tokens, ~ IsTokenSupported(t),
         Len(wallet.supported_tokens) < MaxSupportedTokens,
         wallet' = [wallet EXCEPT
           !.supported_tokens = Append(@, t),
           !.custody_token_account_bumps = Append(@, CustodyBump[t])]
  PROVE  ListsOK' /\ \A u \in Tokens : IsCustody(u) => IsCustody(u)'
<1> DEFINE tokens == wallet.supported_tokens
           bumps == wallet.custody_token_account_bumps
<1>1. /\ wallet'.supported_tokens = Append(tokens, t)
      /\ wallet'.custody_token_account_bumps = Append(bumps, CustodyBump[t])
      /\ wallet'.burn_signers = wallet.burn_signers
  BY DEF TypeOK, Wallet
<1>2. /\ tokens \in Seq(Tokens) /\ Len(tokens) \in Nat
      /\ t \notin Range(tokens)
      /\ Len(tokens) < MaxSupportedTokens /\ MaxSupportedTokens \in Nat
  BY ConfigAssumption DEF TypeOK, Wallet, IsTokenSupported
<1>3. InStep(Tokens, tokens, bumps, CustodyBump)
  <2>1. \A u \in Range(tokens) :
          u \in Tokens /\ bumps[FirstIndex(tokens, u)] = CustodyBump[u]
    BY <1>2 DEF ListsOK, IsCustody, IsTokenSupported, CustodyTokenAccountBump,
                Range
  <2>2. /\ bumps \in Seq(Nat) /\ Len(bumps) = Len(tokens)
        /\ \A i, j \in DOMAIN tokens : tokens[i] = tokens[j] => i = j
    BY DEF TypeOK, Wallet, ListsOK, Aligned, NoDuplicates
  <2> QED
    BY <1>2, <2>1, <2>2 DEF InStep
<1> HIDE DEF tokens, bumps
<1> DEFINE more == Append(tokens, t)
           moreBumps == Append(bumps, CustodyBump[t])
<1>4. /\ InStep(Tokens, more, moreBumps, CustodyBump)
      /\ Len(more) = Len(tokens) + 1
      /\ Range(more) = Range(tokens) \cup {t}
  <2>1. /\ CustodyBump \in [Tokens -> Nat]
        /\ more = Append(tokens, t) /\ moreBumps = Append(bumps, CustodyBump[t])
    BY ConfigAssumption
  <2> HIDE DEF more, moreBumps
  <2>2. InStep(Tokens, more, moreBumps, CustodyBump)
    BY <1>2, <1>3, <2>1, AppendInStep
  <2>3. Len(more) = Len(tokens) + 1
    BY <1>2, <1>3, <2>1, AppendInStep
  <2>4. Range(more) = Range(tokens) \cup {t}
    BY <1>2, <2>1, AppendRange
  <2> QED
    BY <2>2, <2>3, <2>4
<1>5. /\ wallet'.supported_tokens = more
      /\ wallet'.custody_token_account_bumps = moreBumps
  BY <1>1
<1> HIDE DEF more, moreBumps
<1>6. /\ \A u \in Range(more) : moreBumps[FirstIndex(more, u)] = CustodyBump[u]
      /\ \A i, j \in DOMAIN more : more[i] = more[j] => i = j
      /\ Len(moreBumps) = Len(more)
  BY <1>4 DEF InStep
<1>7. \A u \in Tokens : IsTokenSupported(u)' => IsCustody(u)'
  BY <1>5, <1>6 DEF IsTokenSupported, IsCustody, CustodyTokenAccountBump
<1>8. \A u \in Tokens : IsCustody(u) => IsTokenSupported(u)'
  BY <1>4, <1>5 DEF IsTokenSupported, IsCustody, tokens
<1>9. Len(more) <= MaxSupportedTokens
  BY <1>2, <1>4
<1> QED
  BY <1>1, <1>5, <1>6, <1>7, <1>8, <1>9 DEF ListsOK, Aligned, NoDuplicates

LEMMA ListsAdminister ==
  ASSUME TypeOK, ListsInv, NEW signer \in Keys, Administer(signer)
  PROVE  ListsInv'
<1> USE DEF ListsInv
<1>1. UNCHANGED deposit
  BY DEF Administer, Initialize, UpdateWithdrawalDelay, AcceptOwnership,
         Pause, Unpause, TransferOwnership, UpdatePauser, UpdateDenylister,
         UpdateTokenController, UpdateFeeRecipient, AddBurnSigner,
         RemoveBurnSigner, AddToken, DenylistAccount, UndenylistAccount,
         SetWallet, SetDenylisted
<1>2. ListsOK' /\ \A t \in Tokens : IsCustody(t) => IsCustody(t)'
  <2> DEFINE signers == wallet.burn_signers
  <2>0. /\ signers \in Seq(EvmKeys) /\ NoDuplicates(signers)
        /\ Len(signers) \in Nat /\ Len(signers) <= MaxBurnSigners
        /\ MaxBurnSigners \in Nat
    BY ConfigAssumption DEF TypeOK, Wallet, ListsOK
  <2>1. CASE Lists(wallet') = Lists(wallet)
    BY <2>1, ListsKept
  <2>2. ASSUME NEW s \in EvmKeys, ~ IsBurnSigner(s),
               Len(signers) < MaxBurnSigners,
               wallet' = [wallet EXCEPT !.burn_signers = Append(@, s)]
        PROVE  ListsOK' /\ \A t \in Tokens : IsCustody(t) => IsCustody(t)'
    <3> DEFINE more == Append(signers, s)
    <3>1. wallet' = [wallet EXCEPT !.burn_signers = more]
      BY <2>2
    <3>2. more = Append(signers, s) /\ s \notin Range(signers)
      BY <2>2 DEF IsBurnSigner
    <3> HIDE DEF more, signers
    <3>3. \A i, j \in DOMAIN signers : signers[i] = signers[j] => i = j
      BY <2>0 DEF NoDuplicates
    <3>4. more \in Seq(EvmKeys)
      BY <2>0, <3>2
    <3>5. Len(more) = Len(signers) + 1
      BY <2>0, <3>2
    <3>6. \A i, j \in DOMAIN more : more[i] = more[j] => i = j
      BY <2>0, <3>2, <3>3, AppendNew
    <3>7. Len(more) <= MaxBurnSigners /\ NoDuplicates(more)
      BY <2>0, <2>2, <3>5, <3>6 DEF NoDuplicates
    <3> QED
      BY <3>1, <3>4, <3>7, SignerListStep
  <2>3. ASSUME NEW s \in EvmKeys, IsBurnSigner(s),
               wallet' = [wallet EXCEPT !.burn_signers = WithoutFirst(@, s)]
        PROVE  ListsOK' /\ \A t \in Tokens : IsCustody(t) => IsCustody(t)'
    <3> DEFINE rest == WithoutFirst(signers, s)
    <3>1. wallet' = [wallet EXCEPT !.burn_signers = rest]
      BY <2>3
    <3>2. s \in Range(signers)
      BY <2>3 DEF IsBurnSigner
    <3> HIDE DEF signers
    <3>3. \A i, j \in DOMAIN signers : signers[i] = signers[j] => i = j
      BY <2>0 DEF NoDuplicates
    <3>4. rest \in Seq(EvmKeys)
      BY <2>0, <3>2, WithoutFirstType
    <3>5. /\ Len(rest) = Len(signers) - 1
          /\ \A i, j \in DOMAIN rest : rest[i] = rest[j] => i = j
      BY <2>0, <3>2, <3>3, WithoutFirstRemoves
    <3> HIDE DEF rest
    <3>6. Len(rest) <= MaxBurnSigners /\ NoDuplicates(rest)
      BY <2>0, <3>5 DEF NoDuplicates
    <3> QED
      BY <3>1, <3>4, <3>6, SignerListStep
  <2>4. ASSUME NEW t \in Tokens, ~ IsTokenSupported(t),
               Len(wallet.supported_tokens) < MaxSupportedTokens,
               wallet' = [wallet EXCEPT
                 !.supported_tokens = Append(@, t),
                 !.custody_token_account_bumps = Append(@, CustodyBump[t])]
        PROVE  ListsOK' /\ \A u \in Tokens : IsCustody(u) => IsCustody(u)'
    BY <2>4, TokenListStep
  <2> QED
    BY <2>1, <2>2, <2>3, <2>4, ListsMove
<1> QED
  BY <1>1, <1>2

\* Only a deposit opens an account: it names the custody account, and is made
\* for a depositor that is not the default key.
LEMMA AccountsOpenWithCustody ==
  ASSUME TypeOK, [Next]_vars, NEW t \in Tokens, NEW k \in Addresses,
         deposit'[t][k].opened
  PROVE  deposit[t][k].opened \/ (IsCustody(t) /\ k # DefaultKey)
<1>0. deposit \in [Tokens -> [Addresses -> GatewayDeposit]]
  BY DEF TypeOK
<1>1. CASE deposit' = deposit
  BY <1>1
<1>2. ASSUME NEW u \in Tokens, NEW sender \in Keys, NEW d \in Addresses,
             NEW amount \in Amounts, DepositInto(u, sender, d, amount),
             d # DefaultKey
      PROVE  deposit[t][k].opened \/ (IsCustody(t) /\ k # DefaultKey)
  <2>1. CASE u = t /\ d = k
    BY <1>2, <2>1 DEF DepositInto
  <2>2. CASE ~ (u = t /\ d = k)
    BY <1>0, <1>2, <2>2 DEF DepositInto
  <2> QED
    BY <2>1, <2>2
<1>3. ASSUME NEW u \in Tokens, NEW d \in Keys, NEW e,
             deposit' = [deposit EXCEPT ![u][d] = e],
             e.opened = deposit[u][d].opened
      PROVE  deposit[t][k].opened
  BY <1>0, <1>3, SendersAreHolders
<1>4. ASSUME NEW u \in Tokens, NEW d \in Keys, NEW amount \in Amounts,
             InitiateWithdrawal(u, d, amount)
      PROVE  deposit[t][k].opened
  <2> DEFINE e == InitiatedWithdrawal(deposit[u][d], amount,
                                      wallet.withdrawal_delay)
  <2>1. deposit' = [deposit EXCEPT ![u][d] = e]
    BY <1>4 DEF InitiateWithdrawal
  <2>2. e.opened = deposit[u][d].opened
    BY <1>0, SendersAreHolders DEF InitiatedWithdrawal, GatewayDeposit
  <2> HIDE DEF e
  <2> QED
    BY <1>3, <2>1, <2>2
<1>5. ASSUME NEW u \in Tokens, NEW d \in Keys, Withdraw(u, d)
      PROVE  deposit[t][k].opened
  <2> DEFINE e == CompletedWithdrawal(deposit[u][d])
  <2>1. deposit' = [deposit EXCEPT ![u][d] = e]
    BY <1>5 DEF Withdraw
  <2>2. e.opened = deposit[u][d].opened
    BY <1>0, SendersAreHolders DEF CompletedWithdrawal, GatewayDeposit
  <2> HIDE DEF e
  <2> QED
    BY <1>3, <2>1, <2>2
<1>6. ASSUME NEW s \in EvmKeys, NEW user \in Users, NEW intent \in Intents,
             NEW fee \in Fees, GatewayBurn(s, user, intent, fee)
      PROVE  deposit[t][k].opened
  <2> DEFINE u == intent.spec.source_token
             d == intent.spec.source_depositor
             e == ReducedBalance(deposit[u][d], Charge(intent.spec, fee))
  <2>1. u \in Tokens /\ d \in Addresses
    BY ConfigAssumption DEF BurnIntent, TransferSpec
  <2>2. deposit' = [deposit EXCEPT ![u][d] = e]
    BY <1>6 DEF GatewayBurn
  <2>3. e.opened = deposit[u][d].opened
    BY <1>0, <2>1 DEF ReducedBalance, GatewayDeposit
  <2> HIDE DEF e, u, d
  <2> QED
    BY <1>0, <2>1, <2>2, <2>3
<1>7. ASSUME NEW x \in Keys, Administer(x) PROVE deposit' = deposit
  BY <1>7
  DEF Administer, Initialize, UpdateWithdrawalDelay, AcceptOwnership,
      Pause, Unpause, TransferOwnership, UpdatePauser, UpdateDenylister,
      UpdateTokenController, UpdateFeeRecipient, AddBurnSigner,
      RemoveBurnSigner, AddToken, DenylistAccount, UndenylistAccount,
      SetWallet, SetDenylisted
<1>8. ASSUME NEW u \in Tokens, NEW x \in Keys, UseAccount(u, x)
      PROVE  deposit[t][k].opened \/ (IsCustody(t) /\ k # DefaultKey)
  <2>1. ASSUME NEW amount \in Amounts, Deposit(u, x, amount)
        PROVE  deposit[t][k].opened \/ (IsCustody(t) /\ k # DefaultKey)
    BY <1>2, <2>1, SendersAreHolders, KeysAssumption DEF Deposit
  <2>2. ASSUME NEW amount \in Amounts, NEW d \in Addresses,
               DepositFor(u, x, d, amount)
        PROVE  deposit[t][k].opened \/ (IsCustody(t) /\ k # DefaultKey)
    BY <1>2, <2>2 DEF DepositFor
  <2>3. ASSUME NEW amount \in Donations, Donate(u, x, amount)
        PROVE  deposit' = deposit
    BY <2>3 DEF Donate
  <2>4. ASSUME NEW a \in DelegateCandidates,
               AddDelegate(u, x, a) \/ RemoveDelegate(u, x, a)
        PROVE  deposit' = deposit
    BY <2>4 DEF AddDelegate, RemoveDelegate, SetDelegate
  <2> QED
    BY <1>1, <1>4, <1>5, <1>8, <2>1, <2>2, <2>3, <2>4 DEF UseAccount
<1>9. CASE Tick \/ UNCHANGED vars
  BY <1>1, <1>9 DEF Tick, vars
<1> QED
  BY <1>1, <1>6, <1>7, <1>8, <1>9 DEF Next, SubmitBurn

\* Every instruction outside the administration reads the wallet only.
LEMMA OnlyAdministration ==
  ASSUME [Next]_vars
  PROVE  wallet' = wallet \/ \E k \in Keys : Administer(k)
<1>1. ASSUME NEW t \in Tokens, NEW k \in Keys, UseAccount(t, k)
      PROVE  wallet' = wallet
  BY <1>1
  DEF UseAccount, Deposit, DepositFor, DepositInto, InitiateWithdrawal,
      Withdraw, Donate, AddDelegate, RemoveDelegate, SetDelegate
<1>2. CASE SubmitBurn \/ Tick \/ UNCHANGED vars
  BY <1>2 DEF SubmitBurn, GatewayBurn, Tick, vars
<1> QED
  BY <1>1, <1>2 DEF Next

LEMMA ListsStep == TypeOK /\ ListsInv /\ [Next]_vars => ListsInv'
<1> SUFFICES ASSUME TypeOK, ListsInv, [Next]_vars PROVE ListsInv'
  OBVIOUS
<1>1. ASSUME NEW k \in Keys, Administer(k) PROVE ListsInv'
  BY <1>1, ListsAdminister
<1>2. CASE wallet' = wallet
  <2>1. ListsOK' /\ \A t \in Tokens : IsCustody(t) => IsCustody(t)'
    BY <1>2, ListsKept DEF Lists, ListsInv
  <2>2. \A t \in Tokens, k \in Addresses :
          deposit'[t][k].opened => IsCustody(t)'
    BY <2>1, AccountsOpenWithCustody DEF ListsInv
  <2> QED
    BY <2>1, <2>2 DEF ListsInv
<1> QED
  BY <1>1, <1>2, OnlyAdministration

\* For any number of tokens and burn signers, and any limits: the lists stay
\* within their limits and without duplicates, and the position of a token
\* leads to its own custody account, whatever the order of the instructions.
THEOREM ListsAreWellFormed == Spec => []ListsWellFormed
<1>1. Init => ListsInv
  <2> SUFFICES ASSUME Init PROVE ListsInv
    OBVIOUS
  <2>1. /\ wallet.supported_tokens = <<>>
        /\ wallet.custody_token_account_bumps = <<>>
        /\ wallet.burn_signers = <<>>
        /\ \A t \in Tokens, k \in Addresses : ~ deposit[t][k].opened
    BY DEF Init, NoWallet, NoDeposit
  <2> QED
    BY <2>1, ConfigAssumption
    DEF ListsInv, ListsOK, Aligned, NoDuplicates, IsTokenSupported, Range
<1>2. TypeOK /\ ListsInv /\ [Next]_vars => ListsInv'
  BY ListsStep
<1>3. ListsInv => ListsWellFormed
  BY DEF ListsInv, ListsOK, ListsWellFormed
<1> QED
  BY <1>1, <1>2, <1>3, TypeCorrect, PTL DEF Spec

-----------------------------------------------------------------------------
(* The roles and the delegates. *)

\* An owner takes office by signing, the other roles are checked when they are
\* given.
LEMMA RolesStep ==
  ASSUME TypeOK, ListsWellFormed, DefaultKeyIsPowerless,
         NEW signer \in Keys, Administer(signer)
  PROVE  DefaultKeyIsPowerless'
<1> DEFINE Held(w) ==
      w.initialized =>
        /\ w.withdrawal_delay > 0
        /\ DefaultKey \notin {w.owner, w.pauser, w.denylister,
                              w.token_controller, w.fee_recipient}
<1>0. wallet \in Wallet /\ signer # DefaultKey /\ Held(wallet)
  BY KeysAssumption DEF TypeOK, DefaultKeyIsPowerless
<1>1. UNCHANGED <<deposit, delegate>>
  BY DEF Administer, Initialize, UpdateWithdrawalDelay, AcceptOwnership,
         Pause, Unpause, TransferOwnership, UpdatePauser, UpdateDenylister,
         UpdateTokenController, UpdateFeeRecipient, AddBurnSigner,
         RemoveBurnSigner, AddToken, DenylistAccount, UndenylistAccount,
         SetWallet, SetDenylisted
<1>2. Held(wallet')
  <2>1. ASSUME NEW delay \in Delays,
               Initialize(signer, delay) \/ UpdateWithdrawalDelay(signer, delay)
        PROVE  Held(wallet')
    <3>1. CASE Initialize(signer, delay)
      <4>1. delay > 0 /\ wallet' = [wallet EXCEPT
              !.initialized = TRUE, !.owner = signer, !.pauser = signer,
              !.denylister = signer, !.token_controller = signer,
              !.fee_recipient = signer, !.withdrawal_delay = delay]
        BY <3>1 DEF Initialize, SetWallet
      <4> QED
        BY <1>0, <4>1 DEF Wallet
    <3>2. CASE UpdateWithdrawalDelay(signer, delay)
      <4>1. delay > 0 /\ wallet' = [wallet EXCEPT !.withdrawal_delay = delay]
        BY <3>2 DEF UpdateWithdrawalDelay, SetWallet
      <4> QED
        BY <1>0, <4>1 DEF Wallet
    <3> QED
      BY <2>1, <3>1, <3>2
  <2>2. CASE AcceptOwnership(signer) \/ Pause(signer) \/ Unpause(signer)
    BY <1>0, <2>2 DEF AcceptOwnership, Pause, Unpause, SetWallet, Wallet
  <2>3. ASSUME NEW k \in Nominees,
               \/ TransferOwnership(signer, k)
               \/ UpdatePauser(signer, k)
               \/ UpdateDenylister(signer, k)
               \/ UpdateTokenController(signer, k)
               \/ UpdateFeeRecipient(signer, k)
        PROVE  Held(wallet')
    BY <1>0, <2>3
    DEF TransferOwnership, UpdatePauser, UpdateDenylister,
        UpdateTokenController, UpdateFeeRecipient, SetWallet, Wallet
  <2>4. ASSUME NEW s \in EvmKeys \cup {DefaultKey},
               AddBurnSigner(signer, s) \/ RemoveBurnSigner(signer, s)
        PROVE  Held(wallet')
    BY <1>0, <2>4 DEF AddBurnSigner, RemoveBurnSigner, SetWallet, Wallet
  <2>5. ASSUME NEW t \in Tokens, AddToken(signer, t) PROVE Held(wallet')
    BY <1>0, <2>5 DEF AddToken, SetWallet, Wallet
  <2>6. ASSUME NEW k \in DenylistCandidates,
               DenylistAccount(signer, k) \/ UndenylistAccount(signer, k)
        PROVE  Held(wallet')
    BY <1>0, <2>6 DEF DenylistAccount, UndenylistAccount, SetDenylisted
  <2> HIDE DEF Held
  <2> QED
    BY <2>1, <2>2, <2>3, <2>4, <2>5, <2>6 DEF Administer
<1>3. ~ IsBurnSigner(DefaultKey)'
  <2> DEFINE signers == wallet.burn_signers
  <2>1. /\ signers \in Seq(EvmKeys) /\ DefaultKey \notin Range(signers)
        /\ \A i, j \in DOMAIN signers : signers[i] = signers[j] => i = j
    BY <1>0
    DEF Wallet, DefaultKeyIsPowerless, IsBurnSigner, ListsWellFormed,
        NoDuplicates
  <2>2. CASE wallet'.burn_signers = signers
    BY <2>1, <2>2 DEF IsBurnSigner
  <2>3. ASSUME NEW s \in EvmKeys \ {DefaultKey},
               wallet' = [wallet EXCEPT !.burn_signers = Append(@, s)]
        PROVE  ~ IsBurnSigner(DefaultKey)'
    <3> DEFINE more == Append(signers, s)
    <3>1. wallet'.burn_signers = more
      BY <1>0, <2>3 DEF Wallet
    <3>2. more = Append(signers, s)
      OBVIOUS
    <3> HIDE DEF more, signers
    <3>3. \A i \in DOMAIN more : more[i] # DefaultKey
      BY <2>1, <2>3, <3>2 DEF Range
    <3> QED
      BY <3>1, <3>3 DEF IsBurnSigner, Range
  <2>4. ASSUME NEW s \in EvmKeys, IsBurnSigner(s),
               wallet' = [wallet EXCEPT !.burn_signers = WithoutFirst(@, s)]
        PROVE  ~ IsBurnSigner(DefaultKey)'
    <3> DEFINE rest == WithoutFirst(signers, s)
    <3>1. wallet'.burn_signers = rest /\ s \in Range(signers)
      BY <1>0, <2>4 DEF Wallet, IsBurnSigner
    <3> HIDE DEF signers
    <3>2. Range(rest) = Range(signers) \ {s}
      BY <2>1, <3>1, WithoutFirstRemoves
    <3> HIDE DEF rest
    <3> QED
      BY <2>1, <3>1, <3>2 DEF IsBurnSigner
  <2>5. ASSUME NEW t \in Tokens,
               wallet' = [wallet EXCEPT
                 !.supported_tokens = Append(@, t),
                 !.custody_token_account_bumps = Append(@, CustodyBump[t])]
        PROVE  wallet'.burn_signers = signers
    BY <1>0, <2>5 DEF Wallet
  <2> QED
    BY <2>2, <2>3, <2>4, <2>5, ListsMove DEF Lists
<1> QED
  BY <1>1, <1>2, <1>3 DEF DefaultKeyIsPowerless

\* What the instructions do to the delegates: an account is created or changed
\* for a key that is not the default one, and never goes back.
LEMMA DelegatesMove ==
  ASSUME TypeOK, [Next]_vars
  PROVE  \/ delegate' = delegate
         \/ \E t \in Tokens, d \in Keys, k \in Addresses :
              /\ k # DefaultKey /\ ~ wallet.paused
              /\ \/ delegate' = [delegate EXCEPT ![t][d][k] = "Authorized"]
                 \/ /\ delegate[t][d][k] # "NoAccount"
                    /\ delegate' = [delegate EXCEPT ![t][d][k] =
                                      RemovedStatus(delegate[t][d][k])]
<1>1. ASSUME NEW k \in Keys, Administer(k) PROVE delegate' = delegate
  BY <1>1
  DEF Administer, Initialize, UpdateWithdrawalDelay, AcceptOwnership,
      Pause, Unpause, TransferOwnership, UpdatePauser, UpdateDenylister,
      UpdateTokenController, UpdateFeeRecipient, AddBurnSigner,
      RemoveBurnSigner, AddToken, DenylistAccount, UndenylistAccount,
      SetWallet, SetDenylisted
<1>2. ASSUME NEW t \in Tokens, NEW d \in Keys, UseAccount(t, d),
             delegate' # delegate
      PROVE  \E k \in DelegateCandidates :
               AddDelegate(t, d, k) \/ RemoveDelegate(t, d, k)
  BY <1>2
  DEF UseAccount, Deposit, DepositFor, DepositInto, InitiateWithdrawal,
      Withdraw, Donate
<1>3. ASSUME NEW t \in Tokens, NEW d \in Keys, NEW k \in DelegateCandidates,
             AddDelegate(t, d, k) \/ RemoveDelegate(t, d, k)
      PROVE  /\ k \in Addresses /\ k # DefaultKey /\ ~ wallet.paused
             /\ \/ delegate' = [delegate EXCEPT ![t][d][k] = "Authorized"]
                \/ /\ delegate[t][d][k] # "NoAccount"
                   /\ delegate' = [delegate EXCEPT ![t][d][k] =
                                     RemovedStatus(delegate[t][d][k])]
  BY <1>3, InputsAssumption
  DEF AddDelegate, RemoveDelegate, SetDelegate, Running
<1>4. CASE SubmitBurn \/ Tick \/ UNCHANGED vars
  BY <1>4 DEF SubmitBurn, GatewayBurn, Tick, vars
<1> QED
  BY <1>1, <1>2, <1>3, <1>4 DEF Next

LEMMA PowerlessStep ==
  TypeOK /\ ListsWellFormed /\ DefaultKeyIsPowerless /\ [Next]_vars
    => DefaultKeyIsPowerless'
<1> SUFFICES ASSUME TypeOK, ListsWellFormed, DefaultKeyIsPowerless, [Next]_vars
             PROVE  DefaultKeyIsPowerless'
  OBVIOUS
<1>1. ASSUME NEW k \in Keys, Administer(k) PROVE DefaultKeyIsPowerless'
  BY <1>1, RolesStep
<1>2. CASE wallet' = wallet
  <2>0. DefaultKey \in Addresses /\ DefaultKey \notin Keys
    BY KeysAssumption DEF Addresses
  <2>1. ASSUME NEW t \in Tokens PROVE ~ deposit'[t][DefaultKey].opened
    <3>1. deposit[t][DefaultKey].opened = FALSE
      BY DEF DefaultKeyIsPowerless
    <3> QED
      BY <2>0, <3>1, AccountsOpenWithCustody
  <2>2. ASSUME NEW t \in Tokens, NEW k \in Addresses
        PROVE  delegate'[t][k][DefaultKey] = "NoAccount"
    <3>1. delegate[t][k][DefaultKey] = "NoAccount"
      BY DEF DefaultKeyIsPowerless
    <3>2. delegate \in [Tokens -> [Addresses -> [Addresses -> DelegateStatus]]]
      BY DEF TypeOK
    <3>3. ASSUME NEW u \in Tokens, NEW d \in Keys, NEW x \in Addresses,
                 x # DefaultKey, NEW status,
                 delegate' = [delegate EXCEPT ![u][d][x] = status]
          PROVE  delegate'[t][k][DefaultKey] = delegate[t][k][DefaultKey]
      BY <2>0, <3>2, <3>3, SendersAreHolders
    <3> QED
      BY <3>1, <3>3, DelegatesMove
  <2> QED
    BY <1>2, <2>1, <2>2 DEF DefaultKeyIsPowerless, IsBurnSigner
<1> QED
  BY <1>1, <1>2, OnlyAdministration

\* Nobody can give the default key a role, a claim, a delegation or a burn
\* signer's power, for any keys, tokens and limits: an initialized wallet can
\* always be paused, configured and handed over.
THEOREM DefaultKeyStaysPowerless == Spec => []DefaultKeyIsPowerless
<1>1. Init => DefaultKeyIsPowerless
  <2> SUFFICES ASSUME Init PROVE DefaultKeyIsPowerless
    OBVIOUS
  <2>1. DefaultKey \in Addresses
    BY DEF Addresses
  <2>2. ~ wallet.initialized /\ wallet.burn_signers = <<>>
    BY DEF Init, NoWallet
  <2>3. \A t \in Tokens :
          /\ ~ deposit[t][DefaultKey].opened
          /\ \A k \in Addresses : delegate[t][k][DefaultKey] = "NoAccount"
    BY <2>1 DEF Init, NoDeposit
  <2> QED
    BY <2>2, <2>3 DEF DefaultKeyIsPowerless, IsBurnSigner, Range
<1>2. TypeOK /\ ListsWellFormed /\ DefaultKeyIsPowerless /\ [Next]_vars
        => DefaultKeyIsPowerless'
  BY PowerlessStep
<1> QED
  BY <1>1, <1>2, TypeCorrect, ListsAreWellFormed, PTL DEF Spec

LEMMA AuthorizationStep ==
  ASSUME TypeOK, [Next]_vars, NEW t \in Tokens, NEW d \in Addresses,
         NEW k \in Addresses, ValidSignerAuthorization(t, d, k)
  PROVE  ValidSignerAuthorization(t, d, k)'
<1>0. delegate \in [Tokens -> [Addresses -> [Addresses -> DelegateStatus]]]
  BY DEF TypeOK
<1>1. CASE k = d
  BY <1>1 DEF ValidSignerAuthorization
<1>2. CASE delegate' = delegate
  BY <1>2
  DEF ValidSignerAuthorization, WasEverAuthorizedForBalance
<1>3. CASE /\ k # d
           /\ delegate[t][d][k] \in {"Authorized", "Revoked"}
  <2>1. ASSUME NEW u \in Tokens, NEW e \in Keys, NEW x \in Addresses,
               \/ delegate' = [delegate EXCEPT ![u][e][x] = "Authorized"]
               \/ delegate' = [delegate EXCEPT ![u][e][x] =
                                 RemovedStatus(delegate[u][e][x])]
        PROVE  delegate'[t][d][k] \in {"Authorized", "Revoked"}
    <3>1. CASE u = t /\ e = d /\ x = k
      <4>1. RemovedStatus(delegate[t][d][k]) \in {"Authorized", "Revoked"}
        BY <1>3 DEF RemovedStatus
      <4> QED
        BY <1>0, <2>1, <3>1, <4>1
    <3>2. CASE ~ (u = t /\ e = d /\ x = k)
      <4>1. ASSUME NEW status,
                   delegate' = [delegate EXCEPT ![u][e][x] = status]
            PROVE  delegate'[t][d][k] = delegate[t][d][k]
        BY <1>0, <3>2, <4>1, SendersAreHolders
      <4> QED
        BY <1>3, <2>1, <4>1
    <3> QED
      BY <3>1, <3>2
  <2>2. delegate'[t][d][k] \in {"Authorized", "Revoked"}
    BY <1>2, <1>3, <2>1, DelegatesMove
  <2> QED
    BY <2>2 DEF ValidSignerAuthorization, WasEverAuthorizedForBalance
<1>4. delegate[t][d][k] \in DelegateStatus
  BY <1>0
<1> QED
  BY <1>1, <1>3, <1>4
  DEF ValidSignerAuthorization, WasEverAuthorizedForBalance, DelegateStatus

\* Once an address may sign burns for a depositor it may for good, whatever the
\* depositor, the denylister and the owner do: what it has signed stays valid.
THEOREM AuthorizationsAreForGood == Spec => EverAuthorizedForGood
<1>1. TypeOK /\ [Next]_vars =>
        \A t \in Tokens, d \in Addresses, k \in Addresses :
          ValidSignerAuthorization(t, d, k) =>
            ValidSignerAuthorization(t, d, k)'
  BY AuthorizationStep
<1> QED
  BY <1>1, TypeCorrect, PTL DEF Spec, EverAuthorizedForGood

-----------------------------------------------------------------------------
(* The pause and the removal of a burn signer. *)

\* While the program is paused only the configuration and the environment move.
THEOREM PauseHolds == Spec => PauseFreezes
<1>1. ASSUME wallet.paused, [Next]_vars
      PROVE  UNCHANGED <<deposit, used, burned, delegate, grants>>
  <2>1. ASSUME NEW k \in Keys, Administer(k)
        PROVE  UNCHANGED <<deposit, used, burned, delegate, grants>>
    BY <2>1
    DEF Administer, Initialize, UpdateWithdrawalDelay, AcceptOwnership,
        Pause, Unpause, TransferOwnership, UpdatePauser, UpdateDenylister,
        UpdateTokenController, UpdateFeeRecipient, AddBurnSigner,
        RemoveBurnSigner, AddToken, DenylistAccount, UndenylistAccount,
        SetWallet, SetDenylisted
  <2>2. ASSUME NEW t \in Tokens, NEW k \in Keys, UseAccount(t, k)
        PROVE  UNCHANGED <<deposit, used, burned, delegate, grants>>
    BY <1>1, <2>2
    DEF UseAccount, Deposit, DepositFor, DepositInto, InitiateWithdrawal,
        Withdraw, Donate, AddDelegate, RemoveDelegate, Running
  <2>3. ~ SubmitBurn
    BY <1>1 DEF SubmitBurn, GatewayBurn, CanBurn, Running
  <2>4. CASE Tick \/ UNCHANGED vars
    BY <2>4 DEF Tick, vars
  <2> QED
    BY <1>1, <2>1, <2>2, <2>3, <2>4 DEF Next
<1>2. [Next]_vars =>
        (wallet.paused => UNCHANGED <<deposit, used, burned, delegate, grants>>)
  BY <1>1
<1> QED
  BY <1>2, PTL DEF Spec, PauseFreezes

\* No history of additions leaves a burn signer on the list after its removal.
THEOREM RemovalIsComplete == Spec => RemovedSignerCannotBurn
<1>1. ASSUME TypeOK, ListsWellFormed, NEW k \in Keys, NEW s \in EvmKeys,
             RemoveBurnSigner(k, s)
      PROVE  s \notin Range(wallet'.burn_signers)
  <2> DEFINE signers == wallet.burn_signers
             rest == WithoutFirst(signers, s)
  <2>0. /\ wallet \in Wallet /\ signers \in Seq(EvmKeys)
        /\ \A i, j \in DOMAIN signers : signers[i] = signers[j] => i = j
    BY <1>1 DEF TypeOK, Wallet, ListsWellFormed, NoDuplicates
  <2>1. CASE ~ IsBurnSigner(s)
    BY <1>1, <2>1 DEF RemoveBurnSigner, SetWallet, IsBurnSigner
  <2>2. CASE IsBurnSigner(s)
    <3>1. wallet'.burn_signers = rest /\ s \in Range(signers)
      BY <1>1, <2>0, <2>2 DEF RemoveBurnSigner, SetWallet, Wallet, IsBurnSigner
    <3> HIDE DEF signers
    <3>2. Range(rest) = Range(signers) \ {s}
      BY <2>0, <3>1, WithoutFirstRemoves
    <3> HIDE DEF rest
    <3> QED
      BY <3>1, <3>2
  <2> QED
    BY <2>1, <2>2
<1>2. TypeOK /\ ListsWellFormed =>
        \A k \in Keys, s \in EvmKeys :
          RemoveBurnSigner(k, s) => s \notin Range(wallet'.burn_signers)
  BY <1>1
<1> QED
  BY <1>2, TypeCorrect, ListsAreWellFormed, PTL
  DEF RemovedSignerCannotBurn

-----------------------------------------------------------------------------
(* What depositors consent to. *)

\* A withdrawal in progress is blocked for the delay that was in force when it
\* was last initiated, and whoever has a delegate account was added to it.
ConsentInv ==
  /\ \A t \in Tokens, k \in Addresses :
       deposit[t][k].withdrawing_amount > 0 =>
         /\ requested[t][k].delay > 0
         /\ deposit[t][k].withdrawal_block
              = requested[t][k].slot + requested[t][k].delay
  /\ \A t \in Tokens, d \in Addresses, k \in Addresses :
       delegate[t][d][k] # "NoAccount" => <<t, d, k>> \in grants

\* What an instruction does to the deposits, one line for each kind.
LEMMA DepositsMove ==
  ASSUME [Next]_vars
  PROVE  \/ UNCHANGED <<deposit, requested>>
         \/ \E t \in Tokens, sender \in Keys, k \in Addresses,
               amount \in Amounts : DepositInto(t, sender, k, amount)
         \/ \E t \in Tokens, k \in Keys, amount \in Amounts :
              InitiateWithdrawal(t, k, amount)
         \/ \E t \in Tokens, k \in Keys : Withdraw(t, k)
         \/ \E s \in EvmKeys, k \in Users, intent \in Intents, fee \in Fees :
              GatewayBurn(s, k, intent, fee)
<1>1. ASSUME NEW k \in Keys, Administer(k)
      PROVE  UNCHANGED <<deposit, requested>>
  BY <1>1
  DEF Administer, Initialize, UpdateWithdrawalDelay, AcceptOwnership,
      Pause, Unpause, TransferOwnership, UpdatePauser, UpdateDenylister,
      UpdateTokenController, UpdateFeeRecipient, AddBurnSigner,
      RemoveBurnSigner, AddToken, DenylistAccount, UndenylistAccount,
      SetWallet, SetDenylisted
<1>2. ASSUME NEW t \in Tokens, NEW k \in Keys, UseAccount(t, k)
      PROVE  \/ UNCHANGED <<deposit, requested>>
             \/ \E d \in Addresses, amount \in Amounts :
                  DepositInto(t, k, d, amount)
             \/ \E amount \in Amounts : InitiateWithdrawal(t, k, amount)
             \/ Withdraw(t, k)
  <2>1. ASSUME NEW a \in DelegateCandidates,
               AddDelegate(t, k, a) \/ RemoveDelegate(t, k, a)
        PROVE  UNCHANGED <<deposit, requested>>
    BY <2>1 DEF AddDelegate, RemoveDelegate, SetDelegate
  <2>2. ASSUME NEW amount \in Donations, Donate(t, k, amount)
        PROVE  UNCHANGED <<deposit, requested>>
    BY <2>2 DEF Donate
  <2> QED
    BY <1>2, <2>1, <2>2, SendersAreHolders DEF UseAccount, Deposit, DepositFor
<1>3. CASE Tick \/ UNCHANGED vars
  BY <1>3 DEF Tick, vars
<1> QED
  BY <1>1, <1>2, <1>3 DEF Next, SubmitBurn

\* Every withdrawal in progress keeps its terms, in each of these cases.
LEMMA BlocksStep ==
  ASSUME TypeOK, DefaultKeyIsPowerless, ConsentInv, [Next]_vars,
         NEW t \in Tokens, NEW k \in Addresses,
         deposit'[t][k].withdrawing_amount > 0
  PROVE  /\ requested'[t][k].delay > 0
         /\ deposit'[t][k].withdrawal_block
              = requested'[t][k].slot + requested'[t][k].delay
<1> DEFINE Kept == /\ deposit[t][k].withdrawing_amount > 0
                   /\ deposit'[t][k].withdrawal_block
                        = deposit[t][k].withdrawal_block
                   /\ requested'[t][k] = requested[t][k]
<1>0. /\ deposit \in [Tokens -> [Addresses -> GatewayDeposit]]
      /\ requested \in [Tokens -> [Addresses -> [slot : U64, delay : U64]]]
      /\ slot \in Nat /\ U64Max \in Nat /\ wallet.withdrawal_delay \in Nat
  <2>1. \A n \in U64 : n \in Nat
    BY ConfigAssumption DEF U64
  <2>2. wallet.withdrawal_delay \in U64
    BY DEF TypeOK, Wallet
  <2>3. slot \in Nat
    <3>1. MaxSlot \in Nat
      BY <2>1, InputsAssumption
    <3> QED
      BY <3>1 DEF TypeOK
  <2> QED
    BY <2>1, <2>2, <2>3, ConfigAssumption DEF TypeOK
<1>1. ASSUME Kept
      PROVE  /\ requested'[t][k].delay > 0
             /\ deposit'[t][k].withdrawal_block
                  = requested'[t][k].slot + requested'[t][k].delay
  BY <1>1 DEF ConsentInv
<1>2. CASE UNCHANGED <<deposit, requested>>
  BY <1>1, <1>2
<1>3. ASSUME NEW u \in Tokens, NEW d \in Addresses, NEW e,
             deposit' = [deposit EXCEPT ![u][d] = e],
             u # t \/ d # k
      PROVE  deposit'[t][k] = deposit[t][k]
  BY <1>0, <1>3
<1>4. ASSUME NEW u \in Tokens, NEW sender \in Keys, NEW d \in Addresses,
             NEW amount \in Amounts, DepositInto(u, sender, d, amount)
      PROVE  Kept
  <2> DEFINE e == Deposited(deposit[u][d], amount)
  <2>1. deposit' = [deposit EXCEPT ![u][d] = e] /\ requested' = requested
    BY <1>4 DEF DepositInto
  <2>2. /\ e.withdrawing_amount = deposit[u][d].withdrawing_amount
        /\ e.withdrawal_block = deposit[u][d].withdrawal_block
    BY <1>0 DEF Deposited, GatewayDeposit
  <2> HIDE DEF e
  <2>3. CASE u = t /\ d = k
    <3>1. deposit'[t][k] = e
      BY <1>0, <2>1, <2>3
    <3> QED
      BY <2>1, <2>2, <2>3, <3>1
  <2> QED
    BY <1>3, <2>1, <2>3
<1>5. ASSUME NEW u \in Tokens, NEW d \in Keys, NEW amount \in Amounts,
             InitiateWithdrawal(u, d, amount)
      PROVE  /\ requested'[t][k].delay > 0
             /\ deposit'[t][k].withdrawal_block
                  = requested'[t][k].slot + requested'[t][k].delay
  <2> DEFINE e == InitiatedWithdrawal(deposit[u][d], amount,
                                      wallet.withdrawal_delay)
             r == [slot |-> slot, delay |-> wallet.withdrawal_delay]
  <2>1. /\ deposit' = [deposit EXCEPT ![u][d] = e]
        /\ requested' = [requested EXCEPT ![u][d] = r]
        /\ wallet.initialized
    BY <1>5 DEF InitiateWithdrawal, Running
  <2>2. e.withdrawal_block = r.slot + r.delay
    BY <1>0, SendersAreHolders DEF InitiatedWithdrawal, GatewayDeposit
  <2>3. r.delay > 0
    BY <2>1 DEF DefaultKeyIsPowerless
  <2> HIDE DEF e, r
  <2>4. d \in Addresses
    BY SendersAreHolders
  <2>5. CASE u = t /\ d = k
    <3>1. deposit'[t][k] = e /\ requested'[t][k] = r
      BY <1>0, <2>1, <2>4, <2>5
    <3> QED
      BY <2>2, <2>3, <3>1
  <2>6. CASE u # t \/ d # k
    <3>1. requested'[t][k] = requested[t][k]
      BY <1>0, <2>1, <2>4, <2>6
    <3>2. deposit'[t][k] = deposit[t][k]
      BY <1>3, <2>1, <2>4, <2>6
    <3> QED
      BY <1>1, <3>1, <3>2
  <2> QED
    BY <2>5, <2>6
<1>6. ASSUME NEW u \in Tokens, NEW d \in Keys, Withdraw(u, d)
      PROVE  Kept
  <2> DEFINE e == CompletedWithdrawal(deposit[u][d])
  <2>1. /\ deposit' = [deposit EXCEPT ![u][d] = e]
        /\ requested' = [requested EXCEPT ![u][d] = NoRequest]
        /\ d \in Addresses
    BY <1>6, SendersAreHolders DEF Withdraw
  <2>2. e.withdrawing_amount = 0
    BY <1>0, <2>1 DEF CompletedWithdrawal, GatewayDeposit
  <2> HIDE DEF e
  <2>3. ~ (u = t /\ d = k)
    BY <1>0, <2>1, <2>2
  <2>4. requested'[t][k] = requested[t][k]
    BY <1>0, <2>1, <2>3
  <2> QED
    BY <1>3, <2>1, <2>3, <2>4
<1>7. ASSUME NEW s \in EvmKeys, NEW user \in Users, NEW intent \in Intents,
             NEW fee \in Fees, GatewayBurn(s, user, intent, fee)
      PROVE  Kept
  <2> DEFINE u == intent.spec.source_token
             d == intent.spec.source_depositor
             c == Charge(intent.spec, fee)
             e == ReducedBalance(deposit[u][d], c)
  <2>1. /\ u \in Tokens /\ d \in Addresses /\ c \in Nat
        /\ deposit' = [deposit EXCEPT ![u][d] = e] /\ requested' = requested
    <3>1. \A n \in U64 : n \in Nat
      BY ConfigAssumption DEF U64
    <3>2. /\ intent.spec.source_token \in Tokens
          /\ intent.spec.source_depositor \in Addresses
          /\ intent.spec.value \in Nat /\ fee \in Nat
      BY <3>1, ConfigAssumption, InputsAssumption DEF BurnIntent, TransferSpec
    <3>3. c \in Nat
      BY <3>2 DEF Charge
    <3> QED
      BY <1>7, <3>2, <3>3 DEF GatewayBurn
  <2>2. e.withdrawal_block = deposit[u][d].withdrawal_block
    BY <1>0, <2>1 DEF ReducedBalance, GatewayDeposit
  <2>3. e.withdrawing_amount > 0 => deposit[u][d].withdrawing_amount > 0
    <3>0. deposit[u][d] \in GatewayDeposit
      BY <1>0, <2>1
    <3>1. /\ FromWithdrawing(deposit[u][d], c) \in Nat
          /\ e.withdrawing_amount = deposit[u][d].withdrawing_amount
                                      - FromWithdrawing(deposit[u][d], c)
          /\ deposit[u][d].withdrawing_amount \in Nat
      <4> HIDE DEF u, d, c
      <4> QED
        BY <2>1, <3>0, DeductionFacts, ConfigAssumption DEF GatewayDeposit, U64
    <3> HIDE DEF e, u, d, c
    <3> QED
      BY <3>1
  <2> HIDE DEF e, u, d, c
  <2>4. CASE u = t /\ d = k
    <3>1. deposit'[t][k] = e
      BY <1>0, <2>1, <2>4
    <3> QED
      BY <2>1, <2>2, <2>3, <2>4, <3>1
  <2> QED
    BY <1>3, <2>1, <2>4
<1> HIDE DEF Kept
<1> QED
  BY <1>1, <1>2, <1>4, <1>5, <1>6, <1>7, DepositsMove

\* Delegate accounts are created by AddDelegate only, which records the grant.
LEMMA GrantsStep ==
  ASSUME TypeOK, ConsentInv, [Next]_vars,
         NEW t \in Tokens, NEW d \in Addresses, NEW k \in Addresses,
         delegate'[t][d][k] # "NoAccount"
  PROVE  <<t, d, k>> \in grants'
<1>0. delegate \in [Tokens -> [Addresses -> [Addresses -> DelegateStatus]]]
  BY DEF TypeOK
<1>1. ASSUME delegate' = delegate, grants' = grants
      PROVE  <<t, d, k>> \in grants'
  BY <1>1 DEF ConsentInv
<1>2. ASSUME NEW u \in Tokens, NEW e \in Keys, NEW a \in DelegateCandidates,
             AddDelegate(u, e, a)
      PROVE  <<t, d, k>> \in grants'
  <2>1. /\ delegate' = [delegate EXCEPT ![u][e][a] = "Authorized"]
        /\ grants' = grants \cup {<<u, e, a>>}
    BY <1>2 DEF AddDelegate, SetDelegate
  <2>2. CASE u = t /\ e = d /\ a = k
    BY <2>1, <2>2
  <2>3. CASE ~ (u = t /\ e = d /\ a = k)
    <3>1. delegate'[t][d][k] = delegate[t][d][k]
      BY <1>0, <2>1, <2>3, SendersAreHolders, InputsAssumption
    <3> QED
      BY <2>1, <3>1 DEF ConsentInv
  <2> QED
    BY <2>2, <2>3
<1>3. ASSUME NEW u \in Tokens, NEW e \in Keys, NEW a \in DelegateCandidates,
             RemoveDelegate(u, e, a)
      PROVE  <<t, d, k>> \in grants'
  <2> DEFINE status == RemovedStatus(delegate[u][e][a])
  <2>1. /\ delegate' = [delegate EXCEPT ![u][e][a] = status]
        /\ grants' = grants
        /\ delegate[u][e][a] # "NoAccount"
    BY <1>3 DEF RemoveDelegate, SetDelegate
  <2> HIDE DEF status
  <2>2. CASE u = t /\ e = d /\ a = k
    BY <2>1, <2>2 DEF ConsentInv
  <2>3. CASE ~ (u = t /\ e = d /\ a = k)
    <3>1. delegate'[t][d][k] = delegate[t][d][k]
      BY <1>0, <2>1, <2>3, SendersAreHolders, InputsAssumption
    <3> QED
      BY <2>1, <3>1 DEF ConsentInv
  <2> QED
    BY <2>2, <2>3
<1>4. ASSUME NEW x \in Keys, Administer(x)
      PROVE  delegate' = delegate /\ grants' = grants
  BY <1>4
  DEF Administer, Initialize, UpdateWithdrawalDelay, AcceptOwnership,
      Pause, Unpause, TransferOwnership, UpdatePauser, UpdateDenylister,
      UpdateTokenController, UpdateFeeRecipient, AddBurnSigner,
      RemoveBurnSigner, AddToken, DenylistAccount, UndenylistAccount,
      SetWallet, SetDenylisted
<1>5. ASSUME NEW u \in Tokens, NEW e \in Keys, UseAccount(u, e)
      PROVE  \/ delegate' = delegate /\ grants' = grants
             \/ \E a \in DelegateCandidates :
                  AddDelegate(u, e, a) \/ RemoveDelegate(u, e, a)
  BY <1>5
  DEF UseAccount, Deposit, DepositFor, DepositInto, InitiateWithdrawal,
      Withdraw, Donate
<1>6. ASSUME SubmitBurn \/ Tick \/ UNCHANGED vars
      PROVE  delegate' = delegate /\ grants' = grants
  <2>1. ASSUME NEW s \in EvmKeys, NEW user \in Users, NEW intent \in Intents,
               NEW fee \in Fees, GatewayBurn(s, user, intent, fee)
        PROVE  delegate' = delegate /\ grants' = grants
    BY <2>1 DEF GatewayBurn
  <2>2. CASE Tick \/ UNCHANGED vars
    BY <2>2 DEF Tick, vars
  <2> QED
    BY <1>6, <2>1, <2>2 DEF SubmitBurn
<1> QED
  BY <1>1, <1>2, <1>3, <1>4, <1>5, <1>6 DEF Next

LEMMA ConsentStep ==
  TypeOK /\ DefaultKeyIsPowerless /\ ConsentInv /\ [Next]_vars => ConsentInv'
<1> SUFFICES ASSUME TypeOK, DefaultKeyIsPowerless, ConsentInv, [Next]_vars
             PROVE  ConsentInv'
  OBVIOUS
<1>1. \A t \in Tokens, k \in Addresses :
        deposit'[t][k].withdrawing_amount > 0 =>
          /\ requested'[t][k].delay > 0
          /\ deposit'[t][k].withdrawal_block
               = requested'[t][k].slot + requested'[t][k].delay
  BY BlocksStep
<1>2. \A t \in Tokens, d \in Addresses, k \in Addresses :
        delegate'[t][d][k] # "NoAccount" => <<t, d, k>> \in grants'
  BY GrantsStep
<1> QED
  BY <1>1, <1>2 DEF ConsentInv

THEOREM ConsentInvariant == Spec => []ConsentInv
<1>1. Init => ConsentInv
  <2> SUFFICES ASSUME Init PROVE ConsentInv
    OBVIOUS
  <2>1. \A t \in Tokens, k \in Addresses :
          deposit[t][k].withdrawing_amount = 0
    BY DEF Init, NoDeposit
  <2>2. \A t \in Tokens, d \in Addresses, k \in Addresses :
          delegate[t][d][k] = "NoAccount"
    BY DEF Init
  <2> QED
    BY <2>1, <2>2 DEF ConsentInv
<1>2. TypeOK /\ DefaultKeyIsPowerless /\ ConsentInv /\ [Next]_vars
        => ConsentInv'
  BY ConsentStep
<1> QED
  BY <1>1, <1>2, TypeCorrect, DefaultKeyStaysPowerless, PTL DEF Spec

\* A claim goes down when it is withdrawn or charged, and at no other time.
LEMMA OutflowStep ==
  ASSUME TypeOK, ConsentInv, [Next]_vars,
         NEW t \in Tokens, NEW k \in Addresses, Claim(t, k)' < Claim(t, k)
  PROVE  \/ /\ Matured(t, k)
            /\ deposit'[t][k].available_amount = deposit[t][k].available_amount
            /\ balance'[t][k] = balance[t][k] + Claim(t, k) - Claim(t, k)'
         \/ \E spec \in used' \ used :
              /\ spec.source_token = t
              /\ spec.source_depositor = k
              /\ \/ spec.source_signer = k
                 \/ <<t, k, spec.source_signer>> \in grants
<1>0. /\ deposit \in [Tokens -> [Addresses -> GatewayDeposit]]
      /\ U64Max \in Nat
      /\ \A u \in Tokens, d \in Addresses :
           /\ deposit[u][d] \in GatewayDeposit
           /\ deposit[u][d].available_amount \in Nat
           /\ deposit[u][d].withdrawing_amount \in Nat
  <2>1. \A d \in GatewayDeposit :
          d.available_amount \in Nat /\ d.withdrawing_amount \in Nat
    BY ConfigAssumption DEF GatewayDeposit, U64
  <2> QED
    BY <2>1, ConfigAssumption DEF TypeOK
<1>1. ASSUME NEW u \in Tokens, NEW d \in Addresses, NEW e,
             deposit' = [deposit EXCEPT ![u][d] = e]
      PROVE  u = t /\ d = k /\ deposit'[t][k] = e
  <2>1. CASE u # t \/ d # k
    <3>1. deposit'[t][k] = deposit[t][k]
      BY <1>0, <1>1, <2>1
    <3>2. Claim(t, k)' = Claim(t, k)
      BY <3>1 DEF Claim
    <3> QED
      BY <1>0, <3>2 DEF Claim
  <2>2. CASE u = t /\ d = k
    BY <1>0, <1>1, <2>2
  <2> QED
    BY <2>1, <2>2
<1>2. deposit' # deposit
  BY <1>0 DEF Claim
<1>3. ASSUME NEW u \in Tokens, NEW sender \in Keys, NEW d \in Addresses,
             NEW amount \in Amounts, DepositInto(u, sender, d, amount)
      PROVE  FALSE
  <2> DEFINE e == Deposited(deposit[u][d], amount)
  <2>1. deposit' = [deposit EXCEPT ![u][d] = e] /\ amount \in Nat
    BY <1>3, <1>0, InputsAssumption DEF DepositInto, U64
  <2>2. /\ e.withdrawing_amount = deposit[u][d].withdrawing_amount
        /\ e.available_amount = deposit[u][d].available_amount + amount
    BY <1>0 DEF Deposited, GatewayDeposit
  <2> HIDE DEF e
  <2>3. u = t /\ d = k /\ deposit'[t][k] = e
    BY <1>1, <2>1
  <2> QED
    BY <1>0, <2>1, <2>2, <2>3 DEF Claim
<1>4. ASSUME NEW u \in Tokens, NEW d \in Keys, NEW amount \in Amounts,
             InitiateWithdrawal(u, d, amount)
      PROVE  FALSE
  <2> DEFINE e == InitiatedWithdrawal(deposit[u][d], amount,
                                      wallet.withdrawal_delay)
  <2>1. /\ deposit' = [deposit EXCEPT ![u][d] = e]
        /\ amount \in Nat /\ d \in Addresses
    BY <1>4, <1>0, InputsAssumption, SendersAreHolders
    DEF InitiateWithdrawal, U64
  <2>2. /\ e.withdrawing_amount = deposit[u][d].withdrawing_amount + amount
        /\ e.available_amount = deposit[u][d].available_amount - amount
    BY <1>0, <2>1 DEF InitiatedWithdrawal, GatewayDeposit
  <2> HIDE DEF e
  <2>3. u = t /\ d = k /\ deposit'[t][k] = e
    BY <1>1, <2>1
  <2> QED
    BY <1>0, <2>1, <2>2, <2>3 DEF Claim
<1>5. ASSUME NEW u \in Tokens, NEW d \in Keys, Withdraw(u, d)
      PROVE  /\ Matured(t, k)
             /\ deposit'[t][k].available_amount = deposit[t][k].available_amount
             /\ balance'[t][k] = balance[t][k] + Claim(t, k) - Claim(t, k)'
  <2> DEFINE e == CompletedWithdrawal(deposit[u][d])
             amount == deposit[u][d].withdrawing_amount
  <2>1. /\ deposit' = [deposit EXCEPT ![u][d] = e] /\ d \in Addresses
        /\ amount > 0 /\ DelayElapsed(deposit[u][d])
        /\ balance' = Transfer(balance, u, Custody, d, amount)
        /\ Holds(balance, u, Custody, amount)
    BY <1>5, SendersAreHolders DEF Withdraw
  <2>2. /\ e.withdrawing_amount = 0
        /\ e.available_amount = deposit[u][d].available_amount
    BY <1>0, <2>1 DEF CompletedWithdrawal, GatewayDeposit
  <2>3. amount \in Nat
    BY <1>0, <2>1
  <2> HIDE DEF e
  <2>4. u = t /\ d = k /\ deposit'[t][k] = e
    BY <1>1, <2>1
  <2>5. Matured(t, k)
    BY <2>1, <2>4 DEF ConsentInv, Matured, DelayElapsed
  <2>6. Claim(t, k) - Claim(t, k)' = amount
    BY <1>0, <2>2, <2>3, <2>4 DEF Claim
  <2> HIDE DEF amount
  <2>7. balance'[t][k] = balance[t][k] + amount /\ balance[t][k] \in Nat
    <3>1. balance \in [Tokens -> [Holders -> Nat]]
      BY DEF TypeOK
    <3>2. k \in Holders /\ Custody \in Holders /\ k # Custody
      BY SendersAreHolders
    <3> QED
      BY <2>1, <2>3, <2>4, <3>1, <3>2, TransferEffect
  <2>8. Claim(t, k) \in Nat /\ Claim(t, k)' \in Nat
    BY <1>0, <2>2, <2>4 DEF Claim
  <2> QED
    BY <2>2, <2>3, <2>4, <2>5, <2>6, <2>7, <2>8
<1>6. ASSUME NEW s \in EvmKeys, NEW user \in Users, NEW intent \in Intents,
             NEW fee \in Fees, GatewayBurn(s, user, intent, fee)
      PROVE  \E spec \in used' \ used :
               /\ spec.source_token = t
               /\ spec.source_depositor = k
               /\ \/ spec.source_signer = k
                  \/ <<t, k, spec.source_signer>> \in grants
  <2> DEFINE spec == intent.spec
             e == ReducedBalance(deposit[spec.source_token]
                                   [spec.source_depositor], Charge(spec, fee))
  <2>1. /\ spec.source_token \in Tokens /\ spec.source_depositor \in Addresses
        /\ spec.source_signer \in Addresses
    BY ConfigAssumption DEF BurnIntent, TransferSpec
  <2>2. /\ deposit' = [deposit EXCEPT
                         ![spec.source_token][spec.source_depositor] = e]
        /\ spec \in used' \ used
        /\ ValidSignerAuthorization(spec.source_token, spec.source_depositor,
                                    spec.source_signer)
    BY <1>6 DEF GatewayBurn, CanBurn, IsTransferSpecHashUsed
  <2> HIDE DEF spec, e
  <2>3. spec.source_token = t /\ spec.source_depositor = k
    BY <1>1, <2>1, <2>2
  <2>4. \/ spec.source_signer = k
        \/ <<t, k, spec.source_signer>> \in grants
    BY <2>1, <2>2, <2>3 DEF ValidSignerAuthorization, ConsentInv
  <2> QED
    BY <2>2, <2>3, <2>4
<1> QED
  BY <1>2, <1>3, <1>4, <1>5, <1>6, DepositsMove

\* A depositor's claim shrinks only when the depositor withdraws it after the
\* delay and receives all of it, or when a spec is used up that names as its
\* signer the depositor or somebody the depositor has made a delegate: for any
\* number of depositors, delegates and intents, and any changes of the delay.
THEOREM OutflowsAreByConsent == Spec => OutflowsAreConsented
<1>1. TypeOK /\ ConsentInv /\ [Next]_vars =>
        \A t \in Tokens, k \in Addresses : Claim(t, k)' < Claim(t, k) =>
          \/ /\ Matured(t, k)
             /\ deposit'[t][k].available_amount = deposit[t][k].available_amount
             /\ balance'[t][k] = balance[t][k] + Claim(t, k) - Claim(t, k)'
          \/ \E spec \in used' \ used :
               /\ spec.source_token = t
               /\ spec.source_depositor = k
               /\ \/ spec.source_signer = k
                  \/ <<t, k, spec.source_signer>> \in grants
  BY OutflowStep
<1> QED
  BY <1>1, TypeCorrect, ConsentInvariant, PTL DEF Spec, OutflowsAreConsented

-----------------------------------------------------------------------------
(* The wallet implements the vault. *)

LEMMA VaultInit == Init => Vault!Init
<1> SUFFICES ASSUME Init PROVE Vault!Init
  OBVIOUS
<1>1. Purses \in [Tokens -> [Addresses -> Nat]]
  <2>1. \A t \in Tokens, k \in Addresses : balance[t][k] \in Nat
    BY SupplyAssumption, SendersAreHolders DEF Init
  <2> QED
    BY <2>1 DEF Purses
<1>2. Accounts = [t \in Tokens |-> [k \in Addresses |-> Vault!Nothing]]
  <2>1. \A t \in Tokens, k \in Addresses :
          VaultAccount(deposit[t][k]) = Vault!Nothing
    BY DEF Init, NoDeposit, VaultAccount, Vault!Nothing
  <2> QED
    BY <2>1 DEF Accounts
<1>3. Agents = {}
  BY DEF Init, Agents
<1>4. used = {} /\ slot = 0 /\ Stopped = TRUE
  BY DEF Init, NoWallet, Stopped
<1> QED
  BY <1>1, <1>2, <1>3, <1>4 DEF Vault!Init

\* Tables of what each address has of each token, and two of them that agree
\* everywhere but in one entry.
Table(f) == f = [t \in Tokens |-> [k \in Addresses |-> f[t][k]]]

DifferAt(f, g, t, k, v) ==
  \A u \in Tokens, x \in Addresses :
    g[u][x] = IF u = t /\ x = k THEN v ELSE f[u][x]

LEMMA OneEntryMoves ==
  ASSUME NEW f, NEW g, NEW t \in Tokens, NEW k \in Addresses, NEW v,
         Table(f), Table(g), DifferAt(f, g, t, k, v)
  PROVE  /\ g = [f EXCEPT ![t][k] = v]
         /\ g[t][k] = v
<1> DEFINE h == [f EXCEPT ![t][k] = v]
<1>1. \A u \in Tokens : /\ f[u] = [x \in Addresses |-> f[u][x]]
                        /\ g[u] = [x \in Addresses |-> g[u][x]]
  BY DEF Table
<1>2. h = [u \in Tokens |-> IF u = t THEN [f[t] EXCEPT ![k] = v] ELSE f[u]]
  BY DEF Table
<1>3. [f[t] EXCEPT ![k] = v]
        = [x \in Addresses |-> IF x = k THEN v ELSE f[t][x]]
  BY <1>1
<1>4. [x \in Addresses |-> IF x = k THEN v ELSE f[t][x]]
        = [x \in Addresses |-> g[t][x]]
  BY DEF DifferAt
<1>5. ASSUME NEW u \in Tokens, u # t PROVE g[u] = f[u]
  <2>1. [x \in Addresses |-> g[u][x]] = [x \in Addresses |-> f[u][x]]
    BY <1>5 DEF DifferAt
  <2> QED
    BY <1>1, <2>1
<1>6. \A u \in Tokens : g[u] = h[u]
  BY <1>1, <1>2, <1>3, <1>4, <1>5
<1>7. g = [u \in Tokens |-> g[u]] /\ h = [u \in Tokens |-> h[u]]
  BY <1>2 DEF Table
<1>8. [u \in Tokens |-> g[u]] = [u \in Tokens |-> h[u]]
  BY <1>6
<1>9. g[t][k] = v
  BY DEF DifferAt
<1> QED
  BY <1>7, <1>8, <1>9

\* One deposit account is one account of the vault.
LEMMA AccountsMove ==
  ASSUME TypeOK, NEW t \in Tokens, NEW k \in Addresses, NEW e,
         deposit' = [deposit EXCEPT ![t][k] = e]
  PROVE  /\ Accounts' = [Accounts EXCEPT ![t][k] = VaultAccount(e)]
         /\ Accounts'[t][k] = VaultAccount(e)
         /\ Accounts[t][k] = VaultAccount(deposit[t][k])
<1> DEFINE before == Accounts
           after == Accounts'
           v == VaultAccount(e)
<1>1. deposit \in [Tokens -> [Addresses -> GatewayDeposit]]
  BY DEF TypeOK
<1>2. \A u \in Tokens, x \in Addresses :
        deposit'[u][x] = IF u = t /\ x = k THEN e ELSE deposit[u][x]
  BY <1>1
<1>3. /\ Table(before)
      /\ \A u \in Tokens, x \in Addresses :
           before[u][x] = VaultAccount(deposit[u][x])
  BY DEF Accounts, Table
<1>4. /\ Table(after)
      /\ \A u \in Tokens, x \in Addresses :
           after[u][x] = VaultAccount(deposit'[u][x])
  BY DEF Accounts, Table
<1> HIDE DEF before, after
<1>5. DifferAt(before, after, t, k, v)
  BY <1>2, <1>3, <1>4 DEF DifferAt
<1> HIDE DEF v
<1>6. after = [before EXCEPT ![t][k] = v] /\ after[t][k] = v
  BY <1>3, <1>4, <1>5, OneEntryMoves
<1> QED
  BY <1>3, <1>6 DEF before, after, v

\* What one address has outside is one purse of the vault.
LEMMA PursesMove ==
  ASSUME NEW t \in Tokens, NEW k \in Addresses, NEW n,
         \A u \in Tokens, x \in Addresses :
           balance'[u][x] = IF u = t /\ x = k THEN n ELSE balance[u][x]
  PROVE  /\ Purses' = [Purses EXCEPT ![t][k] = n]
         /\ Purses[t][k] = balance[t][k]
<1> DEFINE before == Purses
           after == Purses'
<1>1. /\ Table(before)
      /\ \A u \in Tokens, x \in Addresses : before[u][x] = balance[u][x]
  BY DEF Purses, Table
<1>2. /\ Table(after)
      /\ \A u \in Tokens, x \in Addresses : after[u][x] = balance'[u][x]
  BY DEF Purses, Table
<1> HIDE DEF before, after
<1>3. DifferAt(before, after, t, k, n)
  BY <1>1, <1>2 DEF DifferAt
<1>4. after = [before EXCEPT ![t][k] = n]
  BY <1>1, <1>2, <1>3, OneEntryMoves
<1> QED
  BY <1>1, <1>4 DEF before, after

\* A transfer out of custody, or into it, moves one purse.
LEMMA TransferMovesPurse ==
  ASSUME TypeOK, NEW t \in Tokens, NEW k \in Addresses, NEW amount \in Nat
  PROVE  /\ /\ Holds(balance, t, k, amount)
            /\ balance' = Transfer(balance, t, k, Custody, amount)
            => /\ Purses' = [Purses EXCEPT ![t][k] = @ - amount]
               /\ amount <= Purses[t][k]
         /\ /\ Holds(balance, t, Custody, amount)
            /\ balance' = Transfer(balance, t, Custody, k, amount)
            => Purses' = [Purses EXCEPT ![t][k] = @ + amount]
<1>0. /\ balance \in [Tokens -> [Holders -> Nat]]
      /\ k \in Holders /\ Custody \in Holders /\ k # Custody
      /\ \A x \in Addresses : x \in Holders /\ x # Custody
  BY SendersAreHolders DEF TypeOK
<1>1. ASSUME Holds(balance, t, k, amount),
             balance' = Transfer(balance, t, k, Custody, amount)
      PROVE  /\ Purses' = [Purses EXCEPT ![t][k] = @ - amount]
             /\ amount <= Purses[t][k]
  <2>1. /\ balance'[t][k] = balance[t][k] - amount
        /\ \A h \in Holders : h # k /\ h # Custody
                                => balance'[t][h] = balance[t][h]
        /\ \A u \in Tokens : u # t => balance'[u] = balance[u]
    BY <1>0, <1>1, TransferEffect
  <2>2. \A u \in Tokens, x \in Addresses :
          balance'[u][x] = IF u = t /\ x = k THEN balance[t][k] - amount
                                             ELSE balance[u][x]
    BY <1>0, <2>1
  <2>3. /\ Purses' = [Purses EXCEPT ![t][k] = balance[t][k] - amount]
        /\ Purses[t][k] = balance[t][k]
    BY <2>2, PursesMove
  <2> QED
    BY <1>1, <2>3 DEF Holds
<1>2. ASSUME Holds(balance, t, Custody, amount),
             balance' = Transfer(balance, t, Custody, k, amount)
      PROVE  Purses' = [Purses EXCEPT ![t][k] = @ + amount]
  <2>1. /\ balance'[t][k] = balance[t][k] + amount
        /\ \A h \in Holders : h # k /\ h # Custody
                                => balance'[t][h] = balance[t][h]
        /\ \A u \in Tokens : u # t => balance'[u] = balance[u]
    BY <1>0, <1>2, TransferEffect
  <2>2. \A u \in Tokens, x \in Addresses :
          balance'[u][x] = IF u = t /\ x = k THEN balance[t][k] + amount
                                             ELSE balance[u][x]
    BY <1>0, <2>1
  <2>3. /\ Purses' = [Purses EXCEPT ![t][k] = balance[t][k] + amount]
        /\ Purses[t][k] = balance[t][k]
    BY <2>2, PursesMove
  <2> QED
    BY <2>3
<1> QED
  BY <1>1, <1>2

\* The instructions on deposits, one at a time.
LEMMA DepositIsPayIn ==
  ASSUME TypeOK, NEW t \in Tokens, NEW sender \in Keys, NEW k \in Addresses,
         NEW amount \in Amounts, DepositInto(t, sender, k, amount)
  PROVE  Vault!PayIn(t, sender, k)
<1> DEFINE d == deposit[t][k]
           e == Deposited(d, amount)
<1>1. /\ d \in GatewayDeposit /\ amount \in Nat /\ sender \in Addresses
      /\ d.available_amount \in Nat /\ d.withdrawing_amount \in Nat
  BY ConfigAssumption, InputsAssumption, SendersAreHolders
  DEF TypeOK, U64, GatewayDeposit
<1>2. /\ ~ Stopped /\ amount > 0
      /\ deposit' = [deposit EXCEPT ![t][k] = e]
      /\ balance' = Transfer(balance, t, sender, Custody, amount)
      /\ Holds(balance, t, sender, amount)
      /\ UNCHANGED <<used, slot, wallet, delegate>>
  BY DEF DepositInto, Running, Stopped
<1>3. VaultAccount(e) = [VaultAccount(d) EXCEPT !.available = @ + amount]
  BY <1>1 DEF VaultAccount, Deposited, GatewayDeposit
<1> HIDE DEF d, e
<1>4. /\ Accounts' = [Accounts EXCEPT ![t][k] = VaultAccount(e)]
      /\ Accounts[t][k] = VaultAccount(d)
  BY <1>2, AccountsMove DEF d
<1>5. Accounts' = [Accounts EXCEPT ![t][k].available = @ + amount]
  BY <1>3, <1>4
<1>6. /\ Purses' = [Purses EXCEPT ![t][sender] = @ - amount]
      /\ amount <= Purses[t][sender]
  BY <1>1, <1>2, TransferMovesPurse
<1>7. Agents' = Agents /\ Stopped' = Stopped
  BY <1>2 DEF Agents, Stopped
<1>8. amount \in 1 .. Purses[t][sender]
  <2>1. Purses[t][sender] \in Nat
    BY <1>1, SendersAreHolders DEF Purses, TypeOK
  <2> QED
    BY <1>1, <1>2, <1>6, <2>1
<1> QED
  BY <1>2, <1>5, <1>6, <1>7, <1>8 DEF Vault!PayIn

LEMMA InitiateWithdrawalIsAnnounce ==
  ASSUME TypeOK, DefaultKeyIsPowerless, NEW t \in Tokens, NEW k \in Keys,
         NEW amount \in Amounts, InitiateWithdrawal(t, k, amount)
  PROVE  Vault!Announce(t, k)
<1> DEFINE d == deposit[t][k]
           delay == wallet.withdrawal_delay
           e == InitiatedWithdrawal(d, amount, delay)
<1>1. /\ d \in GatewayDeposit /\ amount \in Nat /\ k \in Addresses
      /\ d.available_amount \in Nat /\ d.withdrawing_amount \in Nat
  BY ConfigAssumption, InputsAssumption, SendersAreHolders
  DEF TypeOK, U64, GatewayDeposit
<1>2. /\ ~ Stopped /\ amount > 0 /\ amount <= d.available_amount
      /\ wallet.initialized
      /\ deposit' = [deposit EXCEPT ![t][k] = e]
      /\ UNCHANGED <<used, slot, wallet, delegate, balance>>
  BY DEF InitiateWithdrawal, Running, Stopped
<1>3. delay \in Nat /\ delay > 0 /\ slot \in Nat
  <2>1. delay \in U64 /\ slot \in 0 .. MaxSlot /\ MaxSlot \in U64
    BY InputsAssumption DEF TypeOK, Wallet
  <2>2. delay > 0
    BY <1>2 DEF DefaultKeyIsPowerless
  <2> QED
    BY <2>1, <2>2, ConfigAssumption DEF U64
<1>4. VaultAccount(e) = [available   |-> d.available_amount - amount,
                         withdrawing |-> d.withdrawing_amount + amount,
                         ripe        |-> slot + delay]
  <2> HIDE DEF delay
  <2> QED
    BY <1>1, <1>2, <1>3 DEF VaultAccount, InitiatedWithdrawal, GatewayDeposit
<1>5. /\ VaultAccount(d).available = d.available_amount
      /\ VaultAccount(d).withdrawing = d.withdrawing_amount
  BY DEF VaultAccount
<1> HIDE DEF d, delay, e
<1>6. /\ Accounts' = [Accounts EXCEPT ![t][k] = VaultAccount(e)]
      /\ Accounts[t][k] = VaultAccount(d)
      /\ Accounts'[t][k] = VaultAccount(e)
  BY <1>1, <1>2, AccountsMove DEF d
<1>7. VaultAccount(e) = [available   |-> Accounts[t][k].available - amount,
                         withdrawing |-> Accounts[t][k].withdrawing + amount,
                         ripe        |-> Accounts'[t][k].ripe]
  BY <1>4, <1>5, <1>6
<1>8. Accounts' = [Accounts EXCEPT
                     ![t][k] = [available   |-> @.available - amount,
                                withdrawing |-> @.withdrawing + amount,
                                ripe        |-> Accounts'[t][k].ripe]]
  BY <1>6, <1>7
<1>9. Accounts'[t][k].ripe > slot
  BY <1>3, <1>4, <1>6
<1>10. amount \in 1 .. Accounts[t][k].available
  BY <1>1, <1>2, <1>5, <1>6
<1>11. Agents' = Agents /\ Stopped' = Stopped /\ Purses' = Purses
  BY <1>2 DEF Agents, Stopped, Purses
<1> QED
  BY <1>2, <1>8, <1>9, <1>10, <1>11 DEF Vault!Announce

LEMMA WithdrawIsTakeOut ==
  ASSUME TypeOK, NEW t \in Tokens, NEW k \in Keys, Withdraw(t, k)
  PROVE  Vault!TakeOut(t, k)
<1> DEFINE d == deposit[t][k]
           e == CompletedWithdrawal(d)
           amount == d.withdrawing_amount
<1>1. d \in GatewayDeposit /\ amount \in Nat /\ k \in Addresses
  BY ConfigAssumption, SendersAreHolders DEF TypeOK, U64, GatewayDeposit
<1>2. /\ ~ Stopped /\ amount > 0 /\ slot >= d.withdrawal_block
      /\ deposit' = [deposit EXCEPT ![t][k] = e]
      /\ balance' = Transfer(balance, t, Custody, k, amount)
      /\ Holds(balance, t, Custody, amount)
      /\ UNCHANGED <<used, slot, wallet, delegate>>
  BY DEF Withdraw, Running, Stopped, DelayElapsed
<1>3. VaultAccount(e)
        = [available |-> VaultAccount(d).available, withdrawing |-> 0,
           ripe |-> 0]
  <2>1. /\ e.available_amount = d.available_amount
        /\ e.withdrawing_amount = 0
    BY <1>1 DEF CompletedWithdrawal, GatewayDeposit
  <2> HIDE DEF d, e
  <2> QED
    BY <2>1 DEF VaultAccount
<1>4. /\ VaultAccount(d).withdrawing = amount
      /\ VaultAccount(d).ripe = d.withdrawal_block
  BY <1>2 DEF VaultAccount
<1> HIDE DEF d, e, amount
<1>5. /\ Accounts' = [Accounts EXCEPT ![t][k] = VaultAccount(e)]
      /\ Accounts[t][k] = VaultAccount(d)
  BY <1>1, <1>2, AccountsMove DEF d
<1>6. Accounts' = [Accounts EXCEPT
                     ![t][k] = [available |-> @.available, withdrawing |-> 0,
                                ripe |-> 0]]
  BY <1>3, <1>5
<1>7. Purses' = [Purses EXCEPT ![t][k] = @ + Accounts[t][k].withdrawing]
  <2>1. Purses' = [Purses EXCEPT ![t][k] = @ + amount]
    BY <1>1, <1>2, TransferMovesPurse
  <2> QED
    BY <1>4, <1>5, <2>1
<1>8. Accounts[t][k].withdrawing > 0 /\ Accounts[t][k].ripe <= slot
  <2>1. slot \in Nat /\ d.withdrawal_block \in Nat
    BY <1>1, ConfigAssumption, InputsAssumption DEF TypeOK, U64, GatewayDeposit
  <2> QED
    BY <1>2, <1>4, <1>5, <2>1
<1>9. Agents' = Agents /\ Stopped' = Stopped
  BY <1>2 DEF Agents, Stopped
<1> QED
  BY <1>2, <1>6, <1>7, <1>8, <1>9 DEF Vault!TakeOut

LEMMA DelegateIsAppoint ==
  ASSUME TypeOK, NEW t \in Tokens, NEW k \in Keys, NEW a \in DelegateCandidates
  PROVE  /\ AddDelegate(t, k, a) => Vault!Appoint(t, k, a)
         /\ RemoveDelegate(t, k, a) => UNCHANGED Vault!vars
<1>0. /\ k \in Addresses /\ a \in Addresses
      /\ delegate \in [Tokens -> [Addresses -> [Addresses -> DelegateStatus]]]
  BY InputsAssumption, SendersAreHolders DEF TypeOK
<1>1. ASSUME NEW status, SetDelegate(t, k, a, status)
      PROVE  /\ \A u \in Tokens, d, x \in Addresses :
                  delegate'[u][d][x] = IF u = t /\ d = k /\ x = a
                                       THEN status ELSE delegate[u][d][x]
             /\ UNCHANGED <<wallet, deposit, used, balance, slot>>
  BY <1>0, <1>1 DEF SetDelegate
<1>2. ASSUME UNCHANGED <<wallet, deposit, balance>>
      PROVE  Purses' = Purses /\ Accounts' = Accounts /\ Stopped' = Stopped
  BY <1>2 DEF Purses, Accounts, Stopped
<1>3. ASSUME AddDelegate(t, k, a) PROVE Vault!Appoint(t, k, a)
  <2>1. SetDelegate(t, k, a, "Authorized") /\ ~ Stopped
    BY <1>3 DEF AddDelegate, Running, Stopped
  <2>2. \A u \in Tokens, d, x \in Addresses :
          delegate'[u][d][x] # "NoAccount"
            <=> delegate[u][d][x] # "NoAccount" \/ <<u, d, x>> = <<t, k, a>>
    BY <1>1, <2>1
  <2>3. Agents' = Agents \cup {<<t, k, a>>}
    BY <1>0, <2>2 DEF Agents
  <2> QED
    BY <1>1, <1>2, <2>1, <2>3 DEF Vault!Appoint
<1>4. ASSUME RemoveDelegate(t, k, a) PROVE UNCHANGED Vault!vars
  <2>1. /\ SetDelegate(t, k, a, RemovedStatus(delegate[t][k][a]))
        /\ delegate[t][k][a] # "NoAccount"
    BY <1>4 DEF RemoveDelegate
  <2>2. RemovedStatus(delegate[t][k][a]) # "NoAccount"
    BY <2>1 DEF RemovedStatus
  <2>3. \A u \in Tokens, d, x \in Addresses :
          delegate'[u][d][x] # "NoAccount" <=> delegate[u][d][x] # "NoAccount"
    BY <1>1, <2>1, <2>2
  <2>4. Agents' = Agents
    BY <2>3 DEF Agents
  <2> QED
    BY <1>1, <1>2, <2>1, <2>4 DEF Vault!vars
<1> QED
  BY <1>3, <1>4

LEMMA DonateIsGiveAway ==
  ASSUME TypeOK, NEW t \in Tokens, NEW k \in Keys, NEW amount \in Donations,
         Donate(t, k, amount)
  PROVE  Vault!GiveAway(t, k)
<1>1. k \in Addresses /\ amount \in Nat
  BY ConfigAssumption, InputsAssumption, SendersAreHolders DEF U64
<1>2. /\ Holds(balance, t, k, amount)
      /\ balance' = Transfer(balance, t, k, Custody, amount)
      /\ UNCHANGED <<used, slot, wallet, delegate, deposit>>
  BY DEF Donate
<1>3. /\ Purses' = [Purses EXCEPT ![t][k] = @ - amount]
      /\ amount <= Purses[t][k]
  BY <1>1, <1>2, TransferMovesPurse
<1>4. amount \in 0 .. Purses[t][k]
  <2>1. Purses[t][k] \in Nat
    BY <1>1, SendersAreHolders DEF Purses, TypeOK
  <2> QED
    BY <1>1, <1>3, <2>1
<1>5. Accounts' = Accounts /\ Agents' = Agents /\ Stopped' = Stopped
  BY <1>2 DEF Accounts, Agents, Stopped
<1> QED
  BY <1>2, <1>3, <1>4, <1>5 DEF Vault!GiveAway

LEMMA AdministerIsStopOrResume ==
  ASSUME NEW signer \in Keys, Administer(signer)
  PROVE  Vault!StopOrResume \/ UNCHANGED Vault!vars
<1>1. UNCHANGED <<used, slot, delegate, deposit, balance>>
  BY DEF Administer, Initialize, UpdateWithdrawalDelay, AcceptOwnership, Pause,
     Unpause, TransferOwnership, UpdatePauser, UpdateDenylister,
     UpdateTokenController, UpdateFeeRecipient, AddBurnSigner,
     RemoveBurnSigner, AddToken, DenylistAccount, UndenylistAccount,
     SetWallet, SetDenylisted
<1>2. Purses' = Purses /\ Accounts' = Accounts /\ Agents' = Agents
  BY <1>1 DEF Purses, Accounts, Agents
<1>3. Stopped \in BOOLEAN /\ Stopped' \in BOOLEAN
  BY DEF Stopped
<1>4. Stopped' = Stopped \/ Stopped' = ~ Stopped
  BY <1>3
<1> QED
  BY <1>1, <1>2, <1>4 DEF Vault!StopOrResume, Vault!vars

LEMMA LessIs ==
  ASSUME NEW acc, NEW amount, NEW a, NEW w,
         a = Vault!Least(acc.available, amount), w = amount - a
  PROVE  Vault!Less(acc, amount)
           = [available   |-> acc.available - a,
              withdrawing |-> acc.withdrawing - w,
              ripe        |-> IF w = acc.withdrawing THEN 0 ELSE acc.ripe]
BY DEF Vault!Less

\* reduce_balance is what the vault takes from an account.
LEMMA DeductionIsLess ==
  ASSUME NEW d \in GatewayDeposit, NEW value \in Nat
  PROVE  LET taken == FromAvailable(d, value) + FromWithdrawing(d, value)
         IN  /\ taken = Vault!Least(value, d.available_amount
                                             + d.withdrawing_amount)
             /\ VaultAccount(ReducedBalance(d, value))
                  = Vault!Less(VaultAccount(d), taken)
<1> DEFINE a == FromAvailable(d, value)
           w == FromWithdrawing(d, value)
           e == ReducedBalance(d, value)
           available == d.available_amount
           withdrawing == d.withdrawing_amount
           account == VaultAccount(d)
<1>1. available \in Nat /\ withdrawing \in Nat
  BY ConfigAssumption DEF GatewayDeposit, U64
<1>2. a \in Nat /\ a = Vault!Least(available, value)
  BY <1>1 DEF FromAvailable, Lesser, Vault!Least
<1>3. w \in Nat /\ w = Vault!Least(withdrawing, value - a)
  BY <1>1, <1>2 DEF FromWithdrawing, Lesser, Vault!Least
<1>4. /\ e.available_amount = available - a
      /\ e.withdrawing_amount = withdrawing - w
      /\ e.withdrawal_block = d.withdrawal_block
  BY DEF ReducedBalance, GatewayDeposit
<1> HIDE DEF a, w, e
<1>5. a + w = Vault!Least(value, available + withdrawing)
  BY <1>1, <1>2, <1>3 DEF Vault!Least
<1>6. /\ account.available = available
      /\ account.withdrawing = withdrawing
      /\ withdrawing > 0 => account.ripe = d.withdrawal_block
  BY DEF VaultAccount
<1> HIDE DEF account
<1>7. Vault!Least(account.available, a + w) = a
  BY <1>1, <1>2, <1>3, <1>6 DEF Vault!Least
<1>8. (a + w) - a = w
  BY <1>2, <1>3
<1>9. Vault!Less(account, a + w)
        = [available   |-> available - a,
           withdrawing |-> withdrawing - w,
           ripe        |-> IF w = withdrawing THEN 0 ELSE account.ripe]
  <2> DEFINE taken == a + w
  <2>1. a = Vault!Least(account.available, taken) /\ w = taken - a
    BY <1>7, <1>8
  <2> HIDE DEF taken
  <2>2. Vault!Less(account, taken)
          = [available   |-> account.available - a,
             withdrawing |-> account.withdrawing - w,
             ripe        |-> IF w = account.withdrawing THEN 0
                                                        ELSE account.ripe]
    BY ONLY <2>1, LessIs
  <2> QED
    BY <1>6, <2>2 DEF taken
<1>10. VaultAccount(e)
        = [available   |-> available - a,
           withdrawing |-> withdrawing - w,
           ripe        |-> IF withdrawing - w > 0 THEN d.withdrawal_block
                                                  ELSE 0]
  BY <1>4 DEF VaultAccount
<1>11. w <= withdrawing
  BY <1>1, <1>2, <1>3 DEF Vault!Least
<1>12. (IF withdrawing - w > 0 THEN d.withdrawal_block ELSE 0)
         = (IF w = withdrawing THEN 0 ELSE account.ripe)
  BY <1>1, <1>3, <1>6, <1>11
<1>13. VaultAccount(e) = Vault!Less(account, a + w)
  BY <1>9, <1>10, <1>12
<1> QED
  BY <1>5, <1>13 DEF a, w, e, account

LEMMA BurnMovesPurse ==
  ASSUME TypeOK, NEW s \in EvmKeys, NEW user \in Users,
         NEW intent \in Intents, NEW fee \in Fees,
         GatewayBurn(s, user, intent, fee),
         NEW spec, spec = intent.spec,
         NEW d, d = deposit[spec.source_token][spec.source_depositor],
         NEW taken, taken = FromAvailable(d, Charge(spec, fee))
                              + FromWithdrawing(d, Charge(spec, fee))
  PROVE  Purses' = [Purses EXCEPT
           ![spec.source_token][wallet.fee_recipient] =
             @ + (taken - Vault!Least(taken, spec.value))]
<1> DEFINE t == spec.source_token
           charge == Charge(spec, fee)
           settled == Settlement(spec, taken)
           n == balance[t][wallet.fee_recipient] + settled.fee
           collector == wallet.fee_recipient
           moved == Transfer(balance, t, Custody, collector, settled.fee)
<1>1. /\ t \in Tokens /\ spec.value \in Nat /\ fee \in Nat
      /\ taken \in Nat /\ taken <= spec.value + fee
      /\ settled.fee \in Nat /\ settled.burn \in Nat
      /\ settled.fee + settled.burn = taken
  <2> DEFINE k == intent.spec.source_depositor
             b == deposit[intent.spec.source_token][k]
             a == FromAvailable(b, Charge(intent.spec, fee))
             w == FromWithdrawing(b, Charge(intent.spec, fee))
             made == Settlement(intent.spec, a + w)
  <2>1. /\ intent.spec.source_token \in Tokens
        /\ intent.spec.value \in Nat /\ fee \in Nat
        /\ a \in Nat /\ w \in Nat /\ a + w <= intent.spec.value + fee
        /\ made.fee \in Nat /\ made.burn \in Nat
        /\ made.fee + made.burn = a + w
    BY BurnFacts
  <2>2. taken = a + w /\ settled = made
    OBVIOUS
  <2> HIDE DEF a, w, made, settled
  <2> QED
    BY <2>1, <2>2
<1>2. balance[t][Custody] >= charge /\ charge = spec.value + fee
  BY DEF GatewayBurn, CanBurn, Charge
<1>3. settled.fee = taken - Vault!Least(taken, spec.value)
  <2>1. settled.fee = ActualFee(taken, spec.value)
    BY DEF Settlement
  <2> HIDE DEF settled
  <2> QED
    BY <1>1, <2>1 DEF ActualFee, Vault!Least
<1>4. balance' = Burn(moved, t, Custody, settled.burn)
  BY DEF GatewayBurn
<1>5. /\ balance \in [Tokens -> [Holders -> Nat]]
      /\ collector \in Addresses /\ collector \in Holders
      /\ Custody \in Holders /\ Custody # collector
      /\ \A x \in Addresses : x \in Holders /\ x # Custody
  BY SendersAreHolders DEF TypeOK, Wallet
<1> HIDE DEF t, charge, settled, collector, n
<1>6. balance[t][Custody] \in Nat
  BY <1>1, <1>5
<1>7. /\ moved \in [Tokens -> [Holders -> Nat]]
      /\ moved[t][Custody] = balance[t][Custody] - settled.fee
      /\ moved[t][collector] = balance[t][collector] + settled.fee
      /\ \A h \in Holders : h # Custody /\ h # collector
                              => moved[t][h] = balance[t][h]
      /\ \A u \in Tokens : u # t => moved[u] = balance[u]
  <2>1. Holds(balance, t, Custody, settled.fee)
    BY <1>1, <1>2, <1>6 DEF Holds
  <2> QED
    BY <1>1, <1>5, <2>1, TransferEffect
<1> HIDE DEF moved
<1>8. /\ \A h \in Holders : h # Custody => balance'[t][h] = moved[t][h]
      /\ \A u \in Tokens : u # t => balance'[u] = moved[u]
  <2>1. Holds(moved, t, Custody, settled.burn)
    BY <1>1, <1>2, <1>6, <1>7 DEF Holds
  <2> QED
    <3> DEFINE after == balance'
    <3>1. after = Burn(moved, t, Custody, settled.burn)
      BY <1>4
    <3> HIDE DEF after
    <3>2. /\ moved \in [Tokens -> [Holders -> Nat]]
          /\ t \in Tokens /\ Custody \in Holders /\ settled.burn \in Nat
      BY <1>1, <1>5, <1>7
    <3>3. \A h \in Holders : h # Custody => after[t][h] = moved[t][h]
      BY ONLY <2>1, <3>1, <3>2, BurnEffect
    <3>4. \A u \in Tokens : u # t => after[u] = moved[u]
      BY ONLY <2>1, <3>1, <3>2, BurnEffect
    <3> QED
      BY <3>3, <3>4 DEF after
<1>9. \A u \in Tokens, x \in Addresses :
        balance'[u][x] = IF u = t /\ x = collector
                         THEN n ELSE balance[u][x]
  BY <1>5, <1>7, <1>8 DEF n, collector
<1>10. /\ Purses' = [Purses EXCEPT ![t][collector] = n]
       /\ Purses[t][collector] = balance[t][collector]
  <2>1. t \in Tokens /\ collector \in Addresses
    BY <1>1, <1>5
  <2> QED
    BY ONLY <1>9, <2>1, PursesMove
<1>11. n = Purses[t][collector]
             + (taken - Vault!Least(taken, spec.value))
  BY <1>3, <1>10 DEF n, collector
<1> QED
  BY <1>10, <1>11 DEF t, collector

LEMMA BurnIsCharge ==
  ASSUME TypeOK, NEW s \in EvmKeys, NEW user \in Users,
         NEW intent \in Intents, NEW fee \in Fees,
         GatewayBurn(s, user, intent, fee)
  PROVE  /\ wallet.fee_recipient \in Addresses
         /\ fee \in 0 .. intent.max_fee
         /\ Vault!Charge(intent, fee, wallet.fee_recipient)
<1> DEFINE spec == intent.spec
           t == spec.source_token
           k == spec.source_depositor
           d == deposit[t][k]
           charge == Charge(spec, fee)
           taken == FromAvailable(d, charge) + FromWithdrawing(d, charge)
           collector == wallet.fee_recipient
           e == ReducedBalance(d, charge)
<1>1. /\ spec \in Specs /\ t \in Tokens /\ k \in Addresses
      /\ spec.value \in Nat /\ fee \in Nat /\ intent.max_fee >= fee
  BY BurnFacts
<1>2. /\ spec.source_signer \in Addresses
      /\ intent.max_fee \in Nat /\ intent.max_block_height \in Nat
      /\ slot \in Nat /\ collector \in Addresses
  <2>1. intent \in BurnIntent /\ U64 \subseteq Nat
    BY ConfigAssumption DEF U64
  <2>2. /\ spec.source_signer \in Addresses
        /\ intent.max_fee \in Nat /\ intent.max_block_height \in Nat
    BY <2>1 DEF BurnIntent, TransferSpec
  <2>3. slot \in Nat
    BY <2>1, InputsAssumption DEF TypeOK
  <2>4. collector \in Addresses
    BY DEF TypeOK, Wallet
  <2> QED
    BY <2>2, <2>3, <2>4
<1>3. d \in GatewayDeposit /\ charge = spec.value + fee
  BY <1>1 DEF TypeOK, Charge
<1>4. /\ ~ Stopped /\ spec \notin used /\ intent.max_block_height >= slot
      /\ ValidSignerAuthorization(t, k, spec.source_signer)
      /\ used' = used \cup {spec}
      /\ deposit' = [deposit EXCEPT ![t][k] = e]
      /\ UNCHANGED <<wallet, delegate, slot>>
  BY DEF GatewayBurn, CanBurn, Running, Stopped, IsTransferSpecHashUsed
<1>5. \/ spec.source_signer = k
      \/ <<t, k, spec.source_signer>> \in Agents
  BY <1>1, <1>2, <1>4 DEF ValidSignerAuthorization, Agents
<1>6. Purses' = [Purses EXCEPT ![t][collector] =
                   @ + (taken - Vault!Least(taken, spec.value))]
  BY BurnMovesPurse
<1> HIDE DEF spec, t, k, d, charge, taken, collector, e
<1>7. /\ Accounts' = [Accounts EXCEPT ![t][k] = VaultAccount(e)]
      /\ Accounts[t][k] = VaultAccount(d)
  BY <1>1, <1>4, AccountsMove DEF d
<1>8. /\ taken = Vault!Least(charge, d.available_amount + d.withdrawing_amount)
      /\ VaultAccount(e) = Vault!Less(VaultAccount(d), taken)
  BY <1>1, <1>3, DeductionIsLess DEF taken, e
<1>9. Accounts' = [Accounts EXCEPT ![t][k] = Vault!Less(@, taken)]
  BY <1>7, <1>8
<1>10. taken = Vault!Least(spec.value + fee, Accounts[t][k].available
                                             + Accounts[t][k].withdrawing)
  <2>1. /\ VaultAccount(d).available = d.available_amount
        /\ VaultAccount(d).withdrawing = d.withdrawing_amount
    BY DEF VaultAccount
  <2> QED
    BY <1>3, <1>7, <1>8, <2>1
<1>11. Agents' = Agents /\ Stopped' = Stopped
  BY <1>4 DEF Agents, Stopped
<1>12. fee \in 0 .. intent.max_fee /\ slot <= intent.max_block_height
       /\ fee <= intent.max_fee
  BY <1>1, <1>2, <1>4
<1>13. Vault!Charge(intent, fee, collector)
  BY <1>4, <1>5, <1>6, <1>9, <1>10, <1>11, <1>12
  DEF Vault!Charge, spec, t, k
<1> QED
  BY <1>2, <1>12, <1>13 DEF collector

LEMMA VaultStep ==
  TypeOK /\ DefaultKeyIsPowerless /\ [Next]_vars => [Vault!Next]_(Vault!vars)
<1> SUFFICES ASSUME TypeOK, DefaultKeyIsPowerless, [Next]_vars
             PROVE  Vault!Next \/ UNCHANGED Vault!vars
  OBVIOUS
<1>0. \A k \in Keys : k \in Addresses
  BY DEF Addresses
<1>1. ASSUME NEW k \in Keys, Administer(k)
      PROVE  Vault!Next \/ UNCHANGED Vault!vars
  BY <1>1, AdministerIsStopOrResume DEF Vault!Next
<1>2. ASSUME NEW t \in Tokens, NEW k \in Keys, UseAccount(t, k)
      PROVE  Vault!Next \/ UNCHANGED Vault!vars
  <2>1. ASSUME NEW amount \in Amounts, Deposit(t, k, amount)
        PROVE  Vault!Next
    BY <1>0, <2>1, DepositIsPayIn DEF Deposit, Vault!Next
  <2>2. ASSUME NEW amount \in Amounts, NEW depositor \in Addresses,
               DepositFor(t, k, depositor, amount)
        PROVE  Vault!Next
    BY <1>0, <2>2, DepositIsPayIn DEF DepositFor, Vault!Next
  <2>3. ASSUME NEW amount \in Amounts, InitiateWithdrawal(t, k, amount)
        PROVE  Vault!Next
    BY <1>0, <2>3, InitiateWithdrawalIsAnnounce DEF Vault!Next
  <2>4. CASE Withdraw(t, k)
    BY <1>0, <2>4, WithdrawIsTakeOut DEF Vault!Next
  <2>5. ASSUME NEW amount \in Donations, Donate(t, k, amount)
        PROVE  Vault!Next
    BY <1>0, <2>5, DonateIsGiveAway DEF Vault!Next
  <2>6. ASSUME NEW a \in DelegateCandidates,
               AddDelegate(t, k, a) \/ RemoveDelegate(t, k, a)
        PROVE  Vault!Next \/ UNCHANGED Vault!vars
    <3>1. a \in Addresses
      BY InputsAssumption
    <3> QED
      BY <1>0, <2>6, <3>1, DelegateIsAppoint DEF Vault!Next
  <2> QED
    BY <1>2, <2>1, <2>2, <2>3, <2>4, <2>5, <2>6 DEF UseAccount
<1>3. ASSUME NEW s \in EvmKeys, NEW k \in Users, NEW intent \in Intents,
             NEW fee \in Fees, GatewayBurn(s, k, intent, fee)
      PROVE  Vault!Next
  BY <1>3, BurnIsCharge DEF Vault!Next
<1>4. CASE Tick
  <2>1. /\ slot' = slot + 1
        /\ UNCHANGED <<used, wallet, delegate, deposit, balance>>
    BY <1>4 DEF Tick
  <2>2. /\ Purses' = Purses /\ Accounts' = Accounts
        /\ Agents' = Agents /\ Stopped' = Stopped
    BY <2>1 DEF Purses, Accounts, Agents, Stopped
  <2> QED
    BY <2>1, <2>2 DEF Vault!Next, Vault!Wait
<1>5. CASE UNCHANGED vars
  BY <1>5 DEF vars, Vault!vars, Purses, Accounts, Agents, Stopped
<1> QED
  BY <1>1, <1>2, <1>3, <1>4, <1>5 DEF Next, SubmitBurn

\* The program implements the vault: whatever depositors, the operator and the
\* roles do, in any order, each instruction moves one account, of the depositor
\* it is for, as an account of its own would move.
THEOREM VaultIsImplemented == Spec => KeepsEachAccount
<1>1. Init => Vault!Init
  BY VaultInit
<1>2. TypeOK /\ DefaultKeyIsPowerless /\ [Next]_vars
        => [Vault!Next]_(Vault!vars)
  BY VaultStep
<1> QED
  BY <1>1, <1>2, TypeCorrect, DefaultKeyStaysPowerless, PTL
  DEF Spec, KeepsEachAccount, Vault!Spec

-----------------------------------------------------------------------------
(* What a burn takes, and what a denylisted address can still do. *)

LEMMA ChargeStep ==
  ASSUME TypeOK, NEW s \in EvmKeys, NEW user \in Users,
         NEW intent \in Intents, NEW fee \in Fees,
         GatewayBurn(s, user, intent, fee),
         NEW t, t = intent.spec.source_token,
         NEW k, k = intent.spec.source_depositor
  PROVE  /\ t \in Tokens /\ k \in Addresses
         /\ \A u \in Tokens, x \in Addresses :
              u # t \/ x # k => deposit'[u][x] = deposit[u][x]
         /\ Claim(t, k)' <= Claim(t, k)
         /\ \/ Claim(t, k)' = 0
            \/ Claim(t, k) - Claim(t, k)' = intent.spec.value + fee
         /\ \/ deposit'[t][k].withdrawing_amount
                 = deposit[t][k].withdrawing_amount
            \/ deposit'[t][k].available_amount = 0
<1> DEFINE d == deposit[t][k]
           charge == Charge(intent.spec, fee)
           a == FromAvailable(d, charge)
           w == FromWithdrawing(d, charge)
           e == ReducedBalance(d, charge)
<1>1. /\ t \in Tokens /\ k \in Addresses
      /\ intent.spec.value \in Nat /\ fee \in Nat
  BY BurnFacts
<1>2. /\ charge = intent.spec.value + fee /\ charge \in Nat
  BY <1>1 DEF Charge
<1>3. deposit \in [Tokens -> [Addresses -> GatewayDeposit]]
  BY DEF TypeOK
<1>4. d \in GatewayDeposit
  BY <1>1, <1>3
<1>5. deposit' = [deposit EXCEPT ![t][k] = e]
  BY <1>1, <1>3 DEF GatewayBurn
<1>6. deposit'[t][k] = e
  BY <1>1, <1>3, <1>5
<1>7. \A u \in Tokens, x \in Addresses :
        u # t \/ x # k => deposit'[u][x] = deposit[u][x]
  BY <1>1, <1>3, <1>5
<1> HIDE DEF charge
<1>8. /\ a \in Nat /\ w \in Nat
      /\ a + w = charge \/ a + w = ClaimOf(d)
      /\ e \in GatewayDeposit
      /\ ClaimOf(e) = ClaimOf(d) - (a + w)
      /\ e.withdrawing_amount = d.withdrawing_amount - w
      /\ w > 0 => e.available_amount = 0
  BY <1>2, <1>4, DeductionFacts
<1>9. ClaimOf(d) \in Nat /\ ClaimOf(e) \in Nat
  BY <1>4, <1>8, ClaimsAreNatural
<1>10. d.withdrawing_amount \in Nat
  BY <1>4, ConfigAssumption DEF GatewayDeposit, U64
<1> HIDE DEF a, w, e, d
<1>11. Claim(t, k) = ClaimOf(d) /\ Claim(t, k)' = ClaimOf(e)
  BY <1>6 DEF Claim, ClaimOf, d
<1>12. /\ ClaimOf(e) <= ClaimOf(d)
       /\ ClaimOf(e) = 0 \/ ClaimOf(d) - ClaimOf(e) = charge
  BY <1>8, <1>9
<1>13. e.withdrawing_amount = d.withdrawing_amount \/ e.available_amount = 0
  BY <1>8, <1>10
<1> QED
  BY <1>1, <1>2, <1>6, <1>7, <1>11, <1>12, <1>13 DEF d

\* A burn deducts value + fee, or all the depositor has, and withdrawing funds
\* only when the available ones are gone: for every intent and fee.
THEOREM BurnsTakeChargeOrEverything == Spec => BurnTakesChargeOrEverything
<1>1. TypeOK =>
        \A s \in EvmKeys, k \in Users, intent \in Intents, fee \in Fees :
          GatewayBurn(s, k, intent, fee) =>
            LET t == intent.spec.source_token
                d == intent.spec.source_depositor
            IN  /\ \/ Claim(t, d)' = 0
                   \/ Claim(t, d) - Claim(t, d)' = intent.spec.value + fee
                /\ \/ deposit'[t][d].withdrawing_amount
                        = deposit[t][d].withdrawing_amount
                   \/ deposit'[t][d].available_amount = 0
  BY ChargeStep
<1> QED
  BY <1>1, TypeCorrect, PTL DEF Spec, BurnTakesChargeOrEverything

\* A grant is made by one instruction.
LEMMA GrantsMove ==
  ASSUME [Next]_vars
  PROVE  \/ grants' = grants
         \/ \E t \in Tokens, k \in Keys, a \in DelegateCandidates :
              AddDelegate(t, k, a)
<1>1. ASSUME NEW x \in Keys, Administer(x)
      PROVE  grants' = grants
  BY <1>1
  DEF Administer, Initialize, UpdateWithdrawalDelay, AcceptOwnership,
      Pause, Unpause, TransferOwnership, UpdatePauser, UpdateDenylister,
      UpdateTokenController, UpdateFeeRecipient, AddBurnSigner,
      RemoveBurnSigner, AddToken, DenylistAccount, UndenylistAccount,
      SetWallet, SetDenylisted
<1>2. ASSUME NEW u \in Tokens, NEW e \in Keys, UseAccount(u, e)
      PROVE  grants' = grants \/ \E a \in DelegateCandidates :
                                   AddDelegate(u, e, a)
  BY <1>2
  DEF UseAccount, Deposit, DepositFor, DepositInto, InitiateWithdrawal,
      Withdraw, Donate, RemoveDelegate
<1>3. ASSUME NEW s \in EvmKeys, NEW user \in Users, NEW intent \in Intents,
             NEW fee \in Fees, GatewayBurn(s, user, intent, fee)
      PROVE  grants' = grants
  BY <1>3 DEF GatewayBurn
<1>4. CASE Tick \/ UNCHANGED vars
  BY <1>4 DEF Tick, vars
<1> QED
  BY <1>1, <1>2, <1>3, <1>4 DEF Next, SubmitBurn

LEMMA DenylistStep ==
  ASSUME TypeOK, TypeOK', [Next]_vars, NEW k \in denylisted, NEW t \in Tokens
  PROVE  /\ Claim(t, k)' <= Claim(t, k)
         /\ balance'[t][k] < balance[t][k] => Claims(t)' = Claims(t)
<1> DEFINE Unharmed == /\ Claim(t, k)' <= Claim(t, k)
                       /\ balance'[t][k] >= balance[t][k]
<1>0. /\ k \in Addresses /\ k \in Holders /\ k # Custody
      /\ Custody \in Holders
      /\ deposit \in [Tokens -> [Addresses -> GatewayDeposit]]
      /\ balance \in [Tokens -> [Holders -> Nat]]
      /\ balance[t][k] \in Nat /\ balance'[t][k] \in Nat
  BY SendersAreHolders DEF TypeOK
<1>1. \A u \in Tokens, d \in Addresses :
        /\ deposit[u][d] \in GatewayDeposit
        /\ deposit[u][d].available_amount \in Nat
        /\ deposit[u][d].withdrawing_amount \in Nat
  <2>1. \A d \in GatewayDeposit :
          d.available_amount \in Nat /\ d.withdrawing_amount \in Nat
    BY ConfigAssumption DEF GatewayDeposit, U64
  <2> QED
    BY <2>1, <1>0
<1>2. Claim(t, k) \in Nat
  BY <1>0, <1>1 DEF Claim
<1>3. CASE UNCHANGED <<deposit, requested>>
  <2>1. \A x \in Addresses : Claim(t, x)' = Claim(t, x)
    BY <1>3 DEF Claim
  <2>2. Claims(t)' = Claims(t)
    BY <2>1 DEF Claims
  <2> QED
    BY <1>0, <1>2, <2>1, <2>2
<1>4. ASSUME NEW u \in Tokens, NEW sender \in Keys, NEW d \in Addresses,
             NEW amount \in Amounts, DepositInto(u, sender, d, amount)
      PROVE  Unharmed
  <2>1. sender # k /\ d # k
    BY <1>4 DEF DepositInto, NeitherDenylisted, IsDenylisted
  <2>2. deposit'[t][k] = deposit[t][k]
    BY <1>0, <1>4, <2>1 DEF DepositInto
  <2>3. /\ sender \in Holders /\ sender # Custody /\ amount \in Nat
        /\ Holds(balance, u, sender, amount)
        /\ balance' = Transfer(balance, u, sender, Custody, amount)
    BY <1>4, SendersAreHolders, InputsAssumption, ConfigAssumption
    DEF DepositInto, U64
  <2>4. balance'[t][k] = balance[t][k]
    <3>1. CASE u = t
      BY <1>0, <2>1, <2>3, <3>1, TransferEffect
    <3>2. CASE u # t
      <4>1. balance'[t] = balance[t]
        BY <1>0, <2>3, <3>2, TransferEffect
      <4> QED
        BY <4>1
    <3> QED
      BY <3>1, <3>2
  <2> QED
    BY <1>0, <1>2, <2>2, <2>4 DEF Claim
<1>5. ASSUME NEW u \in Tokens, NEW d \in Keys, NEW amount \in Amounts,
             InitiateWithdrawal(u, d, amount)
      PROVE  Unharmed
  <2> DEFINE e == InitiatedWithdrawal(deposit[u][d], amount,
                                      wallet.withdrawal_delay)
  <2>1. /\ deposit' = [deposit EXCEPT ![u][d] = e]
        /\ balance' = balance
        /\ amount \in Nat /\ d \in Addresses
    BY <1>5, <1>0, InputsAssumption, ConfigAssumption, SendersAreHolders
    DEF InitiateWithdrawal, U64
  <2>2. /\ e.withdrawing_amount = deposit[u][d].withdrawing_amount + amount
        /\ e.available_amount = deposit[u][d].available_amount - amount
    BY <1>1, <2>1 DEF InitiatedWithdrawal, GatewayDeposit
  <2> HIDE DEF e
  <2>3. CASE u = t /\ d = k
    <3>1. deposit'[t][k] = e
      BY <1>0, <2>1, <2>3
    <3> QED
      BY <1>0, <1>1, <2>1, <2>2, <2>3, <3>1 DEF Claim
  <2>4. CASE u # t \/ d # k
    <3>1. deposit'[t][k] = deposit[t][k]
      BY <1>0, <2>1, <2>4
    <3> QED
      BY <1>0, <1>2, <2>1, <3>1 DEF Claim
  <2> QED
    BY <2>3, <2>4
<1>6. ASSUME NEW u \in Tokens, NEW d \in Keys, Withdraw(u, d)
      PROVE  Unharmed
  <2> DEFINE e == CompletedWithdrawal(deposit[u][d])
             amount == deposit[u][d].withdrawing_amount
  <2>1. /\ deposit' = [deposit EXCEPT ![u][d] = e] /\ d \in Addresses
        /\ balance' = Transfer(balance, u, Custody, d, amount)
        /\ Holds(balance, u, Custody, amount)
        /\ amount \in Nat
    BY <1>1, <1>6, SendersAreHolders DEF Withdraw
  <2>2. /\ e.withdrawing_amount = 0
        /\ e.available_amount = deposit[u][d].available_amount
    BY <1>1, <2>1 DEF CompletedWithdrawal, GatewayDeposit
  <2> HIDE DEF e, amount
  <2>3. balance'[t][k] = balance[t][k] \/ balance'[t][k] = balance[t][k] + amount
    <3>1. d \in Holders /\ d # Custody
      BY <2>1, SendersAreHolders
    <3>2. /\ balance'[u][d] = balance[u][d] + amount
          /\ \A h \in Holders : h # Custody /\ h # d =>
               balance'[u][h] = balance[u][h]
          /\ \A v \in Tokens : v # u => balance'[v] = balance[v]
      BY <1>0, <2>1, <3>1, TransferEffect
    <3>3. CASE u = t
      BY <1>0, <3>2, <3>3
    <3>4. CASE u # t
      <4>1. balance'[t] = balance[t]
        BY <3>2, <3>4
      <4> QED
        BY <4>1
    <3> QED
      BY <3>3, <3>4
  <2>4. CASE u = t /\ d = k
    <3>1. deposit'[t][k] = e
      BY <1>0, <2>1, <2>4
    <3> QED
      BY <1>0, <1>1, <2>1, <2>2, <2>3, <2>4, <3>1 DEF Claim
  <2>5. CASE u # t \/ d # k
    <3>1. deposit'[t][k] = deposit[t][k]
      BY <1>0, <2>1, <2>5
    <3>2. Claim(t, k)' = Claim(t, k)
      BY <3>1 DEF Claim
    <3> QED
      BY <1>0, <1>2, <2>1, <2>3, <3>2
  <2> QED
    BY <2>4, <2>5
<1>7. ASSUME NEW s \in EvmKeys, NEW user \in Users, NEW intent \in Intents,
             NEW fee \in Fees, GatewayBurn(s, user, intent, fee)
      PROVE  Unharmed
  <2> DEFINE spec == intent.spec
             u == spec.source_token
             d == spec.source_depositor
             taken == FromAvailable(deposit[u][d], Charge(spec, fee))
                        + FromWithdrawing(deposit[u][d], Charge(spec, fee))
             paid == taken - Vault!Least(taken, spec.value)
  <2>1. Claim(t, k)' <= Claim(t, k)
    <3>1. CASE t = u /\ k = d
      BY <1>7, <3>1, ChargeStep
    <3>2. CASE t # u \/ k # d
      <4>1. deposit'[t][k] = deposit[t][k]
        BY <1>0, <1>7, <3>2, ChargeStep
      <4>2. Claim(t, k)' = Claim(t, k)
        BY <4>1 DEF Claim
      <4> QED
        BY <1>2, <4>2
    <3> QED
      BY <3>1, <3>2
  <2>2. taken \in Nat /\ spec.value \in Nat /\ u \in Tokens
    <3>1. /\ FromAvailable(deposit[u][d], Charge(spec, fee)) \in Nat
          /\ FromWithdrawing(deposit[u][d], Charge(spec, fee)) \in Nat
          /\ spec.value \in Nat /\ u \in Tokens
      BY <1>7, BurnFacts
    <3> QED
      BY <3>1
  <2>3. paid \in Nat
    BY <2>2 DEF Vault!Least
  <2>4. Purses' = [Purses EXCEPT ![u][wallet.fee_recipient] = @ + paid]
    BY <1>7, BurnMovesPurse
  <2> HIDE DEF paid, u
  <2>5. Purses'[t][k] = Purses[t][k] \/ Purses'[t][k] = Purses[t][k] + paid
    <3>1. Purses[t] = [x \in Addresses |-> balance[t][x]]
      BY DEF Purses
    <3>2. t \in DOMAIN Purses /\ k \in DOMAIN Purses[t]
      BY <1>0, <3>1 DEF Purses
    <3> HIDE DEF Purses
    <3>3. CASE u = t
      <4>1. Purses'[t] = [Purses[t] EXCEPT ![wallet.fee_recipient] = @ + paid]
        BY <2>4, <3>2, <3>3
      <4> QED
        BY <3>2, <4>1
    <3>4. CASE u # t
      <4>1. Purses'[t] = Purses[t]
        BY <2>4, <3>2, <3>4
      <4> QED
        BY <4>1
    <3> QED
      BY <3>3, <3>4
  <2>6. Purses'[t][k] = balance'[t][k] /\ Purses[t][k] = balance[t][k]
    BY <1>0 DEF Purses
  <2> QED
    BY <1>0, <2>1, <2>3, <2>5, <2>6
<1>8. CASE Unharmed
  BY <1>0, <1>8
<1> HIDE DEF Unharmed
<1> QED
  BY <1>3, <1>4, <1>5, <1>6, <1>7, <1>8, DepositsMove, Zenon

\* A denylisted address puts no funds in, receives none into a claim, appoints
\* no delegate and is not appointed, whoever acts.
THEOREM DenylistIsKept == Spec => DenylistKeepsOut
<1>1. ASSUME TypeOK, [Next]_vars, NEW k \in denylisted,
             NEW g \in grants' \ grants
      PROVE  k \notin {g[2], g[3]}
  <2>1. PICK t \in Tokens, d \in Keys, a \in DelegateCandidates :
          AddDelegate(t, d, a)
    BY <1>1, GrantsMove
  <2>2. g = <<t, d, a>> /\ k # d /\ k # a
    BY <1>1, <2>1 DEF AddDelegate, NeitherDenylisted, IsDenylisted
  <2> QED
    BY <2>2
<1>2. TypeOK /\ TypeOK' /\ [Next]_vars =>
        \A k \in denylisted :
          /\ \A t \in Tokens :
               /\ Claim(t, k)' <= Claim(t, k)
               /\ balance'[t][k] < balance[t][k] => Claims(t)' = Claims(t)
          /\ \A g \in grants' \ grants : k \notin {g[2], g[3]}
  BY <1>1, DenylistStep
<1> QED
  BY <1>2, TypeCorrect, PTL DEF Spec, DenylistKeepsOut

-----------------------------------------------------------------------------
(* What stays in place for a burn. *)

\* The wallet is initialized for good, and an account once opened stays open.
LEMMA InitializedStays ==
  ASSUME TypeOK, [Next]_vars, wallet.initialized
  PROVE  wallet'.initialized
<1>1. wallet \in Wallet
  BY DEF TypeOK
<1>2. ASSUME NEW k \in Keys, Administer(k)
      PROVE  wallet'.initialized
  BY <1>1, <1>2
  DEF Administer, Initialize, UpdateWithdrawalDelay, AcceptOwnership,
      Pause, Unpause, TransferOwnership, UpdatePauser, UpdateDenylister,
      UpdateTokenController, UpdateFeeRecipient, AddBurnSigner,
      RemoveBurnSigner, AddToken, DenylistAccount, UndenylistAccount,
      SetWallet, SetDenylisted, Wallet
<1> QED
  BY <1>2, OnlyAdministration

LEMMA AccountsStayOpen ==
  ASSUME TypeOK, [Next]_vars, NEW t \in Tokens, NEW k \in Addresses,
         deposit[t][k].opened
  PROVE  deposit'[t][k].opened
<1>0. deposit \in [Tokens -> [Addresses -> GatewayDeposit]]
  BY DEF TypeOK
<1>1. ASSUME NEW u \in Tokens, NEW d \in Addresses, NEW e,
             deposit' = [deposit EXCEPT ![u][d] = e],
             e.opened = TRUE \/ e.opened = deposit[u][d].opened
      PROVE  deposit'[t][k].opened
  <2>1. CASE u = t /\ d = k
    <3>1. deposit'[t][k] = e
      BY <1>0, <1>1, <2>1
    <3> QED
      BY <1>1, <2>1, <3>1
  <2>2. CASE ~ (u = t /\ d = k)
    <3>1. deposit'[t][k] = deposit[t][k]
      BY <1>0, <1>1, <2>2
    <3> QED
      BY <3>1
  <2> QED
    BY <2>1, <2>2
<1>2. \A u \in Tokens, d \in Addresses : deposit[u][d] \in GatewayDeposit
  BY <1>0
<1>3. ASSUME NEW u \in Tokens, NEW sender \in Keys, NEW d \in Addresses,
             NEW amount \in Amounts, DepositInto(u, sender, d, amount)
      PROVE  deposit'[t][k].opened
  <2> DEFINE e == Deposited(deposit[u][d], amount)
  <2>1. deposit' = [deposit EXCEPT ![u][d] = e]
    BY <1>3 DEF DepositInto
  <2>2. e.opened = TRUE
    BY <1>2 DEF Deposited, GatewayDeposit
  <2> HIDE DEF e
  <2> QED
    BY <1>1, <2>1, <2>2
<1>4. ASSUME NEW u \in Tokens, NEW d \in Keys, NEW amount \in Amounts,
             InitiateWithdrawal(u, d, amount)
      PROVE  deposit'[t][k].opened
  <2> DEFINE e == InitiatedWithdrawal(deposit[u][d], amount,
                                      wallet.withdrawal_delay)
  <2>1. deposit' = [deposit EXCEPT ![u][d] = e] /\ d \in Addresses
    BY <1>4, SendersAreHolders DEF InitiateWithdrawal
  <2>2. e.opened = deposit[u][d].opened
    BY <1>2, <2>1 DEF InitiatedWithdrawal, GatewayDeposit
  <2> HIDE DEF e
  <2> QED
    BY <1>1, <2>1, <2>2
<1>5. ASSUME NEW u \in Tokens, NEW d \in Keys, Withdraw(u, d)
      PROVE  deposit'[t][k].opened
  <2> DEFINE e == CompletedWithdrawal(deposit[u][d])
  <2>1. deposit' = [deposit EXCEPT ![u][d] = e] /\ d \in Addresses
    BY <1>5, SendersAreHolders DEF Withdraw
  <2>2. e.opened = deposit[u][d].opened
    BY <1>2, <2>1 DEF CompletedWithdrawal, GatewayDeposit
  <2> HIDE DEF e
  <2> QED
    BY <1>1, <2>1, <2>2
<1>6. ASSUME NEW s \in EvmKeys, NEW user \in Users, NEW intent \in Intents,
             NEW fee \in Fees, GatewayBurn(s, user, intent, fee)
      PROVE  deposit'[t][k].opened
  <2> DEFINE u == intent.spec.source_token
             d == intent.spec.source_depositor
             e == ReducedBalance(deposit[u][d], Charge(intent.spec, fee))
  <2>1. u \in Tokens /\ d \in Addresses
    BY <1>6, BurnFacts
  <2>2. deposit' = [deposit EXCEPT ![u][d] = e]
    BY <1>0, <1>6, <2>1 DEF GatewayBurn
  <2>3. e.opened = deposit[u][d].opened
    BY <1>2, <2>1 DEF ReducedBalance, GatewayDeposit
  <2> HIDE DEF e, u, d
  <2> QED
    BY <1>1, <2>1, <2>2, <2>3
<1> QED
  BY <1>3, <1>4, <1>5, <1>6, DepositsMove

\* Custody that covers all claims covers the charge, and everything else that
\* a burn needs is either kept by every step or named in the property.
LEMMA CoveredStep ==
  ASSUME TypeOK, [Next]_vars, ListsWellFormed', LedgerNeverOverflows', TypeOK',
         NEW s \in EvmKeys, NEW k \in Users, NEW intent \in Intents,
         NEW fee \in Fees, CanBurn(s, k, intent, fee),
         (Claim(intent.spec.source_token, intent.spec.source_depositor)
            >= intent.spec.value + fee)',
         ~ wallet'.paused, s \in Range(wallet'.burn_signers),
         ~ (slot' > intent.max_block_height), intent.spec \notin used'
  PROVE  CanBurn(s, k, intent, fee)'
<1> DEFINE spec == intent.spec
           t == spec.source_token
           d == spec.source_depositor
<1>1. /\ t \in Tokens /\ d \in Addresses /\ spec.source_signer \in Addresses
      /\ intent.max_block_height \in Nat
      /\ spec.value \in Nat /\ fee \in Nat
  BY ConfigAssumption, InputsAssumption DEF BurnIntent, TransferSpec, U64
<1>2. /\ Running /\ deposit[t][d].opened /\ spec.value > 0
      /\ VerifyUserSignature(k, spec) /\ spec.addressed_here
      /\ ValidSignerAuthorization(t, d, spec.source_signer)
      /\ FeeAllowed(intent, fee) /\ ChargeFits(spec, fee)
  BY DEF CanBurn
<1>3. Running'
  BY <1>2, InitializedStays DEF Running
<1>4. deposit'[t][d].opened
  BY <1>1, <1>2, AccountsStayOpen
<1>5. IsCustody(t)'
  BY <1>1, <1>4 DEF ListsWellFormed
<1>6. ValidSignerAuthorization(t, d, spec.source_signer)'
  BY <1>1, <1>2, AuthorizationStep
<1>7. balance'[t][Custody] >= Charge(spec, fee)
  <2>1. Claim(t, d)' <= balance'[t][Custody]
    BY <1>1 DEF LedgerNeverOverflows
  <2>2. balance'[t][Custody] \in Nat
    BY <1>1, SendersAreHolders DEF TypeOK
  <2>3. Claim(t, d)' \in Nat
    <3>1. deposit'[t][d] \in GatewayDeposit
      BY <1>1 DEF TypeOK
    <3> QED
      BY <3>1, ClaimsAreNatural DEF Claim, ClaimOf
  <2>4. Claim(t, d)' >= spec.value + fee
    OBVIOUS
  <2> QED
    BY <1>1, <2>1, <2>2, <2>3, <2>4 DEF Charge
<1>8. intent.max_block_height >= slot'
  <2>1. slot' \in Nat
    BY InputsAssumption DEF TypeOK, U64
  <2> QED
    BY <1>1, <2>1
<1> QED
  BY <1>2, <1>3, <1>4, <1>5, <1>6, <1>7, <1>8
  DEF CanBurn, VerifyUserSignature, FeeAllowed, ChargeFits, Charge,
      IsBurnSigner, IsTransferSpecHashUsed

\* Nothing but a pause, the expiry, the removal of the burn signer, the spec's
\* use or a smaller claim takes away a burn that is possible: for any number of
\* depositors, delegates and intents.
THEOREM CoveredBurnsStayPossible == Spec => CoveredBurnStaysPossible
<1>1. TypeOK /\ TypeOK' /\ [Next]_vars /\ ListsWellFormed'
        /\ LedgerNeverOverflows'
        => \A s \in EvmKeys, k \in Users, intent \in Intents, fee \in Fees :
             LET spec == intent.spec
                 Covered == Claim(spec.source_token, spec.source_depositor)
                              >= spec.value + fee
             IN  /\ Covered /\ Covered'
                 /\ CanBurn(s, k, intent, fee)
                 => \/ CanBurn(s, k, intent, fee)'
                    \/ wallet'.paused
                    \/ s \notin Range(wallet'.burn_signers)
                    \/ slot' > intent.max_block_height
                    \/ spec \in used'
  BY CoveredStep
<1> QED
  BY <1>1, TypeCorrect, ListsAreWellFormed, LedgerFits, PTL
  DEF Spec, CoveredBurnStaysPossible
=============================================================================
