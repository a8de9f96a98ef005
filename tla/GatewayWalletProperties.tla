---------------------- MODULE GatewayWalletProperties ----------------------
(***************************************************************************)
(* What the GatewayWallet program promises its depositors, its operator and*)
(* the holders of its roles.                                               *)
(***************************************************************************)
EXTENDS GatewayWallet

\* Every account holds data of its declared type; the u64 fields of a deposit
\* account (state.rs GatewayDeposit) are within u64.
TypeOK ==
  /\ wallet \in Wallet
  /\ deposit \in [Tokens -> [Addresses -> GatewayDeposit]]
  /\ delegate \in [Tokens -> [Addresses -> [Addresses -> DelegateStatus]]]
  /\ denylisted \in SUBSET Addresses
  /\ used \in SUBSET Specs
  /\ balance \in [Tokens -> [Holders -> Nat]]
  /\ slot \in 0 .. MaxSlot
  /\ burned \in [Specs -> Seq(GatewayBurned)]
  /\ requested \in [Tokens -> [Addresses -> [slot : U64, delay : U64]]]
  /\ grants \in SUBSET (Tokens \X Addresses \X Addresses)
  /\ donated \in [Tokens -> Nat]

-----------------------------------------------------------------------------
(* The custody accounts. *)

Claim(t, k) ==
  deposit[t][k].available_amount + deposit[t][k].withdrawing_amount

Claims(t) == [k \in Addresses |-> Claim(t, k)]
Owed(t) == SumFunctionOnSet(Claims(t), Addresses)

\* Custody holds exactly what the deposit accounts add up to, and what was
\* sent to it from outside: no sequence of deposits, withdrawals and burns
\* leaves a depositor's claim uncovered or strands tokens in custody.
CustodyAccounted ==
  \A t \in Tokens : balance[t][Custody] = Owed(t) + donated[t]

EventsOf(t) == {spec \in Specs : spec.source_token = t /\ burned[spec] # <<>>}

BurnedValue(t) == [spec \in EventsOf(t) |-> burned[spec][1].value]

\* Tokens are destroyed only by burns, and the GatewayBurned events name every
\* token destroyed: supply left and values burned make up the initial supply.
BurnsAccounted ==
  \A t \in Tokens :
    SumFunctionOnSet(balance[t], Holders)
      + SumFunctionOnSet(BurnedValue(t), EventsOf(t))
    = SumFunctionOnSet(InitialBalance[t], Holders)

\* The checked additions to a deposit account never reject a deposit that the
\* sender can pay, nor a withdrawal that the depositor can cover.
LedgerNeverOverflows ==
  \A t \in Tokens, k \in Addresses :
    /\ \A sender \in Keys : Claim(t, k) + balance[t][sender] <= U64Max
    /\ Claim(t, k) <= balance[t][Custody]

-----------------------------------------------------------------------------
(* Burns. *)

\* A transfer spec is charged at most once, however many intents with other
\* fees, expiries or signers there are for it: UsedTransferSpecHash exists
\* exactly for the specs that have a GatewayBurned event.
ChargedOnce ==
  \A spec \in Specs :
    /\ Len(burned[spec]) <= 1
    /\ spec \in used <=> burned[spec] # <<>>

\* A burn takes no more than an intent for its spec allows: at most the value, a
\* fee only on top of the whole value, and never above the intent's max_fee.
\* What was deducted is what was burned and charged.
BurnWithinMandate ==
  \A spec \in Specs : \A i \in DOMAIN burned[spec] :
    LET e == burned[spec][i] IN
    /\ e.value <= spec.value
    /\ e.fee > 0 => e.value = spec.value
    /\ \E intent \in Intents : intent.spec = spec /\ e.fee <= intent.max_fee
    /\ e.from_available + e.from_withdrawing = e.value + e.fee

\* A burn deducts value + fee, or all the depositor has: it never burns less
\* than the value while a claim is left.  Withdrawing funds are touched only
\* when the available ones are gone.
BurnTakesChargeOrEverything ==
  [][\A s \in EvmKeys, k \in Users, intent \in Intents, fee \in Fees :
       GatewayBurn(s, k, intent, fee) =>
         LET t == intent.spec.source_token
             d == intent.spec.source_depositor
         IN  /\ \/ Claim(t, d)' = 0
                \/ Claim(t, d) - Claim(t, d)' = intent.spec.value + fee
             /\ \/ deposit'[t][d].withdrawing_amount
                     = deposit[t][d].withdrawing_amount
                \/ deposit'[t][d].available_amount = 0]_vars

Matured(t, k) ==
  /\ requested[t][k].delay > 0
  /\ slot >= requested[t][k].slot + requested[t][k].delay

\* A depositor's claim shrinks in two ways only: the depositor withdraws, no
\* sooner than the delay that was in force when the withdrawal was last
\* initiated, and receives all of it; or one spec is used up that names as its
\* signer the depositor or somebody the depositor has made a delegate.  (That
\* this signer has signed it is BurnVerification's, for top-level burns.)
OutflowsAreConsented ==
  [][\A t \in Tokens, k \in Addresses : Claim(t, k)' < Claim(t, k) =>
       \/ /\ Matured(t, k)
          /\ deposit'[t][k].available_amount = deposit[t][k].available_amount
          /\ balance'[t][k] = balance[t][k] + Claim(t, k) - Claim(t, k)'
       \/ \E spec \in used' \ used :
            /\ spec.source_token = t
            /\ spec.source_depositor = k
            /\ \/ spec.source_signer = k
               \/ <<t, k, spec.source_signer>> \in grants]_vars

\* Nobody but the operator can get in the way of a burn the claim covers: it
\* stays possible until the program is paused, the burn signer is removed, the
\* intent expires, the spec is used or the claim itself has gone down.
\* Revoking the delegate, denylisting, initiating a withdrawal and the
\* withdrawals of other depositors do not matter.
CoveredBurnStaysPossible ==
  [][\A s \in EvmKeys, k \in Users, intent \in Intents, fee \in Fees :
       LET spec == intent.spec
           Covered == Claim(spec.source_token, spec.source_depositor)
                        >= spec.value + fee
       IN  /\ Covered /\ Covered'
           /\ CanBurn(s, k, intent, fee)
           => \/ CanBurn(s, k, intent, fee)'
              \/ wallet'.paused
              \/ s \notin Range(wallet'.burn_signers)
              \/ slot' > intent.max_block_height
              \/ spec \in used']_vars

-----------------------------------------------------------------------------
(* Delegates, the denylist and the pause. *)

\* An address that was ever authorized stays so for burns: revoking it cannot
\* invalidate the intents it has signed (GatewayDelegate in state.rs).
EverAuthorizedForGood ==
  [][\A t \in Tokens, d \in Addresses, k \in Addresses :
       ValidSignerAuthorization(t, d, k) =>
         ValidSignerAuthorization(t, d, k)']_vars

\* A denylisted address puts no funds in, for itself or for others, receives
\* none, appoints no delegate and is not appointed.
DenylistKeepsOut ==
  [][\A k \in denylisted :
       /\ \A t \in Tokens :
            /\ Claim(t, k)' <= Claim(t, k)
            /\ balance'[t][k] < balance[t][k] => Claims(t)' = Claims(t)
       /\ \A g \in grants' \ grants : k \notin {g[2], g[3]}]_vars

\* While the program is paused no claim, delegation or spec changes, whatever
\* the roles do to the configuration meanwhile.
PauseFreezes ==
  [][wallet.paused =>
       UNCHANGED <<deposit, used, burned, delegate, grants>>]_vars

\* Delegates, denylist and pause leave the way out open: a withdrawal in
\* progress is completed, even if its depositor is denylisted, if the program
\* is not paused for good.
WithdrawalCompletes ==
  \A t \in Tokens, k \in Keys :
    []<>(~ wallet.paused) =>
      (deposit[t][k].withdrawing_amount > 0
         ~> deposit[t][k].withdrawing_amount = 0)

-----------------------------------------------------------------------------
(* The wallet as a vault with an account for everybody. *)

\* The withdrawal block of a deposit account counts while something is in
\* withdrawal; the block that a burn of everything leaves behind does not.
VaultAccount(d) ==
  [available   |-> d.available_amount,
   withdrawing |-> d.withdrawing_amount,
   ripe        |-> IF d.withdrawing_amount > 0 THEN d.withdrawal_block ELSE 0]

\* Custody, donations, roles, lists and what became of a delegate's account are
\* not seen; who has such an account was once appointed.
Purses == [t \in Tokens |-> [k \in Addresses |-> balance[t][k]]]

Accounts ==
  [t \in Tokens |-> [k \in Addresses |-> VaultAccount(deposit[t][k])]]

Agents ==
  {a \in Tokens \X Addresses \X Addresses :
     delegate[a[1]][a[2]][a[3]] # "NoAccount"}

Stopped == ~ wallet.initialized \/ wallet.paused

Vault ==
  INSTANCE WalletVault
    WITH Owners <- Addresses, Orders <- Intents, purse <- Purses,
         account <- Accounts, spent <- used, agents <- Agents,
         stopped <- Stopped

\* Pooled custody, withdrawals that are initiated again, blocks left behind by
\* burns, revoked delegates and partial burns make no difference to anybody:
\* each depositor has an account of its own (GatewayDeposit in state.rs), which
\* every instruction moves as the vault does.
KeepsEachAccount == Vault!Spec

-----------------------------------------------------------------------------
(* The configuration. *)

NoDuplicates(s) == \A i, j \in DOMAIN s : s[i] = s[j] => i = j

\* The lists stay within their account's space and name nothing twice, and the
\* bump found through a token's position is that token's: custody accounts
\* that exist can always be named by an instruction.
ListsWellFormed ==
  /\ Len(wallet.supported_tokens) <= MaxSupportedTokens
  /\ Len(wallet.burn_signers) <= MaxBurnSigners
  /\ NoDuplicates(wallet.supported_tokens)
  /\ NoDuplicates(wallet.burn_signers)
  /\ \A t \in Tokens : IsTokenSupported(t) => IsCustody(t)
  /\ \A t \in Tokens, k \in Addresses : deposit[t][k].opened => IsCustody(t)

\* A burn signer that the owner removes can burn nothing until it is added.
RemovedSignerCannotBurn ==
  [][\A k \in Keys, s \in EvmKeys :
       RemoveBurnSigner(k, s) => s \notin Range(wallet'.burn_signers)]_vars

\* No sequence of instructions gives the default key, which nobody can sign
\* with, a role, a claim, a delegation or a burn signer's power; only the
\* pending owner may be the default key.  An initialized wallet has an owner.
DefaultKeyIsPowerless ==
  /\ wallet.initialized =>
       /\ wallet.withdrawal_delay > 0
       /\ DefaultKey \notin {wallet.owner, wallet.pauser, wallet.denylister,
                             wallet.token_controller, wallet.fee_recipient}
  /\ ~ IsBurnSigner(DefaultKey)
  /\ \A t \in Tokens :
       /\ ~ deposit[t][DefaultKey].opened
       /\ \A k \in Addresses : delegate[t][k][DefaultKey] = "NoAccount"
=============================================================================
