--------------------------- MODULE GatewayWallet ---------------------------
(***************************************************************************)
(* The GatewayWallet program (src/programs/gateway-wallet): users deposit  *)
(* SPL tokens into the program's custody accounts; the operator burns them *)
(* against burn intents in the depositor's or a delegate's name; what is   *)
(* not burned can be withdrawn after a delay.                              *)
(*                                                                         *)
(* One action is one instruction.  A Solana transaction is atomic, and     *)
(* every error (a require!, an account constraint, a checked u64 overflow) *)
(* reverts it, so an instruction that fails is an action that is not       *)
(* enabled.  The environment is the slot clock (Tick), SPL transfers made  *)
(* directly to custody (Donate), and the choice of who signs what.         *)
(*                                                                         *)
(* An operator that nothing uses, defined just before another one with the *)
(* same parameters, is a plausible mistake in it: the properties are       *)
(* required to fail when it takes the other's place (see README).          *)
(***************************************************************************)
EXTENDS Integers, Sequences, FiniteSets, Functions, PubkeyLists, SplToken

CONSTANTS
  Keys,                 \* public keys somebody can sign with
  DefaultKey,           \* Pubkey::default(): nobody can sign with it
  Tokens,               \* token mints
  Custody,              \* the holder that stands for the custody accounts
  UpgradeAuthority,     \* the key that may initialize the program
  EvmKeys,              \* EVM addresses, as the Pubkeys the program stores
  CustodyBump,          \* the bump of each token's custody PDA
  Intents,              \* the burn intents that burns may be asked for
  InitialBalance,       \* the token balances before the program is used
  U64Max,               \* the largest u64
  MaxSupportedTokens,   \* MAX_SUPPORTED_TOKENS
  MaxBurnSigners        \* MAX_BURN_SIGNERS

(* The inputs an instance explores. *)
CONSTANTS
  Amounts,              \* amounts to deposit or to start withdrawing
  Donations,            \* amounts sent to custody outside the program
  Fees,                 \* fees the operator puts into the burn data
  Delays,               \* withdrawal delays to configure
  Nominees,             \* addresses proposed for a role
  DelegateCandidates,   \* addresses proposed as delegates
  DenylistCandidates,   \* addresses the denylister may list
  MaxSlot               \* the last slot of a behaviour

Addresses == Keys \cup {DefaultKey}
Holders == Addresses \cup {Custody}
U64 == 0 .. U64Max
Specs == {intent.spec : intent \in Intents}

\* addressed_here: the version, source domain and source contract in the spec
\* are those of this program.  The spec's hash is the spec itself: keccak256
\* is taken to be free of collisions.
TransferSpec ==
  [salt : Nat, source_token : Tokens, source_depositor : Addresses,
   source_signer : Addresses, value : U64, addressed_here : BOOLEAN]

BurnIntent ==
  [spec : TransferSpec, max_fee : U64, max_block_height : U64]

ASSUME KeysAssumption ==
  /\ IsFiniteSet(Keys)
  /\ DefaultKey \notin Keys
  /\ UpgradeAuthority \in Keys
  /\ Custody \notin Addresses

ASSUME ConfigAssumption ==
  /\ U64Max \in Nat
  /\ MaxSupportedTokens \in Nat
  /\ MaxBurnSigners \in Nat
  /\ CustodyBump \in [Tokens -> Nat]
  /\ Intents \subseteq BurnIntent

ASSUME SupplyAssumption ==
  /\ InitialBalance \in [Tokens -> [Holders -> Nat]]
  /\ \A t \in Tokens : SumFunctionOnSet(InitialBalance[t], Holders) <= U64Max

ASSUME InputsAssumption ==
  /\ Amounts \subseteq U64 /\ Donations \subseteq U64
  /\ Fees \subseteq U64 /\ Delays \subseteq U64
  /\ Nominees \subseteq Addresses
  /\ DelegateCandidates \subseteq Addresses
  /\ DenylistCandidates \subseteq Addresses
  /\ MaxSlot \in U64

VARIABLES
  wallet,        \* the GatewayWallet account
  deposit,       \* the GatewayDeposit account of each token and depositor
  delegate,      \* the status in each GatewayDelegate account
  denylisted,    \* the addresses that have a Denylist account
  used,          \* the specs that have a UsedTransferSpecHash account
  balance,       \* SPL token balances: custody, and each key's own accounts
  slot,          \* the cluster's clock
  burned,        \* history: the GatewayBurned events of each spec
  requested,     \* history: slot and delay when the withdrawal in progress
                 \* was last initiated
  grants,        \* history: the DelegateAdded events
  donated        \* history: tokens sent to custody outside the program

vars == <<wallet, deposit, delegate, denylisted, used, balance, slot,
          burned, requested, grants, donated>>

-----------------------------------------------------------------------------
(* The accounts. *)

DelegateStatus == {"NoAccount", "Unauthorized", "Authorized", "Revoked"}

Wallet ==
  [initialized : BOOLEAN, owner : Addresses, pending_owner : Addresses,
   pauser : Addresses, denylister : Addresses, token_controller : Addresses,
   fee_recipient : Addresses, withdrawal_delay : U64, paused : BOOLEAN,
   supported_tokens : Seq(Tokens), custody_token_account_bumps : Seq(Nat),
   burn_signers : Seq(EvmKeys)]

NoWallet ==
  [initialized |-> FALSE, owner |-> DefaultKey, pending_owner |-> DefaultKey,
   pauser |-> DefaultKey, denylister |-> DefaultKey,
   token_controller |-> DefaultKey, fee_recipient |-> DefaultKey,
   withdrawal_delay |-> 0, paused |-> FALSE, supported_tokens |-> <<>>,
   custody_token_account_bumps |-> <<>>, burn_signers |-> <<>>]

GatewayDeposit ==
  [opened : BOOLEAN, available_amount : U64, withdrawing_amount : U64,
   withdrawal_block : U64]

NoDeposit ==
  [opened |-> FALSE, available_amount |-> 0, withdrawing_amount |-> 0,
   withdrawal_block |-> 0]

NoRequest == [slot |-> 0, delay |-> 0]

GatewayBurned ==
  [value : Nat, fee : Nat, from_available : Nat, from_withdrawing : Nat]

RunningWhilePaused == wallet.initialized
Running == wallet.initialized /\ ~ wallet.paused

IsTokenSupported(t) == t \in Range(wallet.supported_tokens)
IsBurnSigner(s) == s \in Range(wallet.burn_signers)
IsDenylisted(k) == k \in denylisted

FirstNotDenylisted(a, b) == ~ IsDenylisted(a)
NeitherDenylisted(a, b) == ~ IsDenylisted(a) /\ ~ IsDenylisted(b)

CustodyTokenAccountBump(t) ==
  wallet.custody_token_account_bumps[FirstIndex(wallet.supported_tokens, t)]

\* The custody account an instruction is given is the PDA with the stored bump.
IsCustody(t) ==
  IsTokenSupported(t) /\ CustodyTokenAccountBump(t) = CustodyBump[t]

-----------------------------------------------------------------------------
(* GatewayDeposit: what a handler does to one deposit account. *)

Lesser(a, b) == IF a <= b THEN a ELSE b

\* initialize_if_needed and deposit.
Deposited(d, amount) ==
  [d EXCEPT !.opened = TRUE, !.available_amount = @ + amount]

KeepsEarlierBlock(d, amount, delay) ==
  [d EXCEPT !.available_amount   = @ - amount,
            !.withdrawing_amount = @ + amount,
            !.withdrawal_block   = IF @ > 0 THEN @ ELSE slot + delay]

\* initiate_withdrawal: the delay starts over for everything in withdrawal.
InitiatedWithdrawal(d, amount, delay) ==
  [d EXCEPT !.available_amount   = @ - amount,
            !.withdrawing_amount = @ + amount,
            !.withdrawal_block   = slot + delay]

KeepsWithdrawingAmount(d) == [d EXCEPT !.withdrawal_block = 0]

CompletedWithdrawal(d) ==
  [d EXCEPT !.withdrawing_amount = 0, !.withdrawal_block = 0]

\* reduce_balance: available first, then withdrawing, as far as they reach.
\* The withdrawal block stays.
FromAvailable(d, value) == Lesser(d.available_amount, value)

TakesBeyondWithdrawing(d, value) == value - FromAvailable(d, value)

FromWithdrawing(d, value) ==
  Lesser(d.withdrawing_amount, value - FromAvailable(d, value))

ReducesAvailableOnly(d, value) ==
  [d EXCEPT !.available_amount = @ - FromAvailable(d, value)]

ReducedBalance(d, value) ==
  [d EXCEPT !.available_amount   = @ - FromAvailable(d, value),
            !.withdrawing_amount = @ - FromWithdrawing(d, value)]

-----------------------------------------------------------------------------
(* Initialization and the owner's instructions.  None of them looks at     *)
(* paused.                                                                 *)

SetWallet(w) ==
  /\ wallet' = w
  /\ UNCHANGED <<deposit, delegate, denylisted, used, balance, slot,
                 burned, requested, grants, donated>>

IsOwner(signer) == wallet.initialized /\ signer = wallet.owner

Initialize(signer, delay) ==
  /\ ~ wallet.initialized
  /\ signer = UpgradeAuthority
  /\ delay > 0
  /\ SetWallet([wallet EXCEPT
       !.initialized = TRUE, !.owner = signer, !.pauser = signer,
       !.denylister = signer, !.token_controller = signer,
       !.fee_recipient = signer, !.withdrawal_delay = delay])

\* A nomination replaces the one before; DefaultKey withdraws it.
TransferOwnership(signer, new_owner) ==
  /\ IsOwner(signer)
  /\ SetWallet([wallet EXCEPT !.pending_owner = new_owner])

AcceptOwnership(signer) ==
  /\ wallet.initialized
  /\ signer = wallet.pending_owner
  /\ SetWallet([wallet EXCEPT !.owner = wallet.pending_owner,
                              !.pending_owner = DefaultKey])

UpdatePauser(signer, new_pauser) ==
  /\ IsOwner(signer)
  /\ new_pauser # DefaultKey
  /\ SetWallet([wallet EXCEPT !.pauser = new_pauser])

UpdateDenylister(signer, new_denylister) ==
  /\ IsOwner(signer)
  /\ new_denylister # DefaultKey
  /\ SetWallet([wallet EXCEPT !.denylister = new_denylister])

UpdateTokenController(signer, new_token_controller) ==
  /\ IsOwner(signer)
  /\ new_token_controller # DefaultKey
  /\ SetWallet([wallet EXCEPT !.token_controller = new_token_controller])

UpdateFeeRecipient(signer, new_fee_recipient) ==
  /\ IsOwner(signer)
  /\ new_fee_recipient # DefaultKey
  /\ SetWallet([wallet EXCEPT !.fee_recipient = new_fee_recipient])

UpdateWithdrawalDelay(signer, new_delay) ==
  /\ IsOwner(signer)
  /\ new_delay > 0
  /\ SetWallet([wallet EXCEPT !.withdrawal_delay = new_delay])

AddBurnSigner(signer, s) ==
  /\ IsOwner(signer)
  /\ s # DefaultKey
  /\ \/ /\ IsBurnSigner(s)
        /\ SetWallet(wallet)
     \/ /\ ~ IsBurnSigner(s)
        /\ Len(wallet.burn_signers) < MaxBurnSigners
        /\ SetWallet([wallet EXCEPT !.burn_signers = Append(@, s)])

RemoveBurnSigner(signer, s) ==
  /\ IsOwner(signer)
  /\ \/ /\ ~ IsBurnSigner(s)
        /\ SetWallet(wallet)
     \/ /\ IsBurnSigner(s)
        /\ SetWallet([wallet EXCEPT !.burn_signers = WithoutFirst(@, s)])

-----------------------------------------------------------------------------
(* The instructions of the pauser, the token controller and the denylister.*)

Pause(signer) ==
  /\ wallet.initialized
  /\ signer = wallet.pauser
  /\ SetWallet([wallet EXCEPT !.paused = TRUE])

Unpause(signer) ==
  /\ wallet.initialized
  /\ signer = wallet.pauser
  /\ SetWallet([wallet EXCEPT !.paused = FALSE])

RoomOrFull == Len(wallet.supported_tokens) <= MaxSupportedTokens
RoomForToken == Len(wallet.supported_tokens) < MaxSupportedTokens

\* The custody account is created with the token: a token is never removed.
AddToken(signer, t) ==
  /\ wallet.initialized
  /\ signer = wallet.token_controller
  /\ \/ /\ IsTokenSupported(t)
        /\ SetWallet(wallet)
     \/ /\ ~ IsTokenSupported(t)
        /\ RoomForToken
        /\ SetWallet([wallet EXCEPT
             !.supported_tokens = Append(@, t),
             !.custody_token_account_bumps = Append(@, CustodyBump[t])])

SetDenylisted(addresses) ==
  /\ denylisted' = addresses
  /\ UNCHANGED <<wallet, deposit, delegate, used, balance, slot,
                 burned, requested, grants, donated>>

DenylistAccount(signer, k) ==
  /\ wallet.initialized
  /\ signer = wallet.denylister
  /\ SetDenylisted(denylisted \cup {k})

UndenylistAccount(signer, k) ==
  /\ wallet.initialized
  /\ signer = wallet.denylister
  /\ k \in denylisted
  /\ SetDenylisted(denylisted \ {k})

-----------------------------------------------------------------------------
(* Deposits and withdrawals. *)

\* GatewayDeposit::deposit, with the accounts both instructions check.
DepositInto(t, sender, depositor, amount) ==
  /\ Running
  /\ IsCustody(t)
  /\ NeitherDenylisted(sender, depositor)
  /\ amount > 0
  /\ Holds(balance, t, sender, amount)
  /\ deposit[t][depositor].available_amount + amount <= U64Max
  /\ deposit' = [deposit EXCEPT ![t][depositor] = Deposited(@, amount)]
  /\ balance' = Transfer(balance, t, sender, Custody, amount)
  /\ UNCHANGED <<wallet, delegate, denylisted, used, slot,
                 burned, requested, grants, donated>>

Deposit(t, owner, amount) == DepositInto(t, owner, owner, amount)

DepositForAnybody(t, owner, depositor, amount) ==
  DepositInto(t, owner, depositor, amount)

DepositFor(t, owner, depositor, amount) ==
  /\ depositor # DefaultKey
  /\ DepositInto(t, owner, depositor, amount)

\* The owner of a denylisted address can still take its funds out.
InitiateWithdrawal(t, depositor, amount) ==
  LET d == deposit[t][depositor] IN
  /\ Running
  /\ d.opened
  /\ amount > 0
  /\ IsTokenSupported(t)
  /\ amount <= d.available_amount
  /\ d.withdrawing_amount + amount <= U64Max
  /\ slot + wallet.withdrawal_delay <= U64Max
  /\ deposit' = [deposit EXCEPT ![t][depositor] =
                   InitiatedWithdrawal(@, amount, wallet.withdrawal_delay)]
  /\ requested' = [requested EXCEPT ![t][depositor] =
                     [slot |-> slot, delay |-> wallet.withdrawal_delay]]
  /\ UNCHANGED <<wallet, delegate, denylisted, used, balance, slot,
                 burned, grants, donated>>

OnlyAtBlock(d) == slot = d.withdrawal_block
DelayElapsed(d) == slot >= d.withdrawal_block

Withdraw(t, depositor) ==
  LET d == deposit[t][depositor] IN
  /\ Running
  /\ IsCustody(t)
  /\ d.opened
  /\ d.withdrawing_amount > 0
  /\ DelayElapsed(d)
  /\ Holds(balance, t, Custody, d.withdrawing_amount)
  /\ deposit' = [deposit EXCEPT ![t][depositor] = CompletedWithdrawal(@)]
  /\ balance' = Transfer(balance, t, Custody, depositor, d.withdrawing_amount)
  /\ requested' = [requested EXCEPT ![t][depositor] = NoRequest]
  /\ UNCHANGED <<wallet, delegate, denylisted, used, slot,
                 burned, grants, donated>>

-----------------------------------------------------------------------------
(* Delegates. *)

SetDelegate(t, depositor, k, status) ==
  /\ delegate' = [delegate EXCEPT ![t][depositor][k] = status]
  /\ UNCHANGED <<wallet, deposit, denylisted, used, balance, slot,
                 burned, requested, donated>>

AddDelegate(t, depositor, k) ==
  /\ Running
  /\ k # DefaultKey
  /\ k # depositor
  /\ NeitherDenylisted(depositor, k)
  /\ IsTokenSupported(t)
  /\ SetDelegate(t, depositor, k, "Authorized")
  /\ grants' = grants \cup {<<t, depositor, k>>}

ClosedStatus(status) == "NoAccount"

\* Only an authorization changes; a revoked one is left as it is.
RemovedStatus(status) == IF status = "Authorized" THEN "Revoked" ELSE status

RemoveDelegate(t, depositor, k) ==
  /\ Running
  /\ k # DefaultKey
  /\ ~ IsDenylisted(depositor)
  /\ IsTokenSupported(t)
  /\ delegate[t][depositor][k] # "NoAccount"
  /\ SetDelegate(t, depositor, k, RemovedStatus(delegate[t][depositor][k]))
  /\ UNCHANGED grants

\* Both a valid and a revoked authorization count.
WasEverAuthorizedForBalance(t, depositor, k) ==
  k = depositor \/ delegate[t][depositor][k] # "Unauthorized"

AuthorizedNow(t, depositor, k) ==
  k = depositor \/ delegate[t][depositor][k] = "Authorized"

AuthorizedForAnyToken(t, depositor, k) ==
  \/ k = depositor
  \/ \E any \in Tokens :
       /\ delegate[any][depositor][k] # "NoAccount"
       /\ WasEverAuthorizedForBalance(any, depositor, k)

\* The depositor, or a signer whose GatewayDelegate account for this token and
\* depositor the instruction is given.
ValidSignerAuthorization(t, depositor, k) ==
  \/ k = depositor
  \/ /\ delegate[t][depositor][k] # "NoAccount"
     /\ WasEverAuthorizedForBalance(t, depositor, k)

-----------------------------------------------------------------------------
(* Burns. *)

ReplayUnchecked(spec) == FALSE
IsTransferSpecHashUsed(spec) == spec \in used

\* value + fee is a checked u64 addition.
WrappingCharge(spec, fee) == (spec.value + fee) % (U64Max + 1)
Charge(spec, fee) == spec.value + fee
ChargeFits(spec, fee) == Charge(spec, fee) <= U64Max

MaxFeeUnchecked(intent, fee) == TRUE
FeeAllowed(intent, fee) == intent.max_fee >= fee

\* Who has signed an intent, for all that gateway_burn can tell.  The signature
\* it asks about is over bytes of the transaction's instruction; those are the
\* intent's own if this instruction is the burn.  If it is a program that calls
\* gateway_burn, they are its own (see BurnVerification).
CalledByProgram == "CalledByProgram"
Users == Keys \cup {CalledByProgram}

\* In a top-level burn the Ed25519 program has verified a signature over this
\* intent with the key at the intent's own source_signer field; otherwise
\* nothing is known of the intent.
VerifyUserSignature(user, spec) ==
  user # CalledByProgram => user = spec.source_signer

\* Every check of the burn instruction, in the order of the code: the intent
\* is signed by user, and together with the fee by burn_signer.
CanBurn(burn_signer, user, intent, fee) ==
  LET spec == intent.spec
      t == spec.source_token
  IN
  /\ Running
  /\ IsCustody(t)
  /\ deposit[t][spec.source_depositor].opened
  /\ IsBurnSigner(burn_signer)
  /\ spec.value > 0
  /\ VerifyUserSignature(user, spec)
  /\ intent.max_block_height >= slot
  /\ spec.addressed_here
  /\ ValidSignerAuthorization(t, spec.source_depositor, spec.source_signer)
  /\ FeeAllowed(intent, fee)
  /\ ChargeFits(spec, fee)
  /\ balance[t][Custody] >= Charge(spec, fee)
  /\ ~ IsTransferSpecHashUsed(spec)

\* The fee is what the deduction leaves above the value (saturating_sub).
ActualFee(deducted, value) == IF deducted > value THEN deducted - value ELSE 0

Settlement(spec, deducted) ==
  LET fee == ActualFee(deducted, spec.value)
  IN  [fee |-> fee, burn |-> deducted - fee]

ClaimsWholeValue(spec, settled, fromAvailable, fromWithdrawing) ==
  [value |-> spec.value, fee |-> settled.fee,
   from_available |-> fromAvailable, from_withdrawing |-> fromWithdrawing]

\* The GatewayBurned event reports what was burned, not what was asked for.
BurnEvent(spec, settled, fromAvailable, fromWithdrawing) ==
  [value |-> settled.burn, fee |-> settled.fee,
   from_available |-> fromAvailable, from_withdrawing |-> fromWithdrawing]

GatewayBurn(burn_signer, user, intent, fee) ==
  LET spec == intent.spec
      t == spec.source_token
      d == deposit[t][spec.source_depositor]
      fromAvailable == FromAvailable(d, Charge(spec, fee))
      fromWithdrawing == FromWithdrawing(d, Charge(spec, fee))
      settled == Settlement(spec, fromAvailable + fromWithdrawing)
  IN
  /\ CanBurn(burn_signer, user, intent, fee)
  /\ used' = used \cup {spec}
  /\ deposit' = [deposit EXCEPT ![t][spec.source_depositor] =
                   ReducedBalance(@, Charge(spec, fee))]
  /\ balance' = Burn(Transfer(balance, t, Custody, wallet.fee_recipient,
                              settled.fee),
                     t, Custody, settled.burn)
  /\ burned' = [burned EXCEPT ![spec] = Append(@,
                  BurnEvent(spec, settled, fromAvailable, fromWithdrawing))]
  /\ UNCHANGED <<wallet, delegate, denylisted, slot, requested, grants,
                 donated>>

-----------------------------------------------------------------------------
(* The environment. *)

\* Anybody can send tokens to a custody account that exists.
Donate(t, k, amount) ==
  /\ IsTokenSupported(t)
  /\ Holds(balance, t, k, amount)
  /\ balance' = Transfer(balance, t, k, Custody, amount)
  /\ donated' = [donated EXCEPT ![t] = @ + amount]
  /\ UNCHANGED <<wallet, deposit, delegate, denylisted, used, slot,
                 burned, requested, grants>>

Tick ==
  /\ slot < MaxSlot
  /\ slot' = slot + 1
  /\ UNCHANGED <<wallet, deposit, delegate, denylisted, used, balance,
                 burned, requested, grants, donated>>

-----------------------------------------------------------------------------
Init ==
  /\ wallet = NoWallet
  /\ deposit = [t \in Tokens |-> [k \in Addresses |-> NoDeposit]]
  /\ delegate = [t \in Tokens |->
                  [d \in Addresses |-> [k \in Addresses |-> "NoAccount"]]]
  /\ denylisted = {}
  /\ used = {}
  /\ balance = InitialBalance
  /\ slot = 0
  /\ burned = [spec \in Specs |-> <<>>]
  /\ requested = [t \in Tokens |-> [k \in Addresses |-> NoRequest]]
  /\ grants = {}
  /\ donated = [t \in Tokens |-> InitialBalance[t][Custody]]

Administer(signer) ==
  \/ \E delay \in Delays :
       Initialize(signer, delay) \/ UpdateWithdrawalDelay(signer, delay)
  \/ AcceptOwnership(signer) \/ Pause(signer) \/ Unpause(signer)
  \/ \E k \in Nominees :
       \/ TransferOwnership(signer, k)
       \/ UpdatePauser(signer, k)
       \/ UpdateDenylister(signer, k)
       \/ UpdateTokenController(signer, k)
       \/ UpdateFeeRecipient(signer, k)
  \/ \E s \in EvmKeys \cup {DefaultKey} :
       AddBurnSigner(signer, s) \/ RemoveBurnSigner(signer, s)
  \/ \E t \in Tokens : AddToken(signer, t)
  \/ \E k \in DenylistCandidates :
       DenylistAccount(signer, k) \/ UndenylistAccount(signer, k)

UseAccount(t, k) ==
  \/ \E amount \in Amounts :
       \/ Deposit(t, k, amount)
       \/ InitiateWithdrawal(t, k, amount)
       \/ \E depositor \in Addresses : DepositFor(t, k, depositor, amount)
  \/ Withdraw(t, k)
  \/ \E amount \in Donations : Donate(t, k, amount)
  \/ \E a \in DelegateCandidates :
       AddDelegate(t, k, a) \/ RemoveDelegate(t, k, a)

SubmitBurn ==
  \E s \in EvmKeys, k \in Users, intent \in Intents, fee \in Fees :
    GatewayBurn(s, k, intent, fee)

Next ==
  \/ \E k \in Keys : Administer(k)
  \/ \E t \in Tokens, k \in Keys : UseAccount(t, k)
  \/ SubmitBurn
  \/ Tick

Spec == Init /\ [][Next]_vars

\* The cluster's clock never stops for good, and a depositor whose withdrawal
\* keeps becoming possible eventually takes it.  Nobody else is fair.
LiveSpec ==
  /\ Spec
  /\ WF_vars(Tick)
  /\ \A t \in Tokens, k \in Keys : SF_vars(Withdraw(t, k))
=============================================================================
