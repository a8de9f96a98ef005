--------------------------- MODULE GatewayMinter ---------------------------
(***************************************************************************)
(* The GatewayMinter program (src/programs/gateway-minter): it pays tokens *)
(* out of its custody accounts against sets of transfers that an attester  *)
(* has signed, each transfer spec hash once.                               *)
(*                                                                         *)
(* One action is one instruction, except that gateway_mint, which works    *)
(* through the elements of its set one after the other and moves tokens for*)
(* each, is one action per element: Start (the checks of the header),      *)
(* MintElement, and Commit or Abort, by which the runtime keeps or undoes  *)
(* all the transaction has written.  Accounts that a transaction writes    *)
(* are locked for it, so nothing else happens while one runs.              *)
(*                                                                         *)
(* An operator that nothing uses, defined just before another one with the *)
(* same parameters, is a plausible mistake in it (see README).             *)
(***************************************************************************)
EXTENDS Integers, Sequences, FiniteSets, Functions, PubkeyLists, SplToken

CONSTANTS
  Keys,                 \* public keys somebody can sign with
  DefaultKey,           \* Pubkey::default(): nobody can sign with it
  Tokens,               \* token mints
  Custody,              \* the holder that stands for the custody accounts
  UpgradeAuthority,     \* the key that may initialize the program
  EvmKeys,              \* EVM addresses, as the Pubkeys the program stores
  CustodyBump,          \* the bump of each token's custody PDA
  Hashes,               \* transfer spec hashes
  Signatures,           \* <<a, s>>: EVM key a has signed attestation set s
  InitialBalance,       \* the token balances before the program is used
  U64Max,               \* the largest u64
  MaxSupportedTokens,   \* MAX_SUPPORTED_TOKENS
  MaxAttesters          \* MAX_ATTESTERS

(* The inputs an instance explores. *)
CONSTANTS
  BurnAmounts,          \* amounts of custody burns
  Fundings,             \* amounts sent to custody
  Nominees,             \* addresses proposed for a role
  MaxSlot               \* the last slot of a behaviour

Addresses == Keys \cup {DefaultKey}
Holders == Addresses \cup {Custody}
U64 == 0 .. U64Max

TokenAccount == [mint : Tokens, owner : Holders]

MintAttestationElement ==
  [destination_token : Tokens, destination_recipient : TokenAccount,
   value : U64, transfer_spec_hash : Hashes]

\* addressed_here: the version, destination domain and destination contract of
\* the set are those of this program.
MintAttestation ==
  [addressed_here : BOOLEAN, destination_caller : Addresses,
   max_block_height : U64, elements : Seq(MintAttestationElement)]

AttestationSets == {signature[2] : signature \in Signatures}

ASSUME KeysAssumption ==
  /\ IsFiniteSet(Keys)
  /\ DefaultKey \notin Keys
  /\ UpgradeAuthority \in Keys
  /\ Custody \notin Addresses

ASSUME ConfigAssumption ==
  /\ U64Max \in Nat
  /\ MaxSupportedTokens \in Nat
  /\ MaxAttesters \in Nat
  /\ CustodyBump \in [Tokens -> Nat]
  /\ IsFiniteSet(Hashes)
  /\ \A signature \in Signatures :
       /\ signature = <<signature[1], signature[2]>>
       /\ signature[1] \in EvmKeys
       /\ signature[2] \in MintAttestation

ASSUME SupplyAssumption ==
  /\ InitialBalance \in [Tokens -> [Holders -> Nat]]
  /\ \A t \in Tokens : SumFunctionOnSet(InitialBalance[t], Holders) <= U64Max

ASSUME InputsAssumption ==
  /\ BurnAmounts \subseteq U64 /\ Fundings \subseteq U64
  /\ Nominees \subseteq Addresses
  /\ MaxSlot \in U64

VARIABLES
  minter,         \* the GatewayMinter account
  used,           \* the hashes that have a UsedTransferSpecHash account
  balance,        \* SPL token balances: custody, and each key's own accounts
  slot,           \* the cluster's clock
  tx,             \* the gateway_mint transaction that runs, or NoTransaction
  minted,         \* history: the AttestationUsed events of each hash
  funded,         \* history: tokens that were sent to custody
  custody_burned  \* history: tokens burned from custody

vars ==
  <<minter, used, balance, slot, tx, minted, funded, custody_burned>>

-----------------------------------------------------------------------------
(* The accounts. *)

Minter ==
  [initialized : BOOLEAN, owner : Addresses, pending_owner : Addresses,
   pauser : Addresses, token_controller : Addresses, paused : BOOLEAN,
   enabled_attesters : Seq(EvmKeys), supported_tokens : Seq(Tokens),
   custody_token_account_bumps : Seq(Nat)]

NoMinter ==
  [initialized |-> FALSE, owner |-> DefaultKey, pending_owner |-> DefaultKey,
   pauser |-> DefaultKey, token_controller |-> DefaultKey, paused |-> FALSE,
   enabled_attesters |-> <<>>, supported_tokens |-> <<>>,
   custody_token_account_bumps |-> <<>>]

AttestationUsed == [token : Tokens, recipient : TokenAccount, value : U64]

\* A running transaction: its set, the element that comes next, and what an
\* abort goes back to.
NoTransaction == [next |-> 0]

Running == minter.initialized /\ ~ minter.paused

IsTokenSupported(t) == t \in Range(minter.supported_tokens)
IsAttesterEnabled(a) == a \in Range(minter.enabled_attesters)

LatestBump(t) ==
  minter.custody_token_account_bumps[Len(minter.supported_tokens)]

CustodyTokenAccountBump(t) ==
  minter.custody_token_account_bumps[FirstIndex(minter.supported_tokens, t)]

\* The program owns the account, its mint is supported, and it is the PDA with
\* the stored bump.
IsCustody(account) ==
  /\ account.owner = Custody
  /\ IsTokenSupported(account.mint)
  /\ CustodyTokenAccountBump(account.mint) = CustodyBump[account.mint]

-----------------------------------------------------------------------------
(* Initialization and the owner's instructions. *)

SetMinter(m) ==
  /\ tx = NoTransaction
  /\ minter' = m
  /\ UNCHANGED <<used, balance, slot, tx, minted, funded, custody_burned>>

IsOwner(signer) == minter.initialized /\ signer = minter.owner

Initialize(signer) ==
  /\ ~ minter.initialized
  /\ signer = UpgradeAuthority
  /\ SetMinter([minter EXCEPT
       !.initialized = TRUE, !.owner = signer, !.pauser = signer,
       !.token_controller = signer])

TransferOwnership(signer, new_owner) ==
  /\ IsOwner(signer)
  /\ SetMinter([minter EXCEPT !.pending_owner = new_owner])

AcceptsWithoutNominee(signer) ==
  /\ minter.initialized
  /\ SetMinter([minter EXCEPT !.owner = minter.pending_owner,
                              !.pending_owner = DefaultKey])

AcceptOwnership(signer) ==
  /\ minter.initialized
  /\ signer = minter.pending_owner
  /\ SetMinter([minter EXCEPT !.owner = minter.pending_owner,
                              !.pending_owner = DefaultKey])

UpdatePauser(signer, new_pauser) ==
  /\ IsOwner(signer)
  /\ new_pauser # DefaultKey
  /\ SetMinter([minter EXCEPT !.pauser = new_pauser])

UpdateTokenController(signer, new_token_controller) ==
  /\ IsOwner(signer)
  /\ new_token_controller # DefaultKey
  /\ SetMinter([minter EXCEPT !.token_controller = new_token_controller])

AppendedTwice(list, a) == Append(list, a)

\* GatewayMinter::add_attester: adding an attester again changes nothing.
WithAttester(list, a) ==
  IF a \in Range(list) THEN list ELSE Append(list, a)

AddAttester(signer, a) ==
  /\ IsOwner(signer)
  /\ a # DefaultKey
  /\ IsAttesterEnabled(a) \/ Len(minter.enabled_attesters) < MaxAttesters
  /\ SetMinter([minter EXCEPT !.enabled_attesters = WithAttester(@, a)])

RemoveAttester(signer, a) ==
  /\ IsOwner(signer)
  /\ \/ /\ ~ IsAttesterEnabled(a)
        /\ SetMinter(minter)
     \/ /\ IsAttesterEnabled(a)
        /\ SetMinter([minter EXCEPT !.enabled_attesters = WithoutFirst(@, a)])

-----------------------------------------------------------------------------
(* The instructions of the pauser and the token controller. *)

Pause(signer) ==
  /\ minter.initialized
  /\ signer = minter.pauser
  /\ SetMinter([minter EXCEPT !.paused = TRUE])

Unpause(signer) ==
  /\ minter.initialized
  /\ signer = minter.pauser
  /\ SetMinter([minter EXCEPT !.paused = FALSE])

AddToken(signer, t) ==
  /\ minter.initialized
  /\ signer = minter.token_controller
  /\ \/ /\ IsTokenSupported(t)
        /\ SetMinter(minter)
     \/ /\ ~ IsTokenSupported(t)
        /\ Len(minter.supported_tokens) < MaxSupportedTokens
        /\ SetMinter([minter EXCEPT
             !.supported_tokens = Append(@, t),
             !.custody_token_account_bumps = Append(@, CustodyBump[t])])

RequestedAmount(held, amount) == amount

\* Up to the total amount in the custody account.
BurnAmount(held, amount) == IF held > amount THEN amount ELSE held

\* Not stopped by a pause.
BurnTokenCustody(signer, t, amount) ==
  LET burn_amount == BurnAmount(balance[t][Custody], amount) IN
  /\ tx = NoTransaction
  /\ minter.initialized
  /\ signer = minter.token_controller
  /\ IsCustody([mint |-> t, owner |-> Custody])
  /\ amount # 0
  /\ balance' = Burn(balance, t, Custody, burn_amount)
  /\ custody_burned' = [custody_burned EXCEPT ![t] = @ + burn_amount]
  /\ UNCHANGED <<minter, used, slot, tx, minted, funded>>

-----------------------------------------------------------------------------
(* Mints. *)

NeverExpired(attestation) == TRUE

NotExpired(attestation) == attestation.max_block_height >= slot

\* A set that names no caller can be submitted by anybody.
CallerAllowed(attestation, caller) ==
  attestation.destination_caller \in {DefaultKey, caller}

\* The checks before the first element.  attester is the signer recovered from
\* the signature over the set.
Start(attester, caller, attestation) ==
  /\ tx = NoTransaction
  /\ Running
  /\ <<attester, attestation>> \in Signatures
  /\ IsAttesterEnabled(attester)
  /\ attestation.elements # <<>>
  /\ attestation.addressed_here
  /\ NotExpired(attestation)
  /\ CallerAllowed(attestation, caller)
  /\ tx' = [next |-> 1, attestation |-> attestation,
            before |-> [used |-> used, balance |-> balance,
                        minted |-> minted]]
  /\ UNCHANGED <<minter, used, balance, slot, minted, funded, custody_burned>>

GatewayMint(attester, caller, attestation) ==
  Start(attester, caller, attestation)

\* reconstruct_attestation_bytes: the set as this program would have been
\* addressed, with the mints of the recipient accounts as destination tokens.
Reconstructed(caller, is_default, max_block_height, elements, recipients) ==
  [addressed_here |-> TRUE,
   destination_caller |->
     IF is_default THEN DefaultKey ELSE caller,
   max_block_height |-> max_block_height,
   elements |->
     [i \in DOMAIN elements |->
        [destination_token |-> recipients[i].mint,
         destination_recipient |-> recipients[i],
         value |-> elements[i].value,
         transfer_spec_hash |-> elements[i].transfer_spec_hash]]]

GatewayMintWithParams(attester, caller, is_default, max_height, elements, recipients) ==
  /\ elements # <<>>
  /\ Len(recipients) = Len(elements)
  /\ Start(attester, caller,
           Reconstructed(caller, is_default, max_height, elements, recipients))

UsedBeforeThisSet(hash) == hash \in tx.before.used
IsTransferSpecHashUsed(hash) == hash \in used

MatchesToken(e, recipient) == recipient.mint = e.destination_token

MatchesElement(e, recipient) ==
  /\ recipient.mint = e.destination_token
  /\ recipient = e.destination_recipient

\* The checks of the element that comes next, with the accounts the caller has
\* passed for it, and the token program's.
CanMintElement(custody, recipient) ==
  /\ tx # NoTransaction
  /\ tx.next <= Len(tx.attestation.elements)
  /\ LET e == tx.attestation.elements[tx.next] IN
     /\ IsCustody(custody)
     /\ ~ IsTransferSpecHashUsed(e.transfer_spec_hash)
     /\ custody.mint = e.destination_token
     /\ MatchesElement(e, recipient)
     /\ e.value > 0
     /\ Holds(balance, custody.mint, Custody, e.value)

MintElement(custody, recipient) ==
  /\ CanMintElement(custody, recipient)
  /\ LET e == tx.attestation.elements[tx.next] IN
     /\ used' = used \cup {e.transfer_spec_hash}
     /\ balance' = Transfer(balance, custody.mint, Custody, recipient.owner,
                            e.value)
     /\ minted' = [minted EXCEPT ![e.transfer_spec_hash] = Append(@,
                     [token |-> e.destination_token,
                      recipient |-> e.destination_recipient,
                      value |-> e.value])]
  /\ tx' = [tx EXCEPT !.next = @ + 1]
  /\ UNCHANGED <<minter, slot, funded, custody_burned>>

LastElementLeft == tx.next >= Len(tx.attestation.elements)

\* MintAttestation::next has no further element.
NoElementLeft == tx.next > Len(tx.attestation.elements)

Commit ==
  /\ tx # NoTransaction
  /\ NoElementLeft
  /\ tx' = NoTransaction
  /\ UNCHANGED <<minter, used, balance, slot, minted, funded, custody_burned>>

\* An element fails, or the caller has passed the wrong accounts or number of
\* accounts, or the transaction fails elsewhere.
Abort ==
  /\ tx # NoTransaction
  /\ tx' = NoTransaction
  /\ used' = tx.before.used
  /\ balance' = tx.before.balance
  /\ minted' = tx.before.minted
  /\ UNCHANGED <<minter, slot, funded, custody_burned>>

-----------------------------------------------------------------------------
(* The environment. *)

\* Anybody can send tokens to a custody account that exists; the operator
\* funds it this way.
Fund(t, k, amount) ==
  /\ tx = NoTransaction
  /\ IsTokenSupported(t)
  /\ Holds(balance, t, k, amount)
  /\ balance' = Transfer(balance, t, k, Custody, amount)
  /\ funded' = [funded EXCEPT ![t] = @ + amount]
  /\ UNCHANGED <<minter, used, slot, tx, minted, custody_burned>>

Tick ==
  /\ tx = NoTransaction
  /\ slot < MaxSlot
  /\ slot' = slot + 1
  /\ UNCHANGED <<minter, used, balance, tx, minted, funded, custody_burned>>

-----------------------------------------------------------------------------
Init ==
  /\ minter = NoMinter
  /\ used = {}
  /\ balance = InitialBalance
  /\ slot = 0
  /\ tx = NoTransaction
  /\ minted = [hash \in Hashes |-> <<>>]
  /\ funded = [t \in Tokens |-> InitialBalance[t][Custody]]
  /\ custody_burned = [t \in Tokens |-> 0]

Administer(signer) ==
  \/ Initialize(signer)
  \/ AcceptOwnership(signer) \/ Pause(signer) \/ Unpause(signer)
  \/ \E k \in Nominees :
       \/ TransferOwnership(signer, k)
       \/ UpdatePauser(signer, k)
       \/ UpdateTokenController(signer, k)
  \/ \E a \in EvmKeys \cup {DefaultKey} :
       AddAttester(signer, a) \/ RemoveAttester(signer, a)
  \/ \E t \in Tokens :
       \/ AddToken(signer, t)
       \/ \E amount \in BurnAmounts : BurnTokenCustody(signer, t, amount)

RecipientsOf(attestation) ==
  [i \in DOMAIN attestation.elements |->
     attestation.elements[i].destination_recipient]

\* Elements and recipients of any two signed sets, put together by the caller.
SubmitMint(attester, caller) ==
  \E attestation \in AttestationSets :
    \/ GatewayMint(attester, caller, attestation)
    \/ \E other \in AttestationSets, is_default \in BOOLEAN :
         GatewayMintWithParams(attester, caller, is_default,
                               attestation.max_block_height,
                               attestation.elements, RecipientsOf(other))

ProcessMint ==
  \/ \E custody \in TokenAccount, recipient \in TokenAccount :
       MintElement(custody, recipient)
  \/ Commit
  \/ Abort

Next ==
  \/ \E k \in Keys : Administer(k)
  \/ \E a \in EvmKeys, k \in Keys : SubmitMint(a, k)
  \/ ProcessMint
  \/ \E t \in Tokens, k \in Keys, amount \in Fundings : Fund(t, k, amount)
  \/ Tick

Spec == Init /\ [][Next]_vars
=============================================================================
