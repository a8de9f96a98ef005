# A verification development for the Solana Gateway contracts

The repository holds two Anchor programs. **GatewayWallet**
(`src/programs/gateway-wallet`) keeps depositors' SPL tokens in custody accounts
and burns them on an operator's request when the depositor, or a delegate, has
signed a burn intent. **GatewayMinter** (`src/programs/gateway-minter`) pays
tokens out of its own custody accounts when an attester has signed a set of
mints. A small crate, `src/shared`, holds what both use: the accounts that mark a
transfer spec hash as used, and the recovery of EVM signers.

This directory holds TLA+ modules that model the state-changing code of both
programs, TLC runs that check them on small instances, and proofs, checked by
TLAPS, of the properties that matter most for all values of the constants.

1. [The system](#the-system): the parts, their state and operations, what is
   hard about each, and what makes it correct
2. [The modules](#the-modules) and how they correspond to the code
3. [The properties](#the-properties)
4. [The runs](#the-runs), their bounds, and fairness
5. [The proofs](#the-proofs)
6. [What is not covered](#what-is-not-covered)
7. [The plan](#the-plan)

## The system

Every part below is a component of `PROJECT.json`, which also lists the hazards
at their source lines.

| component | state | operations | hard | correct when |
|---|---|---|---|---|
| wallet: deposits and withdrawals | one `GatewayDeposit` per token and depositor (`available_amount`, `withdrawing_amount`, `withdrawal_block`), the custody token accounts, the slot clock | `deposit`, `deposit_for`, `initiate_withdrawal`, `withdraw` | withdrawals that are initiated again, delay changes, a block left behind by a burn, races with burns, checked u64 sums | custody covers every claim; nothing leaves before the delay; a withdrawal in progress completes |
| wallet: burns | `UsedTransferSpecHash` accounts, deposits, custody, the `GatewayBurned` event | `gateway_burn` | claims that do not cover value and fee, second intents on one spec, expiry, fees at the limits | one charge per spec, within what its intents allow, all of it accounted for |
| wallet: delegates | one `GatewayDelegate` (authorized or revoked) per token, depositor and delegate | `add_delegate`, `remove_delegate` | a revocation between signature and burn | a revocation invalidates nothing that was signed; one token's delegate has no say over another's |
| wallet: denylist | one `Denylist` account per address | `denylist`, `undenylist` | an address listed between two steps, in each role it can play | no way in for a listed address, and the way out stays open |
| wallet: roles, tokens, burn signers, pause | the `GatewayWallet` account | `initialize`, ownership in two steps, `update_*`, `add_token`, `add_burn_signer`, `remove_burn_signer`, `pause`, `unpause` | lists at their limits, entries added twice, default keys | lists without duplicates and aligned with the bumps; no role with a key that cannot sign |
| wallet: burn data parser | none | `burn_data.rs` | lengths that must agree, 32-byte numbers of which 8 bytes are read | what is read is what the intent says, to the last byte |
| wallet: Ed25519 introspection | none (reads the instructions sysvar) | `ed25519.rs`, `verify_user_signature` | a header that points anywhere, a message length cut to 16 bits, an index that is the top-level instruction's | the signature checked covers the intent executed, for a top-level burn |
| minter: mint | `UsedTransferSpecHash` accounts, custody and recipients' accounts, the `AttestationUsed` event | `gateway_mint`, `gateway_mint_with_params` | sets that overlap or repeat a hash, a failure after some elements have been paid, accounts the caller chooses | a set is paid as a whole or not at all, a hash once |
| minter: custody burn | custody accounts | `burn_token_custody` | it competes with mints, and works while paused | custody is never overdrawn |
| minter: roles, tokens, attesters, pause | the `GatewayMinter` account | as in the wallet, with `add_attester`, `remove_attester` | as in the wallet | as in the wallet; a removed attester is out |
| minter: attestation parser | an iterator's offset and index, the loop's account index | `attestation.rs`, the loop of `gateway_mint` | offsets computed from lengths in the data, unchecked subtractions and slices, `u32` products | nothing is read outside the data; every byte belongs to an element that is minted once |
| shared: used-hash accounts | accounts at hash-derived addresses, their lamports, owner and data | `is_transfer_spec_hash_used`, `create_used_transfer_spec_hash_account` | lamports sent to the address beforehand, a failure between two calls | an account is created exactly once, and nobody can prevent it |
| shared: EVM signature recovery | none | `ethereum_signed_message_hash`, `recover_evm_signer`, `verify_burn_signature`, `verify_attestation_signature` | a recovery that checks neither lengths nor which of two signatures it is given | what gets through is exactly what an enabled signer makes |
| events and errors | none | `emit_cpi!`, error codes | | two events are part of the model, because other systems act on them |
| SPL token program, clock | token accounts, the slot | external | | |
| Gateway API and operator | what was promised and when; external, not in the repository | attestations, burns | the depositor acts between the promise and the burn | what is minted stays covered at the source and is burned in full |
| tests, scripts, vendored code | | | | |

How they interact. There are no messages and no callbacks: instructions of the
same program share accounts, and the runtime orders the transactions that write
the same account. Within the wallet, deposits, withdrawals and burns share the
deposit accounts and one pool of custody per token; delegates and the denylist
are read by other instructions than those that write them; `paused`, the lists
and the delay are configuration that changes between any two steps of a user. The
two programs share no account. They are joined by the off-chain Gateway API,
which sees deposits, collects signed intents, issues attestations, and afterwards
has the operator burn what was minted elsewhere.

## The modules

| module | what it is |
|---|---|
| `PubkeyLists` | what both programs do to a list of public keys: position, removal (`Vec::remove` at the position found) |
| `SplToken` | external: token balances, `Transfer`, `Burn` |
| `GatewayWallet` | the wallet program: constants, variables, one action per instruction |
| `GatewayWalletProperties` | its type invariant and properties |
| `WalletVault` | the abstract specification of the wallet: an account for everybody, and no pool |
| `GatewayWalletProofs` | theorems about its ledger (types, custody, burns, supply), its lists, roles, delegates, pause and consent, and that it implements `WalletVault` |
| `GatewayMinter` | the minter program |
| `AttestedMint` | the abstract specification of the minter: a signed set is paid in one step |
| `GatewayMinterProperties` | type invariant, properties, and the refinement mapping to `AttestedMint` |
| `GatewayMinterProofs` | theorems about it |
| `MintAttestationBytes` | the parser of attestations, the loop that drives it, and the encoder, over lengths and `u32` words |
| `MintAttestationProofs` | theorems about it |
| `BurnVerification` | what the Ed25519 introspection and the burn data parser establish about the bytes that were signed |
| `BurnVerificationProofs` | theorems about it |
| `UsedTransferSpecHash` | the creation of a used-hash account, call by call |
| `UsedTransferSpecHashProofs` | theorems about it |
| `EvmSignature` | the recovery of EVM signers, over ECDSA in a small group |
| `EvmSignatureProofs` | the theorem about it, for groups of any prime order |
| `GatewaySystem` | wallet, minter, and an external API and operator, composed |
| `GatewaySystemProofs` | theorems about the composition |
| `CollectionLemmas` | proved lemmas about sums over finite sets and about the lists |
| `MCWalletLedger`, `MCWalletParties`, `MCWalletAdmin`, `MCWalletLiveness`, `MCMinterMint`, `MCMinterAdmin`, `MCMintAttestation`, `MCUsedHash`, `MCBurnVerification`, `MCEvmSignature`, `MCGatewaySystem` | instances for TLC |

`GatewaySystem` extends `GatewayWallet` and instantiates `GatewayMinter`. The
modules on bytes, signatures and used-hash accounts are below the two programs:
each justifies what these take for granted (a parsed intent or set, the signer of
it, a set of used hashes).

### From code to actions

**An instruction is an action, and an error is a disabled action.** A Solana
transaction is atomic: an error anywhere (a `require!`, an Anchor constraint, a
failed CPI, an arithmetic overflow) undoes all of it. So each instruction is one
action whose guard conjoins the constraints of its accounts struct, the checks of
its handler, and those of the methods and token instructions it calls. The
additions are written without modulus and guarded by `<= U64Max`: they are
`checked_add`s, or plain `+` in a build with `overflow-checks = true`
(`src/Cargo.toml`).

**`gateway_mint` is several actions.** It works through a set and makes a
transfer and a new account for each element. The model follows it: `Start` does
the header's checks, `MintElement` one element, and `Commit` ends the transaction.
`Abort`, enabled at every point, restores the snapshot `tx.before`: it stands for
the failure of an element, wrong or missing accounts, and failures elsewhere in
the transaction. Nothing interleaves with a running transaction, since it holds
write locks on the accounts; every other action requires `tx = NoTransaction`.

**Variables are accounts.** `wallet` and `minter` are the two singleton accounts
with their fields' names; `deposit[t][k]` and `delegate[t][d][k]` are PDAs, with
`opened = FALSE` and `"NoAccount"` for those that do not exist; `denylisted` and
`used` are the sets of addresses whose PDA exists; `balance[t][h]` is what holder
`h` has in its token accounts for mint `t`, where the holder `Custody` stands for
the program's custody account; `slot` is the clock. The remaining variables are
history: the `GatewayBurned` and `AttestationUsed` events for each spec or hash,
the slot and delay of the withdrawal in progress, delegations ever made, and
tokens that reached or left custody other than by users' instructions.

**Inputs** come from small sets given as constants. So are the burn intents, `Intents`,
of the wallet, each of which may be signed by its `source_signer` or come by way of a
program (`Users`); and what attesters have signed, `Signatures` for the minter, pairs of an attester and a set. Who calls and with
which accounts is chosen freely.

**Administration is not paused.** In both programs the owner's, pauser's, token
controller's and denylister's instructions, and `burn_token_custody`, do not look
at `paused`; nor do the model's.

**Below the instructions, a call is an action.** `UsedTransferSpecHash` has one
action for each call of `create_used_transfer_spec_hash_account`: `CreateAccount`
for an address without lamports, else `TopUp` if the rent is not covered, `Allocate`
and `Assign`, then `Write`. Each may fail; `Abort` restores the account as it was
before the transaction, and `Send` is anybody's transfer in between, or, in `Begin`,
earlier in the same transaction. In `MintAttestationBytes`, `New` and `Next` are the
parser's functions, `Header`, `Element` and `Finish` the parts of `gateway_mint`
around them; `"OutOfBounds"` is where an unchecked slice, index or subtraction would
panic. In `BurnVerification`, `Parse` is `BurnData::new`, then follow
`VerifyUserSignature` and `Execute`, the reads behind it. `EvmSignature` has one
action, since a recovery is one call.

**The system** adds to the programs' actions `Attest`, with which the API promises
an intent and signs the attestation for it, and restricts burns to `OperatorBurn`,
of what has been minted, in time.

### Abstractions

* A spec's hash is, in the wallet, the spec itself, and in the minter a value that
  an element carries as in the code, where the hash of an element is computed over
  its spec. Keccak256 is taken to be free of collisions.
* `addressed_here` stands for the checks of version, domain and contract, which
  compare fields of a message with constants of the program.
* `VerifyUserSignature` in `GatewayWallet` is what `BurnVerification` shows the
  introspection to establish: for a top-level burn, that `source_signer` has signed
  the intent; for a burn that a program calls (`CalledByProgram`), nothing about the
  intent. What is proved about the wallet holds with burns of both kinds. The signer recovered from an EVM signature is an
  input of the programs' models, and `EvmSignature` says whom it may be.
* A message is, in `MintAttestationBytes`, its length and its `u32` words, and in
  `BurnVerification` its length and the fields that decide about the signed regions
  or are read as numbers. The words of a message from outside are arbitrary; one
  that is read twice has the same value.
* In `BurnVerification` the sysvar's index, `position`, is that of the transaction's
  top-level instruction, which is the burn (`top_level`) or an instruction whose
  program calls `gateway_burn`. A region is a place in the data of the burn, of the
  caller, or of another instruction (`DataAt`). The Ed25519 program is external: it
  verifies the regions its header names.
* In `EvmSignature` a point of the curve is its multiple of the generator, and the
  curve is a group of small prime order. A signature's `r` is the x coordinate
  itself; that the coordinate exceeds the group's order, which recovery ids above
  28 stand for, does not happen to a signer (it has a chance of 2^-128).
* In `UsedTransferSpecHash` the system program's rules are written down as
  external preconditions; the payer's own rent and the fee are left out.
* In `GatewaySystem` one clock serves both programs, an attestation is a set of one
  element, and the API reads an account and signs in one step.
* `gateway_mint_with_params` rebuilds the signed bytes from its arguments and the
  accounts. `Reconstructed` is that set; the model lets the caller combine the
  elements of any set with the recipients of any other, and the instruction
  succeeds when the result has been signed. That the rebuilt bytes are read back as
  they were is `EncodedIsShown`.
* A holder's token accounts for one mint are one balance. They are taken to exist
  and not to be frozen. In particular the fee recipient's account exists; in the
  code a burn needs it even when the fee is zero (a hazard without a property;
  anybody can create the account, in the same transaction).
* The accounts passed for the elements of a set may be too many or too few, or
  of a number that is no multiple of three; the code rejects them before the first
  element, the model by `Abort`. Both leave everything as it was.
* Rent, lamports and account sizes are left out of the programs' models. The lists'
  limits, which follow from the accounts' sizes, are constants.

### Plausible mistakes

Each property must fail for a plausible mistake in the code it is about. Such a
mistake is an operator that nothing uses, placed before the definition it stands
in for, with the same parameters: `KeepsEarlierBlock` before
`InitiatedWithdrawal`, `UsedBeforeThisSet` before `IsTransferSpecHashUsed`.
`PROJECT.json` lists, for every property of every run, the definition and the
mistake that makes TLC find a violation when it takes the definition's place.
They are documentation of what a property is sensitive to, and no part of the
specification.

## The properties

Invariants (I) hold in every state, action properties (A) of every step,
liveness properties (L) of every fair behaviour; R is a refinement. "Proved"
means a theorem for all constants, in addition to the run.

### GatewayWallet

| property | | says | |
|---|---|---|---|
| `TypeOK` | I | every account holds data of its type; in particular no deduction from a deposit goes below zero | proved |
| `CustodyAccounted` | I | custody = the sum of all claims (available and withdrawing) + what was sent there from outside | proved |
| `BurnsAccounted` | I | the supply that is left and the values of the `GatewayBurned` events make up the initial supply, also when burns are partial | proved |
| `LedgerNeverOverflows` | I | the checked additions to a deposit never refuse a deposit the sender can pay | proved |
| `ChargedOnce` | I | one burn event per spec at most, and the used-hash account exists exactly for the specs with an event | proved |
| `BurnWithinMandate` | I | a burn takes at most the value, a fee only on top of the whole value and within an intent's `max_fee`; deductions = value + fee | proved |
| `BurnTakesChargeOrEverything` | A | a burn deducts value + fee or all there is, and withdrawing funds only when the available ones are gone | proved |
| `OutflowsAreConsented` | A | a claim shrinks only by the depositor's withdrawal, in full and after the delay last in force, or by a spec that names as its signer the depositor or somebody it made a delegate (that this signer has signed is `RegionsAreSigned`, for top-level burns) | proved |
| `CoveredBurnStaysPossible` | A | a burn that the claim covers stays possible until it is paused, expires, is used, or the burn signer is removed; revocations, the denylist and other depositors cannot stop it | proved |
| `KeepsEachAccount` | R | the wallet implements `WalletVault`: every instruction moves one depositor's account as an account of its own would move, or none | proved |
| `EverAuthorizedForGood` | A | an address once authorized to sign burns remains so | proved |
| `DenylistKeepsOut` | A | a denylisted address pays nothing in, is credited nothing, and is on neither side of a new delegation | proved |
| `PauseFreezes` | A | while paused, no claim, delegation, or used spec changes | proved |
| `WithdrawalCompletes` | L | if the program is unpaused again and again, a withdrawal in progress ends | TLC |
| `ListsWellFormed` | I | lists within their limits and without duplicates; a token's bump is found at its position; every deposit's custody can be named | proved |
| `RemovedSignerCannotBurn` | A | after a removal, the burn signer is gone, however often it was added | proved |
| `DefaultKeyIsPowerless` | I | no role, claim, delegation or burn signer is the default key, and the delay is positive | proved |

### GatewayMinter

| property | | says | |
|---|---|---|---|
| `TypeOK` | I | every account holds data of its type, in the middle of a set and after an abort; custody is not overdrawn | proved |
| `MintedOnce` | I | a hash is paid at most once, and its used-hash account exists exactly when it was | proved |
| `CustodyAccounted` | I | custody = funding − custody burns − what the `AttestationUsed` events say was paid out, at every element | proved |
| `MintedInWholeSets` | I | between transactions, every payment belongs to a signed set that is paid in all its elements, as signed | proved |
| `MintsAreOneShot` | R | the element-by-element mint implements `AttestedMint`: a signed set paid in one step or not at all | proved |
| `PayableSetGoesThrough` | I | a set that could be paid in one step never fails in the middle for lack of funds or an account | proved |
| `ListsWellFormed` | I | as in the wallet | proved |
| `RemovedAttesterIsOut` | A | after a removal, the attester is gone, however often it was added | proved |
| `RolesAreHeld` | I | the default key never gets a role or is an attester | proved |

`AttestedMint` is written without reference to elements in progress: `Pay(set)`
requires an attester's signature, an unexpired, well-formed set none of whose
hashes has been paid, and custody that covers what the set takes out, and it
changes all balances and payments at once with sums over the set. The refinement
mapping shows the abstract balances and payments as they were before the running
transaction. So `Start`, `MintElement` and `Abort` are stutters and `Commit` is the
payment.

`WalletVault` has neither custody nor lists nor the status of a delegate, and an
account in it shares nothing with another. In the mapping, `Accounts` shows of each
deposit account the two amounts and the block at which the withdrawal is due,
but only while something is in withdrawal: the block that a burn of everything
leaves behind (`reduce_balance` does not reset it) is invisible, which is the point,
since no later step may depend on it. `Agents` are those who have a
`GatewayDelegate` account, in whatever state: it only grows, although
delegates are revoked. What a partial burn takes is `Less`, written as one amount
taken out of an account; that custody can pay it is a matter of the wallet's.

### The layers below

| property | | says | |
|---|---|---|---|
| `MintAttestationBytes!NeverOutOfBounds` | I | no slice, index or subtraction of the parser or the loop leaves the data or the accounts, whatever the message | proved |
| `MintAttestationBytes!AcceptedIsEncoding` | I | a message that is minted is tiled by its elements: every signed byte belongs to one, and each has three accounts of its own | proved |
| `MintAttestationBytes!EncodedIsShown` | I | what the encoder writes, the parser accepts and shows in order | proved |
| `BurnVerification!RegionsAreSigned` | I | a top-level burn that is executed had its signature verified with the key and over the message in its own data, to the last byte | proved |
| `BurnVerification!EveryBurnIsSigned` | I | the same for every burn, as the comments in `verify_user_signature` have it | violated (see *A disagreement*) |
| `BurnVerification!NumbersAreAsSigned` | I | the numbers a burn goes by are the 32-byte numbers of its intent, and the hash covers the whole spec | proved |
| `BurnVerification!ClientIsUnderstood` | I | no burn of the repository's client is refused for its layout | proved |
| `UsedTransferSpecHash!MarkedOnce` | I | a hash is marked at most once, and `is_transfer_spec_hash_used` tells the marked ones | proved |
| `UsedTransferSpecHash!CreationNeedsOnlyRent` | I | a creation fails only for want of the missing rent, and costs exactly that: lamports sent to the address cannot prevent it | proved |
| `EvmSignature!AcceptedAreTheSigners` | I | a signature gets through for a signer exactly if this signer, enabled, makes it: no second form of it is accepted, and no signer refused | proved |

### GatewaySystem

| property | | says | |
|---|---|---|---|
| `PromisesAreCovered` | I | until the operator has burned or must have, a depositor's claim covers all that the API has promised against it | proved |
| `MintedCanBeBurned` | I | what the minter has paid can be burned with any fee the user allowed, unless the wallet is paused or has no burn signer | proved |
| `BurnsMatchMints` | I | a burn takes off the source all that its mint has put onto the destination, though `reduce_balance` would be content with less | proved |

They rest on `OperatorAssumption`: an attestation's life ends no later than the
operator's term for burning, which is shorter than every withdrawal delay. The
assumption is tight: with a term of 2 and a delay of 2, TLC finds a depositor who
announces a withdrawal just after the promise and takes it out before the burn.
`Open` leaves out the promises whose term is over: a pause longer than the term, or
the removal of all burn signers, leaves a mint without its burn, and no code of the
two programs could prevent it.

## The runs

All runs search the whole state space, and no run constrains states. They check for
deadlock, except `burn_verification`, `burn_called_by_program` and `evm_signature`, where one instruction runs
and ends. The states are distinct states.

| run | instance | states | question |
|---|---|---|---|
| `wallet_ledger` | `MCWalletLedger`: an administrator, 2 depositors, 1 token, 4 intents on 3 specs, `U64Max` = 3 | 240,719 | Do claims, custody, events and supply agree under every order of deposits, withdrawals, burns and donations? |
| `wallet_parties` | `MCWalletParties`: a depositor and a delegate who holds the roles, 2 tokens, 2 intents in the delegate's name | 306,035 | Do authorization, revocation, denylist and pause act on burns and withdrawals as promised? |
| `wallet_admin` | `MCWalletAdmin`: 2 tokens for a list of 1, 3 burn signers for a list of 2, nominees including the default key | 8,961 | Does any sequence of configuration instructions break the lists or hand a role to the default key? |
| `wallet_liveness` | `MCWalletLiveness`: 1 depositor, delays 1 and 2, slots up to the largest u64 | 12,660 | Does a withdrawal in progress end? |
| `minter_mint` | `MCMinterMint`: 7 sets over 3 hashes and 2 tokens, 2 attesters | 28,971 | Is a set paid as in one step, once, or not at all? |
| `minter_admin` | `MCMinterAdmin`: as `wallet_admin` | 961 | As `wallet_admin`. |
| `mint_bytes` | `MCMintAttestation`: messages around the lengths of 1 to 3 elements with any words, 0 to 9 accounts, `U32Max` = 10 | 17,139 | Is every message read within bounds, and exactly the encodings accepted? |
| `used_hash` | `MCUsedHash`: 2 hashes, rents 2 and 4, gifts 0 to 4, funds 0 to 5 | 7,191 | Can anything but missing rent prevent a hash from being marked, or mark it twice? |
| `burn_verification` | `MCBurnVerification`: burn data off by one in each length, headers off in each field, top-level or called, `U16Max` = 430 | 22,686 | Is what a burn reads what was signed? |
| `burn_called_by_program` | the same, one property | ends at a violation | Is that so without the premise of a top-level burn? No. |
| `evm_signature` | `MCEvmSignature`: a group of order 11, `r` and `s` up to 12, 3 enabled signers | 20,351 | Which signatures get through? |
| `system` | `MCGatewaySystem`: a depositor with 2 units, 2 intents, delays 2 and 3, burns within 1 slot | 640,364 | Does what is minted stay covered, and is it burned in full? |

### The bounds, and why they are enough

* `U64Max` is 2, 3 or 4 instead of 2^64 − 1. What the arithmetic can do wrong is at
  the edge of the range. A small width brings the edge within reach of the amounts:
  value 2 and fee 2 overflow at 3, slot 2 and delay 2 overflow at 3. The proofs
  hold for every width.
* Supply: 2 and 1 units for two depositors. Enough for a claim that covers value
  and fee, one that covers the value and a part of the fee, one that covers a part
  of the value, and one that spans available and withdrawing funds; the second
  depositor's unit in the pool is what a wrong burn would be paid from.
* `Amounts` contains 0, which is refused; `Fees` goes up to 2, above a `max_fee`.
* Two intents have the same spec with other limits: a retry with another fee and
  expiry. One of them expires at slot 1, so that signed, expired and retried
  burns occur.
* Slots up to 2 or 3 (`MaxSlot`), delay 1 or 2: a withdrawal is initiated, initiated
  again, matures, and is completed or burned; another follows it. In
  `wallet_liveness` the last slot is that at which `slot + delay` overflows. The
  delay does not change in `wallet_parties`: that `OutflowsAreConsented` holds when it
  does rests on the theorem, which has any set of delays.
* Two tokens, where an instruction could confuse them; one custody pool otherwise.
  The two bumps differ, so that a bump from a wrong position is noticed.
* Lists have limit 1 or 2 with one candidate more than fits.
* The seven sets: two sets that share a hash in different positions, with other
  caller and expiry; one that pays custody itself and another token; one that
  repeats a hash; one whose second element names another token's account; one with
  value zero; one addressed to another program. Set length 2 is the least at which
  a set can be partly paid. `evm2` has signed three of them, and either attester can
  be removed.
* `U32Max` = 10: three accounts for each of four elements overflow it, so the product
  that the code checks does wrap in the instance. Lengths are those at and around
  the end of each element's fixed part and of its hook data.
* `U16Max` = 430: the client's shortest message has 428 bytes, so there are messages
  below, at and above the limit, and one whose truncated length agrees with that
  of a header.
* Gifts leave an address without lamports, with less than the rent of an empty
  account (refused by the runtime outside a transaction), with that of an empty
  account, with less than, exactly and more than that of a marked one; payers have
  less than, exactly and more than what is missing.
* The group of order 11 has ten keys and five x coordinates, so half of the numbers
  below the order are the coordinate of no point; numbers reach the order and one
  above. `0`, `1`, `26` and `29` are ids that the recovery call would take or that
  lie next to those allowed.
* In `system`, `U64Max` = 6 is beyond the supply, which `wallet_ledger` is about; a
  withdrawal needs two or three of the four slots, so that it matures in the instance,
  after promises, mints and burns, and a promise can expire unused, which frees what it
  had reserved for the other intent.
* `MaxSlot` = 0 in the configuration runs: their instructions do not read the
  clock.

In `wallet_parties` one key holds the roles and is the delegate as well: the
guards compare keys, never roles with delegations, so that merging them removes
no behaviour of the depositor or the delegate, and it keeps the instance small.
Symmetry reduction is not used: keys and tokens have different balances, and one
run checks liveness.

### Fairness

`Spec` has none. `LiveSpec`, used by `wallet_liveness`, adds

* `WF_vars(Tick)`: the cluster produces slots. (In the instance they end at
  `MaxSlot`, which is late enough for every delay that could be added.)
* `SF_vars(Withdraw(t, k))` for each depositor: who wants the funds out keeps
  submitting `withdraw`, and a transaction that would succeed again and again is
  executed at some time. Weak fairness would not do, since a pause in between
  disables the instruction; a depositor who retries needs no more than that it
  becomes possible infinitely often.

Nothing is assumed of the owner, pauser, denylister, operator or anybody else.
`WithdrawalCompletes` has as its premise that the program is not paused for good,
because the code lets the pauser do just that. New calls of
`initiate_withdrawal` start the delay over; they are bounded, in the model by the
last slot, in the program by the depositor, who chooses to make them.

## The proofs

`tlapm` checks every theorem below to the last leaf. They hold for every value of
the constants that satisfies the named assumptions, which TLC evaluates on the
instances:

* `KeysAssumption`: finitely many keys; the default key is not one of them, the
  upgrade authority is; custody is no address.
* `ConfigAssumption`: limits are naturals, bumps are given for each token, intents
  or signed sets are well-typed; in the minter, finitely many hashes.
* `SupplyAssumption`: initial balances are naturals whose sum fits u64, which the
  token program ensures.
* `InputsAssumption`, in the two programs and in each of the layers below: inputs
  are of their types.

* `OrderAssumption`, of the EVM signatures: the group's order is a prime above 2, and
  the numbers in a signature are naturals.
* `OperatorAssumption`, of the composition: attestations do not outlive the time within
  which the operator burns, and that time is shorter than every withdrawal delay the
  owner may set.

| module | theorem | states |
|---|---|---|
| `GatewayWalletProofs` | `TypeCorrect` | `Spec => []TypeOK` |
| | `CustodyIsAccounted` | `Spec => []CustodyAccounted` |
| | `SpecsAreChargedOnce` | `Spec => []ChargedOnce` |
| | `BurnsAreWithinMandate` | `Spec => []BurnWithinMandate` |
| | `BurnsAreAccounted` | `Spec => []BurnsAccounted` |
| | `LedgerFits` | `Spec => []LedgerNeverOverflows` |
| | `ListsAreWellFormed` | `Spec => []ListsWellFormed` |
| | `DefaultKeyStaysPowerless` | `Spec => []DefaultKeyIsPowerless` |
| | `AuthorizationsAreForGood` | `Spec => EverAuthorizedForGood` |
| | `PauseHolds` | `Spec => PauseFreezes` |
| | `RemovalIsComplete` | `Spec => RemovedSignerCannotBurn` |
| | `OutflowsAreByConsent` | `Spec => OutflowsAreConsented` |
| | `VaultIsImplemented` | `Spec => KeepsEachAccount`, which is `Vault!Spec` |
| | `BurnsTakeChargeOrEverything` | `Spec => BurnTakesChargeOrEverything` |
| | `DenylistIsKept` | `Spec => DenylistKeepsOut` |
| | `CoveredBurnsStayPossible` | `Spec => CoveredBurnStaysPossible` |
| `GatewayMinterProofs` | `TypeCorrect` | `Spec => []TypeOK` |
| | `HashesAreMintedOnce` | `Spec => []MintedOnce` |
| | `CustodyIsAccounted` | `Spec => []CustodyAccounted` |
| | `MintsAreWhole` | `Spec => []MintedInWholeSets` |
| | `ListsAreWellFormed` | `Spec => []ListsWellFormed` |
| | `RolesStayHeld` | `Spec => []RolesAreHeld` |
| | `RemovalIsComplete` | `Spec => RemovedAttesterIsOut` |
| | `PayableSetsGoThrough` | `Spec => []PayableSetGoesThrough` |
| | `SetsArePaidInOneStep` | `Spec => MintsAreOneShot`, which is `OneShot!Spec` |
| `MintAttestationProofs` | `ParserStaysInBounds` | `Spec => []NeverOutOfBounds` |
| | `AcceptedAreEncodings` | `Spec => []AcceptedIsEncoding` |
| | `EncodedAreShown` | `Spec => []EncodedIsShown` |
| `UsedTransferSpecHashProofs` | `HashesAreMarkedOnce` | `Spec => []MarkedOnce` |
| | `OnlyRentIsNeeded` | `Spec => []CreationNeedsOnlyRent` |
| `BurnVerificationProofs` | `BurnsAreSigned` | `Spec => []RegionsAreSigned` |
| | `NumbersReadAsSigned` | `Spec => []NumbersAreAsSigned` |
| | `ClientsAreUnderstood` | `Spec => []ClientIsUnderstood` |
| `EvmSignatureProofs` | `AcceptedAreSigned` | `Spec => []AcceptedAreTheSigners` |
| `GatewaySystemProofs` | `WalletRuns` | `SystemSpec => Spec`, the wallet's specification |
| | `MinterRuns` | `SystemSpec => Minter!Spec` |
| | `PromisesStayCovered` | `SystemSpec => []PromisesAreCovered` |
| | `MintedStaysBurnable` | `SystemSpec => []MintedCanBeBurned` |
| | `BurnsTakeWhatWasMinted` | `SystemSpec => []BurnsMatchMints` |

### The wallet's ledger

The inductive invariant is `LedgerInv == TypeOK /\ CustodyAccounted`. Typing comes
first: it says that the amounts in a deposit are naturals within u64, which the
guards give for additions (they are checked) and for `initiate_withdrawal`
(`amount <= available_amount`), and which for burns rests on the arithmetic of the
deduction: `from_available` and `from_withdrawing` are lesser-of terms, each at most
the amount it is taken from (`DeductionFacts`).

For custody, `Owed(t)` is a sum over all addresses, and each instruction changes the
claim of at most one of them. The lemma `SumMoves` says that changing a function at
one point changes its sum by as much; with it, `OwedMoves` and `CustodyMoves`
reduce each instruction to an equation between the claim's change and the
custody's. The burn is the one that needs thought. Custody loses the fee, by a
transfer to the fee recipient, and the burned value: together what was deducted,
because `Settlement` splits the deduction, and the deduction is at most the
charge. That custody cannot go below zero follows from the guard that custody covers
the *whole* charge, and the fee recipient is an address and so is never custody
itself (`BurnFacts`).

`ChargedOnce` and `BurnWithinMandate` are inductive relative to `TypeOK`:
`OnlyBurnsCharge` says that every other action leaves `used` and `burned` alone,
`BurnCharges` what a burn appends, to a sequence that is empty because the spec was
not used.

`BurnsInv` adds to `BurnsAccounted` that a token's events are finitely many, without
which their sum would mean nothing. A transfer, between whatever holders, keeps the
sum of all balances (`TransferKeepsSupply`); a burn lowers it by exactly the value
of the event it adds (`BurnReducesSupply`, `EventsAdd`). `LedgerNeverOverflows` then
needs no induction of its own: a claim is at most what is owed, hence at most
custody; custody and a sender's balance are two terms of the supply, which
never exceeds the initial one and so fits u64 (`SupplyBoundsClaims`, with `SumOfTwo`).

### The wallet's configuration and consent

`ListsInv` adds to `ListsWellFormed` that the list of tokens and that of bumps
have one length: only then does `add_token` put a bump at the position of its
token (`AppendInStep`). A removal takes the element at the first position found; that
one removal is enough (`RemovedSignerCannotBurn`) rests on the absence of duplicates,
which the guard of `add_burn_signer` keeps. A deposit's custody can be named because
an account is opened only for a listed token, and tokens are never taken off the list.

`ConsentInv` is the strengthening for `OutflowsAreConsented`. The property speaks of
what a depositor did earlier, `withdraw` only of the account: so the invariant ties
the two together. While something is in withdrawal, `withdrawal_block` is the slot
of the last request plus the delay then in force, and that delay is positive;
and where there is a delegate's account, in any status, there has been a grant.

Three properties of single steps need no strengthening of their own.
`BurnTakesChargeOrEverything` is the arithmetic of the deduction again
(`ChargeStep`). `DenylistKeepsOut` goes through the instructions (`DenylistStep`):
a deposit has a denylisted address on neither side, and burns and withdrawals only
take from it. The
donations of the environment are the one way such an address can still part with
tokens; they change no claim. `CoveredBurnStaysPossible` asks of each guard of a
burn what could turn it false (`CoveredStep`). Authorizations stay, opened accounts
stay open, and an open account's custody can be named (`ListsWellFormed`). That custody
covers the charge follows from the claim that covers it, because custody covers all
claims (`LedgerNeverOverflows`): other depositors' burns and withdrawals cannot
take it.

### The refinement of `WalletVault`

`VaultInit` maps the initial states. `VaultStep` has one lemma for each
instruction, named for the step it is: `DepositIsPayIn`,
`InitiateWithdrawalIsAnnounce`, `WithdrawIsTakeOut`, `DelegateIsAppoint`,
`BurnIsCharge`, `DonateIsGiveAway`, `AdministerIsStopOrResume`. Below them are
lemmas that translate updates: an instruction that writes one entry of `deposit`
moves one account (`AccountsMove`), a token transfer moves one purse
(`PursesMove`, `TransferMovesPurse`). The steps hold in states that satisfy
`TypeOK` and `DefaultKeyIsPowerless`. The second is needed because a delay of
zero would let an announced withdrawal be taken out at once. The heart
of the burn is `DeductionIsLess`: what `reduce_balance` leaves of the two amounts is
what is left when one amount is taken out of an account, available funds first.
The block that it leaves behind is hidden by the mapping in both states.

### The minter's argument

A plain invariant on the current state is not inductive, because `Abort` goes back
to a snapshot of which it says nothing. `MinterInv` therefore says the same of both:
the current ledger is sound, and while a transaction runs the snapshot's is too.
`Start` takes the snapshot from a sound state, `MintElement` leaves it, `Commit` drops
it, and `Abort` makes it the state. Nothing that enters the equation besides the
ledger (`funded`, `custody_burned`) changes while a transaction runs.

For an element, `PaidOutMoves` says that the sum of the payments from a token's
custody grows by the element's value, and custody goes down by as much, if the
recipient is not custody itself; if it is, neither moves. It is here that the hash
must not have been paid before: a second payment would leave the sum as it is, since
the sum counts a hash's first event. `MintedOnce` is a part of `MinterInv` for this
reason.

`WholeInv` has the same two cases. Between transactions, what has been minted is
made of whole sets. During one, it is what the snapshot had, which was made of whole
sets, and the elements of the running set that have been worked on
(`Worked(tx, minted)`); with the last element the second case yields the first
(`WholeCommit`). Older sets stay whole since no element is paid that the snapshot
or the set's earlier part has paid. The lists are the wallet's argument again.

`PayableInv` says that what is left of a payable set (`Remaining`) is still in
custody. An element takes its value from both sides (`RemainingMoves`, which rests on
`SumRemoves`). As many hashes as elements means that no two are the same
(`HashesAreDistinct`), so that with `WholeInv` the next hash is unpaid.

### The refinement of `AttestedMint`

`SettlementInv` has three parts, all about a running transaction. `Admitted`: what
`Start` has checked is still so, since nobody else writes these accounts or waits
meanwhile. `PaidSoFar`: the elements so far are payments for hashes that were new
and are different, which the code never checks for the set as a whole; it follows
from the used-hash accounts, one element at a time. `MovedSoFar`: each balance, with
what the remaining elements will move, is what it was at the start with what the
whole set moves. It is stated with remainders so that at the end the
remainder is zero and the sums are those of `Pay` (`RemainingEnds`). A payment to
custody itself is in none of the sums, and leaves custody as it was, because the
transfer takes and returns the same.

`CommitPays` then needs no more than to read off `Pay`; the other direction of
the count, from different hashes to as many hashes, is `DistinctAreAsMany`.
`UnsettledSteps` are stutters, and `OutsideSteps` maps funding, custody burns,
configuration and the clock. `SameSum` and `SameCardinality` identify the instance's
copies of the library's operators with those the lemmas are about.

### The layers below

*Attestations.* The invariant `IInv` of the parser says, at each point of the loop,
that the index counts the elements shown and the accounts taken, that the elements
shown tile the data up to the offset, and, for an encoded message, that the offset
is where the encoder put the next element. `StartOf`, where an element starts, is a
recursive function on the naturals, unfolded by `StartUnfolds`. That there are three
accounts for each element comes from the product before the loop, which is an error
when it does not fit `u32` (`HeaderStep`).

*Used-hash accounts.* `Inv` distinguishes the account under creation, of which it
says what each call has achieved so far (`InProgress`), from all the others, which
are either marked or without data and owned by the system program (`Settled`),
whatever lamports they have. `CallStep` does the common part of the five calls.

*Burn verification.* `Inv` says after the parse that the lengths agree
(`WellFormed`), and after the verification that the regions of the header are
those of a burn in the current instruction's data (`SignedRegions`), which are the
burn's own when it is a top-level instruction. `PassingHeader` is where the check of
the message's length matters: a length cut to 16 bits says the length of the message
only because longer messages are refused.

*EVM signatures.* Each direction of `AcceptedAreTheSigners` is an equation modulo the
order: a signature says s · nonce = h + r · key, recovery solves it for the key
(`KeyFromSignature`), and a recovered key solves it for s (`SignatureFromKey`). The
provers have no theory of congruences, so the lemmas about them carry the multiple of
the order along as a witness. Both directions need inverses. That they exist is
`InverseExists`: the least positive combination of a number and the order divides both
(`LeastCombinationDivides`), and of a prime and a smaller number only 1 is a common
divisor (`CommonDivisor`). That the order is odd (`OrderIsOdd`) tells a point from its
opposite: they share the x coordinate and differ in parity (`Points`, `PointIsKnown`).
The low `s` check is what makes the first direction hold. A high `s` would recover a
key too, of which the standard form, with the opposite point, is another signature.
The second direction has two cases, since the signer's point is the nonce or, if its
`s` came out high, the opposite (`SignedIsRecovered`).

### The composition

`WalletRuns` and `MinterRuns` come first. A step of the composition is a step of each
program or leaves it alone, under the one condition `Scheduled`, that the clock is one
and within its bound. So the wallet's theorems hold in the composition, and `WalletFacts`
takes from them what the argument needs: types, well-formed lists, no overflow, and that
a used spec is a charged one. `AccountsInv` adds that the wallet's delay is one of
`Delays` and that an account with available funds is open. `AccountMoves` sums up what
any step can do to one account: nothing, pay in, announce, take out, or charge a burn.

`SystemInv` is about the promises, in three parts.

* `PromisesInv`: a spec is promised once, and what `gateway_burn` asks of an intent
  besides its funds (`Backed`) is never taken back. Tokens stay listed, accounts
  stay open, authorizations stay, and the intent outlives the operator's deadline.
* `MintsInv`: what is minted is minted by the promise of its spec, for its value, and
  the transaction that is running is of a promise that has not run out. The last
  matters because an attestation that has run out frees what it had reserved: were it
  still paid, the reservation would be gone.
* `CoverageInv`: the claim covers what is reserved, *and* available funds alone cover it
  once the withdrawal in progress can be taken before one of the promises is due. The
  first half is the property, and is not inductive: a withdrawal that matures takes
  the withdrawing amount from it. The second half says that what matures in time was
  announced before the promise was made, when the API counted only what was available.
  A new announcement matures after every open promise's deadline, because the
  operator is faster than every delay; this is the only use of that assumption.

What can be lost to an open promise is then only what a burn takes of it
(`CoversBurned`): at most the reservation that leaves the sum, from available funds
first. Promises leave the open ones and never return (`OpenShrinks`). Deposits,
announcements and withdrawals are `CoversMoved`, a new promise is `CoversAttested`.

`MintedCanBeBurned` goes through the guards of `GatewayBurn`, with the claim
from `CoverageInv`, custody and overflows from `LedgerNeverOverflows`, and the rest from
`Backed`. For `BurnsMatchMints`, `BurnedAsPromised` says that a burned value is its
spec's; it would be less if the claim had not covered the charge.

### Sums without induction

The library's induction theorems take an operator as a parameter and cannot be
instantiated by the provers installed. `CollectionLemmas` proves what is needed of
`SumFunctionOnSet`, a fold of the community modules, from its definition: that an
unfolding function exists (`UnfoldingExists`), by an induction that is stated with
sets of naturals and of subsets in the place of predicates (`NatSetInduction`,
`SubsetInduction`); that it satisfies the recursion (`SumUnfolds`); and from it
`SumOfNaturals`, `SumMoves`, `SumSame`, `SumOfZeros`, `SumOfTwo`,
`SumRemoves`, `SumOfPart`.

### Only model-checked

* `WithdrawalCompletes`: liveness under strong fairness is beyond the prover.

Every other property that a passing run checks is also a theorem.

## What is not covered

* **Cryptography.** Keccak256 and Ed25519 are ideal. ECDSA is modelled as arithmetic in
  a small group: what the code adds to the recovery (ids, lengths, low `s`, the
  enabled signers) is checked, the hardness of forging is assumed.
* **The operator and the API** are not in the repository. The wallet's model lets
  the operator submit every signed intent with every fee in the inputs at any time,
  which includes whatever a careful operator does. `GatewaySystem` has the least that
  an API and an operator must do for mints to be covered; how they do it is unknown.
* **Token accounts** that do not exist, are frozen, or are of a token with
  extensions. That the fee recipient's account must exist even for a burn without a
  fee is the one hazard without a property.
* **Events other than two, error codes, logs**: they carry no state of the system.
* **Tests, scripts, vendored programs**: no state of the system. The tests were read
  as documentation of the code.

## A disagreement

`verify_user_signature` (`gateway_burn.rs:348-418`) compares the indexes in the Ed25519
header with `load_current_index_checked`, and takes the header from
`get_instruction_relative(-1)`. Both refer to the transaction's top-level
instruction. That this is the `gateway_burn` at hand is a premise the code does not
check. Its comments leave the premise out: "ensure that it validated the expected
signature, public key, and message" (line 377), "Ensure the signature offset is the start
of the user signature within the burn data" (line 386).

`RegionsAreSigned` and the theorem `BurnsAreSigned` have the premise: they say what
the comments say for a top-level burn, the only kind the repository's client and
tests make. `EveryBurnIsSigned` has not, and `burn_called_by_program` shows it violated:
for a burn that a program calls, the bytes verified lie in the data of the calling
instruction. The other check of the burn data does not depend on the kind of call: an
enabled burn signer has signed all of them (`gateway_burn.rs:163-167`), and what it
asks of a user's signature before it signs is not in the repository. No other
disagreement between the code and its documentation was found while modelling.

## The plan

Done: both programs with their properties, runs, abstract specifications and
refinements; the layers below them (attestations, burn data and introspection,
used-hash accounts, EVM recovery); the composition; the theorems above.

Left, to model:

1. The existence of token accounts: the fee recipient's and the recipients', which may be
   created or closed by their owners between any two instructions.
2. `GatewaySystem` with sets of more than one element, two clocks that drift, and an API
   that reads an account some time before it signs.

Both are additions to the model, and the theorems would have to follow it: the guards of
`OperatorBurn` grow by the first, `MintsInv` by the second. Nothing that a run checks now is
left to prove but `WithdrawalCompletes`, which is out of the prover's reach.
