--------------------------- MODULE GatewaySystem ---------------------------
(***************************************************************************)
(* GatewayWallet, GatewayMinter, and between them the off-chain API and    *)
(* operator, which are external: they read the wallet's accounts, sign for *)
(* an intent the attestation that the minter pays against, and burn what   *)
(* has been paid.  The programs share no account.  That nothing is paid    *)
(* twice over rests on the withdrawal delay: what the API has seen as      *)
(* available is still there for the burn, whatever the depositor does.     *)
(*                                                                         *)
(* The API is as careless as it can be: it trusts nothing but available    *)
(* amounts less what it has promised, attests for Lifetime slots, and      *)
(* burns within BurnWithin slots or never.  Both clusters have one clock.  *)
(***************************************************************************)
EXTENDS GatewayWallet

CONSTANTS
  MinterBalance,   \* the destination's token balances
  MaxAttesters,
  Lifetime,        \* slots an attestation stays valid
  BurnWithin       \* slots within which the operator burns

\* The operator is faster than every withdrawal delay the owner sets.
ASSUME OperatorAssumption ==
  /\ Lifetime \in Nat /\ BurnWithin \in Nat
  /\ Lifetime <= BurnWithin
  /\ \A delay \in Delays : BurnWithin < delay
  /\ MaxSlot + Lifetime <= U64Max

VARIABLES
  minter, minter_used, minter_balance, tx, minted, funded, custody_burned,
  promises         \* what the API has attested, and when

minterVars ==
  <<minter, minter_used, minter_balance, tx, minted, funded, custody_burned>>

systemVars == <<vars, minterVars, promises>>

Promise == [intent : Intents, slot : 0 .. MaxSlot]

\* The attestation for an intent: it pays the depositor, on the destination.
AttestationOf(p) ==
  LET spec == p.intent.spec IN
  [addressed_here |-> TRUE, destination_caller |-> DefaultKey,
   max_block_height |-> p.slot + Lifetime,
   elements |->
     <<[destination_token |-> spec.source_token,
        destination_recipient |->
          [mint |-> spec.source_token, owner |-> spec.source_depositor],
        value |-> spec.value, transfer_spec_hash |-> spec]>>]

Minter ==
  INSTANCE GatewayMinter
  WITH used <- minter_used, balance <- minter_balance,
       InitialBalance <- MinterBalance, Hashes <- Specs,
       Signatures <- EvmKeys \X {AttestationOf(p) : p \in Promise},
       BurnAmounts <- {}, Fundings <- {}

-----------------------------------------------------------------------------
(* External: the API and the operator. *)

IsMinted(p) == minted[p.intent.spec] # <<>>
IsBurned(p) == burned[p.intent.spec] # <<>>

\* An attestation that has run out without being used binds nobody.
Released(p) == slot > p.slot + Lifetime /\ ~ IsMinted(p)

Due(p) == slot <= p.slot + BurnWithin

\* The most a burn may take.
Reservation(p) == Charge(p.intent.spec, p.intent.max_fee)

AccountOf(p) == <<p.intent.spec.source_token, p.intent.spec.source_depositor>>

Reserved(open, t, k) ==
  LET own == {p \in open : AccountOf(p) = <<t, k>>}
  IN  SumFunctionOnSet([p \in own |-> Reservation(p)], own)

Attest(intent) ==
  LET spec == intent.spec
      t == spec.source_token
      k == spec.source_depositor
      p == [intent |-> intent, slot |-> slot]
      open == {q \in promises : ~ IsBurned(q) /\ ~ Released(q)}
  IN
  /\ \A q \in promises : q.intent.spec # spec
  /\ spec.addressed_here /\ spec.value > 0
  /\ intent.max_block_height >= slot + BurnWithin
  /\ ValidSignerAuthorization(t, k, spec.source_signer)
  /\ Reserved(open, t, k) + Reservation(p) <= deposit[t][k].available_amount
  /\ promises' = promises \cup {p}
  /\ UNCHANGED <<vars, minterVars>>

\* What has been paid is burned in time, with any fee the user has allowed.
OperatorBurn(p) ==
  /\ IsMinted(p) /\ ~ IsBurned(p) /\ Due(p)
  /\ \E s \in EvmKeys, k \in Users, fee \in Fees :
       GatewayBurn(s, k, p.intent, fee)

-----------------------------------------------------------------------------
(* The programs. *)

SystemInit == Init /\ Minter!Init /\ promises = {}

\* Everything but burns, which take a burn signer's signature.
WalletStep ==
  /\ \/ \E k \in Keys : Administer(k)
     \/ \E t \in Tokens, k \in Keys : UseAccount(t, k)
     \/ \E p \in promises : OperatorBurn(p)
  /\ UNCHANGED <<minterVars, promises>>

\* The minter's attesters sign only what the API promises.
MinterStep ==
  /\ \/ \E k \in Keys : Minter!Administer(k)
     \/ \E p \in promises, a \in EvmKeys, k \in Keys :
          Minter!GatewayMint(a, k, AttestationOf(p))
     \/ Minter!ProcessMint
  /\ UNCHANGED <<vars, promises>>

Clock == Tick /\ Minter!Tick /\ UNCHANGED promises

\* A mint is one transaction: its steps have no others in between.
SystemNext ==
  \/ tx = Minter!NoTransaction /\ WalletStep
  \/ tx = Minter!NoTransaction /\ \E intent \in Intents : Attest(intent)
  \/ MinterStep
  \/ Clock

SystemSpec == SystemInit /\ [][SystemNext]_systemVars

-----------------------------------------------------------------------------
(* Properties. *)

Open == {p \in promises : ~ IsBurned(p) /\ ~ Released(p) /\ Due(p)}

\* Until the operator has burned or must have, a depositor's claim covers all
\* that the API has promised against it: no order of withdrawals, new
\* initiations, changes of the delay, pauses and other burns undercuts it.
PromisesAreCovered ==
  \A t \in Tokens, k \in Keys :
    Reserved(Open, t, k)
      <= deposit[t][k].available_amount + deposit[t][k].withdrawing_amount

\* What the minter has paid can be burned, with any fee the user allowed: only
\* a pause or the removal of all burn signers is in the way of gateway_burn.
MintedCanBeBurned ==
  \A p \in Open :
    IsMinted(p) /\ Running =>
      \A s \in Range(wallet.burn_signers), fee \in 0 .. p.intent.max_fee :
        CanBurn(s, p.intent.spec.source_signer, p.intent, fee)

\* A burn takes off the source all that its mint has put onto the destination,
\* though reduce_balance would be content with less.
BurnsMatchMints ==
  \A spec \in Specs :
    burned[spec] # <<>> =>
      /\ minted[spec] # <<>>
      /\ burned[spec][1].value = minted[spec][1].value
=============================================================================
