---------------------- MODULE GatewayMinterProperties ----------------------
(***************************************************************************)
(* What the GatewayMinter program promises the operator who funds it, the  *)
(* attesters and the recipients.                                           *)
(***************************************************************************)
EXTENDS GatewayMinter

Snapshot ==
  [used : SUBSET Hashes, balance : [Tokens -> [Holders -> Nat]],
   minted : [Hashes -> Seq(AttestationUsed)]]

Transaction ==
  [next : Nat \ {0}, attestation : AttestationSets, before : Snapshot]

\* Every account holds data of its declared type; custody is never overdrawn,
\* also in the middle of a set and after an abort (state.rs GatewayMinter).
TypeOK ==
  /\ minter \in Minter
  /\ used \in SUBSET Hashes
  /\ balance \in [Tokens -> [Holders -> Nat]]
  /\ slot \in 0 .. MaxSlot
  /\ tx \in Transaction \cup {NoTransaction}
  /\ minted \in [Hashes -> Seq(AttestationUsed)]
  /\ funded \in [Tokens -> Nat]
  /\ custody_burned \in [Tokens -> Nat]

-----------------------------------------------------------------------------
(* Mints. *)

Once(u, m) ==
  \A hash \in Hashes : Len(m[hash]) <= 1 /\ (hash \in u <=> m[hash] # <<>>)

\* A transfer spec hash is paid at most once, however many sets name it, and
\* however often one set does: UsedTransferSpecHash exists exactly for the
\* hashes that have an AttestationUsed event.
MintedOnce == Once(used, minted)

PaidAs(e) ==
  minted[e.transfer_spec_hash] =
    <<[token |-> e.destination_token, recipient |-> e.destination_recipient,
       value |-> e.value]>>

\* Between transactions, whatever has been paid belongs to a signed set that
\* is addressed to this program and has been paid in all its elements, each
\* with the token, recipient and value that were signed.
MintedInWholeSets ==
  tx = NoTransaction =>
    \A hash \in Hashes : minted[hash] # <<>> =>
      \E set \in AttestationSets :
        /\ set.addressed_here
        /\ \E i \in DOMAIN set.elements :
             set.elements[i].transfer_spec_hash = hash
        /\ \A i \in DOMAIN set.elements : PaidAs(set.elements[i])

\* What the events say was paid out of token t's custody for each hash.
PaidOut(m, t) ==
  [hash \in Hashes |->
     IF /\ m[hash] # <<>>
        /\ m[hash][1].token = t
        /\ m[hash][1].recipient.owner # Custody
     THEN m[hash][1].value ELSE 0]

Accounted(b, m) ==
  \A t \in Tokens :
    b[t][Custody] + custody_burned[t] + SumFunctionOnSet(PaidOut(m, t), Hashes)
      = funded[t]

\* Custody holds what it was funded with less what was burned from it and what
\* the AttestationUsed events say was paid out, at every element of a set.
CustodyAccounted == Accounted(balance, minted)

\* The ledger as it was before the transaction that runs.
SettledBalance == IF tx = NoTransaction THEN balance ELSE tx.before.balance
SettledMinted == IF tx = NoTransaction THEN minted ELSE tx.before.minted

Attesters == Range(minter.enabled_attesters)
Stopped == ~ minter.initialized \/ minter.paused

OneShot ==
  INSTANCE AttestedMint
    WITH balance <- SettledBalance, minted <- SettledMinted,
         attesters <- Attesters, stopped <- Stopped

\* Working through a set element by element implements paying it in one step:
\* no order of elements, repeated hash, shared recipient or token, payment to
\* custody itself, or failure in the middle tells the difference.
MintsAreOneShot == OneShot!Spec

\* The set could be paid in one step out of what custody held when the
\* transaction began, and pays nothing to custody itself.
Payable(set, before) ==
  /\ OneShot!WellFormed(set)
  /\ \A hash \in OneShot!HashesOf(set) : before.minted[hash] = <<>>
  /\ \A t \in Tokens : OneShot!TakenOut(set, t) <= before.balance[t][Custody]
  /\ \A i \in DOMAIN set.elements :
       /\ IsTokenSupported(set.elements[i].destination_token)
       /\ set.elements[i].destination_recipient.owner # Custody

\* A set that is payable as a whole never fails in the middle: with the right
\* accounts every element goes through, whatever the earlier ones have moved.
PayableSetGoesThrough ==
  tx # NoTransaction =>
    (/\ Payable(tx.attestation, tx.before)
     /\ tx.next <= Len(tx.attestation.elements)
     => \E custody, recipient \in TokenAccount :
          CanMintElement(custody, recipient))

-----------------------------------------------------------------------------
(* The configuration. *)

NoDuplicates(s) == \A i, j \in DOMAIN s : s[i] = s[j] => i = j

\* The lists stay within their account's space and name nothing twice, and the
\* bump found through a token's position is that token's.
ListsWellFormed ==
  /\ Len(minter.supported_tokens) <= MaxSupportedTokens
  /\ Len(minter.enabled_attesters) <= MaxAttesters
  /\ NoDuplicates(minter.supported_tokens)
  /\ NoDuplicates(minter.enabled_attesters)
  /\ \A t \in Tokens : IsTokenSupported(t) =>
       IsCustody([mint |-> t, owner |-> Custody])

\* An attester that the owner removes is out, however often it was added: none
\* of its signatures pays anything until it is added again.
RemovedAttesterIsOut ==
  [][\A k \in Keys, a \in EvmKeys :
       RemoveAttester(k, a) => a \notin Range(minter'.enabled_attesters)]_vars

\* No sequence of instructions gives the default key, which nobody can sign
\* with, a role or an attester's power, although it can be nominated as owner
\* and is the pending owner at first: an initialized minter can be paused,
\* configured and handed over.
RolesAreHeld ==
  /\ minter.initialized =>
       DefaultKey \notin {minter.owner, minter.pauser, minter.token_controller}
  /\ ~ IsAttesterEnabled(DefaultKey)
=============================================================================
