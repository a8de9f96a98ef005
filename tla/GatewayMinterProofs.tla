------------------------ MODULE GatewayMinterProofs ------------------------
(***************************************************************************)
(* Machine-checked proofs about the GatewayMinter program, for all keys,   *)
(* tokens, signed sets of any length, limits and balances that satisfy the *)
(* assumptions of module GatewayMinter.                                    *)
(***************************************************************************)
EXTENDS GatewayMinterProperties, CollectionLemmas

-----------------------------------------------------------------------------
(* The inductive invariant.  It says of the state that an abort goes back  *)
(* to what it says of the present one.                                     *)

Sound(u, b, m) == Once(u, m) /\ Accounted(b, m)

MinterInv ==
  /\ TypeOK
  /\ Sound(used, balance, minted)
  /\ tx # NoTransaction =>
       Sound(tx.before.used, tx.before.balance, tx.before.minted)

\* Nothing that the invariant relates to the configuration or the clock.
LEMMA LedgerKept ==
  ASSUME MinterInv, TypeOK',
         UNCHANGED <<used, balance, tx, minted, funded, custody_burned>>
  PROVE  MinterInv'
BY DEF MinterInv, Sound, Once, Accounted

-----------------------------------------------------------------------------
(* Types. *)

LEMMA SetMinterType ==
  ASSUME TypeOK, NEW m \in Minter, SetMinter(m)
  PROVE  TypeOK'
BY DEF TypeOK, SetMinter

LEMMA SetMinterStep ==
  ASSUME MinterInv, NEW m \in Minter, SetMinter(m)
  PROVE  MinterInv'
<1>1. TypeOK'
  BY SetMinterType DEF MinterInv
<1> QED
  BY <1>1, LedgerKept DEF SetMinter

\* What the configuration instructions do, burns from custody aside.
LEMMA ConfigureStep ==
  ASSUME MinterInv, NEW signer \in Keys, Administer(signer),
         ~ \E t \in Tokens, amount \in BurnAmounts :
             BurnTokenCustody(signer, t, amount)
  PROVE  MinterInv'
<1> USE KeysAssumption, ConfigAssumption, InputsAssumption
<1>0. minter \in Minter /\ signer \in Addresses /\ DefaultKey \in Addresses
  BY DEF MinterInv, TypeOK, Addresses
<1>1. CASE Initialize(signer)
  <2>1. [minter EXCEPT
          !.initialized = TRUE, !.owner = signer, !.pauser = signer,
          !.token_controller = signer] \in Minter
    BY <1>0 DEF Minter
  <2> QED
    BY <1>1, <2>1, SetMinterStep DEF Initialize
<1>2. CASE AcceptOwnership(signer)
  <2>1. [minter EXCEPT !.owner = minter.pending_owner,
                       !.pending_owner = DefaultKey] \in Minter
    BY <1>0 DEF Minter
  <2> QED
    BY <1>2, <2>1, SetMinterStep DEF AcceptOwnership
<1>3. CASE Pause(signer) \/ Unpause(signer)
  <2>1. /\ [minter EXCEPT !.paused = TRUE] \in Minter
        /\ [minter EXCEPT !.paused = FALSE] \in Minter
    BY <1>0 DEF Minter
  <2> QED
    BY <1>3, <2>1, SetMinterStep DEF Pause, Unpause
<1>4. ASSUME NEW k \in Nominees,
             \/ TransferOwnership(signer, k)
             \/ UpdatePauser(signer, k)
             \/ UpdateTokenController(signer, k)
      PROVE  MinterInv'
  <2>1. /\ [minter EXCEPT !.pending_owner = k] \in Minter
        /\ [minter EXCEPT !.pauser = k] \in Minter
        /\ [minter EXCEPT !.token_controller = k] \in Minter
    BY <1>0 DEF Minter
  <2> QED
    BY <1>4, <2>1, SetMinterStep
    DEF TransferOwnership, UpdatePauser, UpdateTokenController
<1>5. ASSUME NEW a \in EvmKeys \cup {DefaultKey}, AddAttester(signer, a)
      PROVE  MinterInv'
  <2>1. a \in EvmKeys
    BY <1>5 DEF AddAttester
  <2>2. WithAttester(minter.enabled_attesters, a) \in Seq(EvmKeys)
    BY <1>0, <2>1 DEF Minter, WithAttester
  <2>3. [minter EXCEPT !.enabled_attesters = WithAttester(@, a)] \in Minter
    BY <1>0, <2>2 DEF Minter
  <2> QED
    BY <1>5, <2>3, SetMinterStep DEF AddAttester
<1>6. ASSUME NEW a \in EvmKeys \cup {DefaultKey}, RemoveAttester(signer, a)
      PROVE  MinterInv'
  <2>1. CASE ~ IsAttesterEnabled(a)
    BY <1>0, <1>6, <2>1, SetMinterStep DEF RemoveAttester
  <2>2. CASE IsAttesterEnabled(a)
    <3>1. WithoutFirst(minter.enabled_attesters, a) \in Seq(EvmKeys)
      BY <1>0, <2>2, WithoutFirstType DEF Minter, IsAttesterEnabled
    <3>2. [minter EXCEPT !.enabled_attesters = WithoutFirst(@, a)] \in Minter
      BY <1>0, <3>1 DEF Minter
    <3> QED
      BY <1>6, <2>2, <3>2, SetMinterStep DEF RemoveAttester
  <2> QED
    BY <2>1, <2>2
<1>7. ASSUME NEW t \in Tokens, AddToken(signer, t)
      PROVE  MinterInv'
  <2>1. /\ Append(minter.supported_tokens, t) \in Seq(Tokens)
        /\ Append(minter.custody_token_account_bumps, CustodyBump[t])
             \in Seq(Nat)
    BY <1>0 DEF Minter
  <2>2. [minter EXCEPT
          !.supported_tokens = Append(@, t),
          !.custody_token_account_bumps = Append(@, CustodyBump[t])] \in Minter
    BY <1>0, <2>1 DEF Minter
  <2> QED
    BY <1>0, <1>7, <2>2, SetMinterStep DEF AddToken
<1> QED
  BY <1>1, <1>2, <1>3, <1>4, <1>5, <1>6, <1>7 DEF Administer

-----------------------------------------------------------------------------
(* Custody. *)

\* The events of a typed history name natural amounts, so their sum is one.
LEMMA PaidOutNatural ==
  ASSUME NEW m \in [Hashes -> Seq(AttestationUsed)], NEW t \in Tokens
  PROVE  /\ \A hash \in Hashes : PaidOut(m, t)[hash] \in Nat
         /\ SumFunctionOnSet(PaidOut(m, t), Hashes) \in Nat
<1>1. ASSUME NEW hash \in Hashes PROVE PaidOut(m, t)[hash] \in Nat
  <2>1. CASE m[hash] = <<>>
    BY <2>1 DEF PaidOut
  <2>2. CASE m[hash] # <<>>
    <3>1. m[hash][1] \in AttestationUsed
      BY <2>2
    <3>2. m[hash][1].value \in Nat
      BY <3>1, ConfigAssumption DEF AttestationUsed, U64
    <3> QED
      BY <3>2 DEF PaidOut
  <2> QED
    BY <2>1, <2>2
<1>2. IsFiniteSet(Hashes)
  BY ConfigAssumption
<1> HIDE DEF PaidOut
<1> QED
  BY <1>1, <1>2, SumOfNaturals

LEMMA CustodyIsHolder == Custody \in Holders /\ Keys \subseteq Holders
BY DEF Holders, Addresses

\* Tokens that somebody sends to custody are funding.
LEMMA FundStep ==
  ASSUME MinterInv, NEW t \in Tokens, NEW k \in Keys, NEW amount \in Fundings,
         Fund(t, k, amount)
  PROVE  MinterInv'
<1>1. TypeOK /\ amount \in Nat /\ k # Custody
  BY InputsAssumption, ConfigAssumption, KeysAssumption
  DEF MinterInv, U64, Addresses
<1>2. /\ balance[t] \in [Holders -> Nat]
      /\ k \in Holders /\ Custody \in Holders /\ balance[t][k] - amount \in Nat
  BY <1>1, CustodyIsHolder DEF TypeOK, Fund, Holds
<1>3. /\ balance' \in [Tokens -> [Holders -> Nat]]
      /\ balance'[t][Custody] = balance[t][Custody] + amount
      /\ \A u \in Tokens : u # t => balance'[u] = balance[u]
  BY <1>1, <1>2 DEF TypeOK, Fund, Transfer
<1>4. /\ funded' \in [Tokens -> Nat]
      /\ funded'[t] = funded[t] + amount
      /\ \A u \in Tokens : u # t => funded'[u] = funded[u]
  BY <1>1 DEF TypeOK, Fund
<1>5. /\ UNCHANGED <<minter, used, slot, tx, minted, custody_burned>>
      /\ tx' = NoTransaction
  BY DEF Fund
<1>6. TypeOK'
  BY <1>1, <1>3, <1>4, <1>5 DEF TypeOK
<1>7. CustodyAccounted'
  <2>1. ASSUME NEW u \in Tokens
        PROVE  balance'[u][Custody] + custody_burned[u]
                 + SumFunctionOnSet(PaidOut(minted, u), Hashes) = funded'[u]
    <3> DEFINE paid == SumFunctionOnSet(PaidOut(minted, u), Hashes)
    <3>1. paid \in Nat
      BY <1>1, PaidOutNatural DEF TypeOK
    <3>2. /\ balance[u][Custody] \in Nat /\ custody_burned[u] \in Nat
          /\ funded[u] \in Nat
      BY <1>1, CustodyIsHolder DEF TypeOK
    <3>3. balance[u][Custody] + custody_burned[u] + paid = funded[u]
      BY DEF MinterInv, Sound, Accounted
    <3> HIDE DEF paid
    <3>4. balance'[u][Custody] + custody_burned[u] + paid = funded'[u]
      BY <1>1, <1>3, <1>4, <3>1, <3>2, <3>3
    <3> QED
      BY <3>4 DEF paid
  <2> QED
    BY <1>5, <2>1 DEF CustodyAccounted, Accounted
<1>8. MintedOnce'
  BY <1>5 DEF MinterInv, Sound, MintedOnce, Once
<1> QED
  BY <1>5, <1>6, <1>7, <1>8
  DEF MinterInv, Sound, MintedOnce, CustodyAccounted

\* A burn takes out of custody what it adds to the amount burned.
LEMMA BurnTokenCustodyStep ==
  ASSUME MinterInv, NEW signer \in Keys, NEW t \in Tokens,
         NEW amount \in BurnAmounts, BurnTokenCustody(signer, t, amount)
  PROVE  MinterInv'
<1> DEFINE burn == BurnAmount(balance[t][Custody], amount)
<1>1. TypeOK /\ amount \in Nat /\ balance[t][Custody] \in Nat
  BY InputsAssumption, ConfigAssumption, CustodyIsHolder
  DEF MinterInv, TypeOK, U64
<1>2. burn \in Nat /\ balance[t][Custody] - burn \in Nat
  BY <1>1 DEF BurnAmount
<1>3. /\ balance' = Burn(balance, t, Custody, burn)
      /\ custody_burned' = [custody_burned EXCEPT ![t] = @ + burn]
      /\ UNCHANGED <<minter, used, slot, tx, minted, funded>>
      /\ tx' = NoTransaction
  BY DEF BurnTokenCustody
<1> HIDE DEF burn
<1>4. /\ balance' \in [Tokens -> [Holders -> Nat]]
      /\ balance'[t][Custody] = balance[t][Custody] - burn
      /\ \A u \in Tokens : u # t => balance'[u] = balance[u]
  BY <1>1, <1>2, <1>3, CustodyIsHolder DEF TypeOK, Burn
<1>5. /\ custody_burned' \in [Tokens -> Nat]
      /\ custody_burned'[t] = custody_burned[t] + burn
      /\ \A u \in Tokens : u # t => custody_burned'[u] = custody_burned[u]
  BY <1>1, <1>2, <1>3 DEF TypeOK
<1>6. TypeOK'
  BY <1>1, <1>3, <1>4, <1>5 DEF TypeOK
<1>7. CustodyAccounted'
  <2>1. ASSUME NEW u \in Tokens
        PROVE  balance'[u][Custody] + custody_burned'[u]
                 + SumFunctionOnSet(PaidOut(minted, u), Hashes) = funded[u]
    <3> DEFINE paid == SumFunctionOnSet(PaidOut(minted, u), Hashes)
    <3>1. paid \in Nat
      BY <1>1, PaidOutNatural DEF TypeOK
    <3>2. /\ balance[u][Custody] \in Nat /\ custody_burned[u] \in Nat
          /\ funded[u] \in Nat
      BY <1>1, CustodyIsHolder DEF TypeOK
    <3>3. balance[u][Custody] + custody_burned[u] + paid = funded[u]
      BY DEF MinterInv, Sound, Accounted
    <3> HIDE DEF paid
    <3>4. balance'[u][Custody] + custody_burned'[u] + paid = funded[u]
      BY <1>2, <1>4, <1>5, <3>1, <3>2, <3>3
    <3> QED
      BY <3>4 DEF paid
  <2> QED
    BY <1>3, <2>1 DEF CustodyAccounted, Accounted
<1>8. MintedOnce'
  BY <1>3 DEF MinterInv, Sound, MintedOnce, Once
<1> QED
  BY <1>3, <1>6, <1>7, <1>8
  DEF MinterInv, Sound, MintedOnce, CustodyAccounted

-----------------------------------------------------------------------------
(* Mints. *)

LEMMA StartStep ==
  ASSUME MinterInv, NEW attester, NEW caller, NEW attestation,
         Start(attester, caller, attestation)
  PROVE  MinterInv'
<1>1. attestation \in AttestationSets
  BY DEF Start, AttestationSets
<1>2. tx' = [next |-> 1, attestation |-> attestation,
             before |-> [used |-> used, balance |-> balance,
                         minted |-> minted]]
  BY DEF Start
<1>3. tx' \in Transaction
  BY <1>1, <1>2 DEF MinterInv, TypeOK, Transaction, Snapshot
<1>4. UNCHANGED <<minter, used, balance, slot, minted, funded, custody_burned>>
  BY DEF Start
<1>5. TypeOK'
  BY <1>3, <1>4 DEF MinterInv, TypeOK
<1>6. /\ tx'.before.used = used
      /\ tx'.before.balance = balance
      /\ tx'.before.minted = minted
  BY <1>2
<1> QED
  BY <1>4, <1>5, <1>6 DEF MinterInv, Sound, Once, Accounted

\* The element that comes next has the types of its fields.
LEMMA ElementType ==
  ASSUME TypeOK, tx # NoTransaction,
         tx.next <= Len(tx.attestation.elements)
  PROVE  tx.attestation.elements[tx.next] \in MintAttestationElement
<1>1. tx \in Transaction
  BY DEF TypeOK
<1>2. tx.next \in Nat \ {0} /\ tx.attestation \in AttestationSets
  BY <1>1 DEF Transaction
<1>3. tx.attestation \in MintAttestation
  BY <1>2, ConfigAssumption DEF AttestationSets
<1>4. tx.attestation.elements \in Seq(MintAttestationElement)
  BY <1>3 DEF MintAttestation
<1> QED
  BY <1>2, <1>4

\* What one element writes: one event for a hash that had none, and as many
\* tokens out of custody as the event says, unless they stay there.
LEMMA MintElementFacts ==
  ASSUME MinterInv, NEW custody \in TokenAccount,
         NEW recipient \in TokenAccount, MintElement(custody, recipient)
  PROVE  \E hash \in Hashes, event \in AttestationUsed :
           LET out == IF event.recipient.owner = Custody THEN 0
                                                         ELSE event.value
           IN  /\ minted[hash] = <<>>
               /\ used' = used \cup {hash}
               /\ minted' = [minted EXCEPT ![hash] = <<event>>]
               /\ balance' \in [Tokens -> [Holders -> Nat]]
               /\ event.token \in Tokens
               /\ out \in Nat
               /\ balance'[event.token][Custody]
                    = balance[event.token][Custody] - out
               /\ \A u \in Tokens : u # event.token => balance'[u] = balance[u]
<1> DEFINE e == tx.attestation.elements[tx.next]
           hash == e.transfer_spec_hash
           event == [token |-> e.destination_token,
                     recipient |-> e.destination_recipient,
                     value |-> e.value]
           out == IF event.recipient.owner = Custody THEN 0 ELSE event.value
<1>1. TypeOK /\ CanMintElement(custody, recipient)
  BY DEF MinterInv, MintElement
<1>2. e \in MintAttestationElement
  BY <1>1, ElementType DEF CanMintElement
<1>3. /\ hash \in Hashes /\ event \in AttestationUsed
      /\ event.token \in Tokens /\ event.value \in Nat
      /\ event.recipient \in TokenAccount /\ event.recipient.owner \in Holders
  BY <1>2, ConfigAssumption
  DEF MintAttestationElement, AttestationUsed, TokenAccount, U64
<1>4. /\ hash \notin used
      /\ custody.mint = event.token
      /\ recipient.owner = event.recipient.owner
      /\ event.value <= balance[event.token][Custody]
  BY <1>1 DEF CanMintElement, IsTransferSpecHashUsed, MatchesElement, Holds
<1>5. /\ used' = used \cup {hash}
      /\ balance' = Transfer(balance, event.token, Custody,
                             event.recipient.owner, event.value)
      /\ minted' = [minted EXCEPT ![hash] = Append(@, event)]
  BY <1>4 DEF MintElement
<1> HIDE DEF e, hash, event
<1>6. minted[hash] = <<>>
  BY <1>3, <1>4 DEF MinterInv, Sound, Once
<1>7. minted' = [minted EXCEPT ![hash] = <<event>>]
  <2>1. Append(minted[hash], event) = <<event>>
    BY <1>6
  <2> QED
    BY <1>5, <2>1
<1>8. out \in Nat
  BY <1>3
<1>9. /\ balance' \in [Tokens -> [Holders -> Nat]]
      /\ balance'[event.token][Custody] = balance[event.token][Custody] - out
      /\ \A u \in Tokens : u # event.token => balance'[u] = balance[u]
  <2>1. /\ balance[event.token] \in [Holders -> Nat]
        /\ balance \in [Tokens -> [Holders -> Nat]]
        /\ Custody \in Holders
        /\ balance[event.token][Custody] - event.value \in Nat
    BY <1>1, <1>3, <1>4, CustodyIsHolder DEF TypeOK
  <2>2. CASE event.recipient.owner = Custody
    BY <1>3, <1>5, <2>1, <2>2 DEF Transfer
  <2>3. CASE event.recipient.owner # Custody
    BY <1>3, <1>5, <2>1, <2>3 DEF Transfer
  <2> QED
    BY <2>2, <2>3
<1> HIDE DEF out
<1>10. /\ minted[hash] = <<>>
       /\ used' = used \cup {hash}
       /\ minted' = [minted EXCEPT ![hash] = <<event>>]
       /\ balance' \in [Tokens -> [Holders -> Nat]]
       /\ event.token \in Tokens
       /\ out \in Nat
       /\ balance'[event.token][Custody] = balance[event.token][Custody] - out
       /\ \A u \in Tokens : u # event.token => balance'[u] = balance[u]
  BY <1>3, <1>5, <1>6, <1>7, <1>8, <1>9
<1> QED
  BY <1>3, <1>10 DEF out

\* What the payment of an event took out of token t's custody.
TakenFrom(event, t) ==
  IF event.token = t /\ event.recipient.owner # Custody
  THEN event.value ELSE 0

\* SumMoves for what is paid for the hashes.
LEMMA PaymentsMove ==
  \A f, g : \A hash \in Hashes, out \in Int :
    /\ \A x \in Hashes : f[x] \in Int
    /\ \A x \in Hashes : x # hash => g[x] = f[x]
    /\ g[hash] = f[hash] + out
    => SumFunctionOnSet(g, Hashes) = SumFunctionOnSet(f, Hashes) + out
<1> SUFFICES ASSUME NEW f, NEW g, NEW hash \in Hashes, NEW out \in Int,
                    \A x \in Hashes : f[x] \in Int,
                    \A x \in Hashes : x # hash => g[x] = f[x],
                    g[hash] = f[hash] + out
             PROVE  SumFunctionOnSet(g, Hashes)
                      = SumFunctionOnSet(f, Hashes) + out
  OBVIOUS
<1> QED
  BY ConfigAssumption, SumMoves

\* An event for a hash that had none moves the sum of its own token by what it
\* took out of custody, and no other token's.
LEMMA PaidOutMoves ==
  ASSUME NEW m \in [Hashes -> Seq(AttestationUsed)], NEW hash \in Hashes,
         NEW event \in AttestationUsed, m[hash] = <<>>,
         NEW n, n = [m EXCEPT ![hash] = <<event>>], NEW t \in Tokens
  PROVE  SumFunctionOnSet(PaidOut(n, t), Hashes)
           = SumFunctionOnSet(PaidOut(m, t), Hashes) + TakenFrom(event, t)
<1> DEFINE out == TakenFrom(event, t)
           f == PaidOut(m, t)
           g == PaidOut(n, t)
<1>1. \A x \in Hashes : f[x] \in Nat
  BY PaidOutNatural
<1>2. \A x \in Hashes : x # hash => g[x] = f[x]
  BY DEF PaidOut
<1>3. f[hash] = 0
  BY DEF PaidOut
<1>4. n[hash] = <<event>> /\ <<event>> # <<>> /\ <<event>>[1] = event
  OBVIOUS
<1>5. g[hash] = out
  BY <1>4 DEF PaidOut, TakenFrom
<1>6. out \in Int
  BY ConfigAssumption DEF AttestationUsed, U64, TakenFrom
<1> HIDE DEF f, g, out
<1>7. \A x \in Hashes : f[x] \in Int
  BY <1>1
<1>8. g[hash] = f[hash] + out
  BY <1>3, <1>5, <1>6
<1>9. SumFunctionOnSet(g, Hashes) = SumFunctionOnSet(f, Hashes) + out
  BY <1>2, <1>6, <1>7, <1>8, PaymentsMove
<1> QED
  BY <1>9 DEF f, g, out

LEMMA MintElementStep ==
  ASSUME MinterInv, NEW custody \in TokenAccount,
         NEW recipient \in TokenAccount, MintElement(custody, recipient)
  PROVE  MinterInv'
<1>1. TypeOK /\ tx # NoTransaction
  BY DEF MinterInv, MintElement, CanMintElement
<1>2. PICK hash \in Hashes, event \in AttestationUsed :
        LET out == IF event.recipient.owner = Custody THEN 0
                                                      ELSE event.value
        IN  /\ minted[hash] = <<>>
            /\ used' = used \cup {hash}
            /\ minted' = [minted EXCEPT ![hash] = <<event>>]
            /\ balance' \in [Tokens -> [Holders -> Nat]]
            /\ event.token \in Tokens
            /\ out \in Nat
            /\ balance'[event.token][Custody]
                 = balance[event.token][Custody] - out
            /\ \A u \in Tokens : u # event.token => balance'[u] = balance[u]
  BY MintElementFacts
<1>3. /\ UNCHANGED <<minter, slot, funded, custody_burned>>
      /\ tx' = [tx EXCEPT !.next = @ + 1]
  BY DEF MintElement
<1>4. tx' \in Transaction /\ tx'.before = tx.before
  BY <1>1, <1>3 DEF TypeOK, Transaction
<1>5. minted' \in [Hashes -> Seq(AttestationUsed)]
  <2>1. <<event>> \in Seq(AttestationUsed)
    OBVIOUS
  <2> QED
    BY <1>1, <1>2, <2>1 DEF TypeOK
<1>6. TypeOK'
  BY <1>1, <1>2, <1>3, <1>4, <1>5 DEF TypeOK
<1>7. Once(used', minted')
  <2>1. ASSUME NEW x \in Hashes
        PROVE  Len(minted'[x]) <= 1 /\ (x \in used' <=> minted'[x] # <<>>)
    <3>1. CASE x = hash
      <4>1. minted'[x] = <<event>> /\ Len(<<event>>) = 1 /\ <<event>> # <<>>
        BY <1>1, <1>2, <3>1 DEF TypeOK
      <4>2. x \in used'
        BY <1>2, <3>1
      <4> QED
        BY <4>1, <4>2
    <3>2. CASE x # hash
      <4>1. minted'[x] = minted[x] /\ (x \in used' <=> x \in used)
        BY <1>1, <1>2, <3>2 DEF TypeOK
      <4> QED
        BY <4>1 DEF MinterInv, Sound, Once
    <3> QED
      BY <3>1, <3>2
  <2> QED
    BY <2>1 DEF Once
<1>8. ASSUME NEW u \in Tokens
      PROVE  balance'[u][Custody] + custody_burned[u]
               + SumFunctionOnSet(PaidOut(minted', u), Hashes) = funded[u]
  <2> DEFINE paid == SumFunctionOnSet(PaidOut(minted, u), Hashes)
             moved == TakenFrom(event, u)
  <2>1. paid \in Nat
    BY <1>1, PaidOutNatural DEF TypeOK
  <2>2. SumFunctionOnSet(PaidOut(minted', u), Hashes) = paid + moved
    <3>1. /\ minted \in [Hashes -> Seq(AttestationUsed)]
          /\ minted[hash] = <<>>
          /\ minted' = [minted EXCEPT ![hash] = <<event>>]
      BY <1>1, <1>2 DEF TypeOK
    <3> QED
      BY <3>1, PaidOutMoves
  <2>3. /\ balance[u][Custody] \in Nat /\ custody_burned[u] \in Nat
        /\ funded[u] \in Nat
    BY <1>1, CustodyIsHolder DEF TypeOK
  <2>4. balance[u][Custody] + custody_burned[u] + paid = funded[u]
    BY DEF MinterInv, Sound, Accounted
  <2>5. moved \in Nat /\ balance'[u][Custody] = balance[u][Custody] - moved
    <3>1. CASE event.token = u
      BY <1>2, <3>1 DEF TakenFrom
    <3>2. CASE event.token # u
      BY <1>2, <2>3, <3>2 DEF TakenFrom
    <3> QED
      BY <3>1, <3>2
  <2> HIDE DEF paid, moved
  <2> QED
    BY <2>1, <2>2, <2>3, <2>4, <2>5
<1>9. Accounted(balance, minted)'
  BY <1>3, <1>8 DEF Accounted
<1>10. Sound(tx.before.used, tx.before.balance, tx.before.minted)'
  BY <1>1, <1>3, <1>4 DEF MinterInv, Sound, Once, Accounted
<1> QED
  BY <1>6, <1>7, <1>9, <1>10 DEF MinterInv, Sound

LEMMA CommitStep ==
  ASSUME MinterInv, Commit
  PROVE  MinterInv'
<1>1. /\ UNCHANGED <<minter, used, balance, slot, minted, funded,
                     custody_burned>>
      /\ tx' = NoTransaction
  BY DEF Commit
<1>2. TypeOK'
  BY <1>1 DEF MinterInv, TypeOK
<1> QED
  BY <1>1, <1>2 DEF MinterInv, Sound, Once, Accounted

\* An abort goes back to a state that the invariant describes.
LEMMA AbortStep ==
  ASSUME MinterInv, Abort
  PROVE  MinterInv'
<1>1. /\ tx # NoTransaction
      /\ tx' = NoTransaction
      /\ used' = tx.before.used
      /\ balance' = tx.before.balance
      /\ minted' = tx.before.minted
      /\ UNCHANGED <<minter, slot, funded, custody_burned>>
  BY DEF Abort
<1>2. tx.before \in Snapshot
  BY <1>1 DEF MinterInv, TypeOK, Transaction
<1>3. TypeOK'
  BY <1>1, <1>2 DEF MinterInv, TypeOK, Snapshot
<1>4. Sound(used, balance, minted)'
  BY <1>1 DEF MinterInv, Sound, Once, Accounted
<1> QED
  BY <1>1, <1>3, <1>4 DEF MinterInv

-----------------------------------------------------------------------------
LEMMA MinterStep == MinterInv /\ [Next]_vars => MinterInv'
<1> SUFFICES ASSUME MinterInv, [Next]_vars PROVE MinterInv'
  OBVIOUS
<1>1. ASSUME NEW k \in Keys, Administer(k) PROVE MinterInv'
  BY <1>1, ConfigureStep, BurnTokenCustodyStep
<1>2. ASSUME NEW a \in EvmKeys, NEW k \in Keys, SubmitMint(a, k)
      PROVE  MinterInv'
  BY <1>2, StartStep DEF SubmitMint, GatewayMint, GatewayMintWithParams
<1>3. CASE ProcessMint
  BY <1>3, MintElementStep, CommitStep, AbortStep DEF ProcessMint
<1>4. ASSUME NEW t \in Tokens, NEW k \in Keys, NEW amount \in Fundings,
             Fund(t, k, amount)
      PROVE  MinterInv'
  BY <1>4, FundStep
<1>5. CASE Tick
  <2>1. TypeOK'
    BY <1>5, InputsAssumption DEF Tick, MinterInv, TypeOK, U64
  <2> QED
    BY <1>5, <2>1, LedgerKept DEF Tick
<1>6. CASE UNCHANGED vars
  <2>1. TypeOK'
    BY <1>6 DEF vars, MinterInv, TypeOK
  <2> QED
    BY <1>6, <2>1, LedgerKept DEF vars
<1> QED
  BY <1>1, <1>2, <1>3, <1>4, <1>5, <1>6 DEF Next

LEMMA MinterInit == Init => MinterInv
<1> SUFFICES ASSUME Init PROVE MinterInv
  OBVIOUS
<1> USE KeysAssumption, ConfigAssumption, SupplyAssumption, InputsAssumption
<1>1. minter \in Minter
  <2>1. <<>> \in Seq(Tokens) /\ <<>> \in Seq(Nat) /\ <<>> \in Seq(EvmKeys)
    OBVIOUS
  <2> QED
    BY <2>1 DEF Init, NoMinter, Minter, Addresses
<1>2. /\ minted \in [Hashes -> Seq(AttestationUsed)]
      /\ \A hash \in Hashes : minted[hash] = <<>>
  BY DEF Init
<1>3. /\ balance \in [Tokens -> [Holders -> Nat]]
      /\ funded \in [Tokens -> Nat] /\ custody_burned \in [Tokens -> Nat]
      /\ \A t \in Tokens : /\ funded[t] = balance[t][Custody]
                            /\ custody_burned[t] = 0
  BY CustodyIsHolder DEF Init
<1>4. slot \in 0 .. MaxSlot /\ tx = NoTransaction /\ used = {}
  BY DEF Init, U64
<1>5. TypeOK
  BY <1>1, <1>2, <1>3, <1>4 DEF TypeOK
<1>6. Once(used, minted)
  BY <1>2, <1>4 DEF Once
<1>7. ASSUME NEW t \in Tokens
      PROVE  SumFunctionOnSet(PaidOut(minted, t), Hashes) = 0
  <2>1. \A x \in Hashes : PaidOut(minted, t)[x] = 0
    BY <1>2 DEF PaidOut
  <2> HIDE DEF PaidOut
  <2> QED
    BY <2>1, SumOfZeros
<1>8. Accounted(balance, minted)
  BY <1>3, <1>7 DEF Accounted
<1> QED
  BY <1>4, <1>5, <1>6, <1>8 DEF MinterInv, Sound

-----------------------------------------------------------------------------
(* The theorems. *)

\* Every behaviour of the program satisfies the inductive invariant.
THEOREM MinterInvariant == Spec => []MinterInv
<1>1. MinterInv /\ [Next]_vars => MinterInv'
  BY MinterStep
<1> QED
  BY <1>1, MinterInit, PTL DEF Spec

\* Every account always holds data of its declared type: no element of a set
\* overdraws custody, and an abort brings back a proper state.
THEOREM TypeCorrect == Spec => []TypeOK
<1>1. MinterInv => TypeOK
  BY DEF MinterInv
<1> QED
  BY <1>1, MinterInvariant, PTL

\* However many signed sets name a transfer spec hash, in however many of their
\* elements, it is paid at most once, and exactly the hashes that were paid
\* have a UsedTransferSpecHash account.
THEOREM HashesAreMintedOnce == Spec => []MintedOnce
<1>1. MinterInv => MintedOnce
  BY DEF MinterInv, Sound, MintedOnce
<1> QED
  BY <1>1, MinterInvariant, PTL

\* For any number of tokens, hashes and sets of any length, custody always
\* holds its funding less what was burned and what the events say was paid,
\* at every element of a set and after every abort.
THEOREM CustodyIsAccounted == Spec => []CustodyAccounted
<1>1. MinterInv => CustodyAccounted
  BY DEF MinterInv, Sound, CustodyAccounted
<1> QED
  BY <1>1, MinterInvariant, PTL

-----------------------------------------------------------------------------
(* All or nothing. *)

PaidIn(m, e) ==
  m[e.transfer_spec_hash] =
    <<[token |-> e.destination_token, recipient |-> e.destination_recipient,
       value |-> e.value]>>

InWholeSets(m) ==
  \A hash \in Hashes : m[hash] # <<>> =>
    \E set \in AttestationSets :
      /\ set.addressed_here
      /\ \E i \in DOMAIN set.elements :
           set.elements[i].transfer_spec_hash = hash
      /\ \A i \in DOMAIN set.elements : PaidIn(m, set.elements[i])

\* In the middle of a transaction: what was paid before it is still as it was,
\* the elements that have been worked through are paid, and nothing else is.
Worked(t, m) ==
  /\ InWholeSets(t.before.minted)
  /\ t.attestation.addressed_here
  /\ t.next <= Len(t.attestation.elements) + 1
  /\ \A hash \in Hashes :
       t.before.minted[hash] # <<>> => m[hash] = t.before.minted[hash]
  /\ \A i \in 1 .. t.next - 1 : PaidIn(m, t.attestation.elements[i])
  /\ \A hash \in Hashes : m[hash] # <<>> =>
       \/ t.before.minted[hash] # <<>>
       \/ \E i \in 1 .. t.next - 1 :
            t.attestation.elements[i].transfer_spec_hash = hash

WholeInv ==
  /\ tx = NoTransaction => InWholeSets(minted)
  /\ tx # NoTransaction => Worked(tx, minted)

LEMMA PaidIsNotEmpty ==
  ASSUME NEW m, NEW e, PaidIn(m, e)
  PROVE  m[e.transfer_spec_hash] # <<>>
<1>1. \A x : <<x>> # <<>>
  OBVIOUS
<1> QED
  BY <1>1 DEF PaidIn

LEMMA SetTypes ==
  ASSUME NEW set \in AttestationSets
  PROVE  /\ set.elements \in Seq(MintAttestationElement)
         /\ \A i \in DOMAIN set.elements :
              set.elements[i].transfer_spec_hash \in Hashes
<1>1. set \in MintAttestation
  BY ConfigAssumption DEF AttestationSets
<1>2. set.elements \in Seq(MintAttestationElement)
  BY <1>1 DEF MintAttestation
<1>3. \A i \in DOMAIN set.elements : set.elements[i] \in MintAttestationElement
  BY <1>2
<1> QED
  BY <1>2, <1>3 DEF MintAttestationElement

\* A transaction begins with nothing paid, whatever its set.
LEMMA WholeStart ==
  ASSUME MinterInv, WholeInv, NEW attester, NEW caller, NEW attestation,
         Start(attester, caller, attestation)
  PROVE  WholeInv'
<1>1. /\ tx = NoTransaction
      /\ attestation.addressed_here
      /\ tx' = [next |-> 1, attestation |-> attestation,
                before |-> [used |-> used, balance |-> balance,
                            minted |-> minted]]
      /\ minted' = minted
  BY DEF Start
<1>2. /\ tx'.next = 1 /\ tx'.attestation = attestation
      /\ tx'.before.minted = minted
  BY <1>1
<1>3. tx' # NoTransaction
  BY <1>2 DEF NoTransaction
<1>4. Len(attestation.elements) \in Nat
  <2>1. attestation \in AttestationSets
    BY DEF Start, AttestationSets
  <2> QED
    BY <2>1, SetTypes
<1>5. InWholeSets(minted)
  BY <1>1 DEF WholeInv
<1>6. Worked(tx', minted')
  <2>1. 1 <= Len(attestation.elements) + 1 /\ 1 .. 1 - 1 = {}
    BY <1>4
  <2> QED
    BY <1>1, <1>2, <1>5, <2>1 DEF Worked
<1> QED
  BY <1>3, <1>6 DEF WholeInv

LEMMA WholeElement ==
  ASSUME MinterInv, WholeInv, NEW custody \in TokenAccount,
         NEW recipient \in TokenAccount, MintElement(custody, recipient)
  PROVE  WholeInv'
<1> DEFINE es == tx.attestation.elements
           n == tx.next
           hash == es[n].transfer_spec_hash
           event == [token |-> es[n].destination_token,
                     recipient |-> es[n].destination_recipient,
                     value |-> es[n].value]
           before == tx.before.minted
<1>1. /\ tx # NoTransaction /\ n <= Len(es)
      /\ hash \notin used
      /\ minted' = [minted EXCEPT ![hash] = Append(@, event)]
      /\ tx' = [tx EXCEPT !.next = @ + 1]
  BY DEF MintElement, CanMintElement, IsTransferSpecHashUsed
<1>2. /\ tx \in Transaction /\ n \in Nat \ {0}
      /\ tx.attestation \in AttestationSets
      /\ minted \in [Hashes -> Seq(AttestationUsed)]
  BY <1>1 DEF MinterInv, TypeOK, Transaction
<1>3. /\ es \in Seq(MintAttestationElement) /\ n \in DOMAIN es
      /\ \A i \in DOMAIN es : es[i].transfer_spec_hash \in Hashes
      /\ hash \in Hashes
  <2>1. /\ es \in Seq(MintAttestationElement)
        /\ \A i \in DOMAIN es : es[i].transfer_spec_hash \in Hashes
    BY <1>2, SetTypes
  <2>2. n \in DOMAIN es
    BY <1>1, <1>2, <2>1
  <2> QED
    BY <2>1, <2>2
<1>4. /\ tx'.next = n + 1 /\ tx'.attestation = tx.attestation
      /\ tx'.before = tx.before /\ tx' # NoTransaction
  <2>1. /\ tx'.next = n + 1 /\ tx'.attestation = tx.attestation
        /\ tx'.before = tx.before
    BY <1>1, <1>2 DEF Transaction
  <2> QED
    BY <1>2, <2>1 DEF NoTransaction
<1>5. minted[hash] = <<>>
  BY <1>1, <1>3 DEF MinterInv, Sound, Once
<1>6. /\ minted'[hash] = <<event>>
      /\ \A x \in Hashes : x # hash => minted'[x] = minted[x]
  BY <1>1, <1>2, <1>3, <1>5
<1>7. /\ InWholeSets(before) /\ tx.attestation.addressed_here
      /\ \A x \in Hashes : before[x] # <<>> => minted[x] = before[x]
      /\ \A i \in 1 .. n - 1 : PaidIn(minted, es[i])
      /\ \A x \in Hashes : minted[x] # <<>> =>
           \/ before[x] # <<>>
           \/ \E i \in 1 .. n - 1 : es[i].transfer_spec_hash = x
  BY <1>1 DEF WholeInv, Worked
<1>8. PaidIn(minted', es[n])
  BY <1>6 DEF PaidIn
<1> HIDE DEF es, n, hash, event, before
<1>9. \A x \in Hashes : before[x] # <<>> => minted'[x] = before[x]
  BY <1>5, <1>6, <1>7
<1>10. \A i \in 1 .. n : PaidIn(minted', es[i])
  <2> SUFFICES ASSUME NEW i \in 1 .. n PROVE PaidIn(minted', es[i])
    OBVIOUS
  <2>1. CASE i = n
    BY <1>8, <2>1
  <2>2. CASE i # n
    <3>1. i \in 1 .. n - 1 /\ i \in DOMAIN es
      BY <1>2, <1>3, <2>2
    <3>2. PaidIn(minted, es[i])
      BY <1>7, <3>1
    <3>3. es[i].transfer_spec_hash # hash
      BY <1>5, <3>2, PaidIsNotEmpty
    <3>4. minted'[es[i].transfer_spec_hash] = minted[es[i].transfer_spec_hash]
      BY <1>3, <1>6, <3>1, <3>3
    <3> QED
      BY <3>2, <3>4 DEF PaidIn
  <2> QED
    BY <2>1, <2>2
<1>11. \A x \in Hashes : minted'[x] # <<>> =>
         \/ before[x] # <<>>
         \/ \E i \in 1 .. n : es[i].transfer_spec_hash = x
  <2> SUFFICES ASSUME NEW x \in Hashes, minted'[x] # <<>>, before[x] = <<>>
               PROVE  \E i \in 1 .. n : es[i].transfer_spec_hash = x
    OBVIOUS
  <2>1. CASE x = hash
    BY <1>2, <2>1 DEF hash
  <2>2. CASE x # hash
    BY <1>2, <1>6, <1>7, <2>2
  <2> QED
    BY <2>1, <2>2
<1>12. n + 1 <= Len(es) + 1 /\ (n + 1) - 1 = n
  BY <1>1, <1>2, <1>3
<1> QED
  BY <1>4, <1>7, <1>9, <1>10, <1>11, <1>12
  DEF WholeInv, Worked, es, n, before

\* When the transaction ends, what it has paid is its whole set.
LEMMA WholeCommit ==
  ASSUME MinterInv, WholeInv, Commit
  PROVE  WholeInv'
<1> DEFINE es == tx.attestation.elements
<1>1. /\ tx # NoTransaction /\ tx.next > Len(es) /\ tx' = NoTransaction
      /\ minted' = minted
  BY DEF Commit, NoElementLeft
<1>2. /\ tx.attestation \in AttestationSets /\ tx.next \in Nat
      /\ es \in Seq(MintAttestationElement) /\ Len(es) \in Nat
  <2>1. tx.attestation \in AttestationSets /\ tx.next \in Nat
    BY <1>1 DEF MinterInv, TypeOK, Transaction
  <2> QED
    BY <2>1, SetTypes
<1>3. \A i \in DOMAIN es : i \in 1 .. tx.next - 1
  BY <1>1, <1>2
<1>4. \A i \in DOMAIN es : PaidIn(minted, es[i])
  BY <1>1, <1>3 DEF WholeInv, Worked
<1>5. ASSUME NEW hash \in Hashes, minted[hash] # <<>>
      PROVE  \E set \in AttestationSets :
               /\ set.addressed_here
               /\ \E i \in DOMAIN set.elements :
                    set.elements[i].transfer_spec_hash = hash
               /\ \A i \in DOMAIN set.elements : PaidIn(minted, set.elements[i])
  <2>1. CASE tx.before.minted[hash] # <<>>
    <3>1. PICK set \in AttestationSets :
            /\ set.addressed_here
            /\ \E i \in DOMAIN set.elements :
                 set.elements[i].transfer_spec_hash = hash
            /\ \A i \in DOMAIN set.elements :
                 PaidIn(tx.before.minted, set.elements[i])
      BY <1>1, <2>1 DEF WholeInv, Worked, InWholeSets
    <3>2. ASSUME NEW i \in DOMAIN set.elements
          PROVE  PaidIn(minted, set.elements[i])
      <4> DEFINE x == set.elements[i].transfer_spec_hash
      <4>1. x \in Hashes /\ tx.before.minted[x] # <<>>
        BY <3>1, SetTypes, PaidIsNotEmpty
      <4>2. minted[x] = tx.before.minted[x]
        BY <1>1, <4>1 DEF WholeInv, Worked
      <4> QED
        BY <3>1, <4>2 DEF PaidIn
    <3> QED
      BY <3>1, <3>2
  <2>2. CASE tx.before.minted[hash] = <<>>
    <3>1. PICK i \in 1 .. tx.next - 1 : es[i].transfer_spec_hash = hash
      BY <1>1, <1>5, <2>2 DEF WholeInv, Worked
    <3>2. tx.next <= Len(es) + 1 /\ tx.attestation.addressed_here
      BY <1>1 DEF WholeInv, Worked
    <3>3. i \in DOMAIN es
      BY <1>2, <3>1, <3>2
    <3> QED
      BY <1>2, <1>4, <3>1, <3>2, <3>3
  <2> QED
    BY <2>1, <2>2
<1> QED
  BY <1>1, <1>5 DEF WholeInv, InWholeSets

LEMMA WholeStep == MinterInv /\ WholeInv /\ [Next]_vars => WholeInv'
<1> SUFFICES ASSUME MinterInv, WholeInv, [Next]_vars PROVE WholeInv'
  OBVIOUS
<1>1. CASE UNCHANGED <<tx, minted>>
  BY <1>1 DEF WholeInv
<1>2. ASSUME NEW k \in Keys, Administer(k) PROVE UNCHANGED <<tx, minted>>
  BY <1>2
  DEF Administer, Initialize, AcceptOwnership, Pause, Unpause,
      TransferOwnership, UpdatePauser, UpdateTokenController, AddAttester,
      RemoveAttester, AddToken, BurnTokenCustody, SetMinter
<1>3. ASSUME NEW a \in EvmKeys, NEW k \in Keys, SubmitMint(a, k)
      PROVE  WholeInv'
  BY <1>3, WholeStart DEF SubmitMint, GatewayMint, GatewayMintWithParams
<1>4. CASE Abort
  <2>1. /\ tx # NoTransaction /\ tx' = NoTransaction
        /\ minted' = tx.before.minted
    BY <1>4 DEF Abort
  <2> QED
    BY <2>1 DEF WholeInv, Worked
<1>5. CASE ProcessMint
  BY <1>4, <1>5, WholeElement, WholeCommit DEF ProcessMint
<1>6. ASSUME NEW t \in Tokens, NEW k \in Keys, NEW amount \in Fundings,
             Fund(t, k, amount)
      PROVE  UNCHANGED <<tx, minted>>
  BY <1>6 DEF Fund
<1>7. CASE Tick \/ UNCHANGED vars
  BY <1>1, <1>7 DEF Tick, vars
<1> QED
  BY <1>1, <1>2, <1>3, <1>5, <1>6, <1>7 DEF Next

\* For sets of any length, with any repeated hashes, tokens and recipients, and
\* a failure at any element: between transactions, whatever was paid belongs to
\* a signed set that was addressed here and paid in all its elements.
THEOREM MintsAreWhole == Spec => []MintedInWholeSets
<1>1. Init => WholeInv
  BY DEF Init, WholeInv, InWholeSets
<1>2. MinterInv /\ WholeInv /\ [Next]_vars => WholeInv'
  BY WholeStep
<1>3. WholeInv => MintedInWholeSets
  BY DEF WholeInv, InWholeSets, PaidIn, MintedInWholeSets, PaidAs
<1> QED
  BY <1>1, <1>2, <1>3, MinterInvariant, PTL DEF Spec

-----------------------------------------------------------------------------
(* The configuration. *)

Supported == <<minter.supported_tokens, minter.custody_token_account_bumps>>

\* ListsWellFormed, and that the two token lists are in step.
ListsInv ==
  /\ InStep(Tokens, minter.supported_tokens,
            minter.custody_token_account_bumps, CustodyBump)
  /\ Len(minter.supported_tokens) <= MaxSupportedTokens
  /\ Len(minter.enabled_attesters) <= MaxAttesters
  /\ NoDuplicates(minter.enabled_attesters)

\* Only three instructions write the lists.
LEMMA ListsMove ==
  ASSUME TypeOK, [Next]_vars
  PROVE  \/ Supported' = Supported /\ UNCHANGED minter.enabled_attesters
         \/ \E a \in EvmKeys \ {DefaultKey} :
              /\ ~ IsAttesterEnabled(a)
              /\ Len(minter.enabled_attesters) < MaxAttesters
              /\ minter' = [minter EXCEPT !.enabled_attesters = Append(@, a)]
         \/ \E a \in EvmKeys :
              /\ IsAttesterEnabled(a)
              /\ minter' =
                   [minter EXCEPT !.enabled_attesters = WithoutFirst(@, a)]
         \/ \E t \in Tokens :
              /\ ~ IsTokenSupported(t)
              /\ Len(minter.supported_tokens) < MaxSupportedTokens
              /\ minter' = [minter EXCEPT
                   !.supported_tokens = Append(@, t),
                   !.custody_token_account_bumps = Append(@, CustodyBump[t])]
<1> DEFINE Same == Supported' = Supported /\ UNCHANGED minter.enabled_attesters
<1>0. minter \in Minter
  BY DEF TypeOK
<1>1. ASSUME minter' = minter PROVE Same
  BY <1>1 DEF Supported
<1>2. ASSUME NEW signer \in Keys,
             \/ Initialize(signer) \/ AcceptOwnership(signer)
             \/ Pause(signer) \/ Unpause(signer)
      PROVE  Same
  BY <1>0, <1>2
  DEF Initialize, AcceptOwnership, Pause, Unpause, SetMinter, Minter, Supported
<1>3. ASSUME NEW signer \in Keys, NEW k \in Nominees,
             \/ TransferOwnership(signer, k)
             \/ UpdatePauser(signer, k)
             \/ UpdateTokenController(signer, k)
      PROVE  Same
  BY <1>0, <1>3
  DEF TransferOwnership, UpdatePauser, UpdateTokenController, SetMinter,
      Minter, Supported
<1>4. ASSUME NEW signer \in Keys, NEW a \in EvmKeys \cup {DefaultKey},
             AddAttester(signer, a)
      PROVE  \/ minter' = minter
             \/ /\ a \in EvmKeys \ {DefaultKey}
                /\ ~ IsAttesterEnabled(a)
                /\ Len(minter.enabled_attesters) < MaxAttesters
                /\ minter' = [minter EXCEPT !.enabled_attesters = Append(@, a)]
  <2>1. /\ a # DefaultKey
        /\ IsAttesterEnabled(a) \/ Len(minter.enabled_attesters) < MaxAttesters
        /\ minter' = [minter EXCEPT !.enabled_attesters = WithAttester(@, a)]
    BY <1>4 DEF AddAttester, SetMinter
  <2>2. CASE IsAttesterEnabled(a)
    BY <1>0, <2>1, <2>2 DEF WithAttester, IsAttesterEnabled, Minter
  <2>3. CASE ~ IsAttesterEnabled(a)
    BY <2>1, <2>3 DEF WithAttester, IsAttesterEnabled
  <2> QED
    BY <2>2, <2>3
<1>5. ASSUME NEW signer \in Keys, NEW a \in EvmKeys \cup {DefaultKey},
             RemoveAttester(signer, a)
      PROVE  \/ minter' = minter
             \/ /\ a \in EvmKeys
                /\ IsAttesterEnabled(a)
                /\ minter' =
                     [minter EXCEPT !.enabled_attesters = WithoutFirst(@, a)]
  <2>1. IsAttesterEnabled(a) => a \in EvmKeys
    BY <1>0 DEF IsAttesterEnabled, Minter, Range
  <2> QED
    BY <1>5, <2>1 DEF RemoveAttester, SetMinter
<1>6. ASSUME NEW signer \in Keys, NEW t \in Tokens, AddToken(signer, t)
      PROVE  \/ minter' = minter
             \/ /\ ~ IsTokenSupported(t)
                /\ Len(minter.supported_tokens) < MaxSupportedTokens
                /\ minter' = [minter EXCEPT
                     !.supported_tokens = Append(@, t),
                     !.custody_token_account_bumps = Append(@, CustodyBump[t])]
  BY <1>6 DEF AddToken, SetMinter
<1>7. ASSUME NEW signer \in Keys, NEW t \in Tokens, NEW amount \in BurnAmounts,
             BurnTokenCustody(signer, t, amount)
      PROVE  minter' = minter
  BY <1>7 DEF BurnTokenCustody
<1>8. ASSUME NEW a \in EvmKeys, NEW k \in Keys, SubmitMint(a, k)
      PROVE  minter' = minter
  BY <1>8 DEF SubmitMint, GatewayMint, GatewayMintWithParams, Start
<1>9. ASSUME \/ ProcessMint \/ Tick \/ UNCHANGED vars
             \/ \E t \in Tokens, k \in Keys, amount \in Fundings :
                  Fund(t, k, amount)
      PROVE  minter' = minter
  BY <1>9 DEF ProcessMint, MintElement, Commit, Abort, Tick, Fund, vars
<1>10. ASSUME NEW signer \in Keys, Administer(signer)
       PROVE  \/ Same
              \/ \E a \in EvmKeys \cup {DefaultKey} :
                   AddAttester(signer, a) \/ RemoveAttester(signer, a)
              \/ \E t \in Tokens : AddToken(signer, t)
  BY <1>1, <1>2, <1>3, <1>7, <1>10 DEF Administer
<1> HIDE DEF Same
<1>11. ASSUME NEW signer \in Keys, Administer(signer), ~ Same
       PROVE  \/ \E a \in EvmKeys \ {DefaultKey} :
                   /\ ~ IsAttesterEnabled(a)
                   /\ Len(minter.enabled_attesters) < MaxAttesters
                   /\ minter' =
                        [minter EXCEPT !.enabled_attesters = Append(@, a)]
              \/ \E a \in EvmKeys :
                   /\ IsAttesterEnabled(a)
                   /\ minter' =
                        [minter EXCEPT !.enabled_attesters = WithoutFirst(@, a)]
              \/ \E t \in Tokens :
                   /\ ~ IsTokenSupported(t)
                   /\ Len(minter.supported_tokens) < MaxSupportedTokens
                   /\ minter' = [minter EXCEPT
                        !.supported_tokens = Append(@, t),
                        !.custody_token_account_bumps =
                          Append(@, CustodyBump[t])]
  BY <1>1, <1>4, <1>5, <1>6, <1>10, <1>11
<1>12. CASE Same
  BY <1>12 DEF Same
<1> QED
  BY <1>1, <1>8, <1>9, <1>11, <1>12 DEF Next

LEMMA ListsStep == TypeOK /\ ListsInv /\ [Next]_vars => ListsInv'
<1> SUFFICES ASSUME TypeOK, ListsInv, [Next]_vars PROVE ListsInv'
  OBVIOUS
<1> DEFINE attesters == minter.enabled_attesters
           tokens == minter.supported_tokens
           bumps == minter.custody_token_account_bumps
<1>0. /\ minter \in Minter
      /\ attesters \in Seq(EvmKeys) /\ Len(attesters) \in Nat
      /\ Len(attesters) <= MaxAttesters /\ MaxAttesters \in Nat
      /\ \A i, j \in DOMAIN attesters : attesters[i] = attesters[j] => i = j
      /\ tokens \in Seq(Tokens) /\ Len(tokens) \in Nat
      /\ Len(tokens) <= MaxSupportedTokens /\ MaxSupportedTokens \in Nat
      /\ InStep(Tokens, tokens, bumps, CustodyBump)
  BY ConfigAssumption DEF TypeOK, Minter, ListsInv, NoDuplicates
<1>1. CASE Supported' = Supported /\ UNCHANGED attesters
  BY <1>1 DEF ListsInv, Supported
<1>2. ASSUME NEW list \in Seq(EvmKeys), Len(list) <= MaxAttesters,
             \A i, j \in DOMAIN list : list[i] = list[j] => i = j,
             minter' = [minter EXCEPT !.enabled_attesters = list]
      PROVE  ListsInv'
  <2>1. /\ minter'.enabled_attesters = list
        /\ minter'.supported_tokens = tokens
        /\ minter'.custody_token_account_bumps = bumps
    BY <1>0, <1>2 DEF Minter
  <2> QED
    BY <1>0, <1>2, <2>1 DEF ListsInv, NoDuplicates
<1>3. ASSUME NEW a \in EvmKeys, ~ IsAttesterEnabled(a),
             Len(attesters) < MaxAttesters,
             minter' = [minter EXCEPT !.enabled_attesters = Append(@, a)]
      PROVE  ListsInv'
  <2> DEFINE more == Append(attesters, a)
  <2>1. /\ minter' = [minter EXCEPT !.enabled_attesters = more]
        /\ a \notin Range(attesters) /\ more = Append(attesters, a)
    BY <1>3 DEF IsAttesterEnabled
  <2> HIDE DEF more, attesters
  <2>2. more \in Seq(EvmKeys) /\ Len(more) = Len(attesters) + 1
    BY <1>0, <2>1
  <2>3. \A i, j \in DOMAIN more : more[i] = more[j] => i = j
    BY <1>0, <2>1, AppendNew
  <2>4. Len(more) <= MaxAttesters
    BY <1>0, <1>3, <2>2
  <2> QED
    BY <1>2, <2>1, <2>2, <2>3, <2>4
<1>4. ASSUME NEW a \in EvmKeys, IsAttesterEnabled(a),
             minter' = [minter EXCEPT !.enabled_attesters = WithoutFirst(@, a)]
      PROVE  ListsInv'
  <2> DEFINE rest == WithoutFirst(attesters, a)
  <2>1. /\ minter' = [minter EXCEPT !.enabled_attesters = rest]
        /\ a \in Range(attesters)
    BY <1>4 DEF IsAttesterEnabled
  <2> HIDE DEF attesters
  <2>2. rest \in Seq(EvmKeys)
    BY <1>0, <2>1, WithoutFirstType
  <2>3. /\ Len(rest) = Len(attesters) - 1
        /\ \A i, j \in DOMAIN rest : rest[i] = rest[j] => i = j
    BY <1>0, <2>1, WithoutFirstRemoves
  <2> HIDE DEF rest
  <2>4. Len(rest) <= MaxAttesters
    BY <1>0, <2>3
  <2> QED
    BY <1>2, <2>1, <2>2, <2>3, <2>4
<1>5. ASSUME NEW t \in Tokens, ~ IsTokenSupported(t),
             Len(tokens) < MaxSupportedTokens,
             minter' = [minter EXCEPT
               !.supported_tokens = Append(@, t),
               !.custody_token_account_bumps = Append(@, CustodyBump[t])]
      PROVE  ListsInv'
  <2> DEFINE more == Append(tokens, t)
             moreBumps == Append(bumps, CustodyBump[t])
  <2>1. /\ minter'.supported_tokens = more
        /\ minter'.custody_token_account_bumps = moreBumps
        /\ minter'.enabled_attesters = attesters
        /\ t \notin Range(tokens)
    BY <1>0, <1>5 DEF IsTokenSupported, Minter
  <2>2. /\ CustodyBump \in [Tokens -> Nat]
        /\ more = Append(tokens, t) /\ moreBumps = Append(bumps, CustodyBump[t])
    BY ConfigAssumption
  <2> HIDE DEF more, moreBumps, tokens, bumps
  <2>3. InStep(Tokens, more, moreBumps, CustodyBump)
    BY <1>0, <2>1, <2>2, AppendInStep
  <2>4. Len(more) = Len(tokens) + 1
    BY <1>0, <2>1, <2>2, AppendInStep
  <2>5. Len(more) <= MaxSupportedTokens
    BY <1>0, <1>5, <2>4
  <2> QED
    BY <1>0, <2>1, <2>3, <2>5 DEF ListsInv, NoDuplicates
<1> HIDE DEF attesters, tokens, bumps
<1>6. \/ Supported' = Supported /\ UNCHANGED attesters
      \/ \E a \in EvmKeys :
           /\ ~ IsAttesterEnabled(a)
           /\ Len(attesters) < MaxAttesters
           /\ minter' = [minter EXCEPT !.enabled_attesters = Append(@, a)]
      \/ \E a \in EvmKeys :
           /\ IsAttesterEnabled(a)
           /\ minter' = [minter EXCEPT !.enabled_attesters = WithoutFirst(@, a)]
      \/ \E t \in Tokens :
           /\ ~ IsTokenSupported(t)
           /\ Len(tokens) < MaxSupportedTokens
           /\ minter' = [minter EXCEPT
                !.supported_tokens = Append(@, t),
                !.custody_token_account_bumps = Append(@, CustodyBump[t])]
  BY ListsMove DEF attesters, tokens
<1> QED
  BY <1>1, <1>3, <1>4, <1>5, <1>6

\* For any tokens, attesters and limits: the lists stay within their limits and
\* without duplicates, and a token's position leads to its own custody account.
THEOREM ListsAreWellFormed == Spec => []ListsWellFormed
<1>1. Init => ListsInv
  <2> SUFFICES ASSUME Init PROVE ListsInv
    OBVIOUS
  <2>1. /\ minter.supported_tokens = <<>>
        /\ minter.custody_token_account_bumps = <<>>
        /\ minter.enabled_attesters = <<>>
    BY DEF Init, NoMinter
  <2> QED
    BY <2>1, ConfigAssumption DEF ListsInv, InStep, NoDuplicates, Range
<1>2. TypeOK /\ ListsInv /\ [Next]_vars => ListsInv'
  BY ListsStep
<1>3. ListsInv => ListsWellFormed
  BY DEF ListsInv, InStep, ListsWellFormed, NoDuplicates, IsTokenSupported,
         IsCustody, CustodyTokenAccountBump
<1> QED
  BY <1>1, <1>2, <1>3, TypeCorrect, PTL DEF Spec

\* A new owner takes office by signing; the other roles are checked when they
\* are given.
LEMMA RolesStep ==
  TypeOK /\ ListsWellFormed /\ RolesAreHeld /\ [Next]_vars => RolesAreHeld'
<1> SUFFICES ASSUME TypeOK, ListsWellFormed, RolesAreHeld, [Next]_vars
             PROVE  RolesAreHeld'
  OBVIOUS
<1> DEFINE attesters == minter.enabled_attesters
           Held(m) == m.initialized =>
                        DefaultKey \notin {m.owner, m.pauser, m.token_controller}
<1>0. /\ minter \in Minter /\ Held(minter)
      /\ attesters \in Seq(EvmKeys) /\ DefaultKey \notin Range(attesters)
      /\ \A i, j \in DOMAIN attesters : attesters[i] = attesters[j] => i = j
  BY DEF TypeOK, Minter, RolesAreHeld, IsAttesterEnabled, ListsWellFormed,
         NoDuplicates
<1>1. Held(minter')
  <2>1. ASSUME minter' = minter PROVE Held(minter')
    BY <1>0, <2>1
  <2>2. ASSUME NEW signer \in Keys, Administer(signer) PROVE Held(minter')
    <3>0. signer # DefaultKey
      BY KeysAssumption
    <3>1. CASE Initialize(signer)
      <4>1. minter' = [minter EXCEPT
              !.initialized = TRUE, !.owner = signer, !.pauser = signer,
              !.token_controller = signer]
        BY <3>1 DEF Initialize, SetMinter
      <4> QED
        BY <1>0, <3>0, <4>1 DEF Minter
    <3>2. CASE AcceptOwnership(signer)
      <4>1. signer = minter.pending_owner
            /\ minter' = [minter EXCEPT !.owner = minter.pending_owner,
                                        !.pending_owner = DefaultKey]
        BY <3>2 DEF AcceptOwnership, SetMinter
      <4> QED
        BY <1>0, <3>0, <4>1 DEF Minter
    <3>3. CASE Pause(signer) \/ Unpause(signer)
      BY <1>0, <3>3 DEF Pause, Unpause, SetMinter, Minter
    <3>4. ASSUME NEW k \in Nominees,
                 \/ TransferOwnership(signer, k)
                 \/ UpdatePauser(signer, k)
                 \/ UpdateTokenController(signer, k)
          PROVE  Held(minter')
      BY <1>0, <3>4
      DEF TransferOwnership, UpdatePauser, UpdateTokenController, SetMinter,
          Minter
    <3>5. ASSUME NEW a \in EvmKeys \cup {DefaultKey},
                 AddAttester(signer, a) \/ RemoveAttester(signer, a)
          PROVE  Held(minter')
      BY <1>0, <3>5 DEF AddAttester, RemoveAttester, SetMinter, Minter
    <3>6. ASSUME NEW t \in Tokens, AddToken(signer, t) PROVE Held(minter')
      BY <1>0, <3>6 DEF AddToken, SetMinter, Minter
    <3>7. ASSUME NEW t \in Tokens, NEW amount \in BurnAmounts,
                 BurnTokenCustody(signer, t, amount)
          PROVE  minter' = minter
      BY <3>7 DEF BurnTokenCustody
    <3> HIDE DEF Held
    <3> QED
      BY <2>1, <2>2, <3>1, <3>2, <3>3, <3>4, <3>5, <3>6, <3>7 DEF Administer
  <2>3. ASSUME NEW a \in EvmKeys, NEW k \in Keys, SubmitMint(a, k)
        PROVE  minter' = minter
    BY <2>3 DEF SubmitMint, GatewayMint, GatewayMintWithParams, Start
  <2>4. ASSUME \/ ProcessMint \/ Tick \/ UNCHANGED vars
               \/ \E t \in Tokens, k \in Keys, amount \in Fundings :
                    Fund(t, k, amount)
        PROVE  minter' = minter
    BY <2>4 DEF ProcessMint, MintElement, Commit, Abort, Tick, Fund, vars
  <2> HIDE DEF Held
  <2> QED
    BY <2>1, <2>2, <2>3, <2>4 DEF Next
<1>2. ~ IsAttesterEnabled(DefaultKey)'
  <2>1. CASE UNCHANGED attesters
    BY <1>0, <2>1 DEF IsAttesterEnabled
  <2>2. ASSUME NEW a \in EvmKeys \ {DefaultKey},
               minter' = [minter EXCEPT !.enabled_attesters = Append(@, a)]
        PROVE  ~ IsAttesterEnabled(DefaultKey)'
    <3>1. minter'.enabled_attesters = Append(attesters, a)
      BY <1>0, <2>2 DEF Minter
    <3>2. Range(Append(attesters, a)) = Range(attesters) \cup {a}
      BY <1>0, AppendRange
    <3> QED
      BY <1>0, <2>2, <3>1, <3>2 DEF IsAttesterEnabled
  <2>3. ASSUME NEW a \in EvmKeys, IsAttesterEnabled(a),
               minter' =
                 [minter EXCEPT !.enabled_attesters = WithoutFirst(@, a)]
        PROVE  ~ IsAttesterEnabled(DefaultKey)'
    <3> DEFINE rest == WithoutFirst(attesters, a)
    <3>1. minter'.enabled_attesters = rest /\ a \in Range(attesters)
      BY <1>0, <2>3 DEF Minter, IsAttesterEnabled
    <3> HIDE DEF attesters
    <3>2. Range(rest) = Range(attesters) \ {a}
      BY <1>0, <3>1, WithoutFirstRemoves
    <3> HIDE DEF rest
    <3> QED
      BY <1>0, <3>1, <3>2 DEF IsAttesterEnabled
  <2>4. ASSUME NEW t \in Tokens,
               minter' = [minter EXCEPT
                 !.supported_tokens = Append(@, t),
                 !.custody_token_account_bumps = Append(@, CustodyBump[t])]
        PROVE  UNCHANGED attesters
    BY <1>0, <2>4 DEF Minter
  <2> QED
    BY <2>1, <2>2, <2>3, <2>4, ListsMove
<1> QED
  BY <1>1, <1>2 DEF RolesAreHeld

\* For any keys and lists, and any order of nominations and hand-overs: an
\* initialized minter can always be paused, configured and handed over, and
\* nobody attests with the default key.
THEOREM RolesStayHeld == Spec => []RolesAreHeld
<1>1. Init => RolesAreHeld
  BY DEF Init, NoMinter, RolesAreHeld, IsAttesterEnabled, Range
<1>2. TypeOK /\ ListsWellFormed /\ RolesAreHeld /\ [Next]_vars => RolesAreHeld'
  BY RolesStep
<1> QED
  BY <1>1, <1>2, TypeCorrect, ListsAreWellFormed, PTL DEF Spec

\* No history of additions leaves an attester on the list after its removal.
THEOREM RemovalIsComplete == Spec => RemovedAttesterIsOut
<1>1. ASSUME TypeOK, ListsWellFormed, NEW k \in Keys, NEW a \in EvmKeys,
             RemoveAttester(k, a)
      PROVE  a \notin Range(minter'.enabled_attesters)
  <2> DEFINE attesters == minter.enabled_attesters
             rest == WithoutFirst(attesters, a)
  <2>0. /\ minter \in Minter /\ attesters \in Seq(EvmKeys)
        /\ \A i, j \in DOMAIN attesters : attesters[i] = attesters[j] => i = j
    BY <1>1 DEF TypeOK, Minter, ListsWellFormed, NoDuplicates
  <2>1. CASE ~ IsAttesterEnabled(a)
    BY <1>1, <2>1 DEF RemoveAttester, SetMinter, IsAttesterEnabled
  <2>2. CASE IsAttesterEnabled(a)
    <3>1. minter'.enabled_attesters = rest /\ a \in Range(attesters)
      BY <1>1, <2>0, <2>2 DEF RemoveAttester, SetMinter, Minter,
                              IsAttesterEnabled
    <3> HIDE DEF attesters
    <3>2. Range(rest) = Range(attesters) \ {a}
      BY <2>0, <3>1, WithoutFirstRemoves
    <3> HIDE DEF rest
    <3> QED
      BY <3>1, <3>2
  <2> QED
    BY <2>1, <2>2
<1>2. TypeOK /\ ListsWellFormed =>
        \A k \in Keys, a \in EvmKeys :
          RemoveAttester(k, a) => a \notin Range(minter'.enabled_attesters)
  BY <1>1
<1> QED
  BY <1>2, TypeCorrect, ListsAreWellFormed, PTL DEF RemovedAttesterIsOut

-----------------------------------------------------------------------------
(* A payable set goes through. *)

\* The elements that take from token t's custody, and those that pay to an
\* account.
Outgoing(set, t) ==
  {i \in DOMAIN set.elements :
     /\ set.elements[i].destination_token = t
     /\ set.elements[i].destination_recipient.owner # Custody}

Incoming(set, account) ==
  {i \in DOMAIN set.elements :
     set.elements[i].destination_recipient = account}

\* What the elements from n on of a part of the set pay.
Remaining(set, part, n) ==
  SumFunctionOnSet(OneShot!Values(set), {i \in part : i >= n})

\* What is still to be paid for a payable set is still in custody.
PayableInv ==
  tx # NoTransaction /\ Payable(tx.attestation, tx.before) =>
    \A t \in Tokens :
      Remaining(tx.attestation, Outgoing(tx.attestation, t), tx.next)
        <= balance[t][Custody]

\* The abstract specification's sums and cardinalities are the ones the lemmas
\* are about.
LEMMA SameCardinality ==
  ASSUME NEW S
  PROVE  OneShot!Cardinality(S) = Cardinality(S)
BY DEF OneShot!Cardinality, Cardinality

LEMMA SameSum ==
  ASSUME NEW f, NEW S
  PROVE  OneShot!SumFunctionOnSet(f, S) = SumFunctionOnSet(f, S)
BY DEF OneShot!SumFunctionOnSet, OneShot!FoldFunctionOnSet,
       OneShot!MapThenFoldSet, SumFunctionOnSet, FoldFunctionOnSet,
       MapThenFoldSet

\* As many hashes as elements: no two elements have the same.
LEMMA HashesAreDistinct ==
  ASSUME NEW set \in AttestationSets, OneShot!WellFormed(set),
         NEW i \in DOMAIN set.elements, NEW j \in DOMAIN set.elements,
         set.elements[i].transfer_spec_hash = set.elements[j].transfer_spec_hash
  PROVE  i = j
<1> DEFINE D == DOMAIN set.elements
           H == OneShot!HashesOf(set)
           f == [x \in D |-> set.elements[x].transfer_spec_hash]
<1>1. set.elements \in Seq(MintAttestationElement)
  BY SetTypes
<1>2. D = 1 .. Len(set.elements) /\ Len(set.elements) \in Nat
  BY <1>1
<1>3. IsFiniteSet(D) /\ Cardinality(D) = Len(set.elements)
  BY <1>2, FS_Interval
<1>4. f \in Surjection(D, H)
  BY DEF Surjection, OneShot!HashesOf
<1>5. Cardinality(H) = Cardinality(D)
  <2>1. Cardinality(OneShot!HashesOf(set)) = Len(set.elements)
    BY SameCardinality DEF OneShot!WellFormed
  <2> HIDE DEF D
  <2> QED
    BY <1>3, <2>1
<1>6. f \in Injection(D, H)
  <2> HIDE DEF D, H, f
  <2> QED
    BY <1>3, <1>4, <1>5, FS_Surjection
<1>7. \A x, y \in D : f[x] = f[y] => x = y
  <2> HIDE DEF D, H, f
  <2> QED
    BY <1>6 DEF Injection, IsInjective
<1> QED
  BY <1>7

LEMMA RemainingFacts ==
  ASSUME NEW set \in AttestationSets, NEW part \in SUBSET DOMAIN set.elements,
         NEW n
  PROVE  /\ IsFiniteSet({i \in part : i >= n})
         /\ \A i \in part : /\ OneShot!Values(set)[i] = set.elements[i].value
                            /\ OneShot!Values(set)[i] \in Nat
         /\ Remaining(set, part, n) \in Nat
<1>1. /\ set.elements \in Seq(MintAttestationElement)
      /\ DOMAIN set.elements = 1 .. Len(set.elements)
      /\ Len(set.elements) \in Nat
  BY SetTypes
<1>2. IsFiniteSet({i \in part : i >= n})
  <2>1. IsFiniteSet(1 .. Len(set.elements))
    BY <1>1, FS_Interval
  <2>2. {i \in part : i >= n} \subseteq 1 .. Len(set.elements)
    BY <1>1
  <2> QED
    BY <2>1, <2>2, FS_Subset
<1>3. \A i \in part : /\ OneShot!Values(set)[i] = set.elements[i].value
                      /\ OneShot!Values(set)[i] \in Nat
  <2>1. \A e \in MintAttestationElement : e.value \in Nat
    BY ConfigAssumption DEF MintAttestationElement, U64
  <2>2. \A i \in DOMAIN set.elements : set.elements[i].value \in Nat
    BY <1>1, <2>1
  <2> QED
    BY <2>2 DEF OneShot!Values
<1>4. Remaining(set, part, n) \in Nat
  <2> DEFINE left == {i \in part : i >= n}
  <2>1. IsFiniteSet(left) /\ \A i \in left : OneShot!Values(set)[i] \in Nat
    BY <1>2, <1>3
  <2> HIDE DEF left
  <2>2. SumFunctionOnSet(OneShot!Values(set), left) \in Nat
    BY <2>1, SumOfNaturals
  <2> QED
    BY <2>2 DEF Remaining, left
<1> QED
  BY <1>2, <1>3, <1>4

\* The next element is one less to pay, of the parts it belongs to.
LEMMA RemainingMoves ==
  ASSUME NEW set \in AttestationSets, NEW part \in SUBSET DOMAIN set.elements,
         NEW n \in DOMAIN set.elements
  PROVE  Remaining(set, part, n)
           = (IF n \in part THEN set.elements[n].value ELSE 0)
               + Remaining(set, part, n + 1)
<1> DEFINE now == {i \in part : i >= n}
           after == {i \in part : i >= n + 1}
<1>1. n \in Nat \ {0} /\ DOMAIN set.elements \subseteq Nat
  <2>1. set.elements \in Seq(MintAttestationElement)
    BY SetTypes
  <2> QED
    BY <2>1
<1>2. CASE n \in part
  <2>1. n \in now /\ after = now \ {n}
    BY <1>1, <1>2
  <2>2. /\ IsFiniteSet(now)
        /\ \A i \in now : OneShot!Values(set)[i] \in Int
        /\ OneShot!Values(set)[n] = set.elements[n].value
    <3>1. IsFiniteSet(now)
      BY RemainingFacts
    <3>2. \A i \in part : /\ OneShot!Values(set)[i] = set.elements[i].value
                          /\ OneShot!Values(set)[i] \in Nat
      BY RemainingFacts
    <3> QED
      BY <1>2, <3>1, <3>2
  <2> HIDE DEF now, after
  <2>3. SumFunctionOnSet(OneShot!Values(set), now)
          = OneShot!Values(set)[n] + SumFunctionOnSet(OneShot!Values(set), after)
    BY <2>1, <2>2, SumRemoves
  <2> QED
    BY <1>2, <2>2, <2>3 DEF Remaining, now, after
<1>3. CASE n \notin part
  <2>1. after = now
    BY <1>1, <1>3
  <2>2. Remaining(set, part, n + 1) \in Nat
    BY RemainingFacts
  <2> HIDE DEF now, after
  <2>3. Remaining(set, part, n) = Remaining(set, part, n + 1)
    BY <2>1 DEF Remaining, now, after
  <2> QED
    BY <1>3, <2>2, <2>3
<1> QED
  BY <1>2, <1>3

\* At first all is left, and in the end nothing.
LEMMA RemainingEnds ==
  ASSUME NEW set \in AttestationSets, NEW part \in SUBSET DOMAIN set.elements
  PROVE  /\ Remaining(set, part, 1)
              = SumFunctionOnSet(OneShot!Values(set), part)
         /\ \A n \in Nat : n > Len(set.elements) => Remaining(set, part, n) = 0
<1>1. /\ set.elements \in Seq(MintAttestationElement)
      /\ DOMAIN set.elements = 1 .. Len(set.elements)
      /\ Len(set.elements) \in Nat
  BY SetTypes
<1>2. {i \in part : i >= 1} = part
  BY <1>1
<1>3. ASSUME NEW n \in Nat, n > Len(set.elements)
      PROVE  Remaining(set, part, n) = 0
  <2>1. {i \in part : i >= n} = {}
    BY <1>1, <1>3
  <2> QED
    BY <2>1, SumOfNothing DEF Remaining
<1> QED
  BY <1>2, <1>3 DEF Remaining

\* At the start custody has what the set takes out.
LEMMA PayableStart ==
  ASSUME MinterInv, NEW attester, NEW caller, NEW attestation,
         Start(attester, caller, attestation)
  PROVE  PayableInv'
<1>1. /\ tx'.next = 1 /\ tx'.attestation = attestation
      /\ tx'.before.balance = balance /\ balance' = balance
      /\ attestation \in AttestationSets
  BY DEF Start, AttestationSets
<1>2. ASSUME NEW t \in Tokens
      PROVE  Remaining(attestation, Outgoing(attestation, t), 1)
               = OneShot!TakenOut(attestation, t)
  <2>1. Outgoing(attestation, t) \in SUBSET DOMAIN attestation.elements
    BY DEF Outgoing
  <2>2. OneShot!TakenOut(attestation, t)
          = SumFunctionOnSet(OneShot!Values(attestation),
                             Outgoing(attestation, t))
    BY SameSum DEF OneShot!TakenOut, Outgoing
  <2> QED
    BY <1>1, <2>1, <2>2, RemainingEnds
<1> QED
  BY <1>1, <1>2 DEF PayableInv, Payable

LEMMA PayableElement ==
  ASSUME MinterInv, PayableInv, NEW custody \in TokenAccount,
         NEW recipient \in TokenAccount, MintElement(custody, recipient)
  PROVE  PayableInv'
<1> DEFINE set == tx.attestation
           n == tx.next
           e == set.elements[n]
<1>1. /\ tx # NoTransaction /\ n <= Len(set.elements)
      /\ custody.mint = e.destination_token
      /\ recipient = e.destination_recipient
      /\ balance' = Transfer(balance, custody.mint, Custody, recipient.owner,
                             e.value)
      /\ tx' = [tx EXCEPT !.next = @ + 1]
  BY DEF MintElement, CanMintElement, MatchesElement
<1>2. TypeOK /\ tx \in Transaction /\ n \in Nat \ {0} /\ set \in AttestationSets
  BY <1>1 DEF MinterInv, TypeOK, Transaction
<1>3. e \in MintAttestationElement /\ n \in DOMAIN set.elements
  <2>1. set.elements \in Seq(MintAttestationElement)
    BY <1>2, SetTypes
  <2> QED
    BY <1>1, <1>2, <2>1
<1>4. /\ tx'.next = n + 1 /\ tx'.attestation = set /\ tx'.before = tx.before
      /\ minter' = minter
  BY <1>1, <1>2 DEF Transaction, MintElement
<1>5. /\ e.value \in Nat /\ e.destination_recipient.owner \in Holders
      /\ e.destination_token \in Tokens
  BY <1>3, ConfigAssumption DEF MintAttestationElement, TokenAccount, U64
<1> HIDE DEF set, n, e
<1>6. ASSUME Payable(set, tx.before), NEW t \in Tokens
      PROVE  Remaining(set, Outgoing(set, t), n + 1) <= balance'[t][Custody]
  <2> DEFINE part == Outgoing(set, t)
  <2>1. /\ Remaining(set, part, n) <= balance[t][Custody]
        /\ part \in SUBSET DOMAIN set.elements
    BY <1>1, <1>6 DEF PayableInv, Outgoing, set, n
  <2>2. e.destination_recipient.owner # Custody
    BY <1>3, <1>6 DEF Payable, e
  <2>3. n \in part <=> e.destination_token = t
    BY <1>3, <2>2 DEF Outgoing, e
  <2>4. /\ balance \in [Tokens -> [Holders -> Nat]] /\ Custody \in Holders
        /\ balance[t][Custody] \in Nat
    BY <1>2, CustodyIsHolder DEF TypeOK
  <2> HIDE DEF part
  <2>5. /\ Remaining(set, part, n + 1) \in Nat
        /\ Remaining(set, part, n)
             = (IF n \in part THEN e.value ELSE 0)
                 + Remaining(set, part, n + 1)
    <3>1. Remaining(set, part, n + 1) \in Nat
      BY <1>2, <2>1, RemainingFacts
    <3>2. Remaining(set, part, n)
            = (IF n \in part THEN set.elements[n].value ELSE 0)
                + Remaining(set, part, n + 1)
      BY <1>2, <1>3, <2>1, RemainingMoves
    <3> QED
      BY <3>1, <3>2 DEF e
  <2>6. CASE t = e.destination_token
    <3>1. balance'[t][Custody] = balance[t][Custody] - e.value
      BY <1>1, <1>5, <2>2, <2>4, <2>6 DEF Transfer
    <3> QED
      BY <1>5, <2>1, <2>3, <2>4, <2>5, <2>6, <3>1 DEF part
  <2>7. CASE t # e.destination_token
    <3>1. balance'[t] = balance[t]
      BY <1>1, <1>5, <2>4, <2>7 DEF Transfer
    <3> QED
      BY <2>1, <2>3, <2>5, <2>7, <3>1 DEF part
  <2> QED
    BY <2>6, <2>7
<1>7. Payable(tx.attestation, tx.before)' => Payable(set, tx.before)
  BY <1>4 DEF Payable, IsTokenSupported
<1> QED
  BY <1>4, <1>6, <1>7 DEF PayableInv

LEMMA PayableStep == MinterInv /\ PayableInv /\ [Next]_vars => PayableInv'
<1> SUFFICES ASSUME MinterInv, PayableInv, [Next]_vars PROVE PayableInv'
  OBVIOUS
<1>1. CASE tx' = NoTransaction
  BY <1>1 DEF PayableInv
<1>2. ASSUME NEW k \in Keys, Administer(k) PROVE tx' = NoTransaction
  BY <1>2
  DEF Administer, Initialize, AcceptOwnership, Pause, Unpause,
      TransferOwnership, UpdatePauser, UpdateTokenController, AddAttester,
      RemoveAttester, AddToken, BurnTokenCustody, SetMinter
<1>3. ASSUME NEW a \in EvmKeys, NEW k \in Keys, SubmitMint(a, k)
      PROVE  PayableInv'
  BY <1>3, PayableStart DEF SubmitMint, GatewayMint, GatewayMintWithParams
<1>4. CASE ProcessMint
  BY <1>1, <1>4, PayableElement DEF ProcessMint, Commit, Abort
<1>5. ASSUME NEW t \in Tokens, NEW k \in Keys, NEW amount \in Fundings,
             Fund(t, k, amount)
      PROVE  tx' = NoTransaction
  BY <1>5 DEF Fund
<1>6. Tick => tx' = NoTransaction
  BY DEF Tick
<1>7. CASE UNCHANGED vars
  BY <1>7 DEF PayableInv, Payable, IsTokenSupported, vars
<1> QED
  BY <1>1, <1>2, <1>3, <1>4, <1>5, <1>6, <1>7 DEF Next

\* The next element of a payable set has a hash that nothing has paid, custody
\* for it, and accounts that can be named.
LEMMA PayableIsMintable ==
  ASSUME MinterInv, WholeInv, ListsWellFormed, PayableInv
  PROVE  PayableSetGoesThrough
<1> DEFINE set == tx.attestation
           n == tx.next
           e == set.elements[n]
           before == tx.before.minted
           t == e.destination_token
           custody == [mint |-> t, owner |-> Custody]
           recipient == e.destination_recipient
<1> SUFFICES ASSUME tx # NoTransaction, Payable(set, tx.before),
                    n <= Len(set.elements)
             PROVE  \E c, r \in TokenAccount : CanMintElement(c, r)
  BY DEF PayableSetGoesThrough
<1>1. TypeOK /\ tx \in Transaction /\ n \in Nat \ {0} /\ set \in AttestationSets
  BY DEF MinterInv, TypeOK, Transaction
<1>2. e \in MintAttestationElement /\ n \in DOMAIN set.elements
  <2>1. set.elements \in Seq(MintAttestationElement)
    BY <1>1, SetTypes
  <2> QED
    BY <1>1, <2>1
<1>3. /\ e.value \in Nat /\ t \in Tokens /\ recipient \in TokenAccount
      /\ e.transfer_spec_hash \in Hashes
      /\ custody \in TokenAccount
  BY <1>2, ConfigAssumption, CustodyIsHolder
  DEF MintAttestationElement, TokenAccount, U64
<1>4. /\ e.value > 0 /\ recipient.mint = t /\ IsTokenSupported(t)
      /\ recipient.owner # Custody
      /\ before[e.transfer_spec_hash] = <<>>
  <2>1. OneShot!WellFormed(set)
    BY DEF Payable
  <2>2. e.value > 0 /\ recipient.mint = t
    BY <1>2, <2>1 DEF OneShot!WellFormed
  <2>3. IsTokenSupported(t) /\ recipient.owner # Custody
    BY <1>2 DEF Payable
  <2>4. before[e.transfer_spec_hash] = <<>>
    BY <1>2 DEF Payable, OneShot!HashesOf
  <2> QED
    BY <2>2, <2>3, <2>4
<1>5. IsCustody(custody)
  BY <1>3, <1>4 DEF ListsWellFormed
<1>6. minted[e.transfer_spec_hash] = <<>>
  <2> SUFFICES ASSUME minted[e.transfer_spec_hash] # <<>> PROVE FALSE
    OBVIOUS
  <2>1. PICK i \in 1 .. n - 1 :
          set.elements[i].transfer_spec_hash = e.transfer_spec_hash
    BY <1>3, <1>4 DEF WholeInv, Worked
  <2>2. i \in DOMAIN set.elements /\ i # n
    <3>1. set.elements \in Seq(MintAttestationElement)
      BY <1>1, SetTypes
    <3> QED
      BY <1>1, <2>1, <3>1
  <2> QED
    BY <1>1, <1>2, <2>1, <2>2, HashesAreDistinct DEF Payable
<1>7. ~ IsTransferSpecHashUsed(e.transfer_spec_hash)
  BY <1>3, <1>6 DEF MinterInv, Sound, Once, IsTransferSpecHashUsed
<1>8. e.value <= balance[t][Custody]
  <2> DEFINE part == Outgoing(set, t)
  <2>1. Remaining(set, part, n) <= balance[t][Custody]
    BY <1>3 DEF PayableInv
  <2>2. part \in SUBSET DOMAIN set.elements /\ n \in part
    BY <1>2, <1>4 DEF Outgoing
  <2>4. balance[t][Custody] \in Nat
    BY <1>1, <1>3, CustodyIsHolder DEF TypeOK
  <2> HIDE DEF part, set, n
  <2>3. /\ Remaining(set, part, n) = e.value + Remaining(set, part, n + 1)
        /\ Remaining(set, part, n + 1) \in Nat
    <3>1. Remaining(set, part, n + 1) \in Nat
      BY <1>1, <2>2, RemainingFacts
    <3>2. Remaining(set, part, n)
            = (IF n \in part THEN set.elements[n].value ELSE 0)
                + Remaining(set, part, n + 1)
      BY <1>1, <1>2, <2>2, RemainingMoves
    <3> QED
      BY <2>2, <3>1, <3>2
  <2> QED
    BY <1>3, <2>1, <2>3, <2>4
<1>9. /\ IsCustody(custody) /\ custody.mint = t
      /\ MatchesElement(e, recipient)
      /\ Holds(balance, custody.mint, Custody, e.value)
  BY <1>4, <1>5, <1>8 DEF MatchesElement, Holds
<1>10. CanMintElement(custody, recipient)
  BY <1>4, <1>7, <1>9 DEF CanMintElement
<1> QED
  BY <1>3, <1>10

\* A set that custody covers as a whole, and whose hashes are new and different,
\* is never stuck in the middle: for sets of any length over any tokens.
THEOREM PayableSetsGoThrough == Spec => []PayableSetGoesThrough
<1>1. Init => PayableInv
  BY DEF Init, PayableInv
<1>2. MinterInv /\ PayableInv /\ [Next]_vars => PayableInv'
  BY PayableStep
<1>3. Init => WholeInv
  BY DEF Init, WholeInv, InWholeSets
<1>4. MinterInv /\ WholeInv /\ [Next]_vars => WholeInv'
  BY WholeStep
<1>5. MinterInv /\ WholeInv /\ ListsWellFormed /\ PayableInv
        => PayableSetGoesThrough
  BY PayableIsMintable
<1> QED
  BY <1>1, <1>2, <1>3, <1>4, <1>5, MinterInvariant, ListsAreWellFormed, PTL
  DEF Spec

-----------------------------------------------------------------------------
(* Paying a set element by element implements paying it in one step.       *)

\* How far a transaction has come: its set was admissible when it began, the
\* elements so far are payments for new and different hashes, and the balances
\* differ from those at its start by what these elements pay.
Admitted(t) ==
  /\ ~ Stopped
  /\ slot <= t.attestation.max_block_height
  /\ \E signature \in Signatures :
       signature[2] = t.attestation /\ signature[1] \in Attesters
  /\ t.attestation.addressed_here
  /\ t.attestation.elements # <<>>

PaidSoFar(t) ==
  /\ \A i \in 1 .. t.next - 1 :
       LET e == t.attestation.elements[i]
       IN  /\ e.value > 0
           /\ e.destination_recipient.mint = e.destination_token
           /\ t.before.minted[e.transfer_spec_hash] = <<>>
  /\ \A i, j \in 1 .. t.next - 1 :
       t.attestation.elements[i].transfer_spec_hash
         = t.attestation.elements[j].transfer_spec_hash => i = j

MovedSoFar(t, b) ==
  \A u \in Tokens, h \in Holders :
    LET out == Outgoing(t.attestation, u)
        in == Incoming(t.attestation, [mint |-> u, owner |-> h])
    IN  IF h = Custody
        THEN b[u][h] - Remaining(t.attestation, out, t.next)
               = t.before.balance[u][h] - Remaining(t.attestation, out, 1)
        ELSE b[u][h] + Remaining(t.attestation, in, t.next)
               = t.before.balance[u][h] + Remaining(t.attestation, in, 1)

SettlementInv ==
  tx # NoTransaction =>
    Admitted(tx) /\ PaidSoFar(tx) /\ MovedSoFar(tx, balance)

LEMMA SettlementStart ==
  ASSUME MinterInv, NEW attester, NEW caller, NEW attestation,
         Start(attester, caller, attestation)
  PROVE  SettlementInv'
<1>1. /\ tx'.next = 1 /\ tx'.attestation = attestation
      /\ tx'.before.balance = balance
      /\ UNCHANGED <<minter, balance, slot>>
      /\ attestation \in AttestationSets
  BY DEF Start, AttestationSets
<1>2. Admitted(tx)'
  <2>1. attestation \in MintAttestation /\ slot \in Nat
    BY <1>1, ConfigAssumption DEF AttestationSets, MinterInv, TypeOK
  <2>2. slot <= attestation.max_block_height
    BY <2>1 DEF Start, NotExpired, MintAttestation, U64
  <2>3. /\ <<attester, attestation>> \in Signatures
        /\ <<attester, attestation>>[1] = attester
        /\ <<attester, attestation>>[2] = attestation
        /\ attester \in Attesters
    BY DEF Start, IsAttesterEnabled, Attesters
  <2>4. ~ Stopped /\ attestation.addressed_here /\ attestation.elements # <<>>
    BY DEF Start, Running, Stopped
  <2> QED
    BY <1>1, <2>2, <2>3, <2>4 DEF Admitted, Stopped, Attesters
<1>3. PaidSoFar(tx)'
  <2>1. 1 .. tx'.next - 1 = {}
    BY <1>1
  <2> QED
    BY <2>1 DEF PaidSoFar
<1>4. MovedSoFar(tx, balance)'
  BY <1>1 DEF MovedSoFar
<1> QED
  BY <1>2, <1>3, <1>4 DEF SettlementInv

\* What one element moves.
LEMMA MovedElement ==
  ASSUME MinterInv, SettlementInv, NEW custody \in TokenAccount,
         NEW recipient \in TokenAccount, MintElement(custody, recipient)
  PROVE  MovedSoFar(tx, balance)'
<1> DEFINE set == tx.attestation
           n == tx.next
           e == set.elements[n]
           start == tx.before.balance
<1>1. /\ tx # NoTransaction /\ n <= Len(set.elements)
      /\ custody.mint = e.destination_token
      /\ recipient = e.destination_recipient
      /\ recipient.mint = e.destination_token
      /\ balance' = Transfer(balance, custody.mint, Custody, recipient.owner,
                             e.value)
      /\ tx' = [tx EXCEPT !.next = @ + 1]
  BY DEF MintElement, CanMintElement, MatchesElement
<1>2. /\ tx \in Transaction /\ n \in Nat \ {0} /\ set \in AttestationSets
      /\ balance \in [Tokens -> [Holders -> Nat]]
      /\ start \in [Tokens -> [Holders -> Nat]]
  BY <1>1 DEF MinterInv, TypeOK, Transaction, Snapshot
<1>3. e \in MintAttestationElement /\ n \in DOMAIN set.elements
  <2>1. set.elements \in Seq(MintAttestationElement)
    BY <1>2, SetTypes
  <2> QED
    BY <1>1, <1>2, <2>1
<1>4. tx'.next = n + 1 /\ tx'.attestation = set /\ tx'.before = tx.before
  BY <1>1, <1>2 DEF Transaction
<1>5. /\ e.value \in Nat /\ recipient.owner \in Holders
      /\ e.destination_token \in Tokens /\ Custody \in Holders
      /\ recipient = [mint |-> e.destination_token, owner |-> recipient.owner]
  <2>1. e.value \in Nat /\ e.destination_token \in Tokens
    BY <1>3, ConfigAssumption DEF MintAttestationElement, U64
  <2>2. /\ recipient.owner \in Holders
        /\ recipient = [mint |-> recipient.mint, owner |-> recipient.owner]
    BY DEF TokenAccount
  <2> QED
    BY <1>1, <2>1, <2>2, CustodyIsHolder
<1>6. MovedSoFar(tx, balance)
  BY <1>1 DEF SettlementInv
<1> HIDE DEF set, n, e, start
<1>7. ASSUME NEW u \in Tokens
      PROVE  balance'[u][Custody]
                 - Remaining(set, Outgoing(set, u), n + 1)
               = start[u][Custody] - Remaining(set, Outgoing(set, u), 1)
  <2> DEFINE out == Outgoing(set, u)
             taken == IF n \in out THEN e.value ELSE 0
  <2>1. balance[u][Custody] - Remaining(set, out, n)
          = start[u][Custody] - Remaining(set, out, 1)
    BY <1>5, <1>6 DEF MovedSoFar, set, n, start
  <2>2. out \in SUBSET DOMAIN set.elements
    BY DEF Outgoing
  <2>3. n \in out <=>
          e.destination_token = u /\ recipient.owner # Custody
    BY <1>1, <1>3 DEF Outgoing, e
  <2>4. taken \in Nat
    BY <1>5
  <2>5. balance[u][Custody] \in Nat /\ start[u][Custody] \in Nat
    BY <1>2, <1>5
  <2>6. balance'[u][Custody] = balance[u][Custody] - taken
    <3>1. CASE e.destination_token # u
      BY <1>1, <1>2, <1>5, <2>3, <2>5, <3>1 DEF Transfer
    <3>2. CASE e.destination_token = u /\ recipient.owner # Custody
      BY <1>1, <1>2, <1>5, <2>3, <2>5, <3>2 DEF Transfer
    <3>3. CASE e.destination_token = u /\ recipient.owner = Custody
      BY <1>1, <1>2, <1>5, <2>3, <2>5, <3>3 DEF Transfer
    <3> QED
      BY <3>1, <3>2, <3>3
  <2> HIDE DEF out
  <2>7. Remaining(set, out, n) = taken + Remaining(set, out, n + 1)
    BY <1>2, <1>3, <2>2, RemainingMoves DEF e
  <2>8. Remaining(set, out, n + 1) \in Nat /\ Remaining(set, out, 1) \in Nat
    BY <1>2, <2>2, RemainingFacts
  <2> HIDE DEF taken
  <2> QED
    BY <2>1, <2>4, <2>5, <2>6, <2>7, <2>8 DEF out
<1>8. ASSUME NEW u \in Tokens, NEW h \in Holders, h # Custody
      PROVE  LET in == Incoming(set, [mint |-> u, owner |-> h])
             IN  balance'[u][h] + Remaining(set, in, n + 1)
                   = start[u][h] + Remaining(set, in, 1)
  <2> DEFINE in == Incoming(set, [mint |-> u, owner |-> h])
             given == IF n \in in THEN e.value ELSE 0
  <2>1. balance[u][h] + Remaining(set, in, n)
          = start[u][h] + Remaining(set, in, 1)
    BY <1>6, <1>8 DEF MovedSoFar, set, n, start
  <2>2. in \in SUBSET DOMAIN set.elements
    BY DEF Incoming
  <2>3. n \in in <=> e.destination_token = u /\ recipient.owner = h
    <3>1. n \in in <=> recipient = [mint |-> u, owner |-> h]
      BY <1>1, <1>3 DEF Incoming, e
    <3>2. /\ [mint |-> u, owner |-> h].mint = u
          /\ [mint |-> u, owner |-> h].owner = h
      OBVIOUS
    <3> QED
      BY <1>1, <1>5, <3>1, <3>2
  <2>4. given \in Nat
    BY <1>5
  <2>5. balance[u][h] \in Nat /\ start[u][h] \in Nat
    BY <1>2
  <2>6. balance'[u][h] = balance[u][h] + given
    <3>1. CASE e.destination_token # u
      BY <1>1, <1>2, <1>5, <2>3, <2>5, <3>1 DEF Transfer
    <3>2. CASE e.destination_token = u /\ recipient.owner = h
      BY <1>1, <1>2, <1>5, <1>8, <2>3, <2>5, <3>2 DEF Transfer
    <3>3. CASE e.destination_token = u /\ recipient.owner # h
      BY <1>1, <1>2, <1>5, <1>8, <2>3, <2>5, <3>3 DEF Transfer
    <3> QED
      BY <3>1, <3>2, <3>3
  <2> HIDE DEF in
  <2>7. Remaining(set, in, n) = given + Remaining(set, in, n + 1)
    BY <1>2, <1>3, <2>2, RemainingMoves DEF e
  <2>8. Remaining(set, in, n + 1) \in Nat /\ Remaining(set, in, 1) \in Nat
    BY <1>2, <2>2, RemainingFacts
  <2> HIDE DEF given
  <2> QED
    BY <2>1, <2>4, <2>5, <2>6, <2>7, <2>8 DEF in
<1> QED
  BY <1>4, <1>7, <1>8 DEF MovedSoFar, start

LEMMA SettlementElement ==
  ASSUME MinterInv, WholeInv, SettlementInv, NEW custody \in TokenAccount,
         NEW recipient \in TokenAccount, MintElement(custody, recipient)
  PROVE  SettlementInv'
<1> DEFINE set == tx.attestation
           n == tx.next
           e == set.elements[n]
           before == tx.before.minted
<1>1. /\ tx # NoTransaction /\ n <= Len(set.elements)
      /\ e.transfer_spec_hash \notin used
      /\ e.value > 0
      /\ e.destination_recipient.mint = e.destination_token
      /\ tx' = [tx EXCEPT !.next = @ + 1]
      /\ UNCHANGED <<minter, slot>>
  BY DEF MintElement, CanMintElement, MatchesElement, IsTransferSpecHashUsed
<1>2. tx \in Transaction /\ n \in Nat \ {0} /\ set \in AttestationSets
  BY <1>1 DEF MinterInv, TypeOK, Transaction
<1>3. /\ n \in DOMAIN set.elements /\ 1 .. n - 1 \subseteq DOMAIN set.elements
      /\ \A i \in DOMAIN set.elements :
           set.elements[i].transfer_spec_hash \in Hashes
  <2>1. /\ set.elements \in Seq(MintAttestationElement)
        /\ \A i \in DOMAIN set.elements :
             set.elements[i].transfer_spec_hash \in Hashes
    BY <1>2, SetTypes
  <2> QED
    BY <1>1, <1>2, <2>1
<1>4. tx'.next = n + 1 /\ tx'.attestation = set /\ tx'.before = tx.before
  BY <1>1, <1>2 DEF Transaction
<1>5. minted[e.transfer_spec_hash] = <<>>
  BY <1>1, <1>3 DEF MinterInv, Sound, Once
<1>6. before[e.transfer_spec_hash] = <<>>
  BY <1>1, <1>3, <1>5 DEF WholeInv, Worked
<1>7. ASSUME NEW i \in 1 .. n - 1
      PROVE  set.elements[i].transfer_spec_hash # e.transfer_spec_hash
  <2>1. PaidIn(minted, set.elements[i])
    BY <1>1 DEF WholeInv, Worked
  <2> QED
    BY <1>5, <2>1, PaidIsNotEmpty
<1>8. Admitted(tx)'
  BY <1>1, <1>4 DEF SettlementInv, Admitted, Stopped, Attesters
<1>9. PaidSoFar(tx)
  BY <1>1 DEF SettlementInv
<1>10. PaidSoFar(tx)'
  <2>1. \A i \in 1 .. n : i = n \/ i \in 1 .. n - 1
    BY <1>2
  <2>2. ASSUME NEW i \in 1 .. n
        PROVE  /\ set.elements[i].value > 0
               /\ set.elements[i].destination_recipient.mint
                    = set.elements[i].destination_token
               /\ before[set.elements[i].transfer_spec_hash] = <<>>
    BY <1>1, <1>6, <1>9, <2>1 DEF PaidSoFar
  <2>3. ASSUME NEW i \in 1 .. n, NEW j \in 1 .. n,
               set.elements[i].transfer_spec_hash
                 = set.elements[j].transfer_spec_hash
        PROVE  i = j
    BY <1>7, <1>9, <2>1, <2>3 DEF PaidSoFar
  <2>4. tx'.next - 1 = n
    BY <1>2, <1>4
  <2> QED
    BY <1>4, <2>2, <2>3, <2>4 DEF PaidSoFar
<1> QED
  BY <1>8, <1>10, MovedElement DEF SettlementInv

LEMMA SettlementStep ==
  MinterInv /\ WholeInv /\ SettlementInv /\ [Next]_vars => SettlementInv'
<1> SUFFICES ASSUME MinterInv, WholeInv, SettlementInv, [Next]_vars
             PROVE  SettlementInv'
  OBVIOUS
<1>1. CASE tx' = NoTransaction
  BY <1>1 DEF SettlementInv
<1>2. ASSUME NEW k \in Keys, Administer(k) PROVE tx' = NoTransaction
  BY <1>2
  DEF Administer, Initialize, AcceptOwnership, Pause, Unpause,
      TransferOwnership, UpdatePauser, UpdateTokenController, AddAttester,
      RemoveAttester, AddToken, BurnTokenCustody, SetMinter
<1>3. ASSUME NEW a \in EvmKeys, NEW k \in Keys, SubmitMint(a, k)
      PROVE  SettlementInv'
  BY <1>3, SettlementStart DEF SubmitMint, GatewayMint, GatewayMintWithParams
<1>4. CASE ProcessMint
  BY <1>1, <1>4, SettlementElement DEF ProcessMint, Commit, Abort
<1>5. ASSUME NEW t \in Tokens, NEW k \in Keys, NEW amount \in Fundings,
             Fund(t, k, amount)
      PROVE  tx' = NoTransaction
  BY <1>5 DEF Fund
<1>6. Tick => tx' = NoTransaction
  BY DEF Tick
<1>7. CASE UNCHANGED vars
  BY <1>7 DEF SettlementInv, Admitted, PaidSoFar, MovedSoFar, Stopped,
              Attesters, vars
<1> QED
  BY <1>1, <1>2, <1>3, <1>4, <1>5, <1>6, <1>7 DEF Next

\* Distinct hashes are as many as the elements.
LEMMA DistinctAreAsMany ==
  ASSUME NEW set \in AttestationSets,
         \A i, j \in DOMAIN set.elements :
           set.elements[i].transfer_spec_hash
             = set.elements[j].transfer_spec_hash => i = j
  PROVE  OneShot!Cardinality(OneShot!HashesOf(set)) = Len(set.elements)
<1> DEFINE D == DOMAIN set.elements
           H == OneShot!HashesOf(set)
           f == [x \in D |-> set.elements[x].transfer_spec_hash]
<1>1. set.elements \in Seq(MintAttestationElement)
  BY SetTypes
<1>2. D = 1 .. Len(set.elements) /\ Len(set.elements) \in Nat
  BY <1>1
<1>3. IsFiniteSet(D) /\ Cardinality(D) = Len(set.elements)
  BY <1>2, FS_Interval
<1>4. f \in Surjection(D, H)
  BY DEF Surjection, OneShot!HashesOf
<1>5. f \in Injection(D, H)
  <2>1. \A x, y \in D : f[x] = f[y] => x = y
    OBVIOUS
  <2> HIDE DEF D, H, f
  <2> QED
    BY <1>4, <2>1 DEF Surjection, Injection, IsInjective
<1>6. Cardinality(H) = Cardinality(D)
  <2> HIDE DEF D, H, f
  <2> QED
    BY <1>3, <1>4, <1>5, FS_Surjection
<1> QED
  BY <1>3, <1>6, SameCardinality

\* A commit is the one step that pays the whole set.
LEMMA CommitPays ==
  ASSUME MinterInv, WholeInv, SettlementInv, Commit
  PROVE  OneShot!Pay(tx.attestation)
<1> DEFINE set == tx.attestation
           n == tx.next
           start == tx.before.balance
           before == tx.before.minted
<1>1. /\ tx # NoTransaction /\ n > Len(set.elements) /\ tx' = NoTransaction
      /\ UNCHANGED <<minter, balance, slot, minted>>
  BY DEF Commit, NoElementLeft
<1>2. /\ tx \in Transaction /\ n \in Nat /\ set \in AttestationSets
      /\ balance \in [Tokens -> [Holders -> Nat]]
      /\ start \in [Tokens -> [Holders -> Nat]]
      /\ minted \in [Hashes -> Seq(AttestationUsed)]
      /\ before \in [Hashes -> Seq(AttestationUsed)]
  BY <1>1 DEF MinterInv, TypeOK, Transaction, Snapshot
<1>3. /\ set.elements \in Seq(MintAttestationElement)
      /\ \A i \in DOMAIN set.elements :
           /\ i \in 1 .. n - 1
           /\ set.elements[i].transfer_spec_hash \in Hashes
      /\ 1 .. n - 1 = DOMAIN set.elements
  <2>1. /\ set.elements \in Seq(MintAttestationElement)
        /\ \A i \in DOMAIN set.elements :
             set.elements[i].transfer_spec_hash \in Hashes
    BY <1>2, SetTypes
  <2>2. n <= Len(set.elements) + 1
    BY <1>1 DEF WholeInv, Worked
  <2>3. n - 1 = Len(set.elements)
    <3>1. Len(set.elements) \in Nat
      BY <2>1
    <3>2. n > Len(set.elements) /\ n \in Nat
      BY <1>1, <1>2
    <3> HIDE DEF set, n
    <3>3. n <= Len(set.elements) + 1
      BY <2>2 DEF set, n
    <3> QED
      BY <3>1, <3>2, <3>3
  <2> QED
    BY <2>1, <2>3
<1>4. /\ SettledBalance = start /\ SettledMinted = before
      /\ SettledBalance' = balance /\ SettledMinted' = minted
      /\ UNCHANGED <<Attesters, Stopped, slot>>
  BY <1>1 DEF SettledBalance, SettledMinted, Attesters, Stopped
<1>5. Admitted(tx) /\ PaidSoFar(tx) /\ MovedSoFar(tx, balance)
  BY <1>1 DEF SettlementInv
<1> HIDE DEF set, n, start, before
<1>6. /\ ~ Stopped /\ slot <= set.max_block_height
      /\ \E signature \in Signatures :
           signature[2] = set /\ signature[1] \in Attesters
      /\ set.addressed_here /\ set.elements # <<>>
  BY <1>5 DEF Admitted, set
<1>7. /\ \A i \in DOMAIN set.elements :
           /\ set.elements[i].value > 0
           /\ set.elements[i].destination_recipient.mint
                = set.elements[i].destination_token
           /\ before[set.elements[i].transfer_spec_hash] = <<>>
      /\ \A i, j \in DOMAIN set.elements :
           set.elements[i].transfer_spec_hash
             = set.elements[j].transfer_spec_hash => i = j
  BY <1>3, <1>5 DEF PaidSoFar, set, n, before
<1>8. OneShot!WellFormed(set)
  BY <1>2, <1>6, <1>7, DistinctAreAsMany DEF OneShot!WellFormed
<1>9. \A hash \in OneShot!HashesOf(set) : SettledMinted[hash] = <<>>
  BY <1>4, <1>7 DEF OneShot!HashesOf
<1>10. ASSUME NEW u \in Tokens
       PROVE  /\ OneShot!TakenOut(set, u) \in Nat
              /\ balance[u][Custody]
                   = start[u][Custody] - OneShot!TakenOut(set, u)
              /\ start[u][Custody] \in Nat /\ balance[u][Custody] \in Nat
  <2> DEFINE out == Outgoing(set, u)
  <2>1. balance[u][Custody] - Remaining(set, out, n)
          = start[u][Custody] - Remaining(set, out, 1)
    BY <1>5, CustodyIsHolder DEF MovedSoFar, set, n, start
  <2>2. out \in SUBSET DOMAIN set.elements
    BY DEF Outgoing
  <2>3. OneShot!TakenOut(set, u)
          = SumFunctionOnSet(OneShot!Values(set), out)
    BY SameSum DEF OneShot!TakenOut, Outgoing
  <2>4. balance[u][Custody] \in Nat /\ start[u][Custody] \in Nat
    BY <1>2, CustodyIsHolder
  <2> HIDE DEF out
  <2>5. /\ Remaining(set, out, 1) = OneShot!TakenOut(set, u)
        /\ Remaining(set, out, n) = 0
    BY <1>1, <1>2, <2>2, <2>3, RemainingEnds DEF set, n
  <2>6. Remaining(set, out, 1) \in Nat
    BY <1>2, <2>2, RemainingFacts
  <2> QED
    BY <2>1, <2>4, <2>5, <2>6 DEF out
<1>11. ASSUME NEW u \in Tokens, NEW h \in Holders, h # Custody
       PROVE  balance[u][h]
                = start[u][h] + OneShot!PaidTo(set, [mint |-> u, owner |-> h])
  <2> DEFINE in == Incoming(set, [mint |-> u, owner |-> h])
             paid == OneShot!PaidTo(set, [mint |-> u, owner |-> h])
  <2>1. balance[u][h] + Remaining(set, in, n)
          = start[u][h] + Remaining(set, in, 1)
    BY <1>5, <1>11 DEF MovedSoFar, set, n, start
  <2>2. in \in SUBSET DOMAIN set.elements
    BY DEF Incoming
  <2>3. paid = SumFunctionOnSet(OneShot!Values(set), in)
    BY SameSum DEF OneShot!PaidTo, Incoming
  <2>4. balance[u][h] \in Nat /\ start[u][h] \in Nat
    BY <1>2
  <2> HIDE DEF in, paid
  <2>5. Remaining(set, in, 1) = paid /\ Remaining(set, in, n) = 0
    BY <1>1, <1>2, <2>2, <2>3, RemainingEnds DEF set, n
  <2>6. Remaining(set, in, 1) \in Nat
    BY <1>2, <2>2, RemainingFacts
  <2>7. balance[u][h] = start[u][h] + paid
    BY <2>1, <2>4, <2>5, <2>6 DEF in
  <2> QED
    BY <2>7 DEF paid
<1>12. \A u \in Tokens :
         OneShot!TakenOut(set, u) <= SettledBalance[u][Custody]
  BY <1>4, <1>10
<1>13. SettledBalance' =
         [u \in Tokens |-> [h \in Holders |->
            IF h = Custody
            THEN SettledBalance[u][h] - OneShot!TakenOut(set, u)
            ELSE SettledBalance[u][h]
                   + OneShot!PaidTo(set, [mint |-> u, owner |-> h])]]
  <2>1. \A u \in Tokens, h \in Holders :
          balance[u][h] =
            IF h = Custody
            THEN start[u][h] - OneShot!TakenOut(set, u)
            ELSE start[u][h]
                   + OneShot!PaidTo(set, [mint |-> u, owner |-> h])
    BY <1>10, <1>11
  <2> QED
    BY <1>2, <1>4, <2>1
<1>14. SettledMinted' =
         [hash \in Hashes |->
            IF hash \in OneShot!HashesOf(set)
            THEN <<OneShot!PaymentFor(set, hash)>> ELSE SettledMinted[hash]]
  <2>1. ASSUME NEW hash \in Hashes, hash \in OneShot!HashesOf(set)
        PROVE  minted[hash] = <<OneShot!PaymentFor(set, hash)>>
    <3> DEFINE i == CHOOSE i \in DOMAIN set.elements :
                      set.elements[i].transfer_spec_hash = hash
    <3>1. /\ i \in DOMAIN set.elements
          /\ set.elements[i].transfer_spec_hash = hash
      BY <2>1 DEF OneShot!HashesOf
    <3>2. PaidIn(minted, set.elements[i])
      BY <1>1, <1>3, <3>1 DEF WholeInv, Worked, set, n
    <3> QED
      BY <3>1, <3>2 DEF PaidIn, OneShot!PaymentFor
  <2>2. ASSUME NEW hash \in Hashes, hash \notin OneShot!HashesOf(set)
        PROVE  minted[hash] = before[hash]
    <3>1. CASE before[hash] # <<>>
      BY <1>1, <3>1 DEF WholeInv, Worked, before
    <3>2. CASE before[hash] = <<>>
      <4>1. ~ \E i \in 1 .. n - 1 :
                set.elements[i].transfer_spec_hash = hash
        BY <1>3, <2>2 DEF OneShot!HashesOf
      <4> QED
        BY <1>1, <3>2, <4>1 DEF WholeInv, Worked, set, n, before
    <3> QED
      BY <3>1, <3>2
  <2> QED
    BY <1>2, <1>4, <2>1, <2>2
<1>15. OneShot!Pay(set)
  BY <1>4, <1>6, <1>8, <1>9, <1>12, <1>13, <1>14 DEF OneShot!Pay
<1> QED
  BY <1>15 DEF set

\* Configuration, clock and money from or to others, between transactions.
LEMMA OutsideSteps ==
  ASSUME MinterInv, tx = NoTransaction, tx' = NoTransaction
  PROVE  /\ UNCHANGED <<balance, minted, slot>> => OneShot!Configure
         /\ Tick => OneShot!Wait
         /\ \A k \in Keys, t \in Tokens, amount \in BurnAmounts :
              BurnTokenCustody(k, t, amount) => OneShot!BurnCustody
         /\ \A t \in Tokens, k \in Keys, amount \in Fundings :
              Fund(t, k, amount) => OneShot!FundCustody
<1>1. /\ SettledBalance = balance /\ SettledBalance' = balance'
      /\ SettledMinted = minted /\ SettledMinted' = minted'
  BY DEF SettledBalance, SettledMinted
<1>2. minter' = minter => UNCHANGED <<Attesters, Stopped>>
  BY DEF Attesters, Stopped
<1>3. balance \in [Tokens -> [Holders -> Nat]]
  BY DEF MinterInv, TypeOK
<1>4. UNCHANGED <<balance, minted, slot>> => OneShot!Configure
  BY <1>1 DEF OneShot!Configure
<1>5. Tick => OneShot!Wait
  BY <1>1, <1>2 DEF Tick, OneShot!Wait
<1>6. ASSUME NEW k \in Keys, NEW t \in Tokens, NEW amount \in BurnAmounts,
             BurnTokenCustody(k, t, amount)
      PROVE  OneShot!BurnCustody
  <2> DEFINE burned == BurnAmount(balance[t][Custody], amount)
  <2>1. /\ balance' = Burn(balance, t, Custody, burned)
        /\ UNCHANGED <<minter, minted, slot>>
    BY <1>6 DEF BurnTokenCustody
  <2>2. balance[t][Custody] \in Nat /\ amount \in Nat
    BY <1>3, CustodyIsHolder, ConfigAssumption, InputsAssumption DEF U64
  <2>3. burned \in 0 .. balance[t][Custody]
    BY <2>2 DEF BurnAmount
  <2> HIDE DEF burned
  <2>4. balance' = OneShot!Changed(balance, t, Custody, - burned)
    BY <1>3, <2>1, <2>2, <2>3, CustodyIsHolder DEF Burn, OneShot!Changed
  <2> QED
    BY <1>1, <1>2, <2>1, <2>3, <2>4 DEF OneShot!BurnCustody
<1>7. ASSUME NEW t \in Tokens, NEW k \in Keys, NEW amount \in Fundings,
             Fund(t, k, amount)
      PROVE  OneShot!FundCustody
  <2>1. /\ balance' = Transfer(balance, t, k, Custody, amount)
        /\ amount <= balance[t][k]
        /\ UNCHANGED <<minter, minted, slot>>
    BY <1>7 DEF Fund, Holds
  <2>2. balance[t][k] \in Nat /\ amount \in Nat /\ k \in Holders
    BY <1>3, CustodyIsHolder, ConfigAssumption, InputsAssumption DEF U64
  <2>3. amount \in 0 .. balance[t][k]
    BY <2>1, <2>2
  <2>4. balance' = OneShot!Changed(OneShot!Changed(balance, t, k, - amount),
                                   t, Custody, amount)
    <3> DEFINE less == OneShot!Changed(balance, t, k, - amount)
               moved == OneShot!Changed(less, t, Custody, amount)
               at(u, h) == IF u = t /\ h = k THEN balance[u][h] - amount
                           ELSE IF u = t /\ h = Custody
                           THEN balance[u][h] + amount ELSE balance[u][h]
    <3>1. k # Custody /\ Custody \in Holders
      BY KeysAssumption, CustodyIsHolder DEF Addresses
    <3>2. /\ less \in [Tokens -> [Holders -> Int]]
          /\ \A u \in Tokens, h \in Holders :
               less[u][h] = IF u = t /\ h = k THEN balance[u][h] - amount
                                              ELSE balance[u][h]
      BY <1>3, <2>2 DEF OneShot!Changed
    <3>3. /\ moved \in [Tokens -> [Holders -> Int]]
          /\ \A u \in Tokens, h \in Holders : moved[u][h] = at(u, h)
      <4> HIDE DEF less
      <4> QED
        BY <2>2, <3>1, <3>2 DEF OneShot!Changed
    <3>4. /\ balance' \in [Tokens -> [Holders -> Int]]
          /\ \A u \in Tokens, h \in Holders : balance'[u][h] = at(u, h)
      BY <1>3, <2>1, <2>2, <3>1 DEF Transfer
    <3> HIDE DEF moved, at
    <3>5. \A u \in Tokens : balance'[u] = moved[u]
      BY <3>3, <3>4
    <3>6. balance' = moved
      BY <3>3, <3>4, <3>5
    <3> QED
      BY <3>6 DEF moved, less
  <2> QED
    BY <1>1, <1>2, <2>1, <2>2, <2>3, <2>4 DEF OneShot!FundCustody
<1> QED
  BY <1>4, <1>5, <1>6, <1>7

\* In the middle of a transaction, and when it is undone, nothing is settled.
LEMMA UnsettledSteps ==
  ASSUME MinterInv,
         \/ \E attester, caller, set : Start(attester, caller, set)
         \/ \E custody, recipient : MintElement(custody, recipient)
         \/ Abort
         \/ UNCHANGED vars
  PROVE  UNCHANGED OneShot!vars
<1> SUFFICES UNCHANGED <<SettledBalance, SettledMinted, minter, slot>>
  BY DEF OneShot!vars, Attesters, Stopped
<1>1. ASSUME NEW attester, NEW caller, NEW set, Start(attester, caller, set)
      PROVE  UNCHANGED <<SettledBalance, SettledMinted, minter, slot>>
  <2>1. /\ tx = NoTransaction /\ UNCHANGED <<minter, slot>>
        /\ tx'.next = 1
        /\ tx'.before.balance = balance /\ tx'.before.minted = minted
    BY <1>1 DEF Start
  <2>2. tx' # NoTransaction
    BY <2>1 DEF NoTransaction
  <2> QED
    BY <2>1, <2>2 DEF SettledBalance, SettledMinted
<1>2. ASSUME NEW custody, NEW recipient, MintElement(custody, recipient)
      PROVE  UNCHANGED <<SettledBalance, SettledMinted, minter, slot>>
  <2>1. /\ tx # NoTransaction /\ UNCHANGED <<minter, slot>>
        /\ tx' = [tx EXCEPT !.next = @ + 1]
    BY <1>2 DEF MintElement, CanMintElement
  <2>2. tx \in Transaction
    BY <2>1 DEF MinterInv, TypeOK
  <2>3. /\ tx'.before = tx.before /\ tx'.next = tx.next + 1
        /\ tx.next \in Nat \ {0}
    BY <2>1, <2>2 DEF Transaction
  <2>4. tx' # NoTransaction
    BY <2>3 DEF NoTransaction
  <2> QED
    BY <2>1, <2>3, <2>4 DEF SettledBalance, SettledMinted
<1>3. CASE Abort
  BY <1>3 DEF Abort, SettledBalance, SettledMinted
<1>4. CASE UNCHANGED vars
  BY <1>4 DEF vars, SettledBalance, SettledMinted
<1> QED
  BY <1>1, <1>2, <1>3, <1>4

LEMMA OneShotStep ==
  MinterInv /\ WholeInv /\ SettlementInv /\ [Next]_vars
    => [OneShot!Next]_(OneShot!vars)
<1> SUFFICES ASSUME MinterInv, WholeInv, SettlementInv, [Next]_vars
             PROVE  OneShot!Next \/ UNCHANGED OneShot!vars
  OBVIOUS
<1>1. ASSUME NEW k \in Keys, Administer(k) PROVE OneShot!Next
  <2>1. tx = NoTransaction /\ tx' = NoTransaction
    BY <1>1
    DEF Administer, Initialize, AcceptOwnership, Pause, Unpause,
        TransferOwnership, UpdatePauser, UpdateTokenController, AddAttester,
        RemoveAttester, AddToken, BurnTokenCustody, SetMinter
  <2>2. \/ UNCHANGED <<balance, minted, slot>>
        \/ \E t \in Tokens, amount \in BurnAmounts :
             BurnTokenCustody(k, t, amount)
    BY <1>1
    DEF Administer, Initialize, AcceptOwnership, Pause, Unpause,
        TransferOwnership, UpdatePauser, UpdateTokenController, AddAttester,
        RemoveAttester, AddToken, SetMinter
  <2> QED
    BY <2>1, <2>2, OutsideSteps DEF OneShot!Next
<1>2. ASSUME NEW a \in EvmKeys, NEW k \in Keys, SubmitMint(a, k)
      PROVE  UNCHANGED OneShot!vars
  <2>1. \E attester, caller, set : Start(attester, caller, set)
    BY <1>2 DEF SubmitMint, GatewayMint, GatewayMintWithParams
  <2> QED
    BY <2>1, UnsettledSteps
<1>3. ASSUME NEW custody, NEW recipient, MintElement(custody, recipient)
      PROVE  UNCHANGED OneShot!vars
  BY <1>3, UnsettledSteps
<1>4. CASE Commit
  <2>1. OneShot!Pay(tx.attestation)
    BY <1>4, CommitPays
  <2>2. \E signature \in Signatures : signature[2] = tx.attestation
    BY <1>4 DEF Commit, SettlementInv, Admitted
  <2> QED
    BY <2>1, <2>2 DEF OneShot!Next
<1>5. CASE Abort
  BY <1>5, UnsettledSteps
<1>6. ASSUME NEW t \in Tokens, NEW k \in Keys, NEW amount \in Fundings,
             Fund(t, k, amount)
      PROVE  OneShot!Next
  <2>1. tx = NoTransaction /\ tx' = NoTransaction
    BY <1>6 DEF Fund
  <2> QED
    BY <1>6, <2>1, OutsideSteps DEF OneShot!Next
<1>7. CASE Tick
  <2>1. tx = NoTransaction /\ tx' = NoTransaction
    BY <1>7 DEF Tick
  <2> QED
    BY <1>7, <2>1, OutsideSteps DEF OneShot!Next
<1>8. CASE UNCHANGED vars
  BY <1>8, UnsettledSteps
<1> QED
  BY <1>1, <1>2, <1>3, <1>4, <1>5, <1>6, <1>7, <1>8 DEF Next, ProcessMint

LEMMA OneShotInit == Init => OneShot!Init
<1> SUFFICES ASSUME Init PROVE OneShot!Init
  OBVIOUS
<1>1. SettledBalance = InitialBalance /\ SettledMinted = minted
  BY DEF Init, SettledBalance, SettledMinted
<1>2. Attesters = {}
  BY DEF Init, NoMinter, Attesters, Range
<1> QED
  BY <1>1, <1>2, SupplyAssumption DEF Init, OneShot!Init

\* The program that works through signed sets element by element, with failures
\* anywhere in the middle, implements the one that pays a set in one step or
\* does nothing, for sets of any length and any tokens.
THEOREM SetsArePaidInOneStep == Spec => MintsAreOneShot
<1>1. Init => WholeInv /\ SettlementInv
  BY DEF Init, WholeInv, InWholeSets, SettlementInv
<1>2. MinterInv /\ WholeInv /\ [Next]_vars => WholeInv'
  BY WholeStep
<1>3. MinterInv /\ WholeInv /\ SettlementInv /\ [Next]_vars => SettlementInv'
  BY SettlementStep
<1>4. Init => OneShot!Init
  BY OneShotInit
<1>5. MinterInv /\ WholeInv /\ SettlementInv /\ [Next]_vars
        => [OneShot!Next]_(OneShot!vars)
  BY OneShotStep
<1>6. Spec => OneShot!Spec
  BY <1>1, <1>2, <1>3, <1>4, <1>5, MinterInvariant, PTL
  DEF Spec, OneShot!Spec
<1> QED
  BY <1>6 DEF MintsAreOneShot
=============================================================================
