---------------------------- MODULE AttestedMint ----------------------------
(***************************************************************************)
(* What GatewayMinter promises: a signed set of transfers is paid out in   *)
(* one step, completely or not at all, by an enabled attester's word, in   *)
(* time, while the program is not paused, and no transfer is ever paid     *)
(* twice.  Custody is otherwise only funded, or burned by its controller.  *)
(***************************************************************************)
EXTENDS Integers, Sequences, FiniteSets, Functions

CONSTANTS
  Tokens, Holders, Custody,   \* as in GatewayMinter
  Hashes,
  Signatures                  \* <<attester, set of transfers>>

VARIABLES
  balance,     \* token balances
  minted,      \* for each hash, the payments made for it
  attesters,   \* whose signatures count
  stopped,     \* payments are stopped
  slot

vars == <<balance, minted, attesters, stopped, slot>>

HashesOf(set) ==
  {set.elements[i].transfer_spec_hash : i \in DOMAIN set.elements}

Values(set) == [i \in DOMAIN set.elements |-> set.elements[i].value]

\* What the set pays to one token account, and what it takes out of custody:
\* a payment to custody itself takes nothing.
PaidTo(set, account) ==
  SumFunctionOnSet(Values(set),
    {i \in DOMAIN set.elements :
       set.elements[i].destination_recipient = account})

TakenOut(set, t) ==
  SumFunctionOnSet(Values(set),
    {i \in DOMAIN set.elements :
       /\ set.elements[i].destination_token = t
       /\ set.elements[i].destination_recipient.owner # Custody})

\* The elements are payments, for transfers that are all different.
WellFormed(set) ==
  /\ set.addressed_here
  /\ set.elements # <<>>
  /\ Cardinality(HashesOf(set)) = Len(set.elements)
  /\ \A i \in DOMAIN set.elements :
       LET e == set.elements[i]
       IN  e.value > 0 /\ e.destination_recipient.mint = e.destination_token

PaymentFor(set, hash) ==
  LET i == CHOOSE i \in DOMAIN set.elements :
             set.elements[i].transfer_spec_hash = hash
      e == set.elements[i]
  IN  [token |-> e.destination_token, recipient |-> e.destination_recipient,
       value |-> e.value]

Pay(set) ==
  /\ ~ stopped
  /\ slot <= set.max_block_height
  /\ \E signature \in Signatures :
       signature[2] = set /\ signature[1] \in attesters
  /\ WellFormed(set)
  /\ \A hash \in HashesOf(set) : minted[hash] = <<>>
  /\ \A t \in Tokens : TakenOut(set, t) <= balance[t][Custody]
  /\ balance' =
       [t \in Tokens |-> [h \in Holders |->
          IF h = Custody
          THEN balance[t][h] - TakenOut(set, t)
          ELSE balance[t][h] + PaidTo(set, [mint |-> t, owner |-> h])]]
  /\ minted' = [hash \in Hashes |->
                  IF hash \in HashesOf(set) THEN <<PaymentFor(set, hash)>>
                                            ELSE minted[hash]]
  /\ UNCHANGED <<attesters, stopped, slot>>

Changed(b, t, h, amount) == [b EXCEPT ![t][h] = @ + amount]

FundCustody ==
  /\ \E t \in Tokens, k \in Holders : \E amount \in 0 .. balance[t][k] :
       balance' = Changed(Changed(balance, t, k, - amount), t, Custody, amount)
  /\ UNCHANGED <<minted, attesters, stopped, slot>>

BurnCustody ==
  /\ \E t \in Tokens : \E amount \in 0 .. balance[t][Custody] :
       balance' = Changed(balance, t, Custody, - amount)
  /\ UNCHANGED <<minted, attesters, stopped, slot>>

\* Who attests, and whether payments are stopped, is for others to say.
Configure ==
  /\ UNCHANGED <<balance, minted, slot>>

Wait ==
  /\ slot' = slot + 1
  /\ UNCHANGED <<balance, minted, attesters, stopped>>

Init ==
  /\ balance \in [Tokens -> [Holders -> Nat]]
  /\ minted = [hash \in Hashes |-> <<>>]
  /\ attesters = {}
  /\ slot = 0

Next ==
  \/ \E signature \in Signatures : Pay(signature[2])
  \/ FundCustody
  \/ BurnCustody
  \/ Configure
  \/ Wait

Spec == Init /\ [][Next]_vars
=============================================================================
