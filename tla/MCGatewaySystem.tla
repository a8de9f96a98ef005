-------------------------- MODULE MCGatewaySystem --------------------------
(***************************************************************************)
(* A depositor with two units and two intents of one unit: one she has     *)
(* signed, with a fee, and one her delegate has.  Attestations are valid in*)
(* the slot they are made in, burns follow in the next at the latest, and  *)
(* withdrawals take two or three.                                          *)
(***************************************************************************)
EXTENDS GatewaySystem

CONSTANTS admin, alice, usdc, evm1

MCKeys == {admin, alice}
MCBump == [t \in Tokens |-> 254]

BalanceOf(holder, amount) ==
  [t \in Tokens |-> [h \in MCKeys \cup {DefaultKey, Custody} |->
     IF h = holder THEN amount ELSE 0]]
MCBalance == BalanceOf(alice, 2)
MCMinterBalance == BalanceOf(Custody, 2)

SpecOf(salt, signer, value) ==
  [salt |-> salt, source_token |-> usdc, source_depositor |-> alice,
   source_signer |-> signer, value |-> value, addressed_here |-> TRUE]

Intent(spec, max_fee) ==
  [spec |-> spec, max_fee |-> max_fee, max_block_height |-> 3]

MCIntents ==
  {Intent(SpecOf(1, alice, 1), 1), Intent(SpecOf(2, admin, 1), 0)}
=============================================================================
