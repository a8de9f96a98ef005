--------------------------- MODULE MCWalletLedger ---------------------------
(***************************************************************************)
(* Two depositors and the operator's burns on one token: two intents with  *)
(* one transfer spec, a spec the depositor's claim may not cover, a fee    *)
(* whose addition overflows, tokens sent to custody from outside.  Roles,  *)
(* delegates and the denylist keep still.                                  *)
(***************************************************************************)
EXTENDS GatewayWalletProperties

CONSTANTS admin, alice, bob, usdc, evm1

MCKeys == {admin, alice, bob}
MCBump == [t \in Tokens |-> 254]
MCBalance ==
  [t \in Tokens |-> [h \in MCKeys \cup {DefaultKey, Custody} |->
     CASE h = alice -> 2 [] h = bob -> 1 [] OTHER -> 0]]

SpecOf(salt, depositor, value) ==
  [salt |-> salt, source_token |-> usdc, source_depositor |-> depositor,
   source_signer |-> depositor, value |-> value, addressed_here |-> TRUE]

Intent(spec, max_fee, max_block_height) ==
  [spec |-> spec, max_fee |-> max_fee, max_block_height |-> max_block_height]

MCIntents ==
  {Intent(SpecOf(1, alice, 1), 1, 1), Intent(SpecOf(1, alice, 1), 0, 2),
   Intent(SpecOf(2, alice, 2), 2, 2), Intent(SpecOf(3, bob, 1), 1, 2)}
=============================================================================
