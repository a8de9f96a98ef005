-------------------------- MODULE MCWalletLiveness --------------------------
(***************************************************************************)
(* One depositor who starts withdrawals again and again while the delay is *)
(* changed, the depositor is denylisted and the program is paused, up to   *)
(* the slot at which slot + delay overflows.                               *)
(***************************************************************************)
EXTENDS GatewayWalletProperties

CONSTANTS admin, alice, usdc, evm1

MCKeys == {admin, alice}
MCBump == [t \in Tokens |-> 254]
MCBalance ==
  [t \in Tokens |-> [h \in MCKeys \cup {DefaultKey, Custody} |->
     IF h = alice THEN 2 ELSE 0]]

MCIntents ==
  {[spec |-> [salt |-> 1, source_token |-> usdc, source_depositor |-> alice,
              source_signer |-> alice, value |-> 1, addressed_here |-> TRUE],
    max_fee |-> 0, max_block_height |-> 2]}
=============================================================================
