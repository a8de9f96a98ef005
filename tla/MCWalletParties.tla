-------------------------- MODULE MCWalletParties --------------------------
(***************************************************************************)
(* A depositor and a delegate on two tokens: burns of the depositor's      *)
(* balance in the delegate's name, signed or called by a program, while it *)
(* is authorized, revoked, denylisted, and while withdrawals run.  The     *)
(* delegate also holds the roles, which do not interact with the burns.    *)
(***************************************************************************)
EXTENDS GatewayWalletProperties, TLC

CONSTANTS alice, bob, usdc, eurc, evm1

MCKeys == {alice, bob}
MCBump == (usdc :> 254) @@ (eurc :> 255)
MCBalance ==
  [t \in Tokens |-> [h \in MCKeys \cup {DefaultKey, Custody} |->
     IF <<t, h>> \in {<<eurc, alice>>, <<usdc, bob>>} THEN 1 ELSE 0]]

SpecOf(token, depositor, signer) ==
  [salt |-> 1, source_token |-> token, source_depositor |-> depositor,
   source_signer |-> signer, value |-> 1, addressed_here |-> TRUE]

Intent(spec) == [spec |-> spec, max_fee |-> 0, max_block_height |-> 1]

MCIntents ==
  {Intent(SpecOf(usdc, alice, bob)), Intent(SpecOf(eurc, alice, bob))}
=============================================================================
