--------------------------- MODULE MCWalletAdmin ---------------------------
(***************************************************************************)
(* The configuration: more tokens and burn signers than the lists hold,    *)
(* roles that change hands, and the default key proposed wherever an       *)
(* instruction takes an address.                                           *)
(***************************************************************************)
EXTENDS GatewayWalletProperties, TLC

CONSTANTS admin, nominee, usdc, eurc, evm1, evm2, evm3

MCKeys == {admin, nominee}
MCBump == (usdc :> 254) @@ (eurc :> 255)
MCBalance ==
  [t \in Tokens |-> [h \in MCKeys \cup {DefaultKey, Custody} |->
     IF h = nominee /\ t = eurc THEN 1 ELSE 0]]
=============================================================================
