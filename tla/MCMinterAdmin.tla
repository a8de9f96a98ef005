---------------------------- MODULE MCMinterAdmin ----------------------------
(***************************************************************************)
(* The configuration: more tokens and attesters than the lists hold, roles *)
(* that change hands, and the default key proposed as an attester and for  *)
(* every role.                                                             *)
(***************************************************************************)
EXTENDS GatewayMinterProperties, TLC

CONSTANTS admin, nominee, usdc, eurc, evm1, evm2, evm3

MCKeys == {admin, nominee}
MCBump == (usdc :> 254) @@ (eurc :> 255)
MCBalance ==
  [t \in Tokens |-> [h \in MCKeys \cup {DefaultKey, Custody} |-> 0]]
=============================================================================
