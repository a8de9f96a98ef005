---------------------------- MODULE MCMinterMint ----------------------------
(***************************************************************************)
(* Mints against sets that overlap in a hash, repeat one, pay two tokens,  *)
(* pay custody itself, name an account of another token, a value of zero or*)
(* another program, with custody funded and burned in between.             *)
(***************************************************************************)
EXTENDS GatewayMinterProperties, TLC

CONSTANTS admin, alice, usdc, eurc, evm1, evm2, h1, h2, h3

MCKeys == {admin, alice}
MCBump == (usdc :> 254) @@ (eurc :> 255)
MCBalance ==
  [t \in Tokens |-> [h \in MCKeys \cup {DefaultKey, Custody} |->
     CASE h = admin -> IF t = usdc THEN 3 ELSE 1 [] OTHER -> 0]]

Element(hash, token, account, value) ==
  [destination_token |-> token, destination_recipient |-> account,
   value |-> value, transfer_spec_hash |-> hash]

At(token, owner) == [mint |-> token, owner |-> owner]
Pays(hash, token, owner) == Element(hash, token, At(token, owner), 1)

Attestation(caller, max_block_height, elements) ==
  [addressed_here |-> TRUE, destination_caller |-> caller,
   max_block_height |-> max_block_height, elements |-> elements]

Overlapping ==
  {Attestation(DefaultKey, 1, <<Pays(h1, usdc, alice), Pays(h2, usdc, alice)>>),
   Attestation(alice, 0, <<Pays(h2, usdc, admin)>>),
   Attestation(DefaultKey, 1, <<Pays(h3, usdc, Custody), Pays(h1, eurc, alice)>>)}

Faulty ==
  {Attestation(DefaultKey, 1, <<Pays(h3, usdc, alice), Pays(h3, usdc, alice)>>),
   Attestation(DefaultKey, 1, <<Pays(h3, usdc, alice),
                                Element(h2, eurc, At(usdc, alice), 1)>>),
   Attestation(DefaultKey, 1, <<Element(h3, usdc, At(usdc, alice), 0)>>),
   [Attestation(DefaultKey, 1, <<Pays(h3, eurc, alice)>>)
      EXCEPT !.addressed_here = FALSE]}

MCSignatures ==
  (({evm1} \X (Overlapping \cup Faulty)) \cup ({evm2} \X Overlapping))
=============================================================================
