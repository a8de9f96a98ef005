----------------------------- MODULE MCUsedHash -----------------------------
(***************************************************************************)
(* Two hashes; rent 2 for an empty account and 4 for one with a            *)
(* discriminator, and gifts that leave an address without, below, at and   *)
(* above either; payers who have too little, just enough and more.         *)
(***************************************************************************)
EXTENDS UsedTransferSpecHash
=============================================================================
