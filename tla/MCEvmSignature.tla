--------------------------- MODULE MCEvmSignature ---------------------------
(***************************************************************************)
(* Every signature over a group of eleven points, with numbers up to one   *)
(* above its order, every recovery id around 27 and 28 as well as 0 and 1, *)
(* and lengths off by one.                                                 *)
(***************************************************************************)
EXTENDS EvmSignature

MCWords == 0 .. Order + 1
=============================================================================
