-------------------------- MODULE MCMintAttestation --------------------------
(***************************************************************************)
(* Messages around the lengths of one, two and three elements with short   *)
(* hook data, with any number of elements and any hook data length in them,*)
(* a u32 so narrow that three accounts for four elements overflow it.      *)
(***************************************************************************)
EXTENDS MintAttestationBytes

CONSTANT MaxHook

MCLengths ==
  {0, 195} \cup
  UNION {{88 + n * 108 + h : h \in 0 .. n * MaxHook + 1} : n \in 1 .. 3}

MCStructs == UNION {[1 .. n -> 0 .. MaxHook] : n \in 1 .. 3}
=============================================================================
