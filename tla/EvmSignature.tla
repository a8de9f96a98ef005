---------------------------- MODULE EvmSignature ----------------------------
(***************************************************************************)
(* How both programs find out who has signed a burn or an attestation:     *)
(* recover_evm_signer (src/shared/src/lib.rs) and the lists it is asked    *)
(* about (verify_burn_signature, verify_attestation_signature).            *)
(*                                                                         *)
(* ECDSA and its recovery are external, over a group of small prime order: *)
(* a point is its multiple of the generator, a public key is its secret,   *)
(* and keccak256 finds each key an address of its own.  The x coordinate   *)
(* of a point is below the group's order, which it is for all but 2^-128 of*)
(* secp256k1's points; recovery ids 29 and 30 stand for the others.        *)
(***************************************************************************)
EXTENDS Integers

CONSTANTS
  Order,        \* the order of the group
  Words,        \* the 32-byte numbers in a signature
  HashLengths, HashValues,
  Lengths,      \* lengths of signatures
  RecoveryIds,  \* their last bytes
  Enabled       \* the enabled burn signers, or attesters

ASSUME OrderAssumption ==
  /\ Order \in Nat /\ Order > 2
  /\ \A a, b \in 2 .. Order - 1 : a * b # Order
  /\ Words \subseteq Nat /\ HashValues \subseteq Nat
  /\ HashLengths \subseteq Nat /\ Lengths \subseteq Nat
  /\ RecoveryIds \subseteq Nat

VARIABLES
  message_hash,   \* what the signature should be of
  signature,
  signer          \* who has been found to have signed

vars == <<message_hash, signature, signer>>

SIGNATURE_LENGTH == 65

Nobody == 0
Keys == 1 .. Order - 1

-----------------------------------------------------------------------------
(* The curve, and a signer. *)

InverseOf(a) == CHOOSE b \in Keys : (a * b) % Order = 1

\* A point and its opposite have one x coordinate; half of the numbers are the
\* coordinate of no point.
XCoordinate(point) ==
  2 * (IF 2 * point < Order THEN point ELSE Order - point)

\* Which of the two has the odd y coordinate.
Parity(point) == IF 2 * point < Order THEN 0 ELSE 1

Flipped(parity) == 1 - parity

IsHigh(s) == 2 * s > Order

\* What a signer makes with its key and a nonce: the standard's signature, or
\* the other one that goes with its point's opposite, whichever is low.
LowSignature(key, hash, nonce) ==
  LET r == XCoordinate(nonce)
      s == (InverseOf(nonce) * (hash + r * key)) % Order
  IN  [length |-> SIGNATURE_LENGTH, r |-> r,
       s |-> IF IsHigh(s) THEN Order - s ELSE s,
       recovery_id |-> 27 + IF IsHigh(s) THEN Flipped(Parity(nonce))
                                         ELSE Parity(nonce)]

\* secp256k1_recover, for a signature within the order.
Recovered(hash, parity, sig) ==
  LET points == {p \in Keys : XCoordinate(p) = sig.r /\ Parity(p) = parity}
  IN  IF points = {} \/ sig.s = 0
        THEN Nobody
        ELSE LET point == CHOOSE p \in points : TRUE
             IN  (InverseOf(sig.r) * (sig.s * point - hash)) % Order

-----------------------------------------------------------------------------
(* The programs. *)

\* parse_standard_slice
IsStandard(sig) == sig.r < Order /\ sig.s < Order

AnyS(sig) == TRUE
NotMalleable(sig) == ~ IsHigh(sig.s)

\* The key that has signed, or nobody.
recover_evm_signer(hash, sig) ==
  IF /\ hash.length = 32
     /\ sig.length = SIGNATURE_LENGTH
     /\ sig.recovery_id \in {27, 28}
     /\ IsStandard(sig)
     /\ NotMalleable(sig)
    THEN Recovered(hash.value, sig.recovery_id - 27, sig)
    ELSE Nobody

\* verify_burn_signature, verify_attestation_signature
Verify ==
  /\ signer = Nobody
  /\ signer' = recover_evm_signer(message_hash, signature)
  /\ signer' \in Enabled
  /\ UNCHANGED <<message_hash, signature>>

Init ==
  /\ message_hash \in [length : HashLengths, value : HashValues]
  /\ signature \in [length : Lengths, r : Words, s : Words,
                    recovery_id : RecoveryIds]
  /\ signer = Nobody

Next == Verify

Spec == Init /\ [][Next]_vars

-----------------------------------------------------------------------------
\* A signature gets through for a signer exactly if it is one that this signer,
\* enabled, makes of the 32-byte hash: nobody can alter an accepted signature
\* into another (recover_evm_signer's malleability check), nothing else that
\* looks like one is accepted, and no enabled signer is ever refused: its key is
\* what is recovered, all that Verify asks.
AcceptedAreTheSigners ==
  LET Makes(key) ==
        /\ message_hash.length = 32
        /\ \E nonce \in Keys :
             signature = LowSignature(key, message_hash.value, nonce)
        /\ signature.s # 0
  IN  /\ signer # Nobody => Makes(signer) /\ signer \in Enabled
      /\ \A key \in Enabled \cap Keys :
           Makes(key) => recover_evm_signer(message_hash, signature) = key
=============================================================================
