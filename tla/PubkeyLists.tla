----------------------------- MODULE PubkeyLists -----------------------------
(***************************************************************************)
(* The Vec<Pubkey> lists that both programs keep in their state account:   *)
(* supported tokens, burn signers, attesters.                              *)
(***************************************************************************)
EXTENDS Integers, Sequences, Functions

\* iter().position(): the position of the first x in the list, which holds it.
FirstIndex(list, x) ==
  CHOOSE i \in DOMAIN list :
    list[i] = x /\ \A j \in 1 .. i - 1 : list[j] # x

WithoutLast(list, x) == SubSeq(list, 1, Len(list) - 1)

\* Vec::remove at the first position of x.
WithoutFirst(list, x) ==
  LET i == FirstIndex(list, x)
  IN  SubSeq(list, 1, i - 1) \o SubSeq(list, i + 1, Len(list))
=============================================================================
