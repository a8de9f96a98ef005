------------------------------ MODULE SplToken ------------------------------
(***************************************************************************)
(* What the gateway programs use of the SPL token program: the balances of *)
(* each mint, and the instructions that move or destroy them.  All token   *)
(* accounts of one owner and one mint are one holder.  The token program   *)
(* also rejects a credit beyond u64; a mint's supply is a u64, so no       *)
(* holder's balance can get there.                                         *)
(***************************************************************************)
EXTENDS Integers

\* The account has the tokens that a transfer or a burn takes.
Holds(balance, t, h, amount) == amount <= balance[t][h]

\* token::transfer
Transfer(balance, t, from, to, amount) ==
  [balance EXCEPT ![t][from] = @ - amount, ![t][to] = @ + amount]

\* token::burn
Burn(balance, t, h, amount) ==
  [balance EXCEPT ![t][h] = @ - amount]
=============================================================================
