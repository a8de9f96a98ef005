----------------------------- MODULE WalletVault -----------------------------
(***************************************************************************)
(* What GatewayWallet promises its depositors: an account of one's own, for*)
(* each token, that only grows by what somebody pays in, and only shrinks  *)
(* by withdrawals announced a while before and by orders in one's own name *)
(* or in that of one's agent, each at most once.  There is no pool that    *)
(* accounts share, no list, no role and no delegate's status here.         *)
(***************************************************************************)
EXTENDS Integers

CONSTANTS
  Tokens,
  Owners,      \* who can have an account
  Orders       \* the burn intents that burns may be asked for

VARIABLES
  purse,       \* what each owner holds outside, by token
  account,     \* what each owner has in the vault, by token
  spent,       \* the specs that have been charged
  agents,      \* who was ever allowed to be named as signer: <<token, owner, agent>>
  stopped,
  slot

vars == <<purse, account, spent, agents, stopped, slot>>

\* Nothing is in withdrawal when ripe is zero.
Nothing == [available |-> 0, withdrawing |-> 0, ripe |-> 0]

Least(a, b) == IF a <= b THEN a ELSE b

PayIn(t, payer, k) ==
  /\ ~ stopped
  /\ \E amount \in 1 .. purse[t][payer] :
       /\ purse' = [purse EXCEPT ![t][payer] = @ - amount]
       /\ account' = [account EXCEPT ![t][k].available = @ + amount]
  /\ UNCHANGED <<spent, agents, stopped, slot>>

\* The owner announces a withdrawal; all that is in withdrawal then waits, at
\* least for the next slot.
Announce(t, k) ==
  /\ ~ stopped
  /\ \E amount \in 1 .. account[t][k].available :
       account' = [account EXCEPT
         ![t][k] = [available   |-> @.available - amount,
                    withdrawing |-> @.withdrawing + amount,
                    ripe        |-> account'[t][k].ripe]]
  /\ account'[t][k].ripe > slot
  /\ UNCHANGED <<purse, spent, agents, stopped, slot>>

TakeOut(t, k) ==
  /\ ~ stopped
  /\ account[t][k].withdrawing > 0
  /\ account[t][k].ripe <= slot
  /\ purse' = [purse EXCEPT ![t][k] = @ + account[t][k].withdrawing]
  /\ account' = [account EXCEPT
       ![t][k] = [available |-> @.available, withdrawing |-> 0, ripe |-> 0]]
  /\ UNCHANGED <<spent, agents, stopped, slot>>

\* What is left of an account when an amount that it has is taken, out of the
\* available part as far as that reaches.
Less(a, amount) ==
  LET rest == amount - Least(a.available, amount)
  IN  [available   |-> a.available - Least(a.available, amount),
       withdrawing |-> a.withdrawing - rest,
       ripe        |-> IF rest = a.withdrawing THEN 0 ELSE a.ripe]

\* An order is charged: its value and a fee, or all there is.  The value comes
\* first, and is gone; what is taken above it goes to a collector.
Charge(order, fee, collector) ==
  LET spec == order.spec
      t == spec.source_token
      a == account[t][spec.source_depositor]
      taken == Least(spec.value + fee, a.available + a.withdrawing)
  IN
  /\ ~ stopped
  /\ spec \notin spent
  /\ slot <= order.max_block_height
  /\ fee <= order.max_fee
  /\ \/ spec.source_signer = spec.source_depositor
     \/ <<t, spec.source_depositor, spec.source_signer>> \in agents
  /\ spent' = spent \cup {spec}
  /\ account' = [account EXCEPT ![t][spec.source_depositor] = Less(@, taken)]
  /\ purse' = [purse EXCEPT ![t][collector] =
                 @ + (taken - Least(taken, spec.value))]
  /\ UNCHANGED <<agents, stopped, slot>>

Appoint(t, k, agent) ==
  /\ ~ stopped
  /\ agents' = agents \cup {<<t, k, agent>>}
  /\ UNCHANGED <<purse, account, spent, stopped, slot>>

\* Whoever sends tokens past the accounts has no claim to them.
GiveAway(t, k) ==
  /\ \E amount \in 0 .. purse[t][k] :
       purse' = [purse EXCEPT ![t][k] = @ - amount]
  /\ UNCHANGED <<account, spent, agents, stopped, slot>>

StopOrResume ==
  /\ stopped' = ~ stopped
  /\ UNCHANGED <<purse, account, spent, agents, slot>>

Wait ==
  /\ slot' = slot + 1
  /\ UNCHANGED <<purse, account, spent, agents, stopped>>

Init ==
  /\ purse \in [Tokens -> [Owners -> Nat]]
  /\ account = [t \in Tokens |-> [k \in Owners |-> Nothing]]
  /\ spent = {}
  /\ agents = {}
  /\ stopped = TRUE
  /\ slot = 0

Next ==
  \/ \E t \in Tokens, k \in Owners :
       \/ \E payer \in Owners : PayIn(t, payer, k)
       \/ Announce(t, k)
       \/ TakeOut(t, k)
       \/ \E agent \in Owners : Appoint(t, k, agent)
       \/ GiveAway(t, k)
  \/ \E order \in Orders, collector \in Owners :
       \E fee \in 0 .. order.max_fee : Charge(order, fee, collector)
  \/ StopOrResume
  \/ Wait

Spec == Init /\ [][Next]_vars
=============================================================================
