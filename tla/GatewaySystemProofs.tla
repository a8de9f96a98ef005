------------------------- MODULE GatewaySystemProofs -------------------------
(***************************************************************************)
(* Proofs about GatewaySystem, for every number of depositors, tokens,     *)
(* intents and slots: both programs run in it as their own specifications  *)
(* say, and what the API promises is covered, paid and burned.             *)
(***************************************************************************)
EXTENDS GatewaySystem, GatewayWalletProofs

-----------------------------------------------------------------------------
(* Promises and what they reserve. *)

\* The parts of a promise are of their types.
LEMMA PromiseFacts ==
  ASSUME NEW p \in Promise
  PROVE  /\ p = [intent |-> p.intent, slot |-> p.slot]
         /\ p.intent \in Intents /\ p.intent.spec \in Specs
         /\ p.intent.spec.source_token \in Tokens
         /\ p.intent.spec.source_depositor \in Addresses
         /\ p.intent.spec.source_signer \in Addresses
         /\ p.intent.spec.value \in U64
         /\ p.intent.max_fee \in Nat /\ p.intent.max_block_height \in Nat
         /\ p.slot \in Nat
         /\ Reservation(p) = p.intent.spec.value + p.intent.max_fee
         /\ Reservation(p) \in Nat
<1>1. /\ p = [intent |-> p.intent, slot |-> p.slot]
      /\ p.intent \in Intents /\ p.slot \in 0 .. MaxSlot
  BY DEF Promise
<1>2. /\ p.intent \in BurnIntent /\ p.slot \in Nat
      /\ p.intent.spec \in Specs /\ U64Max \in Nat
  BY <1>1, ConfigAssumption, InputsAssumption DEF U64, Specs
<1>3. /\ p.intent.spec \in TransferSpec
      /\ p.intent.max_fee \in Nat /\ p.intent.max_block_height \in Nat
  BY <1>2 DEF BurnIntent, U64
<1>4. /\ p.intent.spec.source_token \in Tokens
      /\ p.intent.spec.source_depositor \in Addresses
      /\ p.intent.spec.source_signer \in Addresses
      /\ p.intent.spec.value \in U64 /\ p.intent.spec.value \in Nat
  BY <1>2, <1>3 DEF TransferSpec, U64
<1>5. Reservation(p) = p.intent.spec.value + p.intent.max_fee
  BY DEF Reservation, Charge
<1> QED
  BY <1>1, <1>2, <1>3, <1>4, <1>5

\* The promises of a set against one account.
Own(open, t, k) == {p \in open : AccountOf(p) = <<t, k>>}

\* The sum that Reserved takes is one of the reservations of any larger set.
LEMMA ReservedIs ==
  ASSUME NEW S \in SUBSET Promise, IsFiniteSet(S), NEW R \in SUBSET S,
         NEW t, NEW k
  PROVE  LET f == [p \in S |-> Reservation(p)] IN
         /\ Own(R, t, k) \in SUBSET S /\ IsFiniteSet(Own(R, t, k))
         /\ \A p \in S : f[p] \in Nat
         /\ Reserved(R, t, k) = SumFunctionOnSet(f, Own(R, t, k))
<1> DEFINE f == [p \in S |-> Reservation(p)]
           own == Own(R, t, k)
           g == [p \in own |-> Reservation(p)]
<1>1. own \in SUBSET S /\ IsFiniteSet(own)
  BY FS_Subset DEF Own
<1>2. \A p \in S : f[p] \in Nat
  BY PromiseFacts
<1>3. \A p \in own : f[p] \in Nat /\ g[p] = f[p]
  BY <1>1, <1>2
<1>4. Reserved(R, t, k) = SumFunctionOnSet(g, own)
  BY DEF Reserved, Own
<1> HIDE DEF f, g, own
<1>5. SumFunctionOnSet(g, own) = SumFunctionOnSet(f, own)
  BY <1>1, <1>3, SumSame
<1> QED
  BY <1>1, <1>2, <1>4, <1>5 DEF f, own

\* More promises reserve no less.
LEMMA ReservedGrows ==
  ASSUME NEW S \in SUBSET Promise, IsFiniteSet(S), NEW R \in SUBSET S,
         NEW t, NEW k
  PROVE  /\ Reserved(S, t, k) \in Nat /\ Reserved(R, t, k) \in Nat
         /\ Reserved(R, t, k) <= Reserved(S, t, k)
<1> DEFINE f == [p \in S |-> Reservation(p)]
<1>0. Own(R, t, k) \in SUBSET Own(S, t, k)
  BY DEF Own
<1>1. /\ Own(S, t, k) \in SUBSET S /\ IsFiniteSet(Own(S, t, k))
      /\ IsFiniteSet(Own(R, t, k))
      /\ \A p \in S : f[p] \in Nat
      /\ Reserved(R, t, k) = SumFunctionOnSet(f, Own(R, t, k))
      /\ Reserved(S, t, k) = SumFunctionOnSet(f, Own(S, t, k))
  BY ReservedIs
<1> HIDE DEF f
<1>2. /\ SumFunctionOnSet(f, Own(S, t, k)) \in Nat
      /\ SumFunctionOnSet(f, Own(R, t, k)) \in Nat
  BY <1>0, <1>1, SumOfNaturals
<1>3. SumFunctionOnSet(f, Own(R, t, k)) <= SumFunctionOnSet(f, Own(S, t, k))
  BY <1>0, <1>1, SumOfPart
<1> QED
  BY <1>1, <1>2, <1>3

\* One promise more reserves its reservation more, on its own account only.
LEMMA ReservedAdds ==
  ASSUME NEW S \in SUBSET Promise, IsFiniteSet(S), NEW p \in S, NEW t, NEW k
  PROVE  Reserved(S, t, k) = Reserved(S \ {p}, t, k)
           + (IF AccountOf(p) = <<t, k>> THEN Reservation(p) ELSE 0)
<1> DEFINE f == [q \in S |-> Reservation(q)]
<1>1. /\ Own(S, t, k) \in SUBSET S /\ IsFiniteSet(Own(S, t, k))
      /\ \A q \in S : f[q] \in Nat
      /\ Reserved(S, t, k) = SumFunctionOnSet(f, Own(S, t, k))
      /\ Reserved(S \ {p}, t, k) = SumFunctionOnSet(f, Own(S \ {p}, t, k))
  BY ReservedIs
<1>2. f[p] = Reservation(p) /\ f[p] \in Nat
  BY <1>1
<1>3. Reserved(S, t, k) \in Nat /\ Reserved(S \ {p}, t, k) \in Nat
  BY ReservedGrows
<1> HIDE DEF f
<1>4. CASE AccountOf(p) = <<t, k>>
  <2>1. p \in Own(S, t, k) /\ Own(S \ {p}, t, k) = Own(S, t, k) \ {p}
    BY <1>4 DEF Own
  <2>2. SumFunctionOnSet(f, Own(S, t, k))
          = f[p] + SumFunctionOnSet(f, Own(S, t, k) \ {p})
    BY <1>1, <2>1, SumRemoves
  <2>3. Reserved(S, t, k) = Reservation(p) + Reserved(S \ {p}, t, k)
    BY <1>1, <1>2, <2>1, <2>2
  <2>4. Reservation(p) \in Nat
    BY <1>2
  <2> QED
    BY <1>3, <1>4, <2>3, <2>4
<1>5. CASE AccountOf(p) # <<t, k>>
  <2>1. Own(S \ {p}, t, k) = Own(S, t, k)
    BY <1>5 DEF Own
  <2> QED
    BY <1>1, <1>3, <1>5, <2>1
<1> QED
  BY <1>4, <1>5

\* Where no promise is against an account, nothing of it is reserved.
LEMMA NothingReserved ==
  ASSUME NEW S \in SUBSET Promise, IsFiniteSet(S), NEW t, NEW k,
         \A p \in S : AccountOf(p) # <<t, k>>
  PROVE  Reserved(S, t, k) = 0
<1>1. Own(S, t, k) = {}
  BY DEF Own
<1>2. Reserved(S, t, k)
        = SumFunctionOnSet([p \in Own(S, t, k) |-> Reservation(p)],
                           Own(S, t, k))
  BY DEF Reserved, Own
<1> QED
  BY <1>1, <1>2, SumOfNothing

-----------------------------------------------------------------------------
(* Both programs run as their own specifications say. *)

Scheduled == promises \subseteq Promise /\ slot \in 0 .. MaxSlot

\* A burn of the operator is one the wallet knows.
LEMMA OperatorSubmits ==
  ASSUME promises \subseteq Promise, NEW p \in promises, OperatorBurn(p)
  PROVE  \E s \in EvmKeys, k \in Users, fee \in Fees :
           /\ p.intent \in Intents
           /\ GatewayBurn(s, k, p.intent, fee)
<1>1. p \in Promise
  OBVIOUS
<1>2. p.intent \in Intents
  BY <1>1, PromiseFacts
<1> QED
  BY <1>2 DEF OperatorBurn

\* The instructions of the wallet leave the clock alone.
LEMMA InstructionsKeepClock ==
  ASSUME \/ \E k \in Keys : Administer(k)
         \/ \E t \in Tokens, k \in Keys : UseAccount(t, k)
         \/ SubmitBurn
  PROVE  slot' = slot
<1>1. ASSUME NEW k \in Keys, Administer(k)
      PROVE  slot' = slot
  BY <1>1
  DEF Administer, Initialize, UpdateWithdrawalDelay, AcceptOwnership,
      Pause, Unpause, TransferOwnership, UpdatePauser, UpdateDenylister,
      UpdateTokenController, UpdateFeeRecipient, AddBurnSigner,
      RemoveBurnSigner, AddToken, DenylistAccount, UndenylistAccount,
      SetWallet, SetDenylisted
<1>2. ASSUME NEW t \in Tokens, NEW k \in Keys, UseAccount(t, k)
      PROVE  slot' = slot
  BY <1>2
  DEF UseAccount, Deposit, DepositFor, DepositInto, InitiateWithdrawal,
      Withdraw, Donate, AddDelegate, RemoveDelegate, SetDelegate
<1>3. CASE SubmitBurn
  BY <1>3 DEF SubmitBurn, GatewayBurn
<1> QED
  BY <1>1, <1>2, <1>3

\* Only Tick moves the clock.
LEMMA ClockMoves ==
  ASSUME [Next]_vars
  PROVE  slot' = slot \/ Tick
BY InstructionsKeepClock DEF Next, vars

\* The wallet's part of a step that is not the clock's.
LEMMA WalletStepIs ==
  ASSUME promises \subseteq Promise, WalletStep
  PROVE  /\ \/ \E k \in Keys : Administer(k)
            \/ \E t \in Tokens, k \in Keys : UseAccount(t, k)
            \/ SubmitBurn
         /\ Next
         /\ slot' = slot
         /\ UNCHANGED <<minterVars, promises>>
<1>1. ASSUME NEW p \in promises, OperatorBurn(p)
      PROVE  SubmitBurn
  <2>1. \E s \in EvmKeys, k \in Users, fee \in Fees :
          p.intent \in Intents /\ GatewayBurn(s, k, p.intent, fee)
    BY <1>1, OperatorSubmits
  <2> QED
    BY <2>1 DEF SubmitBurn
<1>2. \/ \E k \in Keys : Administer(k)
      \/ \E t \in Tokens, k \in Keys : UseAccount(t, k)
      \/ SubmitBurn
  BY <1>1 DEF WalletStep
<1>3. slot' = slot
  BY <1>2, InstructionsKeepClock
<1>4. Next
  BY <1>2 DEF Next
<1> QED
  BY <1>2, <1>3, <1>4 DEF WalletStep

\* Every step of the system is a step of the wallet, or none of its own.
LEMMA WalletSteps ==
  promises \subseteq Promise /\ [SystemNext]_systemVars => [Next]_vars
<1> SUFFICES ASSUME promises \subseteq Promise, [SystemNext]_systemVars
             PROVE  Next \/ UNCHANGED vars
  OBVIOUS
<1>1. CASE UNCHANGED systemVars
  BY <1>1 DEF systemVars
<1>2. CASE WalletStep
  BY <1>2, WalletStepIs
<1>3. CASE \E intent \in Intents : Attest(intent)
  BY <1>3 DEF Attest
<1>4. CASE MinterStep
  BY <1>4 DEF MinterStep
<1>5. CASE Clock
  BY <1>5 DEF Clock, Next
<1> QED
  BY <1>1, <1>2, <1>3, <1>4, <1>5 DEF SystemNext

\* Promises are only added, by the API.
LEMMA PromisesMove ==
  ASSUME [SystemNext]_systemVars
  PROVE  promises' = promises \/ \E intent \in Intents : Attest(intent)
BY DEF SystemNext, systemVars, WalletStep, MinterStep, Clock

LEMMA ScheduledStep == Scheduled /\ [SystemNext]_systemVars => Scheduled'
<1> SUFFICES ASSUME Scheduled, [SystemNext]_systemVars
             PROVE  Scheduled'
  OBVIOUS
<1>1. promises \subseteq Promise /\ slot \in 0 .. MaxSlot
  BY DEF Scheduled
<1>2. slot' \in 0 .. MaxSlot
  <2>1. slot' = slot \/ Tick
    BY <1>1, WalletSteps, ClockMoves
  <2> QED
    BY <1>1, <2>1, InputsAssumption DEF Tick, U64
<1>3. promises' \subseteq Promise
  <2>1. CASE promises' = promises
    BY <1>1, <2>1
  <2>2. ASSUME NEW intent \in Intents, Attest(intent)
        PROVE  promises' \subseteq Promise
    <3>1. [intent |-> intent, slot |-> slot] \in Promise
      BY <1>1 DEF Promise
    <3>2. promises' = promises \cup {[intent |-> intent, slot |-> slot]}
      BY <2>2 DEF Attest
    <3> QED
      BY <1>1, <3>1, <3>2
  <2> QED
    BY <2>1, <2>2, PromisesMove
<1> QED
  BY <1>2, <1>3 DEF Scheduled

THEOREM ScheduledInvariant == SystemSpec => []Scheduled
<1>1. SystemInit => Scheduled
  BY InputsAssumption DEF SystemInit, Init, Scheduled, U64
<1> QED
  BY <1>1, ScheduledStep, PTL DEF SystemSpec

\* Whatever the API and the operator do, the wallet runs as GatewayWallet says:
\* all that is proved of the program alone holds in the system.
THEOREM WalletRuns == SystemSpec => Spec
<1>1. SystemInit => Init
  BY DEF SystemInit
<1>2. Scheduled /\ [SystemNext]_systemVars => [Next]_vars
  BY WalletSteps DEF Scheduled
<1> QED
  BY <1>1, <1>2, ScheduledInvariant, PTL DEF SystemSpec, Spec

\* Every step of the system is a step of the minter, or none of its own.
LEMMA MinterSteps ==
  promises \subseteq Promise /\ [SystemNext]_systemVars
    => [Minter!Next]_(Minter!vars)
<1> SUFFICES ASSUME promises \subseteq Promise, [SystemNext]_systemVars
             PROVE  Minter!Next \/ UNCHANGED Minter!vars
  OBVIOUS
<1>1. CASE UNCHANGED systemVars
  BY <1>1 DEF systemVars, vars, minterVars, Minter!vars
<1>2. CASE WalletStep
  BY <1>2, WalletStepIs DEF minterVars, Minter!vars
<1>3. CASE \E intent \in Intents : Attest(intent)
  BY <1>3 DEF Attest, vars, minterVars, Minter!vars
<1>4. CASE MinterStep
  <2>1. ASSUME NEW p \in promises, NEW a \in EvmKeys, NEW k \in Keys,
               Minter!GatewayMint(a, k, AttestationOf(p))
        PROVE  Minter!Next
    <3>1. <<a, AttestationOf(p)>>
            \in EvmKeys \X {AttestationOf(q) : q \in Promise}
      OBVIOUS
    <3>2. AttestationOf(p) \in Minter!AttestationSets
      BY <3>1 DEF Minter!AttestationSets
    <3>3. Minter!SubmitMint(a, k)
      BY <2>1, <3>2 DEF Minter!SubmitMint
    <3> QED
      BY <3>3 DEF Minter!Next
  <2>2. (\E k \in Keys : Minter!Administer(k)) \/ Minter!ProcessMint
          => Minter!Next
    BY DEF Minter!Next
  <2> QED
    BY <1>4, <2>1, <2>2 DEF MinterStep
<1>5. CASE Clock
  BY <1>5 DEF Clock, Minter!Next
<1> QED
  BY <1>1, <1>2, <1>3, <1>4, <1>5 DEF SystemNext

\* The minter runs as GatewayMinter says, with attesters that sign nothing but
\* what the API promises.
THEOREM MinterRuns == SystemSpec => Minter!Spec
<1>1. SystemInit => Minter!Init
  BY DEF SystemInit
<1>2. Scheduled /\ [SystemNext]_systemVars => [Minter!Next]_(Minter!vars)
  BY MinterSteps DEF Scheduled
<1> QED
  BY <1>1, <1>2, ScheduledInvariant, PTL DEF SystemSpec, Minter!Spec

-----------------------------------------------------------------------------
(* The accounts that promises are made against. *)

\* The delay is one the owner has set, and what is available has been paid in.
AccountsInv ==
  /\ wallet.initialized => wallet.withdrawal_delay \in Delays
  /\ \A t \in Tokens, k \in Addresses :
       ~ deposit[t][k].opened => deposit[t][k].available_amount = 0

\* What a step may do to one account: nothing, or one of these.
PaidInto(d, e) ==
  /\ e.opened
  /\ e.available_amount >= d.available_amount
  /\ e.withdrawing_amount = d.withdrawing_amount
  /\ e.withdrawal_block = d.withdrawal_block

Announced(d, e) ==
  /\ d.opened /\ e.opened
  /\ ClaimOf(e) = ClaimOf(d)
  /\ \E delay \in Delays : e.withdrawal_block = slot + delay

TakenOut(d, e) ==
  /\ d.opened /\ e.opened
  /\ slot >= d.withdrawal_block
  /\ e.available_amount = d.available_amount
  /\ e.withdrawing_amount = 0

BurnedFrom(d, e, t, k) ==
  \E s \in EvmKeys, user \in Users, intent \in Intents, fee \in Fees :
    /\ GatewayBurn(s, user, intent, fee)
    /\ intent.spec.source_token = t
    /\ intent.spec.source_depositor = k
    /\ d.opened /\ e = ReducedBalance(d, Charge(intent.spec, fee))

LEMMA DepositFields ==
  ASSUME NEW d \in GatewayDeposit
  PROVE  /\ d.available_amount \in Nat /\ d.withdrawing_amount \in Nat
         /\ d.withdrawal_block \in Nat
         /\ ClaimOf(d) = d.available_amount + d.withdrawing_amount
BY ConfigAssumption DEF GatewayDeposit, U64, ClaimOf

LEMMA AccountMoves ==
  ASSUME TypeOK, AccountsInv, [Next]_vars,
         NEW t \in Tokens, NEW k \in Addresses
  PROVE  LET d == deposit[t][k]
             e == deposit'[t][k]
         IN  e = d \/ PaidInto(d, e) \/ Announced(d, e) \/ TakenOut(d, e)
               \/ BurnedFrom(d, e, t, k)
<1> DEFINE d == deposit[t][k]
           e == deposit'[t][k]
           Goal == e = d \/ PaidInto(d, e) \/ Announced(d, e) \/ TakenOut(d, e)
                     \/ BurnedFrom(d, e, t, k)
<1>0. /\ deposit \in [Tokens -> [Addresses -> GatewayDeposit]]
      /\ \A u \in Tokens, x \in Addresses :
           /\ deposit[u][x] \in GatewayDeposit
           /\ deposit[u][x].available_amount \in Nat
           /\ deposit[u][x].withdrawing_amount \in Nat
  BY DepositFields DEF TypeOK
<1>1. ASSUME NEW u \in Tokens, NEW x \in Addresses, NEW v,
             deposit' = [deposit EXCEPT ![u][x] = v]
      PROVE  IF u = t /\ x = k THEN e = v ELSE e = d
  BY <1>0, <1>1
<1>2. \A amount \in Amounts : amount \in Nat
  BY InputsAssumption, ConfigAssumption DEF U64
<1>3. ASSUME NEW u \in Tokens, NEW sender \in Keys, NEW x \in Addresses,
             NEW amount \in Amounts, DepositInto(u, sender, x, amount)
      PROVE  Goal
  <2> DEFINE v == Deposited(deposit[u][x], amount)
  <2>1. deposit' = [deposit EXCEPT ![u][x] = v]
    BY <1>3 DEF DepositInto
  <2>2. PaidInto(deposit[u][x], v)
    BY <1>0, <1>2 DEF PaidInto, Deposited, GatewayDeposit
  <2> HIDE DEF v
  <2>3. CASE u = t /\ x = k
    BY <1>1, <2>1, <2>2, <2>3
  <2>4. CASE ~ (u = t /\ x = k)
    BY <1>1, <2>1, <2>4
  <2> QED
    BY <2>3, <2>4
<1>4. ASSUME NEW u \in Tokens, NEW x \in Keys, NEW amount \in Amounts,
             InitiateWithdrawal(u, x, amount)
      PROVE  Goal
  <2> DEFINE v == InitiatedWithdrawal(deposit[u][x], amount,
                                      wallet.withdrawal_delay)
  <2>1. /\ deposit' = [deposit EXCEPT ![u][x] = v] /\ x \in Addresses
        /\ deposit[u][x].opened
        /\ wallet.withdrawal_delay \in Delays
    BY <1>4, SendersAreHolders DEF InitiateWithdrawal, Running, AccountsInv
  <2>2. /\ v.opened = deposit[u][x].opened
        /\ v.available_amount = deposit[u][x].available_amount - amount
        /\ v.withdrawing_amount = deposit[u][x].withdrawing_amount + amount
        /\ v.withdrawal_block = slot + wallet.withdrawal_delay
    BY <1>0, <2>1 DEF InitiatedWithdrawal, GatewayDeposit
  <2> HIDE DEF v
  <2>3. ClaimOf(v) = ClaimOf(deposit[u][x])
    BY <1>0, <1>2, <2>1, <2>2 DEF ClaimOf
  <2>4. Announced(deposit[u][x], v)
    BY <2>1, <2>2, <2>3 DEF Announced
  <2>5. CASE u = t /\ x = k
    BY <1>1, <2>1, <2>4, <2>5
  <2>6. CASE ~ (u = t /\ x = k)
    BY <1>1, <2>1, <2>6
  <2> QED
    BY <2>5, <2>6
<1>5. ASSUME NEW u \in Tokens, NEW x \in Keys, Withdraw(u, x)
      PROVE  Goal
  <2> DEFINE v == CompletedWithdrawal(deposit[u][x])
  <2>1. /\ deposit' = [deposit EXCEPT ![u][x] = v] /\ x \in Addresses
        /\ deposit[u][x].opened
        /\ slot >= deposit[u][x].withdrawal_block
    BY <1>5, SendersAreHolders DEF Withdraw, DelayElapsed
  <2>2. TakenOut(deposit[u][x], v)
    BY <1>0, <2>1 DEF TakenOut, CompletedWithdrawal, GatewayDeposit
  <2> HIDE DEF v
  <2>3. CASE u = t /\ x = k
    BY <1>1, <2>1, <2>2, <2>3
  <2>4. CASE ~ (u = t /\ x = k)
    BY <1>1, <2>1, <2>4
  <2> QED
    BY <2>3, <2>4
<1>6. ASSUME NEW s \in EvmKeys, NEW user \in Users, NEW intent \in Intents,
             NEW fee \in Fees, GatewayBurn(s, user, intent, fee)
      PROVE  Goal
  <2> DEFINE u == intent.spec.source_token
             x == intent.spec.source_depositor
             v == ReducedBalance(deposit[u][x], Charge(intent.spec, fee))
  <2>1. u \in Tokens /\ x \in Addresses
    BY <1>6, BurnFacts
  <2>2. deposit' = [deposit EXCEPT ![u][x] = v] /\ deposit[u][x].opened
    BY <1>0, <1>6, <2>1 DEF GatewayBurn, CanBurn
  <2>3. CASE u = t /\ x = k
    <3>1. e = v
      BY <1>1, <2>1, <2>2, <2>3
    <3>2. BurnedFrom(d, e, t, k)
      BY <1>6, <2>2, <2>3, <3>1 DEF BurnedFrom
    <3> QED
      BY <3>2
  <2>4. CASE ~ (u = t /\ x = k)
    <3> HIDE DEF v
    <3> QED
      BY <1>1, <2>1, <2>2, <2>4
  <2> QED
    BY <2>3, <2>4
<1>7. CASE UNCHANGED deposit
  BY <1>7
<1> QED
  BY <1>3, <1>4, <1>5, <1>6, <1>7, DepositsMove

LEMMA DelaysStep ==
  ASSUME TypeOK, AccountsInv, NEW k \in Keys, Administer(k),
         wallet'.initialized
  PROVE  wallet'.withdrawal_delay \in Delays
<1>1. wallet \in Wallet
  BY DEF TypeOK
<1>2. wallet.initialized => wallet.withdrawal_delay \in Delays
  BY DEF AccountsInv
<1> QED
  BY <1>1, <1>2
  DEF Administer, Initialize, UpdateWithdrawalDelay, AcceptOwnership,
      Pause, Unpause, TransferOwnership, UpdatePauser, UpdateDenylister,
      UpdateTokenController, UpdateFeeRecipient, AddBurnSigner,
      RemoveBurnSigner, AddToken, DenylistAccount, UndenylistAccount,
      SetWallet, SetDenylisted, Wallet, IsOwner

LEMMA AccountsStep == TypeOK /\ AccountsInv /\ [Next]_vars => AccountsInv'
<1> SUFFICES ASSUME TypeOK, AccountsInv, [Next]_vars
             PROVE  AccountsInv'
  OBVIOUS
<1>1. ASSUME wallet'.initialized
      PROVE  wallet'.withdrawal_delay \in Delays
  <2>1. wallet' = wallet => wallet'.withdrawal_delay \in Delays
    BY <1>1 DEF AccountsInv
  <2> QED
    BY <1>1, <2>1, DelaysStep, OnlyAdministration
<1>2. ASSUME NEW t \in Tokens, NEW k \in Addresses, ~ deposit'[t][k].opened
      PROVE  deposit'[t][k].available_amount = 0
  <2> DEFINE d == deposit[t][k]
             e == deposit'[t][k]
  <2>1. d \in GatewayDeposit /\ (~ d.opened => d.available_amount = 0)
    BY DEF TypeOK, AccountsInv
  <2>2. e = d \/ BurnedFrom(d, e, t, k)
    BY <1>2, AccountMoves DEF PaidInto, Announced, TakenOut
  <2>3. BurnedFrom(d, e, t, k) => e.opened
    BY <2>1 DEF BurnedFrom, ReducedBalance, GatewayDeposit
  <2> QED
    BY <1>2, <2>1, <2>2, <2>3
<1> QED
  BY <1>1, <1>2 DEF AccountsInv

LEMMA AccountsInvariant == Spec => []AccountsInv
<1>1. Init => AccountsInv
  BY DEF Init, NoWallet, NoDeposit, AccountsInv
<1> QED
  BY <1>1, AccountsStep, TypeCorrect, PTL DEF Spec

-----------------------------------------------------------------------------
(* What the API has promised stays burnable. *)

\* What theorems about the wallet alone say of its state.
WalletFacts ==
  /\ TypeOK /\ ListsWellFormed /\ LedgerNeverOverflows /\ ChargedOnce
  /\ AccountsInv

\* What gateway_burn asks of a promise's intent and never stops being so.
Backed(p) ==
  LET spec == p.intent.spec IN
  /\ p.slot <= slot
  /\ spec.addressed_here /\ spec.value > 0
  /\ p.intent.max_block_height >= p.slot + BurnWithin
  /\ ValidSignerAuthorization(spec.source_token, spec.source_depositor,
                              spec.source_signer)
  /\ deposit[spec.source_token][spec.source_depositor].opened
  /\ Reservation(p) <= U64Max

\* Each spec is promised once, and what is promised is backed.
PromisesInv ==
  /\ IsFiniteSet(promises)
  /\ \A p, q \in promises : p.intent.spec = q.intent.spec => p = q
  /\ \A p \in promises : Backed(p)

LEMMA BackedStays ==
  ASSUME WalletFacts, Scheduled, [Next]_vars, NEW p \in promises, Backed(p)
  PROVE  Backed(p)'
<1> DEFINE spec == p.intent.spec
           t == spec.source_token
           k == spec.source_depositor
<1>1. /\ t \in Tokens /\ k \in Addresses /\ spec.source_signer \in Addresses
      /\ p.slot \in Nat /\ slot \in Nat
  BY PromiseFacts DEF Scheduled
<1>2. TypeOK
  BY DEF WalletFacts
<1>3. ValidSignerAuthorization(t, k, spec.source_signer)'
  BY <1>1, <1>2, AuthorizationStep DEF Backed
<1>4. deposit'[t][k].opened
  BY <1>1, <1>2, AccountsStayOpen DEF Backed
<1>5. p.slot <= slot'
  BY <1>1, ClockMoves DEF Tick, Backed
<1> QED
  BY <1>3, <1>4, <1>5 DEF Backed, Reservation

\* The promises that the API counts when it attests.
Counted == {q \in promises : ~ IsBurned(q) /\ ~ Released(q)}

\* What the API has checked of an intent that it attests.
LEMMA AttestFacts ==
  ASSUME WalletFacts, Scheduled, IsFiniteSet(promises),
         NEW intent \in Intents, Attest(intent),
         NEW p, p = [intent |-> intent, slot |-> slot],
         NEW t, t = intent.spec.source_token,
         NEW k, k = intent.spec.source_depositor
  PROVE  /\ p \in Promise /\ promises' = promises \cup {p}
         /\ AccountOf(p) = <<t, k>>
         /\ \A q \in promises : q.intent.spec # intent.spec
         /\ UNCHANGED <<vars, minterVars>>
         /\ Reserved(Counted, t, k) + Reservation(p)
              <= deposit[t][k].available_amount
         /\ Backed(p)
<1>1. /\ p \in Promise /\ p.intent = intent /\ p.slot = slot
      /\ promises' = promises \cup {p} /\ AccountOf(p) = <<t, k>>
      /\ \A q \in promises : q.intent.spec # intent.spec
      /\ UNCHANGED <<vars, minterVars>>
  BY DEF Attest, Promise, Scheduled, AccountOf
<1>2. /\ Reserved(Counted, t, k) + Reservation(p)
           <= deposit[t][k].available_amount
      /\ intent.spec.addressed_here /\ intent.spec.value > 0
      /\ intent.max_block_height >= slot + BurnWithin
      /\ ValidSignerAuthorization(t, k, intent.spec.source_signer)
  BY DEF Attest, Counted
<1>3. /\ t \in Tokens /\ k \in Addresses /\ slot \in Nat
      /\ Reservation(p) = intent.spec.value + intent.max_fee
      /\ intent.spec.value \in Nat /\ intent.max_fee \in Nat
      /\ Reservation(p) \in Nat
  BY <1>1, PromiseFacts, ConfigAssumption DEF U64
<1>4. Reserved(Counted, t, k) \in Nat
  <2>1. Counted \in SUBSET promises /\ promises \in SUBSET Promise
    BY DEF Counted, Scheduled
  <2> QED
    BY <2>1, ReservedGrows
<1>5. deposit[t][k] \in GatewayDeposit
  BY <1>3 DEF WalletFacts, TypeOK
<1>6. /\ deposit[t][k].available_amount \in Nat
      /\ deposit[t][k].available_amount <= U64Max
  BY <1>5, DepositFields, ConfigAssumption DEF GatewayDeposit, U64
<1>7. Reservation(p) <= U64Max /\ deposit[t][k].available_amount # 0
  <2>1. U64Max \in Nat
    BY ConfigAssumption
  <2> QED
    BY <1>2, <1>3, <1>4, <1>6, <2>1
<1>8. deposit[t][k].opened
  BY <1>3, <1>7 DEF WalletFacts, AccountsInv
<1>9. p.slot <= slot
  BY <1>1, <1>3
<1> QED
  BY <1>1, <1>2, <1>7, <1>8, <1>9 DEF Backed

LEMMA PromisesStep ==
  ASSUME WalletFacts, Scheduled, PromisesInv, [SystemNext]_systemVars
  PROVE  PromisesInv'
<1>1. [Next]_vars
  BY WalletSteps DEF Scheduled
<1>2. \A p \in promises : Backed(p)'
  BY <1>1, BackedStays DEF PromisesInv
<1>3. CASE promises' = promises
  BY <1>2, <1>3 DEF PromisesInv
<1>4. ASSUME NEW intent \in Intents, Attest(intent)
      PROVE  PromisesInv'
  <2>0. PICK p : p = [intent |-> intent, slot |-> slot]
    OBVIOUS
  <2>1. /\ promises' = promises \cup {p} /\ UNCHANGED vars
        /\ \A q \in promises : q.intent.spec # intent.spec
        /\ Backed(p) /\ p.intent = intent
    BY <1>4, <2>0, AttestFacts DEF PromisesInv
  <2>2. Backed(p)'
    BY <2>1 DEF Backed, vars, Reservation, ValidSignerAuthorization,
                WasEverAuthorizedForBalance
  <2>3. IsFiniteSet(promises')
    BY <2>1, FS_AddElement DEF PromisesInv
  <2>4. \A q, r \in promises' : q.intent.spec = r.intent.spec => q = r
    BY <2>1 DEF PromisesInv
  <2> QED
    BY <1>2, <2>1, <2>2, <2>3, <2>4 DEF PromisesInv
<1> QED
  BY <1>3, <1>4, PromisesMove

-----------------------------------------------------------------------------
(* What the minter has paid. *)

\* The first payment for a spec is of the value promised, and what has been
\* burned has been paid.
PaidAsPromised(m, b) ==
  /\ m \in [Specs -> Seq(Minter!AttestationUsed)]
  /\ \A spec \in Specs :
       /\ m[spec] # <<>> => m[spec][1].value = spec.value
       /\ b[spec] # <<>> => m[spec] # <<>>

\* A running mint is of a promise that has not run out, and so far has paid
\* for nothing else.
Mints(p) ==
  /\ slot <= p.slot + Lifetime
  /\ tx = [next |-> tx.next, attestation |-> AttestationOf(p),
           before |-> tx.before]
  /\ tx.next \in Nat \ {0}
  /\ \A spec \in Specs \ {p.intent.spec} : minted[spec] = tx.before.minted[spec]

MintsInv ==
  /\ PaidAsPromised(minted, burned)
  /\ tx # Minter!NoTransaction =>
       /\ PaidAsPromised(tx.before.minted, burned)
       /\ \E p \in promises : Mints(p)

\* What a step may do to the payments and the running mint.
Starts(p) ==
  /\ tx = Minter!NoTransaction
  /\ slot <= p.slot + Lifetime
  /\ tx' = [next |-> 1, attestation |-> AttestationOf(p),
            before |-> [used |-> minter_used, balance |-> minter_balance,
                        minted |-> minted]]
  /\ minted' = minted

Pays(p) ==
  /\ tx # Minter!NoTransaction /\ Mints(p)
  /\ tx' = [tx EXCEPT !.next = @ + 1]
  /\ \E e \in Minter!AttestationUsed :
       /\ e.value = p.intent.spec.value
       /\ minted' = [minted EXCEPT ![p.intent.spec] = Append(@, e)]

Ends ==
  /\ tx # Minter!NoTransaction /\ tx' = Minter!NoTransaction
  /\ minted' = minted \/ minted' = tx.before.minted

\* A set attests one transfer: the promise's.
LEMMA AttestationFacts ==
  ASSUME NEW p \in Promise
  PROVE  LET e == AttestationOf(p).elements[1] IN
         /\ Len(AttestationOf(p).elements) = 1
         /\ AttestationOf(p).max_block_height = p.slot + Lifetime
         /\ e.transfer_spec_hash = p.intent.spec
         /\ [token |-> e.destination_token,
             recipient |-> e.destination_recipient, value |-> e.value]
              \in Minter!AttestationUsed
         /\ e.value = p.intent.spec.value
<1> DEFINE spec == p.intent.spec
           recipient == [mint |-> spec.source_token,
                         owner |-> spec.source_depositor]
           e == AttestationOf(p).elements[1]
<1>1. /\ spec.source_token \in Tokens /\ spec.value \in 0 .. U64Max
      /\ spec.source_depositor \in Keys \cup {DefaultKey} \cup {Custody}
  BY PromiseFacts DEF U64, Addresses
<1>2. /\ Len(AttestationOf(p).elements) = 1
      /\ AttestationOf(p).max_block_height = p.slot + Lifetime
      /\ e = [destination_token |-> spec.source_token,
              destination_recipient |-> recipient,
              value |-> spec.value, transfer_spec_hash |-> spec]
  BY DEF AttestationOf
<1>3. recipient \in Minter!TokenAccount
  BY <1>1 DEF Minter!TokenAccount, Minter!Holders, Minter!Addresses
<1> HIDE DEF recipient, e, spec
<1>4. [token |-> spec.source_token, recipient |-> recipient,
       value |-> spec.value] \in Minter!AttestationUsed
  BY <1>1, <1>3 DEF Minter!AttestationUsed, Minter!U64
<1> QED
  BY <1>2, <1>4 DEF e, spec

LEMMA MintsMove ==
  ASSUME Scheduled, MintsInv, [SystemNext]_systemVars
  PROVE  \/ UNCHANGED <<tx, minted>>
         \/ /\ UNCHANGED <<burned, slot, promises>>
            /\ Ends \/ \E p \in promises : Starts(p) \/ Pays(p)
<1>1. CASE UNCHANGED minterVars
  BY <1>1 DEF minterVars
<1>2. CASE MinterStep
  <2>0. UNCHANGED <<burned, slot, promises>>
    BY <1>2 DEF MinterStep, vars
  <2>1. ASSUME NEW k \in Keys, Minter!Administer(k)
        PROVE  UNCHANGED <<tx, minted>>
    BY <2>1
    DEF Minter!Administer, Minter!Initialize, Minter!AcceptOwnership,
        Minter!Pause, Minter!Unpause, Minter!TransferOwnership,
        Minter!UpdatePauser, Minter!UpdateTokenController,
        Minter!AddAttester, Minter!RemoveAttester, Minter!AddToken,
        Minter!BurnTokenCustody, Minter!SetMinter
  <2>2. ASSUME NEW p \in promises, NEW a \in EvmKeys, NEW k \in Keys,
               Minter!GatewayMint(a, k, AttestationOf(p))
        PROVE  Starts(p)
    <3>1. p \in Promise /\ p.slot + Lifetime >= slot
      BY <2>2, AttestationFacts
      DEF Scheduled, Minter!GatewayMint, Minter!Start, Minter!NotExpired
    <3>2. p.slot + Lifetime \in Nat /\ slot \in Nat
      BY <3>1, PromiseFacts, OperatorAssumption DEF Scheduled
    <3> QED
      BY <2>2, <3>1, <3>2 DEF Minter!GatewayMint, Minter!Start, Starts
  <2>3. ASSUME NEW custody \in Minter!TokenAccount,
               NEW recipient \in Minter!TokenAccount,
               Minter!MintElement(custody, recipient)
        PROVE  \E p \in promises : Pays(p)
    <3>1. /\ tx # Minter!NoTransaction
          /\ tx.next <= Len(tx.attestation.elements)
          /\ tx' = [tx EXCEPT !.next = @ + 1]
      BY <2>3 DEF Minter!MintElement, Minter!CanMintElement
    <3>2. PICK p \in promises : Mints(p)
      BY <3>1 DEF MintsInv
    <3>3. p \in Promise /\ tx.attestation = AttestationOf(p)
      BY <3>2 DEF Scheduled, Mints
    <3>4. tx.next = 1
      <4>1. Len(tx.attestation.elements) = 1
        BY <3>3, AttestationFacts
      <4> QED
        BY <3>1, <3>2, <4>1 DEF Mints
    <3> DEFINE e == AttestationOf(p).elements[1]
               event == [token |-> e.destination_token,
                         recipient |-> e.destination_recipient,
                         value |-> e.value]
    <3>5. minted' = [minted EXCEPT ![e.transfer_spec_hash] =
                       Append(@, event)]
      BY <2>3, <3>3, <3>4 DEF Minter!MintElement
    <3>6. /\ e.transfer_spec_hash = p.intent.spec
          /\ event \in Minter!AttestationUsed
          /\ event.value = p.intent.spec.value
      BY <3>3, AttestationFacts
    <3> HIDE DEF e, event
    <3>7. minted' = [minted EXCEPT ![p.intent.spec] = Append(@, event)]
      BY <3>5, <3>6
    <3> QED
      BY <3>1, <3>2, <3>6, <3>7 DEF Pays
  <2>4. Minter!Commit \/ Minter!Abort => Ends
    BY DEF Minter!Commit, Minter!Abort, Ends
  <2> QED
    BY <1>2, <2>0, <2>1, <2>2, <2>3, <2>4 DEF MinterStep, Minter!ProcessMint
<1>3. CASE Clock
  BY <1>3 DEF Clock, Minter!Tick
<1>4. WalletStep \/ (\E intent \in Intents : Attest(intent))
        => UNCHANGED minterVars
  BY DEF WalletStep, Attest
<1> QED
  BY <1>1, <1>2, <1>3, <1>4 DEF SystemNext, systemVars

\* Only the operator's burns add to the burns, and no mint runs then.
LEMMA BurnsMove ==
  ASSUME Scheduled, [SystemNext]_systemVars
  PROVE  \/ burned' = burned
         \/ \E p \in promises :
              /\ OperatorBurn(p) /\ tx = Minter!NoTransaction
              /\ UNCHANGED <<minterVars, promises, slot>>
<1>1. CASE UNCHANGED vars
  BY <1>1 DEF vars
<1>2. CASE WalletStep /\ tx = Minter!NoTransaction
  <2>1. ASSUME NEW k \in Keys, Administer(k)
        PROVE  burned' = burned
    BY <2>1
    DEF Administer, Initialize, UpdateWithdrawalDelay, AcceptOwnership,
        Pause, Unpause, TransferOwnership, UpdatePauser, UpdateDenylister,
        UpdateTokenController, UpdateFeeRecipient, AddBurnSigner,
        RemoveBurnSigner, AddToken, DenylistAccount, UndenylistAccount,
        SetWallet, SetDenylisted
  <2>2. ASSUME NEW t \in Tokens, NEW k \in Keys, UseAccount(t, k)
        PROVE  burned' = burned
    BY <2>2
    DEF UseAccount, Deposit, DepositFor, DepositInto, InitiateWithdrawal,
        Withdraw, Donate, AddDelegate, RemoveDelegate, SetDelegate
  <2>3. UNCHANGED <<minterVars, promises, slot>>
    BY <1>2, WalletStepIs DEF Scheduled
  <2> QED
    BY <1>2, <2>1, <2>2, <2>3 DEF WalletStep
<1>3. (\E intent \in Intents : Attest(intent)) \/ MinterStep => UNCHANGED vars
  BY DEF Attest, MinterStep
<1>4. CASE Clock
  BY <1>4 DEF Clock, Tick
<1> QED
  BY <1>1, <1>2, <1>3, <1>4 DEF SystemNext, systemVars

\* A burn of the operator adds an event to a paid and unburned spec.
LEMMA OperatorBurnAdds ==
  ASSUME WalletFacts, Scheduled, NEW p \in promises, OperatorBurn(p)
  PROVE  /\ p.intent.spec \in Specs
         /\ IsMinted(p) /\ burned[p.intent.spec] = <<>>
         /\ \E event \in GatewayBurned :
              burned' = [burned EXCEPT ![p.intent.spec] = Append(@, event)]
<1>1. PICK s \in EvmKeys, k \in Users, fee \in Fees :
        p.intent \in Intents /\ GatewayBurn(s, k, p.intent, fee)
  BY OperatorSubmits DEF Scheduled
<1>2. \E event \in GatewayBurned :
        burned' = [burned EXCEPT ![p.intent.spec] = Append(@, event)]
  BY <1>1, BurnCharges DEF WalletFacts
<1>3. p.intent.spec \in Specs
  BY <1>1 DEF Specs
<1> QED
  BY <1>2, <1>3 DEF OperatorBurn, IsBurned

LEMMA PaidStaysPaid ==
  ASSUME NEW m, NEW b, PaidAsPromised(m, b), NEW p \in Promise,
         NEW e \in Minter!AttestationUsed, e.value = p.intent.spec.value,
         NEW n, n = [m EXCEPT ![p.intent.spec] = Append(@, e)]
  PROVE  PaidAsPromised(n, b)
<1> DEFINE spec == p.intent.spec
<1>1. m \in [Specs -> Seq(Minter!AttestationUsed)] /\ spec \in Specs
  BY PromiseFacts DEF PaidAsPromised
<1>2. /\ n[spec] = Append(m[spec], e) /\ m[spec] \in Seq(Minter!AttestationUsed)
      /\ n \in [Specs -> Seq(Minter!AttestationUsed)]
      /\ \A other \in Specs : other # spec => n[other] = m[other]
  BY <1>1
<1>3. n[spec] # <<>>
  BY <1>2
<1>4. n[spec][1].value = spec.value
  <2>1. CASE m[spec] = <<>>
    <3>1. n[spec][1] = e
      BY <1>2, <2>1
    <3> QED
      BY <3>1
  <2>2. CASE m[spec] # <<>>
    <3>1. n[spec][1] = m[spec][1]
      BY <1>2, <2>2
    <3> QED
      BY <1>1, <2>2, <3>1 DEF PaidAsPromised
  <2> QED
    BY <2>1, <2>2
<1> HIDE DEF spec
<1> QED
  BY <1>2, <1>3, <1>4 DEF PaidAsPromised

LEMMA MintsStep ==
  ASSUME WalletFacts, Scheduled, MintsInv, [SystemNext]_systemVars
  PROVE  MintsInv'
<1>1. ASSUME burned' = burned, UNCHANGED <<tx, minted>>, slot' = slot,
             promises \subseteq promises'
      PROVE  MintsInv'
  BY <1>1 DEF MintsInv, Mints
<1>2. ASSUME UNCHANGED burned, UNCHANGED <<tx, minted>>,
             tx = Minter!NoTransaction
      PROVE  MintsInv'
  BY <1>2 DEF MintsInv
<1>3. ASSUME NEW p \in promises, OperatorBurn(p), tx = Minter!NoTransaction,
             UNCHANGED minterVars
      PROVE  MintsInv'
  <2>1. UNCHANGED <<tx, minted>>
    BY <1>3 DEF minterVars
  <2>2. /\ p.intent.spec \in Specs /\ IsMinted(p)
        /\ \E event \in GatewayBurned :
             burned' = [burned EXCEPT ![p.intent.spec] = Append(@, event)]
    BY <1>3, OperatorBurnAdds
  <2>3. burned \in [Specs -> Seq(GatewayBurned)]
    BY DEF WalletFacts, TypeOK
  <2>4. \A spec \in Specs : spec # p.intent.spec => burned'[spec] = burned[spec]
    BY <2>2, <2>3
  <2>5. PaidAsPromised(minted, burned')
    BY <2>2, <2>4 DEF MintsInv, PaidAsPromised, IsMinted
  <2> QED
    BY <1>3, <2>1, <2>5 DEF MintsInv
<1>4. ASSUME UNCHANGED <<burned, slot, promises>>, Ends
      PROVE  MintsInv'
  BY <1>4 DEF MintsInv, Ends
<1>5. ASSUME UNCHANGED <<burned, slot, promises>>,
             NEW p \in promises, Starts(p)
      PROVE  MintsInv'
  <2>1. /\ tx'.before.minted = minted /\ minted' = minted /\ tx'.next = 1
        /\ tx' = [next |-> tx'.next, attestation |-> AttestationOf(p),
                  before |-> tx'.before]
    BY <1>5 DEF Starts
  <2>2. Mints(p)'
    BY <1>5, <2>1 DEF Mints, Starts, AttestationOf
  <2> QED
    BY <1>5, <2>1, <2>2 DEF MintsInv
<1>6. ASSUME UNCHANGED <<burned, slot, promises>>,
             NEW p \in promises, Pays(p)
      PROVE  MintsInv'
  <2>1. p \in Promise /\ p.intent.spec \in Specs
    BY PromiseFacts DEF Scheduled
  <2>2. /\ Mints(p) /\ tx # Minter!NoTransaction
        /\ tx' = [tx EXCEPT !.next = @ + 1]
    BY <1>6 DEF Pays
  <2>3. PICK e \in Minter!AttestationUsed :
          /\ e.value = p.intent.spec.value
          /\ minted' = [minted EXCEPT ![p.intent.spec] = Append(@, e)]
    BY <1>6 DEF Pays
  <2>4. PaidAsPromised(minted', burned)
    BY <2>1, <2>3, PaidStaysPaid DEF MintsInv
  <2>5. /\ tx' = [next |-> tx.next + 1, attestation |-> AttestationOf(p),
                  before |-> tx.before]
        /\ tx.next \in Nat \ {0}
    BY <2>2 DEF Mints
  <2>6. minted \in [Specs -> Seq(Minter!AttestationUsed)]
    BY DEF MintsInv, PaidAsPromised
  <2>7. \A spec \in Specs \ {p.intent.spec} :
          minted'[spec] = tx'.before.minted[spec]
    BY <2>2, <2>3, <2>5, <2>6 DEF Mints
  <2>8. Mints(p)'
    <3>1. /\ tx' = [next |-> tx'.next, attestation |-> AttestationOf(p),
                    before |-> tx'.before]
          /\ tx'.next \in Nat \ {0}
      BY <2>5
    <3>2. slot' <= p.slot + Lifetime
      BY <1>6, <2>2 DEF Mints
    <3> QED
      BY <2>7, <3>1, <3>2 DEF Mints, AttestationOf
  <2>9. PaidAsPromised(tx'.before.minted, burned)
    BY <2>2, <2>5 DEF MintsInv
  <2> QED
    BY <1>6, <2>4, <2>8, <2>9 DEF MintsInv
<1>7. ASSUME UNCHANGED <<tx, minted>>, burned' = burned
      PROVE  MintsInv'
  <2>1. CASE tx = Minter!NoTransaction
    BY <1>2, <1>7, <2>1
  <2>2. CASE tx # Minter!NoTransaction
    <3>1. slot' = slot
      BY <2>2 DEF SystemNext, systemVars, vars, MinterStep, Clock, Minter!Tick
    <3>2. promises \subseteq promises'
      BY <2>2 DEF SystemNext, systemVars, MinterStep, Clock
    <3> QED
      BY <1>1, <1>7, <3>1, <3>2
  <2> QED
    BY <2>1, <2>2
<1> QED
  BY <1>3, <1>4, <1>5, <1>6, <1>7, MintsMove, BurnsMove

-----------------------------------------------------------------------------
(* What is open is covered. *)

\* An account covers a set of promises if its claim does, and, as soon as its
\* withdrawal may be taken before one of them is due, what is available does.
\* The second part is what makes the first one hold after a withdrawal.
Covers(d, open, t, k) ==
  /\ Reserved(open, t, k) <= ClaimOf(d)
  /\ (\E p \in open : /\ AccountOf(p) = <<t, k>>
                      /\ p.slot + BurnWithin >= d.withdrawal_block)
       => Reserved(open, t, k) <= d.available_amount

CoverageInv ==
  \A t \in Tokens, k \in Addresses : Covers(deposit[t][k], Open, t, k)

LEMMA CoversFewer ==
  ASSUME NEW d \in GatewayDeposit, NEW S \in SUBSET Promise, IsFiniteSet(S),
         NEW R \in SUBSET S, NEW t, NEW k, Covers(d, S, t, k)
  PROVE  Covers(d, R, t, k)
<1>1. /\ d.available_amount \in Nat /\ ClaimOf(d) \in Nat
      /\ Reserved(R, t, k) \in Nat /\ Reserved(S, t, k) \in Nat
      /\ Reserved(R, t, k) <= Reserved(S, t, k)
  BY DepositFields, ClaimsAreNatural, ReservedGrows
<1> QED
  BY <1>1 DEF Covers

\* Deposits, initiations and withdrawals leave due promises covered: a new
\* withdrawal cannot be taken before they have been burned, and an old one
\* leaves what is available.
LEMMA CoversMoved ==
  ASSUME NEW d \in GatewayDeposit, NEW e \in GatewayDeposit,
         NEW S \in SUBSET Promise, IsFiniteSet(S), slot \in Nat,
         \A p \in S : p.slot <= slot /\ slot <= p.slot + BurnWithin,
         NEW t, NEW k, Covers(d, S, t, k),
         PaidInto(d, e) \/ Announced(d, e) \/ TakenOut(d, e)
  PROVE  Covers(e, S, t, k)
<1>0. Reserved(S, t, k) \in Nat
  BY ReservedGrows
<1>1. /\ d.available_amount \in Nat /\ d.withdrawing_amount \in Nat
      /\ d.withdrawal_block \in Nat
      /\ ClaimOf(d) = d.available_amount + d.withdrawing_amount
  BY DepositFields
<1>2. /\ e.available_amount \in Nat /\ e.withdrawing_amount \in Nat
      /\ e.withdrawal_block \in Nat
      /\ ClaimOf(e) = e.available_amount + e.withdrawing_amount
  BY DepositFields
<1>3. \A p \in S : p.slot \in Nat
  BY PromiseFacts
<1>4. BurnWithin \in Nat
  BY OperatorAssumption
<1>5. CASE PaidInto(d, e)
  BY <1>0, <1>1, <1>2, <1>5 DEF PaidInto, Covers
<1>6. CASE Announced(d, e)
  <2>1. PICK delay \in Delays : e.withdrawal_block = slot + delay
    BY <1>6 DEF Announced
  <2>2. BurnWithin < delay /\ delay \in Nat
    BY OperatorAssumption, InputsAssumption, ConfigAssumption DEF U64
  <2>3. \A p \in S : ~ (p.slot + BurnWithin >= e.withdrawal_block)
    BY <1>3, <1>4, <2>1, <2>2
  <2> QED
    BY <1>6, <2>3 DEF Announced, Covers
<1>7. CASE TakenOut(d, e)
  <2>1. CASE \E p \in S : AccountOf(p) = <<t, k>>
    <3>1. PICK p \in S : AccountOf(p) = <<t, k>>
      BY <2>1
    <3>2. p.slot + BurnWithin >= d.withdrawal_block
      BY <1>1, <1>3, <1>4, <1>7, <3>1 DEF TakenOut
    <3>3. Reserved(S, t, k) <= d.available_amount
      BY <3>1, <3>2 DEF Covers
    <3>4. Reserved(S, t, k) <= e.available_amount
      BY <1>7, <3>3 DEF TakenOut
    <3> QED
      BY <1>0, <1>2, <3>4 DEF Covers
  <2>2. CASE ~ \E p \in S : AccountOf(p) = <<t, k>>
    <3>1. Reserved(S, t, k) = 0
      BY <2>2, NothingReserved
    <3> QED
      BY <1>2, <3>1 DEF Covers
  <2> QED
    BY <2>1, <2>2
<1> QED
  BY <1>5, <1>6, <1>7

\* A burn of a promise that takes no more than was reserved for it leaves the
\* other promises covered, and takes all that it asks for.
LEMMA CoversBurned ==
  ASSUME NEW d \in GatewayDeposit, NEW S \in SUBSET Promise, IsFiniteSet(S),
         NEW p \in S, NEW t, NEW k, AccountOf(p) = <<t, k>>,
         Covers(d, S, t, k), NEW charge \in Nat, charge <= Reservation(p)
  PROVE  /\ FromAvailable(d, charge) + FromWithdrawing(d, charge) = charge
         /\ Covers(ReducedBalance(d, charge), S \ {p}, t, k)
<1> DEFINE a == FromAvailable(d, charge)
           w == FromWithdrawing(d, charge)
           e == ReducedBalance(d, charge)
           R == S \ {p}
<1>1. /\ d.available_amount \in Nat /\ d.withdrawing_amount \in Nat
      /\ ClaimOf(d) = d.available_amount + d.withdrawing_amount
  BY DepositFields
<1>2. /\ a \in Nat /\ w \in Nat /\ a + w <= charge
      /\ a + w = charge \/ a + w = ClaimOf(d)
      /\ ClaimOf(e) = ClaimOf(d) - (a + w)
      /\ e.available_amount = d.available_amount - a
  BY DeductionFacts
<1>3. e.withdrawal_block = d.withdrawal_block
  BY DEF ReducedBalance, GatewayDeposit
<1>4. charge <= d.available_amount => a = charge
  BY <1>1 DEF FromAvailable, Lesser
<1>5. /\ Reserved(S, t, k) = Reserved(R, t, k) + Reservation(p)
      /\ Reserved(R, t, k) \in Nat /\ Reservation(p) \in Nat
  <2>1. Reserved(S, t, k) = Reserved(R, t, k) + Reservation(p)
    BY ReservedAdds
  <2>2. Reserved(R, t, k) \in Nat
    BY ReservedGrows
  <2>3. Reservation(p) \in Nat
    BY PromiseFacts
  <2> QED
    BY <2>1, <2>2, <2>3
<1> HIDE DEF a, w, e, R
<1>6. Reserved(S, t, k) <= ClaimOf(d)
  BY DEF Covers
<1>7. a + w = charge
  BY <1>1, <1>2, <1>5, <1>6
<1>8. Reserved(R, t, k) <= ClaimOf(e)
  BY <1>1, <1>2, <1>5, <1>6, <1>7
<1>9. ASSUME NEW q \in R, AccountOf(q) = <<t, k>>,
             q.slot + BurnWithin >= e.withdrawal_block
      PROVE  Reserved(R, t, k) <= e.available_amount
  <2>1. q \in S
    BY DEF R
  <2>2. Reserved(S, t, k) <= d.available_amount
    BY <1>3, <1>9, <2>1 DEF Covers
  <2> QED
    BY <1>1, <1>2, <1>4, <1>5, <2>2
<1>10. Covers(e, R, t, k)
  BY <1>8, <1>9 DEF Covers
<1> QED
  BY <1>7, <1>10 DEF a, w, e, R

\* A new promise that fits into what is available is covered with the others.
LEMMA CoversAttested ==
  ASSUME NEW d \in GatewayDeposit, NEW S \in SUBSET Promise, IsFiniteSet(S),
         NEW p \in S, NEW t, NEW k, Covers(d, S \ {p}, t, k),
         AccountOf(p) = <<t, k>> =>
           Reserved(S \ {p}, t, k) + Reservation(p) <= d.available_amount
  PROVE  Covers(d, S, t, k)
<1>1. /\ d.available_amount \in Nat /\ d.withdrawing_amount \in Nat
      /\ ClaimOf(d) = d.available_amount + d.withdrawing_amount
  BY DepositFields
<1>2. Reserved(S, t, k) = Reserved(S \ {p}, t, k)
        + (IF AccountOf(p) = <<t, k>> THEN Reservation(p) ELSE 0)
  BY ReservedAdds
<1>3. Reserved(S, t, k) \in Nat /\ Reserved(S \ {p}, t, k) \in Nat
  BY ReservedGrows
<1>4. CASE AccountOf(p) = <<t, k>>
  <2>1. Reserved(S, t, k) <= d.available_amount
    BY <1>2, <1>4
  <2> QED
    BY <1>1, <1>3, <2>1 DEF Covers
<1>5. CASE AccountOf(p) # <<t, k>>
  <2>1. Reserved(S, t, k) = Reserved(S \ {p}, t, k)
    BY <1>2, <1>3, <1>5
  <2> QED
    BY <1>5, <2>1 DEF Covers
<1> QED
  BY <1>4, <1>5

\* What the proofs below assume of a state.
SystemInv ==
  /\ Scheduled /\ PromisesInv /\ MintsInv /\ CoverageInv

\* A promise that is not open now does not become open again: what it pays has
\* been started in time.
LEMMA OpenShrinks ==
  ASSUME WalletFacts, Scheduled, PromisesInv, MintsInv,
         [SystemNext]_systemVars, NEW p \in promises, p \in Open'
  PROVE  p \in Open
<1> DEFINE spec == p.intent.spec
<1>1. p \in Promise /\ spec \in Specs /\ p.slot \in Nat
  BY PromiseFacts DEF Scheduled
<1>2. slot \in Nat /\ (slot' = slot \/ slot' = slot + 1)
  <2>1. [Next]_vars
    BY WalletSteps DEF Scheduled
  <2> QED
    BY <2>1, ClockMoves DEF Tick, Scheduled
<1>3. /\ burned'[spec] = <<>>
      /\ slot' <= p.slot + Lifetime \/ minted'[spec] # <<>>
      /\ slot' <= p.slot + BurnWithin
  <2>1. p.slot + Lifetime \in Nat /\ slot' \in Nat
    BY <1>1, <1>2, OperatorAssumption
  <2>2. ~ IsBurned(p)' /\ ~ Released(p)' /\ Due(p)'
    BY DEF Open
  <2> QED
    BY <2>1, <2>2 DEF IsBurned, Released, Due, IsMinted
<1>4. burned[spec] = <<>>
  <2>1. ASSUME NEW q \in promises, OperatorBurn(q)
        PROVE  burned[spec] = <<>>
    <3>1. /\ q.intent.spec \in Specs /\ burned[q.intent.spec] = <<>>
          /\ \E event \in GatewayBurned :
               burned' = [burned EXCEPT ![q.intent.spec] = Append(@, event)]
      BY <2>1, OperatorBurnAdds
    <3>2. burned \in [Specs -> Seq(GatewayBurned)]
      BY DEF WalletFacts, TypeOK
    <3>3. spec # q.intent.spec => burned'[spec] = burned[spec]
      BY <1>1, <3>1, <3>2
    <3> QED
      BY <1>3, <3>1, <3>3
  <2> QED
    BY <1>3, <2>1, BurnsMove
<1>5. slot <= p.slot + Lifetime \/ minted[spec] # <<>>
  <2>1. CASE slot' <= p.slot + Lifetime
    BY <1>1, <1>2, <2>1, OperatorAssumption
  <2>2. ASSUME NEW q \in promises, Mints(q), minted'[spec] # minted[spec],
               \/ minted' = tx.before.minted
               \/ \A other \in Specs \ {q.intent.spec} :
                    minted'[other] = minted[other]
        PROVE  slot <= p.slot + Lifetime
    <3>1. spec = q.intent.spec
      BY <1>1, <2>2 DEF Mints
    <3>2. p = q
      BY <3>1 DEF PromisesInv
    <3> QED
      BY <2>2, <3>2 DEF Mints
  <2>3. ASSUME NEW q \in promises, Pays(q)
        PROVE  /\ Mints(q)
               /\ \A other \in Specs \ {q.intent.spec} :
                    minted'[other] = minted[other]
    <3>1. minted \in [Specs -> Seq(Minter!AttestationUsed)]
      BY DEF MintsInv, PaidAsPromised
    <3> QED
      BY <2>3, <3>1 DEF Pays
  <2>4. ASSUME minted'[spec] # minted[spec]
        PROVE  slot <= p.slot + Lifetime
    <3>1. CASE Ends
      <4>1. minted' = tx.before.minted /\ \E q \in promises : Mints(q)
        BY <2>4, <3>1 DEF Ends, MintsInv
      <4> QED
        BY <2>2, <2>4, <4>1
    <3>2. ASSUME NEW q \in promises, Pays(q)
          PROVE  slot <= p.slot + Lifetime
      BY <2>2, <2>3, <2>4, <3>2
    <3>3. \A q \in promises : ~ Starts(q)
      BY <2>4 DEF Starts
    <3> QED
      BY <2>4, <3>1, <3>2, <3>3, MintsMove
  <2> QED
    BY <1>3, <2>1, <2>4
<1>6. slot <= p.slot + BurnWithin
  BY <1>1, <1>2, <1>3, OperatorAssumption
<1>7. p.slot + Lifetime \in Nat
  BY <1>1, OperatorAssumption
<1>8. ~ IsBurned(p) /\ ~ Released(p) /\ Due(p)
  BY <1>2, <1>4, <1>5, <1>6, <1>7 DEF IsBurned, Released, Due, IsMinted
<1> QED
  BY <1>8 DEF Open

\* A burn of the operator, in a covered state: it takes the value and the fee
\* from the promise's account, and the others stay as they are.
LEMMA OperatorBurnTakes ==
  ASSUME WalletFacts, SystemInv, NEW p \in promises, OperatorBurn(p)
  PROVE  LET t == p.intent.spec.source_token
             k == p.intent.spec.source_depositor
         IN  /\ p \in Open
             /\ \E charge \in Nat :
                  /\ charge <= Reservation(p)
                  /\ deposit' = [deposit EXCEPT ![t][k] =
                                   ReducedBalance(@, charge)]
             /\ burned'[p.intent.spec] # <<>>
             /\ burned'[p.intent.spec][1].value = p.intent.spec.value
             /\ \A spec \in Specs \ {p.intent.spec} :
                  burned'[spec] = burned[spec]
<1> DEFINE spec == p.intent.spec
           t == spec.source_token
           k == spec.source_depositor
           d == deposit[t][k]
<1>1. PICK s \in EvmKeys, user \in Users, fee \in Fees :
        p.intent \in Intents /\ GatewayBurn(s, user, p.intent, fee)
  BY OperatorSubmits DEF SystemInv, Scheduled
<1>2. /\ p \in Promise /\ spec \in Specs /\ t \in Tokens /\ k \in Addresses
      /\ spec.value \in Nat /\ p.intent.max_fee \in Nat /\ fee \in Nat
      /\ Reservation(p) = spec.value + p.intent.max_fee
      /\ AccountOf(p) = <<t, k>>
  BY PromiseFacts, ConfigAssumption, InputsAssumption
  DEF SystemInv, Scheduled, U64, AccountOf
<1>3. p \in Open
  BY DEF OperatorBurn, Open, Released
<1> DEFINE charge == Charge(spec, fee)
           a == FromAvailable(d, charge)
           w == FromWithdrawing(d, charge)
           settled == Settlement(spec, a + w)
           event == BurnEvent(spec, settled, a, w)
<1>4. charge = spec.value + fee /\ charge \in Nat /\ charge <= Reservation(p)
  <2>1. fee <= p.intent.max_fee
    BY <1>1, <1>2 DEF GatewayBurn, CanBurn, FeeAllowed
  <2> QED
    BY <1>2, <2>1 DEF Charge
<1>5. deposit \in [Tokens -> [Addresses -> GatewayDeposit]]
  BY DEF WalletFacts, TypeOK
<1>6. a + w = charge
  <2>1. d \in GatewayDeposit /\ Covers(d, Open, t, k)
    BY <1>2, <1>5 DEF SystemInv, CoverageInv
  <2>2. Open \in SUBSET Promise /\ IsFiniteSet(Open)
    BY FS_Subset DEF Open, SystemInv, Scheduled, PromisesInv
  <2> HIDE DEF charge, d
  <2> QED
    BY <1>2, <1>3, <1>4, <2>1, <2>2, CoversBurned
<1>7. settled.burn = spec.value
  <2>1. ActualFee(spec.value + fee, spec.value) = fee
    BY <1>2 DEF ActualFee
  <2>2. \A n : Settlement(spec, n).burn = n - ActualFee(n, spec.value)
    BY DEF Settlement
  <2>3. settled.burn = charge - ActualFee(charge, spec.value)
    BY <1>6, <2>2
  <2> HIDE DEF settled, charge
  <2> QED
    BY <1>2, <1>4, <2>1, <2>3
<1>8. /\ deposit' = [deposit EXCEPT ![t][k] = ReducedBalance(@, charge)]
      /\ burned' = [burned EXCEPT ![spec] = Append(@, event)]
  BY <1>1 DEF GatewayBurn
<1>9. event.value = spec.value
  BY <1>7 DEF BurnEvent
<1>10. burned \in [Specs -> Seq(GatewayBurned)] /\ burned[spec] = <<>>
  BY DEF WalletFacts, TypeOK, OperatorBurn, IsBurned
<1> HIDE DEF event, charge
<1>11. /\ burned'[spec] = <<event>>
       /\ \A other \in Specs \ {spec} : burned'[other] = burned[other]
  BY <1>2, <1>8, <1>10
<1>12. /\ burned'[spec] # <<>> /\ burned'[spec][1].value = spec.value
  BY <1>9, <1>11
<1>13. \E c \in Nat :
         /\ c <= Reservation(p)
         /\ deposit' = [deposit EXCEPT ![t][k] = ReducedBalance(@, c)]
  BY <1>4, <1>8
<1> QED
  BY <1>3, <1>11, <1>12, <1>13

\* Open promises are promises, finitely many, made in the past and still due.
LEMMA OpenFacts ==
  ASSUME SystemInv
  PROVE  /\ Open \in SUBSET promises /\ Open \in SUBSET Promise
         /\ IsFiniteSet(Open) /\ slot \in Nat
         /\ \A p \in Open : p.slot <= slot /\ slot <= p.slot + BurnWithin
<1>1. promises \subseteq Promise /\ IsFiniteSet(promises) /\ slot \in Nat
  BY DEF SystemInv, Scheduled, PromisesInv
<1>2. Open \in SUBSET promises /\ IsFiniteSet(Open)
  BY <1>1, FS_Subset DEF Open
<1>3. \A p \in Open : p.slot <= slot /\ slot <= p.slot + BurnWithin
  BY DEF Open, Due, SystemInv, PromisesInv, Backed
<1> QED
  BY <1>1, <1>2, <1>3

\* What can be done to an account besides a burn leaves it covering the open
\* promises.
LEMMA AccountStaysCovering ==
  ASSUME WalletFacts, WalletFacts', SystemInv, [SystemNext]_systemVars,
         burned' = burned, NEW t \in Tokens, NEW k \in Addresses
  PROVE  Covers(deposit'[t][k], Open, t, k)
<1> DEFINE d == deposit[t][k]
           e == deposit'[t][k]
<1>1. d \in GatewayDeposit /\ e \in GatewayDeposit /\ Covers(d, Open, t, k)
  BY DEF WalletFacts, TypeOK, SystemInv, CoverageInv
<1>2. [Next]_vars
  BY WalletSteps DEF SystemInv, Scheduled
<1>3. ~ BurnedFrom(d, e, t, k)
  <2>1. ASSUME NEW s \in EvmKeys, NEW user \in Users, NEW intent \in Intents,
               NEW fee \in Fees, GatewayBurn(s, user, intent, fee)
        PROVE  FALSE
    <3>1. PICK event \in GatewayBurned :
            /\ intent.spec \in Specs
            /\ burned' = [burned EXCEPT ![intent.spec] = Append(@, event)]
      BY <2>1, BurnCharges DEF WalletFacts
    <3>2. burned \in [Specs -> Seq(GatewayBurned)]
      BY DEF WalletFacts, TypeOK
    <3>3. Append(burned[intent.spec], event) = burned[intent.spec]
      BY <3>1, <3>2
    <3>4. burned[intent.spec] \in Seq(GatewayBurned)
      BY <3>1, <3>2
    <3>5. Len(Append(burned[intent.spec], event))
            = Len(burned[intent.spec]) + 1
      BY <3>4
    <3>6. Len(burned[intent.spec]) \in Nat
      BY <3>4
    <3> QED
      BY <3>3, <3>5, <3>6
  <2> QED
    BY <2>1 DEF BurnedFrom
<1>4. e = d \/ PaidInto(d, e) \/ Announced(d, e) \/ TakenOut(d, e)
  BY <1>2, <1>3, AccountMoves DEF WalletFacts
<1> HIDE DEF d, e
<1>5. CASE e = d
  BY <1>1, <1>5 DEF e
<1>6. CASE PaidInto(d, e) \/ Announced(d, e) \/ TakenOut(d, e)
  <2>1. Covers(e, Open, t, k)
    BY <1>1, <1>6, OpenFacts, CoversMoved
  <2> QED
    BY <2>1 DEF e
<1> QED
  BY <1>4, <1>5, <1>6

LEMMA CoverageStep ==
  ASSUME WalletFacts, WalletFacts', SystemInv, [SystemNext]_systemVars
  PROVE  CoverageInv'
<1> SUFFICES ASSUME NEW t \in Tokens, NEW k \in Addresses
             PROVE  Covers(deposit'[t][k], Open', t, k)
  BY DEF CoverageInv, Covers, Reserved, AccountOf, Reservation, Charge, ClaimOf
<1>1. /\ deposit[t][k] \in GatewayDeposit /\ deposit'[t][k] \in GatewayDeposit
      /\ Covers(deposit[t][k], Open, t, k)
  BY DEF WalletFacts, TypeOK, SystemInv, CoverageInv
<1>2. /\ Open \in SUBSET Promise /\ IsFiniteSet(Open)
      /\ Open \in SUBSET promises
  BY OpenFacts
<1>3. \A p \in promises : p \in Open' => p \in Open
  BY OpenShrinks DEF SystemInv
<1>4. CASE promises' = promises /\ burned' = burned
  <2>1. Open' \in SUBSET Open
    BY <1>3, <1>4 DEF Open
  <2>2. Covers(deposit'[t][k], Open, t, k)
    BY <1>4, AccountStaysCovering
  <2> QED
    BY <1>1, <1>2, <2>1, <2>2, CoversFewer
<1>5. ASSUME NEW p \in promises, OperatorBurn(p), promises' = promises
      PROVE  Covers(deposit'[t][k], Open', t, k)
  <2> DEFINE u == p.intent.spec.source_token
             x == p.intent.spec.source_depositor
  <2>1. /\ p \in Open /\ burned'[p.intent.spec] # <<>>
    BY <1>5, OperatorBurnTakes
  <2>2. PICK charge \in Nat :
          /\ charge <= Reservation(p)
          /\ deposit' = [deposit EXCEPT ![u][x] = ReducedBalance(@, charge)]
    BY <1>5, OperatorBurnTakes
  <2>3. p \notin Open' /\ Open' \in SUBSET Open
    BY <1>3, <1>5, <2>1 DEF Open, IsBurned
  <2>4. Open' \in SUBSET (Open \ {p})
    BY <2>3
  <2>5. Open \ {p} \in SUBSET Promise /\ IsFiniteSet(Open \ {p})
    BY <1>2, FS_Subset
  <2>6. u \in Tokens /\ x \in Addresses /\ AccountOf(p) = <<u, x>>
    BY <1>2, <2>1, PromiseFacts DEF AccountOf
  <2>7. deposit \in [Tokens -> [Addresses -> GatewayDeposit]]
    BY DEF WalletFacts, TypeOK
  <2>8. CASE u = t /\ x = k
    <3>1. deposit'[t][k] = ReducedBalance(deposit[t][k], charge)
      BY <2>2, <2>6, <2>7, <2>8
    <3>2. AccountOf(p) = <<t, k>>
      BY <2>6, <2>8
    <3>3. Covers(deposit'[t][k], Open \ {p}, t, k)
      BY <1>1, <1>2, <2>1, <2>2, <3>1, <3>2, CoversBurned
    <3> QED
      BY <1>1, <2>4, <2>5, <3>3, CoversFewer
  <2>9. CASE ~ (u = t /\ x = k)
    <3>1. deposit'[t][k] = deposit[t][k]
      BY <2>2, <2>6, <2>7, <2>9
    <3> QED
      BY <1>1, <1>2, <2>3, <3>1, CoversFewer
  <2> QED
    BY <2>8, <2>9
<1>6. ASSUME NEW intent \in Intents, Attest(intent)
      PROVE  Covers(deposit'[t][k], Open', t, k)
  <2>0. PICK p : p = [intent |-> intent, slot |-> slot]
    OBVIOUS
  <2> DEFINE u == intent.spec.source_token
             x == intent.spec.source_depositor
  <2>1. /\ p \in Promise /\ promises' = promises \cup {p}
        /\ AccountOf(p) = <<u, x>>
        /\ \A q \in promises : q.intent.spec # intent.spec
        /\ UNCHANGED vars
        /\ Reserved(Counted, u, x) + Reservation(p)
             <= deposit[u][x].available_amount
    BY <1>6, <2>0, AttestFacts DEF SystemInv, PromisesInv
  <2>2. deposit' = deposit
    BY <2>1 DEF vars
  <2>3. /\ Open' \in SUBSET (Open \cup {p})
        /\ Open' \ {p} \in SUBSET Open
    BY <1>3, <2>1 DEF Open
  <2>4. Open' \in SUBSET Promise /\ IsFiniteSet(Open')
    <3>1. IsFiniteSet(Open \cup {p})
      BY <1>2, FS_AddElement
    <3> QED
      BY <1>2, <2>1, <2>3, <3>1, FS_Subset
  <2>5. Covers(deposit[t][k], Open' \ {p}, t, k)
    BY <1>1, <1>2, <2>3, CoversFewer
  <2>6. AccountOf(p) = <<t, k>> =>
          Reserved(Open' \ {p}, t, k) + Reservation(p)
            <= deposit[t][k].available_amount
    <3> SUFFICES ASSUME AccountOf(p) = <<t, k>>
                 PROVE  Reserved(Open' \ {p}, t, k) + Reservation(p)
                          <= deposit[t][k].available_amount
      OBVIOUS
    <3>1. u = t /\ x = k
      BY <2>1
    <3>2. /\ Counted \in SUBSET Promise /\ IsFiniteSet(Counted)
          /\ Open' \ {p} \in SUBSET Counted
      BY <1>2, <2>3, FS_Subset
      DEF Counted, Open, SystemInv, Scheduled, PromisesInv
    <3>3. /\ Reserved(Open' \ {p}, t, k) \in Nat
          /\ Reserved(Counted, t, k) \in Nat
          /\ Reserved(Open' \ {p}, t, k) <= Reserved(Counted, t, k)
      BY <3>2, ReservedGrows
    <3>4. Reservation(p) \in Nat
      BY <2>1, PromiseFacts
    <3>5. deposit[t][k].available_amount \in Nat
      BY <1>1, DepositFields
    <3> QED
      BY <2>1, <3>1, <3>3, <3>4, <3>5
  <2>7. CASE p \in Open'
    <3>1. Covers(deposit[t][k], Open', t, k)
      BY <1>1, <2>4, <2>5, <2>6, <2>7, CoversAttested
    <3> QED
      BY <2>2, <3>1
  <2>8. CASE p \notin Open'
    <3>1. Open' \ {p} = Open'
      BY <2>8
    <3> QED
      BY <2>2, <2>5, <3>1
  <2> QED
    BY <2>7, <2>8
<1>7. \/ promises' = promises /\ burned' = burned
      \/ \E p \in promises : OperatorBurn(p) /\ promises' = promises
      \/ \E intent \in Intents : Attest(intent)
  BY BurnsMove, PromisesMove DEF SystemInv
<1> QED
  BY <1>4, <1>5, <1>6, <1>7

-----------------------------------------------------------------------------
(* The invariant and what follows from it. *)

LEMMA SystemInits == SystemInit => SystemInv
<1> SUFFICES ASSUME SystemInit
             PROVE  SystemInv
  OBVIOUS
<1>1. promises = {} /\ Init /\ Minter!Init
  BY DEF SystemInit
<1>2. Scheduled
  BY <1>1, InputsAssumption DEF Init, Scheduled, U64
<1>3. PromisesInv
  BY <1>1, FS_EmptySet DEF PromisesInv
<1>4. MintsInv
  <2>1. /\ tx = Minter!NoTransaction /\ minted = [spec \in Specs |-> <<>>]
        /\ burned = [spec \in Specs |-> <<>>]
    BY <1>1 DEF Init, Minter!Init
  <2> QED
    BY <2>1 DEF MintsInv, PaidAsPromised
<1>5. CoverageInv
  <2>1. Open = {} /\ IsFiniteSet(Open)
    BY <1>1, FS_EmptySet DEF Open
  <2>2. SUFFICES ASSUME NEW t \in Tokens, NEW k \in Addresses
                 PROVE  Covers(deposit[t][k], Open, t, k)
    BY DEF CoverageInv
  <2>3. Reserved(Open, t, k) = 0
    BY <2>1, NothingReserved
  <2>4. deposit[t][k] \in GatewayDeposit
    BY <1>1, TypeInit DEF TypeOK
  <2>5. ClaimOf(deposit[t][k]) \in Nat
    BY <2>4, ClaimsAreNatural
  <2> QED
    BY <2>1, <2>3, <2>5 DEF Covers
<1> QED
  BY <1>2, <1>3, <1>4, <1>5 DEF SystemInv

LEMMA SystemSteps ==
  WalletFacts /\ WalletFacts' /\ SystemInv /\ [SystemNext]_systemVars
    => SystemInv'
<1> SUFFICES ASSUME WalletFacts, WalletFacts', SystemInv,
                    [SystemNext]_systemVars
             PROVE  SystemInv'
  OBVIOUS
<1>1. Scheduled /\ PromisesInv /\ MintsInv
  BY DEF SystemInv
<1>2. Scheduled'
  BY <1>1, ScheduledStep
<1>3. PromisesInv'
  BY <1>1, PromisesStep
<1>4. MintsInv'
  BY <1>1, MintsStep
<1>5. CoverageInv'
  BY CoverageStep
<1> QED
  BY <1>2, <1>3, <1>4, <1>5 DEF SystemInv

\* What is proved of the wallet alone holds in the system.
LEMMA WalletFactsHold == SystemSpec => []WalletFacts
<1>1. TypeOK /\ ListsWellFormed /\ LedgerNeverOverflows /\ ChargedOnce
      /\ AccountsInv => WalletFacts
  BY DEF WalletFacts
<1> QED
  BY <1>1, WalletRuns, TypeCorrect, ListsAreWellFormed, LedgerFits,
     SpecsAreChargedOnce, AccountsInvariant, PTL

\* The invariant by which a depositor's account covers the open promises, each
\* spec is promised once and backed, and the minter pays what is promised.
THEOREM SystemInvariant == SystemSpec => []SystemInv
BY SystemInits, SystemSteps, WalletFactsHold, PTL DEF SystemSpec

\* Whatever depositors, delegates, the owner, the pauser and the operator do,
\* in any order: until the operator has burned or must have, a claim covers
\* all that the API has promised against it.
THEOREM PromisesStayCovered == SystemSpec => []PromisesAreCovered
<1>1. ASSUME WalletFacts, SystemInv
      PROVE  PromisesAreCovered
  <2>1. SUFFICES ASSUME NEW t \in Tokens, NEW k \in Keys
                 PROVE  Reserved(Open, t, k)
                          <= deposit[t][k].available_amount
                               + deposit[t][k].withdrawing_amount
    BY DEF PromisesAreCovered
  <2>2. k \in Addresses
    BY SendersAreHolders
  <2>3. Covers(deposit[t][k], Open, t, k)
    BY <1>1, <2>2 DEF SystemInv, CoverageInv
  <2> QED
    BY <2>3 DEF Covers, ClaimOf
<1>2. WalletFacts /\ SystemInv => PromisesAreCovered
  BY <1>1
<1> QED
  BY <1>2, WalletFactsHold, SystemInvariant, PTL

\* What the minter has paid for, gateway_burn accepts until the operator's time
\* is up, with any burn signer and any fee the user has allowed.
THEOREM MintedStaysBurnable == SystemSpec => []MintedCanBeBurned
<1>1. ASSUME WalletFacts, SystemInv
      PROVE  MintedCanBeBurned
  <2>1. SUFFICES ASSUME NEW p \in Open, IsMinted(p), Running,
                        NEW s \in Range(wallet.burn_signers),
                        NEW fee \in 0 .. p.intent.max_fee
                 PROVE  CanBurn(s, p.intent.spec.source_signer, p.intent, fee)
    BY DEF MintedCanBeBurned
  <2> DEFINE spec == p.intent.spec
             t == spec.source_token
             k == spec.source_depositor
             d == deposit[t][k]
  <2>2. /\ p \in Promise /\ p \in promises /\ Open \in SUBSET Promise
        /\ IsFiniteSet(Open) /\ slot \in Nat
        /\ slot <= p.slot + BurnWithin
    BY <1>1, OpenFacts
  <2>3. /\ t \in Tokens /\ k \in Addresses /\ spec \in Specs
        /\ spec.value \in Nat /\ p.intent.max_fee \in Nat /\ fee \in Nat
        /\ p.intent.max_block_height \in Nat /\ p.slot \in Nat
        /\ Reservation(p) = spec.value + p.intent.max_fee
        /\ AccountOf(p) = <<t, k>> /\ fee <= p.intent.max_fee
    BY <2>2, PromiseFacts, ConfigAssumption DEF U64, AccountOf
  <2>4. Backed(p)
    BY <1>1, <2>2 DEF SystemInv, PromisesInv
  <2>5. d.opened /\ IsCustody(t)
    BY <1>1, <2>3, <2>4 DEF Backed, WalletFacts, ListsWellFormed
  <2>6. p.intent.max_block_height >= slot
    BY <2>2, <2>3, <2>4, OperatorAssumption DEF Backed
  <2>7. Charge(spec, fee) <= Reservation(p) /\ Charge(spec, fee) \in Nat
    BY <2>3 DEF Charge
  <2>8. ChargeFits(spec, fee)
    BY <2>3, <2>4, <2>7, ConfigAssumption DEF ChargeFits, Backed
  <2>9. balance[t][Custody] >= Charge(spec, fee)
    <3>1. d \in GatewayDeposit /\ Covers(d, Open, t, k)
      BY <1>1, <2>3 DEF WalletFacts, TypeOK, SystemInv, CoverageInv
    <3>2. Reserved(Open, t, k) <= ClaimOf(d)
      BY <3>1 DEF Covers
    <3>3. ClaimOf(d) <= balance[t][Custody]
      BY <1>1, <2>3 DEF WalletFacts, LedgerNeverOverflows, Claim, ClaimOf
    <3>4. Reserved(Open, t, k)
            = Reserved(Open \ {p}, t, k) + Reservation(p)
      BY <2>2, <2>3, ReservedAdds
    <3>5. Reserved(Open, t, k) \in Nat /\ Reserved(Open \ {p}, t, k) \in Nat
      BY <2>2, ReservedGrows
    <3>6. ClaimOf(d) \in Nat
      BY <3>1, ClaimsAreNatural
    <3>7. balance[t][Custody] \in Nat
      BY <1>1, <2>3, SendersAreHolders DEF WalletFacts, TypeOK
    <3> HIDE DEF d
    <3> QED
      BY <2>3, <2>7, <3>2, <3>3, <3>4, <3>5, <3>6, <3>7
  <2>10. spec \notin used
    BY <1>1, <2>3 DEF WalletFacts, ChargedOnce, Open, IsBurned
  <2> QED
    BY <2>1, <2>3, <2>4, <2>5, <2>6, <2>8, <2>9, <2>10
    DEF CanBurn, IsBurnSigner, VerifyUserSignature, FeeAllowed,
        IsTransferSpecHashUsed, Backed
<1>2. WalletFacts /\ SystemInv => MintedCanBeBurned
  BY <1>1
<1> QED
  BY <1>2, WalletFactsHold, SystemInvariant, PTL

\* Each burn destroys the value that was promised.
BurnedAsPromised ==
  \A spec \in Specs :
    burned[spec] # <<>> => burned[spec][1].value = spec.value

LEMMA BurnedAsPromisedStep ==
  WalletFacts /\ SystemInv /\ BurnedAsPromised /\ [SystemNext]_systemVars
    => BurnedAsPromised'
<1> SUFFICES ASSUME WalletFacts, SystemInv, BurnedAsPromised,
                    [SystemNext]_systemVars
             PROVE  BurnedAsPromised'
  OBVIOUS
<1>1. CASE burned' = burned
  BY <1>1 DEF BurnedAsPromised
<1>2. ASSUME NEW p \in promises, OperatorBurn(p)
      PROVE  BurnedAsPromised'
  <2>1. /\ burned'[p.intent.spec][1].value = p.intent.spec.value
        /\ \A spec \in Specs \ {p.intent.spec} : burned'[spec] = burned[spec]
    BY <1>2, OperatorBurnTakes
  <2> QED
    BY <2>1 DEF BurnedAsPromised
<1> QED
  BY <1>1, <1>2, BurnsMove DEF SystemInv

\* The destination is never given more than the source gives up for it: every
\* burn is of a paid spec and of all that was paid.
THEOREM BurnsTakeWhatWasMinted == SystemSpec => []BurnsMatchMints
<1>1. SystemInit => BurnedAsPromised
  BY DEF SystemInit, Init, BurnedAsPromised
<1>2. SystemSpec => []BurnedAsPromised
  BY <1>1, BurnedAsPromisedStep, WalletFactsHold, SystemInvariant, PTL
  DEF SystemSpec
<1>3. SystemInv /\ BurnedAsPromised => BurnsMatchMints
  BY DEF SystemInv, MintsInv, PaidAsPromised, BurnedAsPromised,
         BurnsMatchMints
<1> QED
  BY <1>2, <1>3, SystemInvariant, PTL
=============================================================================
