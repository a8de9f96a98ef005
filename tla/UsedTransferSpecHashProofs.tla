--------------------- MODULE UsedTransferSpecHashProofs ---------------------
(***************************************************************************)
(* For any rent, any lamports sent to the addresses and any failures: a    *)
(* hash is marked once, and only a payer's lack of lamports can prevent it.*)
(*                                                                         *)
(* The inductive invariant: outside the running transaction an account is  *)
(* either the system program's and without data, or marked; inside it, the *)
(* step tells what has become of it and what was paid.                     *)
(***************************************************************************)
EXTENDS UsedTransferSpecHash, SequenceTheorems, TLAPS

missing == IF tx.found.lamports < required_rent
           THEN required_rent - tx.found.lamports ELSE 0

Untouched(a) == a.owner = "System" /\ a.data = <<>>

Settled(hash) ==
  \/ marked[hash] = 0 /\ Untouched(account[hash])
  \/ /\ marked[hash] = 1
     /\ account[hash].owner = "Program" /\ account[hash].data = Discriminator

\* What each step finds.
InProgress ==
  LET a == account[tx.hash] IN
  /\ marked[tx.hash] = 0
  /\ tx.paid <= tx.funds
  /\ Untouched(tx.before) /\ Untouched(tx.found)
  /\ tx.step \in {"Create", "TopUp", "Allocate"} => Untouched(a)
  /\ tx.step \in {"Create", "TopUp"} =>
       a.lamports = tx.found.lamports /\ tx.paid = 0
  /\ tx.step = "Create" => a.lamports = 0
  /\ tx.step = "TopUp" => a.lamports < required_rent
  /\ tx.step \in {"Allocate", "Assign", "Write", "Done"} =>
       a.lamports >= required_rent /\ tx.paid = missing
  /\ tx.step = "Assign" => a.owner = "System" /\ a.data = Zeroed
  /\ tx.step = "Write" => a.owner = "Program" /\ a.data = Zeroed
  /\ tx.step = "Done" => a.owner = "Program" /\ a.data = Discriminator
  /\ tx.step = "Failed" => tx.funds < missing

Inv ==
  /\ TypeOK
  /\ tx = NoTransaction => \A hash \in Hashes : Settled(hash)
  /\ tx # NoTransaction =>
       /\ \A hash \in Hashes \ {tx.hash} : Settled(hash)
       /\ InProgress

-----------------------------------------------------------------------------
USE InputsAssumption DEF DISCRIMINATOR_SIZE

LEMMA DataAre ==
  /\ Len(<<>>) = 0 /\ Len(Zeroed) = 2 /\ Len(Discriminator) = 2
  /\ Zeroed # Discriminator /\ Zeroed # <<>> /\ Discriminator # <<>>
BY DEF Zeroed, Discriminator

LEMMA RentIsPositive == required_rent \in Nat /\ required_rent > 0
<1>1. /\ AccountOverhead + 2 \in Nat /\ AccountOverhead + 2 >= 1
      /\ RentPerByte \in Nat /\ RentPerByte >= 1
  OBVIOUS
<1>2. \A x, y \in Nat : x >= 1 /\ y >= 1 => x * y \in Nat /\ x * y > 0
  OBVIOUS
<1> QED
  BY <1>1, <1>2 DEF required_rent, MinimumBalance,
                    USED_TRANSFER_SPEC_HASH_ACCOUNT_SPACE

\* What the runtime asks of an account with a discriminator.
LEMMA MarkedIsExempt ==
  ASSUME NEW a \in Account, a.data = Discriminator, a.lamports >= required_rent
  PROVE  RentExempt(a)
BY DataAre DEF RentExempt, required_rent, USED_TRANSFER_SPEC_HASH_ACCOUNT_SPACE

\* is_transfer_spec_hash_used tells the two kinds of account apart.
LEMMA UsedIsMarked ==
  /\ \A a : a.data = Discriminator => IsTransferSpecHashUsed(a)
  /\ \A a : a.data = <<>> => ~ IsTransferSpecHashUsed(a)
<1>1. Discriminator \in Seq(Nat) /\ Len(Discriminator) = 2
  BY DEF Discriminator
<1>2. SubSeq(Discriminator, 1, 2) = Discriminator
  BY <1>1, SubSeqFull
<1> QED
  BY <1>2, DataAre DEF IsTransferSpecHashUsed

\* Lamports change nothing else of an account.
LEMMA Funded ==
  ASSUME NEW a \in Account, NEW gift \in Nat
  PROVE  LET f == [a EXCEPT !.lamports = @ + gift] IN
         f \in Account /\ f.owner = a.owner /\ f.data = a.data
BY DEF Account

LEMMA SendStep ==
  ASSUME Inv, NEW hash \in Hashes, NEW gift \in Gifts, Send(hash, gift)
  PROVE  Inv'
<1>1. /\ tx = NoTransaction /\ tx' = tx /\ marked' = marked
      /\ account' = [account EXCEPT ![hash] =
                       [account[hash] EXCEPT !.lamports = @ + gift]]
      /\ account \in [Hashes -> Account]
  BY DEF Send, Inv, TypeOK
<1>2. /\ account' \in [Hashes -> Account]
      /\ \A h \in Hashes : /\ account'[h].owner = account[h].owner
                           /\ account'[h].data = account[h].data
  BY <1>1, Funded
<1>3. TypeOK'
  BY <1>1, <1>2 DEF Inv, TypeOK
<1>4. \A h \in Hashes : Settled(h)'
  BY <1>1, <1>2 DEF Inv, Settled, Untouched
<1> QED
  BY <1>1, <1>3, <1>4 DEF Inv

LEMMA BeginStep ==
  ASSUME Inv, NEW hash \in Hashes, NEW funds \in Funds, NEW gift \in Gifts,
         Begin(hash, funds, gift)
  PROVE  Inv'
<1> DEFINE found == [account[hash] EXCEPT !.lamports = @ + gift]
<1>1. /\ tx = NoTransaction /\ marked' = marked
      /\ ~ IsTransferSpecHashUsed(found)
      /\ account' = [account EXCEPT ![hash] = found]
      /\ tx' = [step |-> FirstStep(found.lamports), hash |-> hash,
                found |-> found, funds |-> funds, paid |-> 0,
                before |-> account[hash]]
      /\ account \in [Hashes -> Account] /\ account[hash] \in Account
      /\ funds \in Nat /\ gift \in Nat
  BY DEF Begin, Inv, TypeOK
<1>2. found \in Account /\ found.data = account[hash].data
      /\ found.owner = account[hash].owner
  BY <1>1, Funded
<1> HIDE DEF found
<1>3. marked[hash] = 0 /\ Untouched(account[hash]) /\ Untouched(found)
  BY <1>1, <1>2, UsedIsMarked DEF Inv, Settled, Untouched
<1>4. /\ FirstStep(found.lamports) \in {"Create", "TopUp", "Allocate"}
      /\ FirstStep(found.lamports) = "Create" => found.lamports = 0
      /\ FirstStep(found.lamports) = "TopUp" => found.lamports < required_rent
      /\ FirstStep(found.lamports) = "Allocate" =>
           found.lamports >= required_rent
  BY <1>2, RentIsPositive DEF FirstStep, Account
<1>5. TypeOK'
  BY <1>1, <1>2, <1>4 DEF Inv, TypeOK, Transaction, Steps
<1>6. tx'.hash = hash /\ account'[hash] = found /\ tx'.found = found
      /\ tx'.before = account[hash] /\ tx'.paid = 0
      /\ tx'.funds = funds /\ tx'.step = FirstStep(found.lamports)
  BY <1>1
<1>7. InProgress'
  BY <1>1, <1>2, <1>3, <1>4, <1>6, RentIsPositive
     DEF InProgress, missing, Account
<1>8. tx' # NoTransaction
  BY <1>1, <1>4, <1>6 DEF NoTransaction
<1>9. \A h \in Hashes \ {hash} : Settled(h)'
  BY <1>1 DEF Inv, Settled, Untouched
<1> QED
  BY <1>5, <1>6, <1>7, <1>8, <1>9 DEF Inv

\* What a call leaves when it succeeds and when it fails.
LEMMA CallStep ==
  ASSUME Inv, NEW step \in Steps, NEW permitted \in BOOLEAN, NEW paid \in Nat,
         NEW changed, NEW next \in Steps, Call(step, permitted, changed, paid, next),
         permitted /\ tx.funds - tx.paid >= paid => changed \in Account,
         permitted /\ tx.funds - tx.paid >= paid =>
           /\ next \in {"Allocate", "Assign", "Write", "Done"}
           /\ changed.lamports >= required_rent /\ tx.paid + paid = missing
           /\ next = "Allocate" => Untouched(changed)
           /\ next = "Assign" => changed.owner = "System" /\ changed.data = Zeroed
           /\ next = "Write" => changed.owner = "Program" /\ changed.data = Zeroed
           /\ next = "Done" => /\ changed.owner = "Program"
                               /\ changed.data = Discriminator,
         ~ (permitted /\ tx.funds - tx.paid >= paid) => tx.funds < missing
  PROVE  Inv'
<1> DEFINE succeeds == permitted /\ tx.funds - tx.paid >= paid
<1>1. /\ tx.step = step /\ tx # NoTransaction /\ tx \in Transaction
      /\ tx.hash \in Hashes /\ tx.paid \in Nat /\ tx.funds \in Nat
      /\ account \in [Hashes -> Account] /\ marked' = marked
  BY DEF Call, Inv, TypeOK, NoTransaction, Steps, Transaction
<1>2. CASE succeeds
  <2>1. /\ account' = [account EXCEPT ![tx.hash] = changed]
        /\ tx' = [tx EXCEPT !.step = next, !.paid = @ + paid]
    BY <1>2 DEF Call
  <2>2. /\ tx' \in Transaction /\ tx'.step = next /\ tx'.hash = tx.hash
        /\ tx'.found = tx.found /\ tx'.before = tx.before
        /\ tx'.funds = tx.funds /\ tx'.paid = tx.paid + paid
    <3> DEFINE moved == [tx EXCEPT !.step = next]
    <3>1. /\ moved \in Transaction /\ moved.step = next /\ moved.hash = tx.hash
          /\ moved.found = tx.found /\ moved.before = tx.before
          /\ moved.funds = tx.funds /\ moved.paid = tx.paid
      BY <1>1 DEF Transaction
    <3>2. tx' = [moved EXCEPT !.paid = tx.paid + paid] /\ tx.paid + paid \in Nat
      BY <1>1, <2>1 DEF Transaction
    <3> HIDE DEF moved
    <3> QED
      BY <3>1, <3>2 DEF Transaction
  <2>3. /\ account' \in [Hashes -> Account] /\ account'[tx.hash] = changed
        /\ \A h \in Hashes \ {tx.hash} : account'[h] = account[h]
    BY <1>1, <1>2, <2>1
  <2>4. TypeOK'
    BY <1>1, <2>2, <2>3 DEF Inv, TypeOK
  <2>5. InProgress'
    BY <1>1, <1>2, <2>2, <2>3 DEF Inv, InProgress, missing, Untouched
  <2>6. tx' # NoTransaction
    <3>1. tx'.step # "None"
      BY <1>2, <2>2
    <3> QED
      BY <3>1 DEF NoTransaction
  <2>7. \A h \in Hashes \ {tx'.hash} : Settled(h)'
    BY <1>1, <2>2, <2>3 DEF Inv, Settled, Untouched
  <2> QED
    BY <2>4, <2>5, <2>6, <2>7 DEF Inv
<1>3. CASE ~ succeeds
  <2>1. account' = account /\ tx' = [tx EXCEPT !.step = "Failed"]
    BY <1>3 DEF Call
  <2>2. /\ tx' \in Transaction /\ tx'.step = "Failed" /\ tx'.hash = tx.hash
        /\ tx'.found = tx.found /\ tx'.before = tx.before
        /\ tx'.funds = tx.funds /\ tx'.paid = tx.paid
    BY <1>1, <2>1 DEF Transaction, Steps
  <2>3. TypeOK'
    BY <1>1, <2>1, <2>2 DEF Inv, TypeOK
  <2>4. InProgress'
    BY <1>1, <1>3, <2>1, <2>2 DEF Inv, InProgress, missing, Untouched
  <2>5. tx' # NoTransaction
    BY <2>2 DEF NoTransaction
  <2>6. \A h \in Hashes \ {tx'.hash} : Settled(h)'
    BY <1>1, <2>1, <2>2 DEF Inv, Settled, Untouched
  <2> QED
    BY <2>3, <2>4, <2>5, <2>6 DEF Inv
<1> QED
  BY <1>2, <1>3

\* The running transaction and its account.
LEMMA Running ==
  ASSUME Inv, tx.step \in Steps
  PROVE  /\ tx \in Transaction /\ tx # NoTransaction
         /\ tx.hash \in Hashes /\ tx.found \in Account /\ tx.before \in Account
         /\ tx.funds \in Nat /\ tx.paid \in Nat
         /\ account[tx.hash] \in Account
         /\ InProgress
BY DEF Inv, TypeOK, NoTransaction, Steps, Transaction

LEMMA CreateStep ==
  ASSUME Inv, CreateAccount
  PROVE  Inv'
<1> DEFINE a == account[tx.hash]
           made == [lamports |-> required_rent, owner |-> "Program",
                    data |-> Zeroed]
           ok == a.lamports = 0 /\ Allocatable(a)
<1>1. Call("Create", ok, made, required_rent, "Write") /\ tx.step = "Create"
  BY DEF CreateAccount, Call
<1>2. /\ InProgress /\ tx.found \in Account /\ tx.funds \in Nat
  BY <1>1, Running DEF Steps
<1>3. ok /\ tx.paid = 0 /\ missing = required_rent
  BY <1>1, <1>2, RentIsPositive
     DEF InProgress, Untouched, Allocatable, missing, Account
<1>4. made \in Account
  BY RentIsPositive DEF Account
<1>5. /\ made.lamports = required_rent /\ made.owner = "Program"
      /\ made.data = Zeroed
  OBVIOUS
<1> HIDE DEF made, ok, a
<1>6. ok \in BOOLEAN
  BY <1>3
<1> QED
  <2>1. tx.funds - tx.paid = tx.funds /\ tx.paid + required_rent = missing
    BY <1>2, <1>3, RentIsPositive
  <2>2. "Create" \in Steps /\ "Write" \in Steps /\ required_rent \in Nat
    BY RentIsPositive DEF Steps
  <2>3. ~ (ok /\ tx.funds - tx.paid >= required_rent) => tx.funds < missing
    BY <1>2, <1>3, <2>1, <2>2
  <2>4. made.lamports >= required_rent
    BY <1>5, <2>2
  <2> QED
    BY <1>1, <1>4, <1>5, <1>6, <2>1, <2>2, <2>3, <2>4, CallStep

LEMMA TopUpStep ==
  ASSUME Inv, TopUp
  PROVE  Inv'
<1> DEFINE a == account[tx.hash]
           due == required_rent - a.lamports
           made == [a EXCEPT !.lamports = @ + due]
<1>1. Call("TopUp", TRUE, made, due, "Allocate") /\ tx.step = "TopUp"
  BY DEF TopUp, Call
<1>2. /\ InProgress /\ tx.found \in Account /\ tx.funds \in Nat
      /\ a \in Account /\ a.lamports \in Nat
  BY <1>1, Running DEF Steps, Account
<1>3. /\ a.lamports < required_rent /\ a.lamports = tx.found.lamports
      /\ tx.paid = 0 /\ Untouched(a)
  BY <1>1, <1>2 DEF InProgress
<1>4. due \in Nat /\ missing = due /\ a.lamports + due = required_rent
  BY <1>2, <1>3, RentIsPositive DEF missing
<1>5. made \in Account /\ made.owner = a.owner /\ made.data = a.data
      /\ made.lamports = required_rent
  BY <1>2, <1>4 DEF Account
<1>6. Untouched(made)
  BY <1>3, <1>5 DEF Untouched
<1> HIDE DEF made, due, a
<1> QED
  <2>1. tx.funds - tx.paid = tx.funds /\ tx.paid + due = missing
    BY <1>2, <1>3, <1>4
  <2>2. "TopUp" \in Steps /\ "Allocate" \in Steps /\ TRUE \in BOOLEAN
    BY DEF Steps
  <2>3. ~ (TRUE /\ tx.funds - tx.paid >= due) => tx.funds < missing
    BY <1>2, <1>4, <2>1
  <2>4. made.lamports >= required_rent
    BY <1>5, RentIsPositive
  <2> QED
    BY <1>1, <1>4, <1>5, <1>6, <2>1, <2>2, <2>3, <2>4, CallStep

LEMMA AllocateStep ==
  ASSUME Inv, Allocate
  PROVE  Inv'
<1> DEFINE a == account[tx.hash]
           made == [a EXCEPT !.data = Zeroed]
           ok == Allocatable(a)
<1>1. Call("Allocate", ok, made, 0, "Assign") /\ tx.step = "Allocate"
  BY DEF Allocate, Call
<1>2. /\ InProgress /\ a \in Account
  BY <1>1, Running DEF Steps
<1>3. /\ a.lamports >= required_rent /\ tx.paid = missing
      /\ a.owner = "System" /\ ok
  BY <1>1, <1>2 DEF InProgress, Untouched, Allocatable
<1>4. /\ made \in Account /\ made.lamports = a.lamports
      /\ made.owner = "System" /\ made.data = Zeroed
  BY <1>2, <1>3 DEF Account
<1> HIDE DEF made, ok, a
<1>5. ok \in BOOLEAN
  BY <1>3
<1> QED
  <2>1. "Allocate" \in Steps /\ "Assign" \in Steps
    BY DEF Steps
  <2>2. tx.funds - tx.paid >= 0 /\ tx.paid + 0 = missing
    BY <1>1, <1>2, <1>3, Running DEF InProgress, Steps
  <2> QED
    BY <1>1, <1>3, <1>4, <1>5, <2>1, <2>2, CallStep

LEMMA AssignStep ==
  ASSUME Inv, Assign
  PROVE  Inv'
<1> DEFINE a == account[tx.hash]
           made == [a EXCEPT !.owner = "Program"]
           ok == a.owner = "System"
<1>1. Call("Assign", ok, made, 0, "Write") /\ tx.step = "Assign"
  BY DEF Assign, Call
<1>2. InProgress /\ a \in Account /\ tx.funds \in Nat /\ tx.paid \in Nat
  BY <1>1, Running DEF Steps
<1>3. /\ a.lamports >= required_rent /\ tx.paid = missing
      /\ tx.paid <= tx.funds /\ a.data = Zeroed /\ ok
  BY <1>1, <1>2 DEF InProgress
<1>4. /\ made \in Account /\ made.lamports = a.lamports
      /\ made.owner = "Program" /\ made.data = Zeroed
  BY <1>2, <1>3 DEF Account
<1> HIDE DEF made, ok, a
<1>5. ok \in BOOLEAN
  BY <1>3
<1>6. "Assign" \in Steps /\ "Write" \in Steps
  BY DEF Steps
<1>7. tx.funds - tx.paid >= 0 /\ tx.paid + 0 = missing
  BY <1>2, <1>3
<1> QED
  BY <1>1, <1>3, <1>4, <1>5, <1>6, <1>7, CallStep

LEMMA WriteStep ==
  ASSUME Inv, Write
  PROVE  Inv'
<1> DEFINE a == account[tx.hash]
           made == [a EXCEPT !.data = Marked(@)]
           ok == a.owner = "Program" /\ Len(a.data) >= DISCRIMINATOR_SIZE
<1>1. Call("Write", ok, made, 0, "Done") /\ tx.step = "Write"
  BY DEF Write, Call
<1>2. InProgress /\ a \in Account /\ tx.funds \in Nat /\ tx.paid \in Nat
  BY <1>1, Running DEF Steps
<1>3. /\ a.lamports >= required_rent /\ tx.paid = missing
      /\ tx.paid <= tx.funds /\ a.owner = "Program" /\ a.data = Zeroed
  BY <1>1, <1>2 DEF InProgress
<1>4. ok
  BY <1>3, DataAre
<1>5. /\ made \in Account /\ made.lamports = a.lamports
      /\ made.owner = "Program" /\ made.data = Discriminator
  BY <1>2, <1>3 DEF Account, Marked
<1> HIDE DEF made, ok, a
<1>6. ok \in BOOLEAN
  BY <1>4
<1>7. "Write" \in Steps /\ "Done" \in Steps
  BY DEF Steps
<1>8. tx.funds - tx.paid >= 0 /\ tx.paid + 0 = missing
  BY <1>2, <1>3
<1> QED
  BY <1>1, <1>3, <1>4, <1>5, <1>6, <1>7, <1>8, CallStep

LEMMA CommitStep ==
  ASSUME Inv, Commit
  PROVE  Inv'
<1>1. /\ tx.step = "Done" /\ tx.step \in Steps
  BY DEF Commit, Steps
<1>2. /\ tx.hash \in Hashes /\ account[tx.hash] \in Account /\ InProgress
      /\ tx # NoTransaction
  BY <1>1, Running
<1>3. /\ account[tx.hash].lamports >= required_rent
      /\ account[tx.hash].owner = "Program"
      /\ account[tx.hash].data = Discriminator
      /\ marked[tx.hash] = 0
  BY <1>1, <1>2 DEF InProgress
<1>4. RentExempt(account[tx.hash])
  BY <1>2, <1>3, MarkedIsExempt
<1>5. /\ tx' = NoTransaction /\ account' = account
      /\ marked' = [marked EXCEPT ![tx.hash] = @ + 1]
  BY <1>4 DEF Commit
<1>6. /\ marked \in [Hashes -> Nat] /\ marked'[tx.hash] = 1
      /\ \A h \in Hashes \ {tx.hash} : marked'[h] = marked[h]
  BY <1>2, <1>3, <1>5 DEF Inv, TypeOK
<1>7. TypeOK'
  <2>1. account \in [Hashes -> Account] /\ marked[tx.hash] + 1 \in Nat
    BY <1>3 DEF Inv, TypeOK
  <2>2. marked' \in [Hashes -> Nat]
    BY <1>2, <1>5, <1>6, <2>1
  <2> QED
    BY <1>5, <2>1, <2>2 DEF TypeOK
<1>8. \A h \in Hashes : Settled(h)'
  BY <1>2, <1>3, <1>5, <1>6 DEF Inv, Settled, Untouched
<1> QED
  BY <1>5, <1>7, <1>8 DEF Inv

LEMMA AbortStep ==
  ASSUME Inv, Abort
  PROVE  Inv'
<1>1. /\ tx # NoTransaction /\ tx' = NoTransaction /\ marked' = marked
      /\ account' = [account EXCEPT ![tx.hash] = tx.before]
      /\ tx \in Transaction /\ tx.hash \in Hashes /\ tx.before \in Account
      /\ account \in [Hashes -> Account] /\ InProgress
  BY DEF Abort, Inv, TypeOK, Transaction
<1>2. /\ account' \in [Hashes -> Account] /\ account'[tx.hash] = tx.before
      /\ \A h \in Hashes \ {tx.hash} : account'[h] = account[h]
  BY <1>1
<1>3. TypeOK'
  BY <1>1, <1>2 DEF Inv, TypeOK
<1>4. \A h \in Hashes : Settled(h)'
  BY <1>1, <1>2 DEF Inv, InProgress, Settled, Untouched
<1> QED
  BY <1>1, <1>3, <1>4 DEF Inv

LEMMA InvHolds == Spec => []Inv
<1>1. Init => Inv
  BY DEF Init, Inv, TypeOK, Settled, Untouched, Account, NoAccount
<1>2. Inv /\ [Next]_vars => Inv'
  <2> SUFFICES ASSUME Inv, [Next]_vars PROVE Inv'
    OBVIOUS
  <2>1. CASE \E hash \in Hashes, gift \in Gifts : Send(hash, gift)
    BY <2>1, SendStep
  <2>2. CASE \E hash \in Hashes, funds \in Funds, gift \in Gifts :
               Begin(hash, funds, gift)
    BY <2>2, BeginStep
  <2>3. CASE CreateAccount
    BY <2>3, CreateStep
  <2>4. CASE TopUp
    BY <2>4, TopUpStep
  <2>5. CASE Allocate
    BY <2>5, AllocateStep
  <2>6. CASE Assign
    BY <2>6, AssignStep
  <2>7. CASE Write
    BY <2>7, WriteStep
  <2>8. CASE Commit
    BY <2>8, CommitStep
  <2>9. CASE Abort
    BY <2>9, AbortStep
  <2>10. CASE UNCHANGED vars
    BY <2>10 DEF vars, Inv, TypeOK, Settled, InProgress, missing, Untouched
  <2> QED
    BY <2>1, <2>2, <2>3, <2>4, <2>5, <2>6, <2>7, <2>8, <2>9, <2>10
       DEF Next, Refuse
<1> QED
  BY <1>1, <1>2, PTL DEF Spec

-----------------------------------------------------------------------------
\* A hash is marked at most once, and is_transfer_spec_hash_used says of
\* exactly the marked ones that they are used, whatever was sent to their
\* addresses and whichever transactions have failed.
THEOREM HashesAreMarkedOnce == Spec => []MarkedOnce
<1>1. Inv => MarkedOnce
  <2> SUFFICES ASSUME Inv, NEW hash \in Hashes
               PROVE  /\ marked[hash] <= 1
                      /\ tx = NoTransaction =>
                           (marked[hash] = 1
                              <=> IsTransferSpecHashUsed(account[hash]))
    BY DEF MarkedOnce
  <2>1. CASE tx = NoTransaction
    BY <2>1, UsedIsMarked DEF Inv, Settled, Untouched
  <2>2. CASE tx # NoTransaction
    BY <2>2 DEF Inv, InProgress, Settled
  <2> QED
    BY <2>1, <2>2
<1> QED
  BY <1>1, InvHolds, PTL

\* No lamports sent to an address keep its hash from being marked: whoever can
\* pay what is missing of the rent can, and pays no more.
THEOREM OnlyRentIsNeeded == Spec => []CreationNeedsOnlyRent
<1>1. Inv => CreationNeedsOnlyRent
  <2> SUFFICES ASSUME Inv, tx.step \in {"Failed", "Done"}
               PROVE  /\ tx.step = "Failed" => tx.funds < missing
                      /\ tx.step = "Done" => tx.paid = missing
    BY DEF CreationNeedsOnlyRent, missing
  <2>1. InProgress
    BY Running DEF Steps
  <2> QED
    BY <2>1 DEF InProgress
<1> QED
  BY <1>1, InvHolds, PTL
=============================================================================
