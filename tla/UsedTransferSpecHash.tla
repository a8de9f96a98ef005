------------------------ MODULE UsedTransferSpecHash ------------------------
(***************************************************************************)
(* create_used_transfer_spec_hash_account of the shared crate: how the     *)
(* account that marks a transfer spec hash as used comes into being at its *)
(* address, call by call, within a transaction that may still fail.  Both  *)
(* programs call it after is_transfer_spec_hash_used has said no.          *)
(*                                                                         *)
(* Anybody can send lamports to the address before, in a transaction of    *)
(* their own or earlier in this one.  The system program and the runtime   *)
(* are external: what they require of an account is written down here.     *)
(***************************************************************************)
EXTENDS Integers, Sequences

CONSTANTS
  Hashes,
  AccountOverhead,   \* bytes that rent is due for besides the data
  RentPerByte,
  Funds,             \* lamports a payer may have
  Gifts,             \* lamports sent to an address
  MaxLamports        \* bound: nobody sends an address more in all

DISCRIMINATOR_SIZE == 2
Discriminator == <<11, 1>>   \* the minter's; <<21, 4>> in the wallet
Zeroed == <<0, 0>>

USED_TRANSFER_SPEC_HASH_ACCOUNT_SPACE == DISCRIMINATOR_SIZE

ASSUME InputsAssumption ==
  /\ AccountOverhead \in Nat \ {0}
  /\ RentPerByte \in Nat \ {0}
  /\ Funds \subseteq Nat
  /\ Gifts \subseteq Nat
  /\ MaxLamports \in Nat

\* A missing account is one of the system program without lamports.
Account == [lamports : Nat, owner : {"System", "Program"},
            data : {<<>>, Zeroed, Discriminator}]
NoAccount == [lamports |-> 0, owner |-> "System", data |-> <<>>]

VARIABLES
  account,    \* hash -> the account at its address
  tx,         \* the transaction that creates one, or NoTransaction
  marked      \* history: hash -> how often a transaction has marked it

vars == <<account, tx, marked>>

NoTransaction == [step |-> "None"]
Steps == {"Create", "TopUp", "Allocate", "Assign", "Write", "Done", "Failed"}
Transaction ==
  [step : Steps, hash : Hashes, found : Account, funds : Nat, paid : Nat,
   before : Account]

-----------------------------------------------------------------------------
MinimumBalance(size) == (AccountOverhead + size) * RentPerByte

RentExempt(a) == a.lamports = 0 \/ a.lamports >= MinimumBalance(Len(a.data))

IsTransferSpecHashUsed(a) ==
  /\ Len(a.data) >= DISCRIMINATOR_SIZE
  /\ SubSeq(a.data, 1, DISCRIMINATOR_SIZE) = Discriminator

required_rent == MinimumBalance(USED_TRANSFER_SPEC_HASH_ACCOUNT_SPACE)

\* A transfer by somebody else, in its own transaction.
Send(hash, gift) ==
  LET funded == [account[hash] EXCEPT !.lamports = @ + gift] IN
  /\ tx = NoTransaction
  /\ gift > 0
  /\ funded.lamports <= MaxLamports
  /\ RentExempt(funded)
  /\ account' = [account EXCEPT ![hash] = funded]
  /\ UNCHANGED <<tx, marked>>

AlwaysCreated(lamports) == "Create"

\* current_lamports decides how the account is made.
FirstStep(lamports) ==
  CASE lamports = 0 -> "Create"
    [] lamports \in 1 .. required_rent - 1 -> "TopUp"
    [] OTHER -> "Allocate"

\* The transaction has come to the account, perhaps after sending it lamports.
Begin(hash, funds, gift) ==
  LET found == [account[hash] EXCEPT !.lamports = @ + gift] IN
  /\ tx = NoTransaction
  /\ found.lamports <= MaxLamports
  /\ ~ IsTransferSpecHashUsed(found)
  /\ account' = [account EXCEPT ![hash] = found]
  /\ tx' = [step |-> FirstStep(found.lamports), hash |-> hash,
            found |-> found, funds |-> funds, paid |-> 0,
            before |-> account[hash]]
  /\ UNCHANGED marked

\* A used hash is an error.
Refuse(hash) ==
  /\ tx = NoTransaction
  /\ IsTransferSpecHashUsed(account[hash])
  /\ UNCHANGED vars

\* A call of the system program or the runtime: it does what it is asked,
\* or fails.
Call(step, permitted, changed, paid, next) ==
  LET succeeds == permitted /\ tx.funds - tx.paid >= paid IN
  /\ tx.step = step
  /\ account' = IF succeeds THEN [account EXCEPT ![tx.hash] = changed]
                ELSE account
  /\ tx' = IF succeeds
           THEN [tx EXCEPT !.step = next, !.paid = @ + paid]
           ELSE [tx EXCEPT !.step = "Failed"]
  /\ UNCHANGED marked

\* The system program gives space, or an owner, only to an account of its own
\* without data; it creates one only where there are no lamports.
Allocatable(a) == a.owner = "System" /\ a.data = <<>>

CreateAccount ==
  LET a == account[tx.hash] IN
  Call("Create", a.lamports = 0 /\ Allocatable(a),
       [lamports |-> required_rent, owner |-> "Program", data |-> Zeroed],
       required_rent, "Write")

TopUp ==
  LET a == account[tx.hash]
      missing == required_rent - a.lamports
  IN  Call("TopUp", TRUE, [a EXCEPT !.lamports = @ + missing], missing,
           "Allocate")

Allocate ==
  LET a == account[tx.hash] IN
  Call("Allocate", Allocatable(a), [a EXCEPT !.data = Zeroed], 0, "Assign")

Assign ==
  LET a == account[tx.hash] IN
  Call("Assign", a.owner = "System", [a EXCEPT !.owner = "Program"], 0, "Write")

LeftBlank(data) == data

Marked(data) == Discriminator

\* The discriminator is written to an account of the program.
Write ==
  LET a == account[tx.hash] IN
  Call("Write", a.owner = "Program" /\ Len(a.data) >= DISCRIMINATOR_SIZE,
       [a EXCEPT !.data = Marked(@)], 0, "Done")

\* The rest of the transaction succeeds, and the runtime accepts the account.
Commit ==
  LET accepted == RentExempt(account[tx.hash]) IN
  /\ tx.step = "Done"
  /\ tx' = IF accepted THEN NoTransaction ELSE [tx EXCEPT !.step = "Failed"]
  /\ marked' = IF accepted THEN [marked EXCEPT ![tx.hash] = @ + 1] ELSE marked
  /\ UNCHANGED account

\* The transaction fails, here or elsewhere.
Abort ==
  /\ tx # NoTransaction
  /\ account' = [account EXCEPT ![tx.hash] = tx.before]
  /\ tx' = NoTransaction
  /\ UNCHANGED marked

Init ==
  /\ account = [h \in Hashes |-> NoAccount]
  /\ tx = NoTransaction
  /\ marked = [h \in Hashes |-> 0]

Next ==
  \/ \E hash \in Hashes, gift \in Gifts : Send(hash, gift)
  \/ \E hash \in Hashes, funds \in Funds, gift \in Gifts :
       Begin(hash, funds, gift)
  \/ \E hash \in Hashes : Refuse(hash)
  \/ CreateAccount \/ TopUp \/ Allocate \/ Assign \/ Write
  \/ Commit \/ Abort

Spec == Init /\ [][Next]_vars

-----------------------------------------------------------------------------
(* Properties. *)

TypeOK ==
  /\ account \in [Hashes -> Account]
  /\ tx \in Transaction \cup {NoTransaction}
  /\ marked \in [Hashes -> Nat]

\* Whatever was sent to the address before, and whatever has failed: a hash is
\* marked at most once, and between transactions is_transfer_spec_hash_used
\* says of exactly the marked ones that they are used.
MarkedOnce ==
  \A hash \in Hashes :
    /\ marked[hash] <= 1
    /\ tx = NoTransaction =>
         (marked[hash] = 1 <=> IsTransferSpecHashUsed(account[hash]))

\* Nobody can keep a hash from being marked, and so a burn or a mint from going
\* through, by sending lamports to its address: the creation fails only if the
\* payer cannot pay what is missing of the rent, and costs no more than that.
CreationNeedsOnlyRent ==
  LET missing == IF tx.found.lamports < required_rent
                 THEN required_rent - tx.found.lamports ELSE 0
  IN  /\ tx.step = "Failed" => tx.funds < missing
      /\ tx.step = "Done" => tx.paid = missing
=============================================================================
