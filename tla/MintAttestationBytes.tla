------------------------ MODULE MintAttestationBytes ------------------------
(***************************************************************************)
(* MintAttestation (attestation.rs), the iterator over the bytes of an     *)
(* attestation set, with the loop of gateway_mint that drives it and takes *)
(* three accounts for each element, and the encoder whose bytes            *)
(* gateway_mint_with_params feeds to the same loop.                        *)
(*                                                                         *)
(* A message is its length and its u32 words.  The words of a message from *)
(* outside are arbitrary: a word is chosen when it is first read, and stays*)
(* (next() reads the length of an element's hook data a second time to get *)
(* past the element).  The other fields lie in front of the word that ends *)
(* an element's fixed part, and are within the data if it is.              *)
(***************************************************************************)
EXTENDS Integers, Sequences, Functions

CONSTANTS
  U32Max,          \* the largest u32
  Lengths,         \* lengths of messages from outside
  Words,           \* u32 words in them
  AccountCounts,   \* numbers of accounts passed with them
  Structs          \* hook data lengths of the sets to encode

NUM_ATTESTATIONS_OFFSET == 84
ATTESTATIONS_OFFSET == 88
HOOK_DATA_LENGTH_OFFSET == 104
HOOK_DATA_OFFSET == 108

U32 == 0 .. U32Max
AsU32(n) == n % (U32Max + 1)

ASSUME InputsAssumption ==
  /\ U32Max \in Nat
  /\ Lengths \subseteq Nat
  /\ Words \subseteq U32
  /\ AccountCounts \subseteq Nat
  /\ Structs \subseteq Seq(U32) \ {<<>>}
  /\ \A hooks \in Structs : Len(hooks) <= U32Max

VARIABLES
  stage,           \* what comes next, or how the instruction has ended
  len,             \* data.len()
  words,           \* the words of the message that are known, by offset
  accounts,        \* remaining_accounts.len()
  num_elements,    \* the fields of MintAttestation
  offset,
  index,
  account_index,   \* of gateway_mint
  shown,           \* history: where each element shown starts, and its size
  sent             \* history: what was encoded, <<>> for other messages

vars == <<stage, len, words, accounts, num_elements, offset, index,
          account_index, shown, sent>>

message == <<len, words, accounts, sent>>
parser == <<num_elements, offset, index, account_index, shown>>

\* Rejected: the parser returns an error.  Failed: something else does.
\* OutOfBounds: a slice, an index or a subtraction would panic.
Ended == {"Idle", "Done", "Rejected", "Failed", "OutOfBounds"}
Stages == Ended \cup {"New", "Header", "Next", "Element"}

-----------------------------------------------------------------------------
(* The message. *)

ElementSize(hook_data_length) == HOOK_DATA_OFFSET + hook_data_length

StartOf(hooks, i) ==
  LET size == [k \in DOMAIN hooks |-> ElementSize(hooks[k])]
  IN  ATTESTATIONS_OFFSET + SumFunctionOnSet(size, 1 .. i - 1)

\* encode_attestation.
EncodedLength(hooks) == StartOf(hooks, Len(hooks) + 1)

EncodedWords(hooks) ==
  LET HookLengthAt(i) == StartOf(hooks, i) + HOOK_DATA_LENGTH_OFFSET
      Offsets == {HookLengthAt(i) : i \in 1 .. Len(hooks)}
  IN  [o \in Offsets \cup {NUM_ATTESTATIONS_OFFSET} |->
         IF o = NUM_ATTESTATIONS_OFFSET THEN AsU32(Len(hooks))
         ELSE AsU32(hooks[CHOOSE i \in 1 .. Len(hooks) : HookLengthAt(i) = o])]

\* read_u32.
WordsAt(o) == IF o \in DOMAIN words THEN {words[o]} ELSE Words

ReadWord(o, word) ==
  words' = [p \in DOMAIN words \cup {o} |-> IF p = o THEN word ELSE words[p]]

Receive(n, count) ==
  /\ stage \in Ended
  /\ stage' = "New"
  /\ len' = n /\ accounts' = count
  /\ words' = [o \in {} |-> 0]
  /\ sent' = <<>>
  /\ account_index' = 0
  /\ shown' = <<>>
  /\ UNCHANGED <<num_elements, offset, index>>

\* gateway_mint_with_params: the number of accounts is checked, and no bytes
\* are read from outside.
Reconstruct(hooks) ==
  /\ stage \in Ended
  /\ stage' = "New"
  /\ len' = EncodedLength(hooks) /\ accounts' = Len(hooks) * 3
  /\ words' = EncodedWords(hooks)
  /\ sent' = hooks
  /\ account_index' = 0
  /\ shown' = <<>>
  /\ UNCHANGED <<num_elements, offset, index>>

-----------------------------------------------------------------------------
(* The parser and the loop. *)

\* The instruction ends with an error.
End(how) == stage' = how /\ UNCHANGED <<message, parser>>

\* MintAttestation::new: an error for a short message, another magic number
\* or an empty set.
New ==
  /\ stage = "New"
  /\ \/ /\ len < ATTESTATIONS_OFFSET + HOOK_DATA_OFFSET
        /\ End("Rejected")
     \/ /\ sent = <<>>
        /\ End("Rejected")
     \/ /\ len >= ATTESTATIONS_OFFSET + HOOK_DATA_OFFSET
        /\ \E num \in WordsAt(NUM_ATTESTATIONS_OFFSET) :
             /\ ReadWord(NUM_ATTESTATIONS_OFFSET, num)
             /\ num_elements' = num
             /\ stage' = IF num > 0 THEN "Header" ELSE "Rejected"
        /\ offset' = ATTESTATIONS_OFFSET
        /\ index' = 0
        /\ UNCHANGED <<len, accounts, sent, account_index, shown>>

WrappedAccountsNeeded(num) == AsU32(num * 3)

\* A u32 product; one that does not fit u32 is an error.
AccountsNeeded(num) == num * 3

\* The rest of the header is no concern of the parser, and may be refused.
Header ==
  /\ stage = "Header"
  /\ \/ /\ AccountsNeeded(num_elements) <= U32Max
        /\ accounts = AccountsNeeded(num_elements)
        /\ stage' = "Next"
        /\ UNCHANGED <<message, parser>>
     \/ End("Failed")

RestartedElement ==
  IF index > 0
  THEN ATTESTATIONS_OFFSET
         + ElementSize(words[offset + HOOK_DATA_LENGTH_OFFSET])
  ELSE offset

\* The first call stays at the first element, the others advance by the size
\* of the element before.
NextElement ==
  IF index > 0
  THEN offset + ElementSize(words[offset + HOOK_DATA_LENGTH_OFFSET])
  ELSE offset

AnyEnd(size) == TRUE

\* The last element has no extraneous bytes after it.
EndsWithData(size) ==
  index + 1 = num_elements => NextElement + size = len

\* MintAttestation::next.
Next ==
  LET remaining == len - NextElement IN
  /\ stage = "Next"
  /\ index < num_elements
  /\ offset' = NextElement
  /\ index' = index + 1
  /\ \/ /\ remaining < 0
        /\ stage' = "OutOfBounds"
        /\ UNCHANGED <<words, shown>>
     \/ /\ remaining \in 0 .. HOOK_DATA_OFFSET - 1
        /\ stage' = "Rejected"
        /\ UNCHANGED <<words, shown>>
     \/ /\ remaining >= HOOK_DATA_OFFSET
        /\ \E h \in WordsAt(NextElement + HOOK_DATA_LENGTH_OFFSET) :
             /\ ReadWord(NextElement + HOOK_DATA_LENGTH_OFFSET, h)
             /\ \/ /\ remaining >= ElementSize(h)
                   /\ EndsWithData(ElementSize(h))
                   /\ stage' = "Element"
                   /\ shown' = Append(shown, [start |-> NextElement,
                                              size |-> ElementSize(h)])
                \/ /\ remaining < ElementSize(h) \/ ~ EndsWithData(ElementSize(h))
                   /\ stage' = "Rejected"
                   /\ UNCHANGED shown
  /\ UNCHANGED <<len, accounts, sent, num_elements, account_index>>

\* The element's fields and its three accounts are read; the checks on them
\* may fail.
Element ==
  /\ stage = "Element"
  /\ \/ /\ account_index + 2 >= accounts \/ offset + HOOK_DATA_OFFSET > len
        /\ End("OutOfBounds")
     \/ /\ account_index + 2 < accounts /\ offset + HOOK_DATA_OFFSET <= len
        /\ account_index' = account_index + 3
        /\ stage' = "Next"
        /\ UNCHANGED <<message, num_elements, offset, index, shown>>
     \/ End("Failed")

\* next() returns false, and no account is left over.
Finish ==
  /\ stage = "Next"
  /\ index >= num_elements
  /\ End(IF account_index = accounts THEN "Done" ELSE "Failed")

-----------------------------------------------------------------------------
Init ==
  /\ stage = "Idle"
  /\ len = 0 /\ words = [o \in {} |-> 0] /\ accounts = 0 /\ sent = <<>>
  /\ num_elements = 0 /\ offset = 0 /\ index = 0
  /\ account_index = 0 /\ shown = <<>>

Step ==
  \/ \E n \in Lengths, count \in AccountCounts : Receive(n, count)
  \/ \E hooks \in Structs : Reconstruct(hooks)
  \/ New \/ Header \/ Next \/ Element \/ Finish

Spec == Init /\ [][Step]_vars

-----------------------------------------------------------------------------
(* Properties. *)

\* Whatever the bytes and however many accounts: no field is read outside the
\* data, no remaining length goes below zero, no account beyond those passed
\* is used (next and gateway_mint, which index and subtract unchecked).
NeverOutOfBounds == stage # "OutOfBounds"

\* The elements tile the message behind its header, in order, in the number it
\* names, each as long as it says.
Tiles ==
  /\ Len(shown) = words[NUM_ATTESTATIONS_OFFSET]
  /\ shown # <<>>
  /\ shown[1].start = ATTESTATIONS_OFFSET
  /\ \A i \in 1 .. Len(shown) - 1 :
       shown[i + 1].start = shown[i].start + shown[i].size
  /\ \A i \in 1 .. Len(shown) :
       shown[i].size
         = ElementSize(words[shown[i].start + HOOK_DATA_LENGTH_OFFSET])
  /\ shown[Len(shown)].start + shown[Len(shown)].size = len

\* A message that gateway_mint gets through is an encoding of exactly the
\* elements it has minted: every byte the attester signed belongs to one of
\* them, and each has had three accounts of its own.
AcceptedIsEncoding ==
  stage = "Done" => Tiles /\ accounts = 3 * Len(shown)

\* The parser takes what the encoder has made, and shows its elements.
EncodedIsShown ==
  sent # <<>> =>
    /\ stage # "Rejected"
    /\ \A i \in 1 .. Len(shown) : shown[i].size = ElementSize(sent[i])
    /\ stage = "Done" => Len(shown) = Len(sent)
=============================================================================
