----------------------- MODULE MintAttestationProofs -----------------------
(***************************************************************************)
(* For messages of any length, with any words in them and any number of    *)
(* accounts: the parser and the loop of gateway_mint stay within the data  *)
(* and the accounts, and what they get through is an encoding.             *)
(*                                                                         *)
(* The inductive invariant says, while elements are shown, that those seen *)
(* so far tile the message up to the end of the current one, and that three*)
(* accounts per element are used.                                          *)
(***************************************************************************)
EXTENDS MintAttestationBytes, CollectionLemmas

USE InputsAssumption DEF NUM_ATTESTATIONS_OFFSET, ATTESTATIONS_OFFSET,
                         HOOK_DATA_LENGTH_OFFSET, HOOK_DATA_OFFSET

TypeOK ==
  /\ stage \in Stages
  /\ len \in Nat /\ accounts \in Nat
  /\ num_elements \in Nat /\ offset \in Nat /\ index \in Nat
  /\ account_index \in Nat
  /\ \A o \in DOMAIN words : words[o] \in Nat
  /\ shown \in Seq([start : Nat, size : Nat])

\* Before the first element.
AtStart ==
  /\ stage = "New" => shown = <<>> /\ account_index = 0
  /\ stage = "Header" =>
       /\ shown = <<>> /\ account_index = 0
       /\ index = 0 /\ offset = ATTESTATIONS_OFFSET /\ offset <= len
       /\ num_elements > 0

\* The number of elements is a word of the message.
NumberKnown ==
  stage \in {"Header", "Next", "Element"} =>
    /\ NUM_ATTESTATIONS_OFFSET \in DOMAIN words
    /\ words[NUM_ATTESTATIONS_OFFSET] = num_elements

Counts ==
  stage \in {"Next", "Element"} =>
    /\ num_elements > 0
    /\ accounts = 3 * num_elements
    /\ index <= num_elements
    /\ Len(shown) = index
    /\ account_index = IF stage = "Next" THEN 3 * index ELSE 3 * (index - 1)
    /\ stage = "Element" => index > 0

\* An element that was shown is as long as it says, and within the data.
Sized(i) ==
  LET o == shown[i].start + HOOK_DATA_LENGTH_OFFSET IN
  /\ o \in DOMAIN words
  /\ shown[i].size = ElementSize(words[o])
  /\ shown[i].start + shown[i].size <= len

Adjacent(i) == shown[i + 1].start = shown[i].start + shown[i].size

Tiled ==
  stage \in {"Next", "Element"} =>
    /\ index = 0 => offset = ATTESTATIONS_OFFSET /\ offset <= len
    /\ index > 0 => /\ shown[1].start = ATTESTATIONS_OFFSET
                    /\ shown[index].start = offset
    /\ \A i \in 1 .. index : Sized(i)
    /\ \A i \in 1 .. index - 1 : Adjacent(i)
    /\ index = num_elements =>
         shown[index].start + shown[index].size = len

\* The words and the length that the encoder has given the message.
IsEncoded ==
  /\ sent \in Structs
  /\ len = EncodedLength(sent)
  /\ NUM_ATTESTATIONS_OFFSET \in DOMAIN words
  /\ words[NUM_ATTESTATIONS_OFFSET] = Len(sent)
  /\ \A i \in 1 .. Len(sent) :
       LET o == StartOf(sent, i) + HOOK_DATA_LENGTH_OFFSET IN
       o \in DOMAIN words /\ words[o] = sent[i]

ShownAsEncoded ==
  /\ Len(shown) <= Len(sent)
  /\ \A i \in 1 .. Len(shown) :
       shown[i] = [start |-> StartOf(sent, i), size |-> ElementSize(sent[i])]

Encoded ==
  sent # <<>> => IsEncoded /\ ShownAsEncoded /\ stage # "Rejected"

IInv ==
  /\ TypeOK
  /\ AtStart
  /\ NumberKnown
  /\ Counts
  /\ Tiled
  /\ NeverOutOfBounds
  /\ AcceptedIsEncoding
  /\ Encoded

-----------------------------------------------------------------------------
(* The encoding. *)

LEMMA SmallWord ==
  ASSUME NEW n \in U32
  PROVE  AsU32(n) = n
BY DEF U32, AsU32

LEMMA StructsType ==
  ASSUME NEW hooks \in Structs
  PROVE  /\ Len(hooks) \in 1 .. U32Max
         /\ DOMAIN hooks = 1 .. Len(hooks)
         /\ \A i \in 1 .. Len(hooks) : hooks[i] \in U32 /\ hooks[i] \in Nat
<1>1. hooks \in Seq(U32) /\ hooks # <<>>
  OBVIOUS
<1> QED
  BY <1>1 DEF U32

\* The first element follows the header, each other one the one before.
LEMMA StartUnfolds ==
  ASSUME NEW hooks \in Structs, NEW i \in 1 .. Len(hooks)
  PROVE  /\ StartOf(hooks, 1) = ATTESTATIONS_OFFSET
         /\ StartOf(hooks, i) \in Nat
         /\ StartOf(hooks, i + 1) = StartOf(hooks, i) + ElementSize(hooks[i])
<1> DEFINE size == [k \in DOMAIN hooks |-> ElementSize(hooks[k])]
<1>1. /\ \A k \in 1 .. i : size[k] \in Nat
      /\ size[i] = ElementSize(hooks[i])
      /\ \A n : StartOf(hooks, n)
                  = ATTESTATIONS_OFFSET + SumFunctionOnSet(size, 1 .. n - 1)
  BY StructsType DEF StartOf, ElementSize
<1> HIDE DEF size
<1>2. IsFiniteSet(1 .. i) /\ IsFiniteSet(1 .. i - 1)
  BY FS_Interval
<1>3. SumFunctionOnSet(size, 1 .. i)
        = size[i] + SumFunctionOnSet(size, (1 .. i) \ {i})
  <2>1. i \in 1 .. i /\ \A k \in 1 .. i : size[k] \in Int
    BY <1>1
  <2> QED
    BY <1>2, <2>1, SumRemoves
<1>4. (1 .. i) \ {i} = 1 .. i - 1 /\ i + 1 - 1 = i
  OBVIOUS
<1>5. SumFunctionOnSet(size, 1 .. i - 1) \in Nat
  BY <1>1, <1>2, SumOfNaturals
<1>6. SumFunctionOnSet(size, 1 .. i)
        = size[i] + SumFunctionOnSet(size, 1 .. i - 1)
  BY <1>3, <1>4
<1>7. StartOf(hooks, i + 1)
        = ATTESTATIONS_OFFSET + SumFunctionOnSet(size, 1 .. i)
  BY <1>1, <1>4
<1>8. StartOf(hooks, i)
        = ATTESTATIONS_OFFSET + SumFunctionOnSet(size, 1 .. i - 1)
  BY <1>1
<1>9. StartOf(hooks, 1) = ATTESTATIONS_OFFSET
  <2>1. 1 .. 1 - 1 = {}
    OBVIOUS
  <2>2. StartOf(hooks, 1) = ATTESTATIONS_OFFSET + SumFunctionOnSet(size, {})
    BY <1>1, <2>1
  <2> QED
    BY <2>2, SumOfNothing
<1>10. size[i] \in Nat
  BY <1>1
<1> QED
  BY <1>1, <1>5, <1>6, <1>7, <1>8, <1>9, <1>10

\* An element ends before any later one starts.
LEMMA StartsInOrder ==
  ASSUME NEW hooks \in Structs, NEW i \in 1 .. Len(hooks),
         NEW j \in i + 1 .. Len(hooks) + 1
  PROVE  /\ StartOf(hooks, j) \in Nat
         /\ StartOf(hooks, i) + ElementSize(hooks[i]) <= StartOf(hooks, j)
<1> DEFINE end == StartOf(hooks, i) + ElementSize(hooks[i])
           G == {n \in Nat : i + 1 + n <= Len(hooks) + 1 =>
                               /\ StartOf(hooks, i + 1 + n) \in Nat
                               /\ end <= StartOf(hooks, i + 1 + n)}
<1>0. end \in Nat /\ end = StartOf(hooks, i + 1) /\ Len(hooks) \in Nat
  BY StartUnfolds, StructsType DEF ElementSize
<1> HIDE DEF end
<1>1. 0 \in G
  BY <1>0
<1>2. ASSUME NEW n \in Nat, n \in G, i + 1 + (n + 1) <= Len(hooks) + 1
      PROVE  /\ StartOf(hooks, i + 1 + (n + 1)) \in Nat
             /\ end <= StartOf(hooks, i + 1 + (n + 1))
  <2> DEFINE k == i + 1 + n
  <2>1. k \in 1 .. Len(hooks) /\ k + 1 = i + 1 + (n + 1)
    BY <1>0, <1>2
  <2>2. StartOf(hooks, k) \in Nat /\ end <= StartOf(hooks, k)
    BY <1>0, <1>2
  <2> HIDE DEF k
  <2>3. /\ StartOf(hooks, k + 1) = StartOf(hooks, k) + ElementSize(hooks[k])
        /\ ElementSize(hooks[k]) \in Nat
    BY <2>1, StartUnfolds, StructsType DEF ElementSize
  <2> QED
    BY <1>0, <2>1, <2>2, <2>3
<1>3. \A n \in Nat : n \in G
  <2>1. \A n \in Nat : n \in G => n + 1 \in G
    BY <1>2
  <2> HIDE DEF G
  <2> QED
    BY <1>1, <2>1, NatSetInduction
<1>4. j - (i + 1) \in Nat /\ i + 1 + (j - (i + 1)) = j /\ j <= Len(hooks) + 1
  BY <1>0
<1> QED
  BY <1>0, <1>3, <1>4 DEF end

\* What the encoder writes at the offsets that the parser reads.
LEMMA EncodedWordsAre ==
  ASSUME NEW hooks \in Structs
  PROVE  LET w == EncodedWords(hooks) IN
         /\ \A o \in DOMAIN w : w[o] \in Nat
         /\ NUM_ATTESTATIONS_OFFSET \in DOMAIN w
         /\ w[NUM_ATTESTATIONS_OFFSET] = Len(hooks)
         /\ \A i \in 1 .. Len(hooks) :
              LET o == StartOf(hooks, i) + HOOK_DATA_LENGTH_OFFSET IN
              o \in DOMAIN w /\ w[o] = hooks[i]
<1> DEFINE At(i) == StartOf(hooks, i) + HOOK_DATA_LENGTH_OFFSET
           w == EncodedWords(hooks)
           Offsets == {At(i) : i \in 1 .. Len(hooks)}
           Of(o) == CHOOSE i \in 1 .. Len(hooks) : At(i) = o
<1>1. w = [o \in Offsets \cup {NUM_ATTESTATIONS_OFFSET} |->
             IF o = NUM_ATTESTATIONS_OFFSET THEN AsU32(Len(hooks))
             ELSE AsU32(hooks[Of(o)])]
  BY Zenon DEF EncodedWords
<1>2. \A i \in 1 .. Len(hooks) :
        At(i) \in Nat /\ At(i) # NUM_ATTESTATIONS_OFFSET
  <2> SUFFICES ASSUME NEW i \in 1 .. Len(hooks)
               PROVE  StartOf(hooks, i) \in Nat /\ StartOf(hooks, i) >= ATTESTATIONS_OFFSET
    OBVIOUS
  <2>1. CASE i = 1
    BY <2>1, StartUnfolds
  <2>2. CASE i # 1
    <3>1. 1 \in 1 .. Len(hooks) /\ i \in 1 + 1 .. Len(hooks) + 1
      BY <2>2, StructsType
    <3>2. hooks[1] \in Nat
      BY <3>1, StructsType
    <3> QED
      BY <3>1, <3>2, StartUnfolds, StartsInOrder DEF ElementSize
  <2> QED
    BY <2>1, <2>2
<1>3. \A i, j \in 1 .. Len(hooks) : At(i) = At(j) => i = j
  <2>1. ASSUME NEW i \in 1 .. Len(hooks), NEW j \in 1 .. Len(hooks), i < j
        PROVE  At(i) < At(j)
    <3>1. j \in i + 1 .. Len(hooks) + 1 /\ hooks[i] \in Nat
      BY <2>1, StructsType
    <3> QED
      BY <3>1, StartUnfolds, StartsInOrder DEF ElementSize
  <2> HIDE DEF At
  <2>2. ASSUME NEW i \in 1 .. Len(hooks), NEW j \in 1 .. Len(hooks), At(i) = At(j)
        PROVE  i = j
    BY <1>2, <2>1, <2>2
  <2> QED
    BY <2>2
<1>4. \A i \in 1 .. Len(hooks) : Of(At(i)) = i
  <2> HIDE DEF At
  <2> QED
    BY <1>3
<1> HIDE DEF At, w
<1>5. \A i \in 1 .. Len(hooks) : At(i) \in DOMAIN w /\ w[At(i)] = hooks[i]
  <2> SUFFICES ASSUME NEW i \in 1 .. Len(hooks)
               PROVE  At(i) \in DOMAIN w /\ w[At(i)] = hooks[i]
    OBVIOUS
  <2>1. hooks[i] \in U32
    BY StructsType
  <2>2. At(i) \in DOMAIN w
    BY <1>1
  <2>3. w[At(i)] = AsU32(hooks[Of(At(i))])
    <3> HIDE DEF Of
    <3> QED
      BY <1>1, <1>2
  <2> QED
    BY <1>4, <2>1, <2>2, <2>3, SmallWord
<1>6. NUM_ATTESTATIONS_OFFSET \in DOMAIN w /\ w[NUM_ATTESTATIONS_OFFSET] = Len(hooks)
  <2>1. Len(hooks) \in U32
    BY StructsType DEF U32
  <2> QED
    BY <1>1, <2>1, SmallWord
<1>7. ASSUME NEW o \in DOMAIN w PROVE w[o] \in Nat
  <2>1. CASE o = NUM_ATTESTATIONS_OFFSET
    BY <1>6, <2>1, StructsType
  <2>2. CASE o # NUM_ATTESTATIONS_OFFSET
    <3>1. PICK i \in 1 .. Len(hooks) : o = At(i)
      BY <1>1, <2>2
    <3> QED
      BY <1>5, <3>1, StructsType
  <2> QED
    BY <2>1, <2>2
<1> QED
  BY <1>5, <1>6, <1>7 DEF At, w

-----------------------------------------------------------------------------
(* The steps. *)

LEMMA ReadWordKeeps ==
  ASSUME TypeOK, NEW o, NEW word \in WordsAt(o), ReadWord(o, word)
  PROVE  /\ word \in Nat
         /\ o \in DOMAIN words' /\ words'[o] = word
         /\ \A p \in DOMAIN words : p \in DOMAIN words' /\ words'[p] = words[p]
         /\ \A p \in DOMAIN words' : words'[p] \in Nat
<1>1. word \in Nat /\ (o \in DOMAIN words => words[o] = word)
  <2>1. CASE o \in DOMAIN words
    BY <2>1 DEF TypeOK, WordsAt
  <2>2. CASE o \notin DOMAIN words
    <3>1. word \in U32
      BY <2>2 DEF WordsAt
    <3> QED
      BY <2>2, <3>1 DEF U32
  <2> QED
    BY <2>1, <2>2
<1> QED
  BY <1>1 DEF ReadWord, TypeOK

LEMMA InitHolds == Init => IInv
BY DEF Init, IInv, TypeOK, Stages, Ended, AtStart, NumberKnown, Counts, Tiled,
       NeverOutOfBounds, AcceptedIsEncoding, Encoded

\* A new message leaves nothing of the one before.
LEMMA ArrivalStep ==
  ASSUME IInv, stage' = "New", len' \in Nat, accounts' \in Nat,
         \A o \in DOMAIN words' : words'[o] \in Nat,
         account_index' = 0, shown' = <<>>,
         UNCHANGED <<num_elements, offset, index>>,
         (sent # <<>> => IsEncoded)'
  PROVE  IInv'
<1>1. TypeOK'
  BY DEF IInv, TypeOK, Stages, Ended
<1>2. AtStart' /\ NumberKnown' /\ Counts' /\ Tiled'
  BY DEF AtStart, NumberKnown, Counts, Tiled
<1>3. NeverOutOfBounds' /\ AcceptedIsEncoding'
  BY DEF NeverOutOfBounds, AcceptedIsEncoding
<1>4. Encoded'
  <2>1. (sent # <<>> => Len(sent) \in Nat)'
    BY StructsType DEF IsEncoded
  <2> QED
    BY <2>1 DEF Encoded, ShownAsEncoded
<1> QED
  BY <1>1, <1>2, <1>3, <1>4 DEF IInv

LEMMA ReceiveStep ==
  ASSUME IInv, NEW n \in Lengths, NEW count \in AccountCounts,
         Receive(n, count)
  PROVE  IInv'
BY ArrivalStep DEF Receive

LEMMA ReconstructStep ==
  ASSUME IInv, NEW hooks \in Structs, Reconstruct(hooks)
  PROVE  IInv'
<1>1. /\ len' = EncodedLength(hooks) /\ words' = EncodedWords(hooks)
      /\ sent' = hooks
  BY DEF Reconstruct
<1>2. /\ \A o \in DOMAIN words' : words'[o] \in Nat
      /\ (sent # <<>> => IsEncoded)'
  BY <1>1, EncodedWordsAre, Zenon DEF IsEncoded
<1>3. EncodedLength(hooks) \in Nat
  <2>1. 1 \in 1 .. Len(hooks) /\ Len(hooks) + 1 \in 1 + 1 .. Len(hooks) + 1
    BY StructsType
  <2> QED
    BY <2>1, StartsInOrder DEF EncodedLength
<1>4. Len(hooks) * 3 \in Nat
  BY StructsType
<1> QED
  BY <1>2, <1>3, <1>4, ArrivalStep DEF Reconstruct

\* An error ends the instruction; an encoded message is not rejected.
LEMMA ErrorStep ==
  ASSUME IInv, NEW how \in {"Rejected", "Failed"}, stage' = how,
         UNCHANGED <<len, accounts, sent, shown, account_index>>,
         num_elements' \in Nat, offset' \in Nat, index' \in Nat,
         \A p \in DOMAIN words : p \in DOMAIN words' /\ words'[p] = words[p],
         \A p \in DOMAIN words' : words'[p] \in Nat,
         sent # <<>> => how = "Failed"
  PROVE  IInv'
<1>1. TypeOK'
  BY DEF IInv, TypeOK, Stages, Ended
<1>2. AtStart' /\ NumberKnown' /\ Counts' /\ Tiled'
  BY DEF AtStart, NumberKnown, Counts, Tiled
<1>3. NeverOutOfBounds' /\ AcceptedIsEncoding'
  BY DEF NeverOutOfBounds, AcceptedIsEncoding
<1>4. Encoded'
  BY DEF IInv, Encoded, IsEncoded, ShownAsEncoded
<1> QED
  BY <1>1, <1>2, <1>3, <1>4 DEF IInv

\* An encoded message holds at least one element.
LEMMA EncodedIsLong ==
  ASSUME IsEncoded
  PROVE  len >= ATTESTATIONS_OFFSET + HOOK_DATA_OFFSET
<1>1. /\ sent \in Structs /\ 1 \in 1 .. Len(sent)
      /\ Len(sent) + 1 \in 1 + 1 .. Len(sent) + 1
      /\ sent[1] \in Nat
  BY StructsType DEF IsEncoded
<1>2. StartOf(sent, 1) + ElementSize(sent[1]) <= len /\ len \in Nat
  BY <1>1, StartsInOrder DEF IsEncoded, EncodedLength
<1> QED
  BY <1>1, <1>2, StartUnfolds DEF ElementSize

LEMMA NewStep ==
  ASSUME IInv, New
  PROVE  IInv'
<1>1. CASE /\ len < ATTESTATIONS_OFFSET + HOOK_DATA_OFFSET \/ sent = <<>>
           /\ UNCHANGED <<message, parser>> /\ stage' = "Rejected"
  <2>1. sent = <<>>
    <3>1. len \in Nat /\ (sent # <<>> => IsEncoded)
      BY DEF IInv, TypeOK, Encoded
    <3> QED
      BY <1>1, <3>1, EncodedIsLong
  <2> QED
    BY <1>1, <2>1, ErrorStep DEF message, parser, IInv, TypeOK
<1>2. CASE /\ len >= ATTESTATIONS_OFFSET + HOOK_DATA_OFFSET
           /\ \E num \in WordsAt(NUM_ATTESTATIONS_OFFSET) :
                /\ ReadWord(NUM_ATTESTATIONS_OFFSET, num)
                /\ num_elements' = num
                /\ stage' = IF num > 0 THEN "Header" ELSE "Rejected"
           /\ offset' = ATTESTATIONS_OFFSET
           /\ index' = 0
           /\ UNCHANGED <<len, accounts, sent, account_index, shown>>
  <2>1. PICK num \in WordsAt(NUM_ATTESTATIONS_OFFSET) :
          /\ ReadWord(NUM_ATTESTATIONS_OFFSET, num)
          /\ num_elements' = num
          /\ stage' = IF num > 0 THEN "Header" ELSE "Rejected"
    BY <1>2
  <2>2. /\ num \in Nat
        /\ NUM_ATTESTATIONS_OFFSET \in DOMAIN words'
        /\ words'[NUM_ATTESTATIONS_OFFSET] = num
        /\ \A p \in DOMAIN words : p \in DOMAIN words' /\ words'[p] = words[p]
        /\ \A p \in DOMAIN words' : words'[p] \in Nat
    BY <2>1, ReadWordKeeps DEF IInv
  <2>3. sent # <<>> => num > 0
    BY <2>2, StructsType DEF IInv, Encoded, IsEncoded
  <2>4. CASE num > 0
    <3>1. stage' = "Header" /\ stage = "New"
      BY <2>1, <2>4 DEF New
    <3>2. TypeOK'
      BY <1>2, <2>1, <2>2, <3>1 DEF IInv, TypeOK, Stages
    <3>3. AtStart' /\ NumberKnown' /\ Counts' /\ Tiled'
      BY <1>2, <2>1, <2>2, <2>4, <3>1
         DEF IInv, TypeOK, AtStart, NumberKnown, Counts, Tiled
    <3>4. NeverOutOfBounds' /\ AcceptedIsEncoding'
      BY <3>1 DEF NeverOutOfBounds, AcceptedIsEncoding
    <3>5. Encoded'
      BY <1>2, <2>2, <3>1 DEF IInv, Encoded, IsEncoded, ShownAsEncoded
    <3> QED
      BY <3>2, <3>3, <3>4, <3>5 DEF IInv
  <2>5. CASE ~ (num > 0)
    BY <1>2, <2>1, <2>2, <2>3, <2>5, ErrorStep
  <2> QED
    BY <2>4, <2>5
<1> QED
  BY <1>1, <1>2 DEF New, End

LEMMA HeaderStep ==
  ASSUME IInv, Header
  PROVE  IInv'
<1>0. stage = "Header"
  BY DEF Header
<1>1. CASE End("Failed")
  BY <1>1, ErrorStep DEF End, message, parser, IInv, TypeOK
<1>2. CASE /\ accounts = AccountsNeeded(num_elements)
           /\ stage' = "Next"
           /\ UNCHANGED <<message, parser>>
  <2>1. TypeOK'
    BY <1>2 DEF IInv, TypeOK, Stages, message, parser
  <2>2. AtStart' /\ NumberKnown' /\ Counts' /\ Tiled'
    BY <1>0, <1>2 DEF IInv, TypeOK, AtStart, NumberKnown, Counts, Tiled,
                      AccountsNeeded, message, parser
  <2>3. NeverOutOfBounds' /\ AcceptedIsEncoding'
    BY <1>2 DEF NeverOutOfBounds, AcceptedIsEncoding
  <2>4. Encoded'
    BY <1>2 DEF IInv, Encoded, IsEncoded, ShownAsEncoded, message, parser
  <2> QED
    BY <2>1, <2>2, <2>3, <2>4 DEF IInv
<1> QED
  BY <1>1, <1>2 DEF Header

\* Where the next element starts: behind the one before, within the data, and
\* in an encoded message where the encoder has put it.
LEMMA NextElementIs ==
  ASSUME IInv, stage = "Next", index < num_elements
  PROVE  /\ NextElement \in Nat /\ NextElement <= len
         /\ index = 0 => NextElement = ATTESTATIONS_OFFSET
         /\ index > 0 =>
              NextElement = shown[index].start + shown[index].size
         /\ sent # <<>> =>
              /\ num_elements = Len(sent)
              /\ NextElement = StartOf(sent, index + 1)
              /\ NextElement + ElementSize(sent[index + 1]) <= len
              /\ index + 1 = num_elements =>
                   NextElement + ElementSize(sent[index + 1]) = len
<1>0. /\ index \in Nat /\ num_elements \in Nat /\ len \in Nat /\ offset \in Nat
      /\ Len(shown) = index
      /\ \A i \in 1 .. index : shown[i].start \in Nat /\ shown[i].size \in Nat
  <2>1. shown \in Seq([start : Nat, size : Nat]) /\ Len(shown) = index
    BY DEF IInv, TypeOK, Counts
  <2>2. \A i \in 1 .. Len(shown) : shown[i] \in [start : Nat, size : Nat]
    BY <2>1, ElementOfSeq
  <2> QED
    BY <2>1, <2>2 DEF IInv, TypeOK
<1>3. /\ NextElement \in Nat /\ NextElement <= len
      /\ index = 0 => NextElement = ATTESTATIONS_OFFSET
      /\ index > 0 => NextElement = shown[index].start + shown[index].size
  <2>1. CASE index = 0
    BY <1>0, <2>1 DEF IInv, Tiled, NextElement
  <2>2. CASE index > 0
    <3>1. index \in 1 .. index
      BY <1>0, <2>2
    <3>2. Sized(index) /\ shown[index].start = offset
      BY <2>2, <3>1 DEF IInv, Tiled
    <3>3. NextElement = shown[index].start + shown[index].size
      BY <1>0, <2>2, <3>1, <3>2 DEF Sized, NextElement, ElementSize
    <3> QED
      BY <1>0, <2>2, <3>1, <3>2, <3>3 DEF Sized
  <2> QED
    BY <1>0, <2>1, <2>2
<1>4. ASSUME sent # <<>>
      PROVE  /\ num_elements = Len(sent)
             /\ NextElement = StartOf(sent, index + 1)
             /\ NextElement + ElementSize(sent[index + 1]) <= len
             /\ index + 1 = num_elements =>
                  NextElement + ElementSize(sent[index + 1]) = len
  <2>1. /\ sent \in Structs /\ num_elements = Len(sent)
        /\ len = StartOf(sent, Len(sent) + 1)
        /\ ShownAsEncoded
    BY <1>4 DEF IInv, Encoded, IsEncoded, NumberKnown, EncodedLength
  <2>2. index + 1 \in 1 .. Len(sent) /\ Len(sent) \in Nat
    BY <1>0, <2>1, StructsType
  <2>3. NextElement = StartOf(sent, index + 1)
    <3>1. CASE index = 0
      BY <1>3, <2>1, <2>2, <3>1, StartUnfolds
    <3>2. CASE index > 0
      <4>1. index \in 1 .. Len(sent) /\ index \in 1 .. Len(shown)
        BY <1>0, <2>2, <3>2
      <4>2. shown[index] = [start |-> StartOf(sent, index),
                            size |-> ElementSize(sent[index])]
        BY <2>1, <4>1 DEF ShownAsEncoded
      <4> QED
        BY <1>3, <2>1, <3>2, <4>1, <4>2, StartUnfolds
    <3> QED
      BY <1>0, <3>1, <3>2
  <2>4. StartOf(sent, index + 1) + ElementSize(sent[index + 1]) <= len
    <3>1. Len(sent) + 1 \in (index + 1) + 1 .. Len(sent) + 1
      BY <2>2
    <3> QED
      BY <2>1, <2>2, <3>1, StartsInOrder
  <2>5. index + 1 = Len(sent) =>
          StartOf(sent, index + 1) + ElementSize(sent[index + 1]) = len
    BY <2>1, <2>2, StartUnfolds
  <2> QED
    BY <2>1, <2>3, <2>4, <2>5
<1> QED
  BY <1>3, <1>4

\* An element is shown.
LEMMA ShownStep ==
  ASSUME IInv, stage = "Next", index < num_elements,
         offset' = NextElement, index' = index + 1, stage' = "Element",
         UNCHANGED <<len, accounts, sent, num_elements, account_index>>,
         NEW h \in WordsAt(NextElement + HOOK_DATA_LENGTH_OFFSET),
         ReadWord(NextElement + HOOK_DATA_LENGTH_OFFSET, h),
         len - NextElement >= ElementSize(h), EndsWithData(ElementSize(h)),
         shown' = Append(shown, [start |-> NextElement,
                                 size |-> ElementSize(h)])
  PROVE  IInv'
<1> DEFINE last == [start |-> NextElement, size |-> ElementSize(h)]
<1>0. /\ index \in Nat /\ num_elements \in Nat /\ len \in Nat
      /\ NextElement \in Nat
      /\ shown \in Seq([start : Nat, size : Nat]) /\ Len(shown) = index
  BY NextElementIs DEF IInv, TypeOK, Counts
<1>1. /\ h \in Nat
      /\ NextElement + HOOK_DATA_LENGTH_OFFSET \in DOMAIN words'
      /\ words'[NextElement + HOOK_DATA_LENGTH_OFFSET] = h
      /\ \A p \in DOMAIN words : p \in DOMAIN words' /\ words'[p] = words[p]
      /\ \A p \in DOMAIN words' : words'[p] \in Nat
  BY ReadWordKeeps DEF IInv
<1>2. last \in [start : Nat, size : Nat]
  BY <1>0, <1>1 DEF ElementSize
<1> HIDE DEF last
<1>3. /\ shown' \in Seq([start : Nat, size : Nat])
      /\ Len(shown') = index'
      /\ shown'[index'] = last
      /\ \A i \in 1 .. index : shown'[i] = shown[i]
  <2> DEFINE T == [start : Nat, size : Nat]
  <2>1. shown \in Seq(T) /\ last \in T
    BY <1>0, <1>2
  <2>2. shown' = Append(shown, last)
    BY DEF last
  <2> HIDE DEF T
  <2>3. /\ shown' \in Seq(T) /\ Len(shown') = Len(shown) + 1
        /\ shown'[Len(shown) + 1] = last
        /\ \A i \in 1 .. Len(shown) : shown'[i] = shown[i]
    BY <2>1, <2>2, AppendProperties
  <2> QED
    BY <1>0, <2>3 DEF T
<1>4. TypeOK'
  BY <1>0, <1>1, <1>3 DEF IInv, TypeOK, Stages
<1>5. AtStart' /\ NumberKnown' /\ Counts'
  <2>1. account_index = 3 * index /\ accounts = 3 * num_elements
    BY DEF IInv, Counts
  <2> QED
    BY <1>0, <1>1, <1>3, <2>1 DEF IInv, AtStart, NumberKnown, Counts
<1>6. Tiled'
  <2>1. shown'[1].start = ATTESTATIONS_OFFSET /\ shown'[index'].start = offset'
    <3>1. CASE index = 0
      BY <1>3, <3>1, NextElementIs DEF last
    <3>2. CASE index > 0
      <4>1. 1 \in 1 .. index /\ shown[1].start = ATTESTATIONS_OFFSET
        BY <1>0, <3>2 DEF IInv, Tiled
      <4> QED
        BY <1>3, <4>1 DEF last
    <3> QED
      BY <1>0, <3>1, <3>2
  <2>2. ASSUME NEW i \in 1 .. index' PROVE Sized(i)'
    <3>1. CASE i = index'
      <4>1. shown'[i].start = NextElement /\ shown'[i].size = ElementSize(h)
        BY <1>3, <3>1 DEF last
      <4>2. words'[NextElement + HOOK_DATA_LENGTH_OFFSET] = h
        BY <1>1
      <4>3. NextElement + ElementSize(h) <= len'
        BY <1>0, <1>1 DEF ElementSize
      <4> QED
        BY <1>1, <4>1, <4>2, <4>3 DEF Sized
    <3>2. CASE i # index'
      <4>1. i \in 1 .. index /\ shown'[i] = shown[i]
        BY <1>0, <1>3, <3>2
      <4>2. Sized(i)
        BY <4>1 DEF IInv, Tiled
      <4> QED
        BY <1>1, <4>1, <4>2 DEF Sized
    <3> QED
      BY <3>1, <3>2
  <2>3. ASSUME NEW i \in 1 .. index' - 1 PROVE Adjacent(i)'
    <3>0. i \in 1 .. index /\ shown'[i] = shown[i]
      BY <1>0, <1>3
    <3>1. CASE i = index
      <4>1. NextElement = shown[i].start + shown[i].size
        BY <1>0, <3>0, <3>1, NextElementIs
      <4>2. shown'[i + 1].start = NextElement
        BY <1>3, <3>1 DEF last
      <4> QED
        BY <3>0, <4>1, <4>2 DEF Adjacent
    <3>2. CASE i # index
      <4>1. i \in 1 .. index - 1 /\ i + 1 \in 1 .. index
        BY <1>0, <3>0, <3>2
      <4>2. Adjacent(i)
        BY <4>1 DEF IInv, Tiled
      <4>3. shown'[i + 1] = shown[i + 1]
        BY <1>3, <4>1
      <4> QED
        BY <3>0, <4>2, <4>3 DEF Adjacent
    <3> QED
      BY <3>1, <3>2
  <2>4. index' = num_elements' =>
          shown'[index'].start + shown'[index'].size = len'
    <3>1. shown'[index'].start = NextElement /\ shown'[index'].size = ElementSize(h)
      BY <1>3 DEF last
    <3> QED
      BY <3>1 DEF EndsWithData
  <2>5. (\A i \in 1 .. index : Sized(i))'
    BY <2>2
  <2>6. (\A i \in 1 .. index - 1 : Adjacent(i))'
    BY <2>3
  <2>7. index' # 0
    BY <1>0
  <2> HIDE DEF Sized, Adjacent
  <2> QED
    BY <2>1, <2>4, <2>5, <2>6, <2>7, Zenon DEF Tiled
<1>7. NeverOutOfBounds' /\ AcceptedIsEncoding'
  BY DEF NeverOutOfBounds, AcceptedIsEncoding
<1>8. Encoded'
  <2> SUFFICES ASSUME sent' # <<>> PROVE IsEncoded' /\ ShownAsEncoded'
    BY DEF Encoded
  <2>1. IsEncoded /\ ShownAsEncoded /\ sent \in Structs
    BY DEF IInv, Encoded, IsEncoded
  <2>2. IsEncoded'
    BY <1>1, <2>1 DEF IsEncoded
  <2>3. /\ num_elements = Len(sent)
        /\ NextElement = StartOf(sent, index + 1)
    BY NextElementIs
  <2>4. index + 1 \in 1 .. Len(sent)
    BY <1>0, <2>3
  <2>5. h = sent[index + 1]
    BY <1>1, <2>2, <2>3, <2>4 DEF IsEncoded
  <2>6. Len(shown') <= Len(sent')
    BY <1>0, <1>3, <2>3
  <2>7. ASSUME NEW i \in 1 .. Len(shown')
        PROVE  shown'[i] = [start |-> StartOf(sent, i),
                            size |-> ElementSize(sent[i])]
    <3>1. CASE i = index'
      BY <1>3, <2>3, <2>5, <3>1 DEF last
    <3>2. CASE i # index'
      <4>1. i \in 1 .. Len(shown) /\ shown'[i] = shown[i]
        BY <1>0, <1>3, <3>2
      <4> QED
        BY <2>1, <4>1 DEF ShownAsEncoded
    <3> QED
      BY <3>1, <3>2
  <2> QED
    BY <2>2, <2>6, <2>7 DEF ShownAsEncoded
<1> QED
  BY <1>4, <1>5, <1>6, <1>7, <1>8 DEF IInv

LEMMA NextStep ==
  ASSUME IInv, Next
  PROVE  IInv'
<1> DEFINE remaining == len - NextElement
<1>0. /\ stage = "Next" /\ index < num_elements
      /\ offset' = NextElement /\ index' = index + 1
      /\ UNCHANGED <<len, accounts, sent, num_elements, account_index>>
      /\ index \in Nat /\ num_elements \in Nat /\ len \in Nat
  BY DEF Next, IInv, TypeOK
<1>1. /\ NextElement \in Nat /\ remaining >= 0
      /\ sent # <<>> =>
           /\ ElementSize(sent[index + 1]) <= remaining
           /\ index + 1 = num_elements =>
                NextElement + ElementSize(sent[index + 1]) = len
           /\ sent[index + 1] \in Nat
  <2>1. /\ NextElement \in Nat /\ NextElement <= len
        /\ sent # <<>> =>
             /\ num_elements = Len(sent) /\ sent \in Structs
             /\ NextElement + ElementSize(sent[index + 1]) <= len
             /\ index + 1 = num_elements =>
                  NextElement + ElementSize(sent[index + 1]) = len
    BY <1>0, NextElementIs DEF IInv, Encoded, IsEncoded
  <2>2. sent # <<>> => sent[index + 1] \in Nat
    <3>1. sent # <<>> => index + 1 \in 1 .. Len(sent)
      BY <1>0, <2>1
    <3> QED
      BY <2>1, <3>1, StructsType
  <2> QED
    BY <1>0, <2>1, <2>2 DEF ElementSize
<1> HIDE DEF remaining
<1>2. CASE remaining \in 0 .. HOOK_DATA_OFFSET - 1 /\ stage' = "Rejected"
             /\ UNCHANGED <<words, shown>>
  <2>1. sent = <<>>
    BY <1>1, <1>2 DEF ElementSize
  <2> QED
    BY <1>0, <1>1, <1>2, <2>1, ErrorStep DEF IInv, TypeOK
<1>3. ASSUME NEW h \in WordsAt(NextElement + HOOK_DATA_LENGTH_OFFSET),
             ReadWord(NextElement + HOOK_DATA_LENGTH_OFFSET, h),
             stage' = "Rejected", UNCHANGED shown,
             remaining < ElementSize(h) \/ ~ EndsWithData(ElementSize(h))
      PROVE  IInv'
  <2>1. /\ words'[NextElement + HOOK_DATA_LENGTH_OFFSET] = h
        /\ \A p \in DOMAIN words : p \in DOMAIN words' /\ words'[p] = words[p]
        /\ \A p \in DOMAIN words' : words'[p] \in Nat
    BY <1>3, ReadWordKeeps DEF IInv
  <2>2. sent = <<>>
    <3> SUFFICES ASSUME sent # <<>> PROVE FALSE
      OBVIOUS
    <3>1. /\ IsEncoded /\ num_elements = Len(sent)
          /\ NextElement = StartOf(sent, index + 1)
      BY <1>0, NextElementIs DEF IInv, Encoded
    <3>2. index + 1 \in 1 .. Len(sent)
      BY <1>0, <3>1
    <3>3. h = sent[index + 1]
      BY <2>1, <3>1, <3>2 DEF IsEncoded
    <3> QED
      BY <1>0, <1>1, <1>3, <3>3 DEF ElementSize, EndsWithData, remaining
  <2> QED
    BY <1>0, <1>1, <1>3, <2>1, <2>2, ErrorStep
<1>4. ASSUME NEW h \in WordsAt(NextElement + HOOK_DATA_LENGTH_OFFSET),
             ReadWord(NextElement + HOOK_DATA_LENGTH_OFFSET, h),
             remaining >= ElementSize(h), EndsWithData(ElementSize(h)),
             stage' = "Element",
             shown' = Append(shown, [start |-> NextElement,
                                     size |-> ElementSize(h)])
      PROVE  IInv'
  BY <1>0, <1>4, ShownStep DEF remaining
<1>5. ~ (remaining < 0)
  BY <1>0, <1>1 DEF remaining
<1> QED
  BY <1>2, <1>3, <1>4, <1>5 DEF Next, remaining

LEMMA ElementStep ==
  ASSUME IInv, Element
  PROVE  IInv'
<1>0. stage = "Element"
  BY DEF Element
<1>1. CASE End("Failed")
  BY <1>1, ErrorStep DEF End, message, parser, IInv, TypeOK
<1>2. ~ (account_index + 2 >= accounts \/ offset + HOOK_DATA_OFFSET > len)
  <2>1. /\ index \in 1 .. num_elements /\ num_elements \in Nat /\ len \in Nat
        /\ accounts = 3 * num_elements
        /\ account_index = 3 * (index - 1)
        /\ Len(shown) = index /\ shown \in Seq([start : Nat, size : Nat])
    BY <1>0 DEF IInv, TypeOK, Counts
  <2>2. index \in 1 .. index
    BY <2>1
  <2>3. /\ Sized(index) /\ shown[index].start = offset
        /\ \A o \in DOMAIN words : words[o] \in Nat
        /\ offset \in Nat
    BY <1>0, <2>1, <2>2 DEF IInv, TypeOK, Tiled
  <2>4. offset + HOOK_DATA_OFFSET <= len
    BY <2>1, <2>3 DEF Sized, ElementSize
  <2> QED
    BY <2>1, <2>3, <2>4
<1>3. CASE /\ account_index' = account_index + 3
           /\ stage' = "Next"
           /\ UNCHANGED <<message, num_elements, offset, index, shown>>
  <2>1. TypeOK'
    BY <1>3 DEF IInv, TypeOK, Stages, message
  <2>2. AtStart' /\ NumberKnown' /\ Counts'
    BY <1>0, <1>3 DEF IInv, TypeOK, AtStart, NumberKnown, Counts, message
  <2>3. Tiled'
    BY <1>0, <1>3 DEF IInv, Tiled, Sized, Adjacent, message
  <2>4. NeverOutOfBounds' /\ AcceptedIsEncoding'
    BY <1>3 DEF NeverOutOfBounds, AcceptedIsEncoding
  <2>5. Encoded'
    BY <1>3 DEF IInv, Encoded, IsEncoded, ShownAsEncoded, message
  <2> QED
    BY <2>1, <2>2, <2>3, <2>4, <2>5 DEF IInv
<1> QED
  BY <1>1, <1>2, <1>3 DEF Element

LEMMA FinishStep ==
  ASSUME IInv, Finish
  PROVE  IInv'
<1>0. /\ stage = "Next" /\ index >= num_elements
      /\ UNCHANGED <<message, parser>>
      /\ stage' = IF account_index = accounts THEN "Done" ELSE "Failed"
  BY DEF Finish, End
<1>1. CASE stage' = "Failed"
  BY <1>0, <1>1, ErrorStep DEF message, parser, IInv, TypeOK
<1>2. CASE stage' = "Done"
  <2>1. TypeOK'
    BY <1>0, <1>2 DEF IInv, TypeOK, Stages, Ended, message, parser
  <2>2. AtStart' /\ NumberKnown' /\ Counts' /\ Tiled' /\ NeverOutOfBounds'
    BY <1>2 DEF AtStart, NumberKnown, Counts, Tiled, NeverOutOfBounds
  <2>3. /\ index = num_elements /\ index \in Nat /\ index > 0
        /\ Len(shown) = index /\ accounts = 3 * index
        /\ words[NUM_ATTESTATIONS_OFFSET] = index
    BY <1>0 DEF IInv, TypeOK, Counts, NumberKnown
  <2>4. Tiles
    <3>1. shown # <<>>
      BY <2>3
    <3>2. /\ shown[1].start = ATTESTATIONS_OFFSET
          /\ \A i \in 1 .. index : Sized(i)
          /\ \A i \in 1 .. index - 1 : Adjacent(i)
          /\ shown[index].start + shown[index].size = len
      BY <1>0, <2>3 DEF IInv, Tiled
    <3> QED
      BY <2>3, <3>1, <3>2 DEF Tiles, Sized, Adjacent
  <2>5. AcceptedIsEncoding'
    BY <1>0, <2>3, <2>4 DEF AcceptedIsEncoding, Tiles, message, parser
  <2>6. Encoded'
    BY <1>0, <1>2 DEF IInv, Encoded, IsEncoded, ShownAsEncoded, message, parser
  <2> QED
    BY <2>1, <2>2, <2>5, <2>6 DEF IInv
<1> QED
  BY <1>0, <1>1, <1>2

LEMMA StutterStep ==
  ASSUME IInv, UNCHANGED vars
  PROVE  IInv'
BY DEF vars, IInv, TypeOK, AtStart, NumberKnown, Counts, Tiled, Sized, Adjacent,
       NeverOutOfBounds, AcceptedIsEncoding, Tiles, Encoded, IsEncoded,
       ShownAsEncoded

-----------------------------------------------------------------------------
(* The theorems. *)

LEMMA IInvHolds == Spec => []IInv
<1>1. IInv /\ [Step]_vars => IInv'
  <2> SUFFICES ASSUME IInv, [Step]_vars PROVE IInv'
    OBVIOUS
  <2>1. CASE \E n \in Lengths, count \in AccountCounts : Receive(n, count)
    BY <2>1, ReceiveStep
  <2>2. CASE \E hooks \in Structs : Reconstruct(hooks)
    BY <2>2, ReconstructStep
  <2>3. CASE New
    BY <2>3, NewStep
  <2>4. CASE Header
    BY <2>4, HeaderStep
  <2>5. CASE Next
    BY <2>5, NextStep
  <2>6. CASE Element
    BY <2>6, ElementStep
  <2>7. CASE Finish
    BY <2>7, FinishStep
  <2>8. CASE UNCHANGED vars
    BY <2>8, StutterStep
  <2> QED
    BY <2>1, <2>2, <2>3, <2>4, <2>5, <2>6, <2>7, <2>8 DEF Step
<1> QED
  BY <1>1, InitHolds, PTL DEF Spec

\* Whatever bytes and accounts are passed, the parser and the loop of
\* gateway_mint read no byte and no account that is not there, and no
\* remaining length goes below zero.
THEOREM ParserStaysInBounds == Spec => []NeverOutOfBounds
<1>1. IInv => NeverOutOfBounds
  BY DEF IInv
<1> QED
  BY <1>1, IInvHolds, PTL

\* A message that gateway_mint gets through is, byte for byte, the encoding of
\* the elements it has minted.
THEOREM AcceptedAreEncodings == Spec => []AcceptedIsEncoding
<1>1. IInv => AcceptedIsEncoding
  BY DEF IInv
<1> QED
  BY <1>1, IInvHolds, PTL

\* The parser takes every message that encode_attestation makes, and shows
\* its elements where the encoder has put them.
THEOREM EncodedAreShown == Spec => []EncodedIsShown
<1>1. IInv => EncodedIsShown
  <2> SUFFICES ASSUME IInv, sent # <<>> PROVE EncodedIsShown
    BY DEF EncodedIsShown
  <2>1. IsEncoded /\ ShownAsEncoded /\ stage # "Rejected"
    BY DEF IInv, Encoded
  <2>2. stage = "Done" => Len(shown) = Len(sent)
    BY <2>1 DEF IInv, AcceptedIsEncoding, Tiles, IsEncoded
  <2>3. ASSUME NEW i \in 1 .. Len(shown)
        PROVE  shown[i].size = ElementSize(sent[i])
    <3>1. shown[i] = [start |-> StartOf(sent, i), size |-> ElementSize(sent[i])]
      BY <2>1 DEF ShownAsEncoded
    <3> QED
      BY <3>1
  <2> QED
    BY <2>1, <2>2, <2>3 DEF EncodedIsShown
<1> QED
  BY <1>1, IInvHolds, PTL
=============================================================================
