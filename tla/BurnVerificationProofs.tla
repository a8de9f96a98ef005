----------------------- MODULE BurnVerificationProofs -----------------------
(***************************************************************************)
(* For burn data of any length with any fields, in any transaction: the    *)
(* Ed25519 program has verified the places that the burn data fill, in the *)
(* burn itself when it is a top-level instruction, and in its caller's data*)
(* otherwise; the numbers read are those of the burn intent; and what the  *)
(* client sends is not rejected.                                           *)
(***************************************************************************)
EXTENDS BurnVerification, TLAPS

\* What BurnData::new has established.
WellFormed ==
  /\ burn.length = 500 + burn.hook_data_length
  /\ burn.transfer_spec_length = 340 + burn.hook_data_length
  /\ burn.value.high = 0

\* What the client sends.
Clients ==
  /\ WellFormed /\ burn.well_marked
  /\ burn.value.low > 0 /\ burn.max_fee.high = 0
  /\ burn.max_block_height.high = 0
  /\ burn.length - 72 <= U16Max /\ position > 0

\* What the Ed25519 program has verified once its header has passed.
SignedRegions == SignedIn(DataAt(position))

Inv ==
  /\ burn \in BurnData /\ position \in Nat
  /\ top_level \in BOOLEAN /\ from_client \in BOOLEAN
  /\ stage \in {"New", "Parsed", "Verified", "Done", "Rejected", "Failed"}
  /\ from_client => Clients /\ stage # "Rejected"
  /\ stage \in {"Parsed", "Verified", "Done"} => WellFormed
  /\ stage \in {"Verified", "Done"} => SignedRegions
  /\ NumbersAreAsSigned

USE InputsAssumption
    DEF DISCRIMINATOR_SIZE, BURN_DATA_USER_SIGNATURE_OFFSET,
        BURN_INTENT_MESSAGE_PREFIX_OFFSET, TRANSFER_SPEC_OFFSET,
        TS_SOURCE_SIGNER_OFFSET, TS_HOOK_DATA_OFFSET, HEADER_SIZE,
        BURN_DATA_OFFSET, InInstruction

LEMMA BurnFields ==
  ASSUME burn \in BurnData
  PROVE  /\ burn.length \in Nat /\ burn.hook_data_length \in Nat
         /\ burn.transfer_spec_length \in Nat
         /\ burn.value \in U256 /\ burn.value.low \in Nat
         /\ burn.max_fee \in U256 /\ burn.max_fee.low \in Nat
         /\ burn.max_block_height \in U256 /\ burn.max_block_height.low \in Nat
BY DEF BurnData, U256, U64

LEMMA SmallMessage ==
  ASSUME NEW n \in Nat, n <= U16Max
  PROVE  AsU16(n) = n
BY DEF AsU16

\* A number without high bytes is its last 8.
LEMMA LowNumber ==
  ASSUME NEW n \in U256, n.high = 0
  PROVE  NumberOf(n) = n.low
<1>1. n.low \in Nat /\ U64Max + 1 \in Nat
  BY DEF U256, U64
<1>2. 0 * (U64Max + 1) = 0
  BY <1>1
<1> QED
  BY <1>1, <1>2 DEF NumberOf

LEMMA InitHolds == Init => Inv
<1> SUFFICES ASSUME Init PROVE Inv
  OBVIOUS
<1>1. CASE FromAnybody
  BY <1>1 DEF Init, FromAnybody, Inv, NumbersAreAsSigned
<1>2. CASE FromClient
  <2>1. PICK hook_length \in HookLengths, value \in Amounts,
             max_fee \in Amounts, max_block_height \in Amounts :
          /\ 428 + hook_length <= U16Max
          /\ burn = ClientBurn(hook_length, value, max_fee, max_block_height)
    BY <1>2 DEF FromClient
  <2>2. /\ hook_length \in Nat
        /\ value \in U64 /\ max_fee \in U64 /\ max_block_height \in U64
        /\ value > 0
    BY DEF U64
  <2>3. \A n \in U64 : [high |-> 0, low |-> n] \in U256
    BY DEF U256
  <2>4. burn \in BurnData
    BY <2>1, <2>2, <2>3 DEF ClientBurn, BurnData
  <2>5. position \in Nat /\ position > 0
    BY <1>2 DEF FromClient
  <2>6. Clients
    BY <2>1, <2>2, <2>5 DEF Clients, WellFormed, ClientBurn
  <2> QED
    BY <1>2, <2>4, <2>5, <2>6 DEF Init, FromClient, Inv, NumbersAreAsSigned
<1> QED
  BY <1>1, <1>2 DEF Init

LEMMA ParseStep ==
  ASSUME Inv, Parse
  PROVE  Inv'
<1>1. /\ UNCHANGED <<burn, position, top_level, from_client, verified, executed>>
      /\ stage' \in {"Parsed", "Rejected"}
      /\ burn \in BurnData
  BY DEF Parse, Inv
<1>2. stage' = "Parsed" => WellFormed
  BY <1>1, BurnFields DEF Parse, WellFormed, SpecLengthMatches, HighBytesAreZero
<1>3. from_client => Clients /\ stage' # "Rejected"
  BY <1>1, BurnFields DEF Inv, Parse, Clients, WellFormed, SpecLengthMatches,
                          HighBytesAreZero
<1> QED
  BY <1>1, <1>2, <1>3
     DEF Inv, Clients, WellFormed, SignedRegions, SignedIn, DataAt,
         NumbersAreAsSigned

\* A header that passes has verified the places of a burn in the current
\* instruction's data.
LEMMA PassingHeader ==
  ASSUME burn \in BurnData, WellFormed,
         NEW d, PointsAtCurrent(d), MessageLengthFits,
         verified' = VerifiedBy(d),
         UNCHANGED <<burn, position, top_level>>
  PROVE  SignedRegions'
<1>1. burn.length - 72 \in Nat /\ burn.length - 72 <= U16Max
  BY BurnFields DEF WellFormed, MessageLengthFits, burn_intent_message_length
<1>2. AsU16(burn.length - 72) = burn.length - 72
  BY <1>1, SmallMessage
<1>3. VerifiedBy(d)
        = [signature |-> Region(DataAt(position), InInstruction(8), 64),
           public_key |-> Region(DataAt(position), InInstruction(368), 32),
           message |->
             Region(DataAt(position), InInstruction(72), burn.length - 72)]
  BY <1>2 DEF PointsAtCurrent, VerifiedBy, burn_intent_message_length
<1>4. DataAt(position)' = DataAt(position)
  BY DEF DataAt
<1> QED
  BY <1>3, <1>4 DEF SignedRegions, SignedIn

LEMMA ClientHeaderPasses ==
  ASSUME burn \in BurnData, Clients
  PROVE  /\ MessageLengthFits /\ position > 0
         /\ ClientHeader(position, burn.length).program = "Ed25519"
         /\ PointsAtCurrent(ClientHeader(position, burn.length).data)
<1>1. burn.length - 72 \in Nat /\ burn.length - 72 <= U16Max
  BY BurnFields DEF Clients, WellFormed
<1>2. AsU16(burn.length - 72) = burn.length - 72
  BY <1>1, SmallMessage
<1> QED
  BY <1>1, <1>2 DEF Clients, PointsAtCurrent, ClientHeader, MessageLengthFits,
                    burn_intent_message_length

LEMMA VerifyStep ==
  ASSUME Inv, VerifyUserSignature
  PROVE  Inv'
<1>1. /\ UNCHANGED <<burn, position, top_level, from_client, executed>>
      /\ stage = "Parsed" /\ burn \in BurnData /\ WellFormed
      /\ from_client => Clients
  BY DEF VerifyUserSignature, Inv
<1>2. PICK previous \in Before :
       \/ /\ MessageLengthFits
          /\ position > 0
          /\ previous.program = "Ed25519"
          /\ PointsAtCurrent(previous.data)
          /\ stage' = "Verified"
          /\ verified' = VerifiedBy(previous.data)
       \/ /\ ~ (/\ MessageLengthFits /\ position > 0
                /\ previous.program = "Ed25519" /\ PointsAtCurrent(previous.data))
          /\ stage' = "Rejected"
          /\ UNCHANGED verified
  BY DEF VerifyUserSignature
<1>3. CASE stage' = "Verified"
  <2>1. SignedRegions'
    BY <1>1, <1>2, <1>3, PassingHeader
  <2> QED
    BY <1>1, <1>3, <2>1
       DEF Inv, Clients, WellFormed, NumbersAreAsSigned
<1>4. CASE stage' = "Rejected"
  <2>1. ~ from_client
    <3> SUFFICES ASSUME from_client PROVE FALSE
      OBVIOUS
    <3>1. previous = ClientHeader(position, burn.length)
      BY DEF Before
    <3> QED
      BY <1>1, <1>2, <1>4, <3>1, ClientHeaderPasses
  <2> QED
    BY <1>1, <1>4, <2>1 DEF Inv, NumbersAreAsSigned
<1> QED
  BY <1>2, <1>3, <1>4

LEMMA ExecuteStep ==
  ASSUME Inv, Execute
  PROVE  Inv'
<1>1. /\ UNCHANGED <<burn, position, top_level, from_client, verified>>
      /\ stage = "Verified" /\ burn \in BurnData /\ WellFormed /\ SignedRegions
      /\ from_client => Clients
      /\ stage' \in {"Done", "Rejected", "Failed"}
  BY DEF Execute, Inv
<1>2. stage' = "Rejected" => ~ from_client
  BY <1>1 DEF Execute, Clients, HighBytesAreZero
<1>3. NumbersAreAsSigned'
  <2> SUFFICES ASSUME stage' = "Done" PROVE NumbersAreAsSigned'
    BY DEF NumbersAreAsSigned
  <2>1. /\ burn.max_fee.high = 0 /\ burn.max_block_height.high = 0
        /\ executed' = [value |-> burn.value.low, max_fee |-> burn.max_fee.low,
                        max_block_height |-> burn.max_block_height.low,
                        hashed |-> [first |-> 160,
                                    size |-> burn.transfer_spec_length]]
    BY DEF Execute, HighBytesAreZero
  <2>2. 160 + burn.transfer_spec_length = burn.length
    BY <1>1, BurnFields DEF WellFormed
  <2>3. /\ NumberOf(burn.value) = burn.value.low
        /\ NumberOf(burn.max_fee) = burn.max_fee.low
        /\ NumberOf(burn.max_block_height) = burn.max_block_height.low
    BY <1>1, <2>1, BurnFields, LowNumber DEF WellFormed
  <2> QED
    BY <1>1, <2>1, <2>2, <2>3 DEF NumbersAreAsSigned
<1> QED
  BY <1>1, <1>2, <1>3
     DEF Inv, Clients, WellFormed, SignedRegions, SignedIn, DataAt

LEMMA InvHolds == Spec => []Inv
<1>1. Inv /\ [Next]_vars => Inv'
  <2>1. Inv /\ UNCHANGED vars => Inv'
    BY DEF vars, Inv, Clients, WellFormed, SignedRegions, SignedIn, DataAt,
         NumbersAreAsSigned
  <2> QED
    BY <2>1, ParseStep, VerifyStep, ExecuteStep DEF Next
<1> QED
  BY <1>1, InitHolds, PTL DEF Spec

-----------------------------------------------------------------------------
\* Before a burn that is a top-level instruction is executed, the Ed25519 program
\* has verified the signature in the burn data by the key in its source_signer
\* field over everything in it behind the signature.
THEOREM BurnsAreSigned == Spec => []RegionsAreSigned
<1>1. Inv => RegionsAreSigned
  BY DEF Inv, RegionsAreSigned, SignedRegions, DataAt
<1> QED
  BY <1>1, InvHolds, PTL

\* The amounts, fee limit and expiry a burn goes by are those of the intent, and
\* its hash is that of the whole transfer spec.
THEOREM NumbersReadAsSigned == Spec => []NumbersAreAsSigned
<1>1. Inv => NumbersAreAsSigned
  BY DEF Inv
<1> QED
  BY <1>1, InvHolds, PTL

\* No burn of the client is rejected by the parser or the introspection.
THEOREM ClientsAreUnderstood == Spec => []ClientIsUnderstood
<1>1. Inv => ClientIsUnderstood
  BY DEF Inv, ClientIsUnderstood
<1> QED
  BY <1>1, InvHolds, PTL
=============================================================================
