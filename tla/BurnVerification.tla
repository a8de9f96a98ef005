-------------------------- MODULE BurnVerification --------------------------
(***************************************************************************)
(* How gateway_burn finds out that what it burns is what the user has      *)
(* signed.  It verifies no Ed25519 signature itself: the instruction before*)
(* it is one for the Ed25519 program, which has verified, or the           *)
(* transaction would have failed, a signature, a key and a message that its*)
(* header points at.  verify_user_signature requires that it points at the *)
(* right places of the current instruction (ed25519.rs, gateway_burn.rs),  *)
(* and BurnData requires that the fields fill the burn data (burn_data.rs).*)
(*                                                                         *)
(* The current instruction of the instructions sysvar is the one of the    *)
(* transaction that is running: the burn itself when it is a top-level     *)
(* instruction, as the client's is, and otherwise the instruction whose    *)
(* program calls gateway_burn.                                             *)
(*                                                                         *)
(* A burn is its length and the fields that decide about these places, or  *)
(* are read as numbers.  The instruction's layout, the Ed25519 program, the*)
(* sysvar and the client are external.                                     *)
(***************************************************************************)
EXTENDS Integers

CONSTANTS
  U16Max, U64Max,
  Burns,        \* burn data from outside
  Headers,      \* instructions in front of a burn
  Positions,    \* indexes of instructions in their transactions
  HookLengths,  \* lengths of the hook data the client sends
  Amounts       \* numbers the client sends

DISCRIMINATOR_SIZE == 2

\* From the start of the encoded burn data.
BURN_DATA_USER_SIGNATURE_OFFSET == 8
BURN_INTENT_MESSAGE_PREFIX_OFFSET == 72
TRANSFER_SPEC_OFFSET == 160
TS_SOURCE_SIGNER_OFFSET == 368
TS_HOOK_DATA_OFFSET == 500
HEADER_SIZE == 16

U64 == 0 .. U64Max

\* A 32-byte number: its first 24 bytes, and its last 8.
U256 == [high : Nat, low : U64]
NumberOf(n) == n.high * (U64Max + 1) + n.low

BurnData ==
  [length : Nat,
   well_marked : BOOLEAN,   \* the message prefix and both magic numbers
   hook_data_length : Nat, transfer_spec_length : Nat,
   value : U256, max_fee : U256, max_block_height : U256]

Ed25519Data ==
  [length : Nat, num_signatures : Nat, padding : Nat,
   signature_offset : Nat, signature_instruction_index : Nat,
   public_key_offset : Nat, public_key_instruction_index : Nat,
   message_data_offset : Nat, message_data_size : Nat,
   message_instruction_index : Nat]

Instruction == [program : {"Ed25519", "Other"}, data : Ed25519Data]

ASSUME InputsAssumption ==
  /\ U16Max \in Nat /\ U64Max \in Nat
  /\ Burns \subseteq BurnData /\ Headers \subseteq Instruction
  /\ Positions \subseteq Nat /\ HookLengths \subseteq Nat
  /\ Amounts \subseteq U64 \ {0}

VARIABLES
  stage,         \* what comes next, or how the instruction has ended
  burn,          \* encoded_burn_data
  position,      \* current_instruction_index
  top_level,     \* the current instruction is the burn
  from_client,   \* history: the client has made the transaction
  verified,      \* history: what the Ed25519 program has verified
  executed       \* history: what gateway_burn has read

vars ==
  <<stage, burn, position, top_level, from_client, verified, executed>>

Nothing == [none |-> TRUE]

-----------------------------------------------------------------------------
(* External: instructions and who makes them. *)

\* The burn instruction's data: its discriminator, the length of the burn data
\* in 4 bytes, the burn data.
InInstruction(offset) == DISCRIMINATOR_SIZE + 4 + offset

\* Whose data the transaction's instruction at this index has: a burn that is
\* called has data of its own, which is not there.
DataAt(index) ==
  IF index # position THEN "Another" ELSE IF top_level THEN "Burn" ELSE "Caller"

Region(data, first, size) == [data |-> data, first |-> first, size |-> size]

\* What the Ed25519 program verifies when it finds one signature.
VerifiedBy(d) ==
  [signature |->
     Region(DataAt(d.signature_instruction_index), d.signature_offset, 64),
   public_key |->
     Region(DataAt(d.public_key_instruction_index), d.public_key_offset, 32),
   message |->
     Region(DataAt(d.message_instruction_index), d.message_data_offset,
            d.message_data_size)]

\* The client's instruction in front of a burn.
ClientHeader(index, length) ==
  [program |-> "Ed25519",
   data |-> [length |-> 16, num_signatures |-> 1, padding |-> 0,
             signature_offset |-> InInstruction(8),
             signature_instruction_index |-> index,
             public_key_offset |-> InInstruction(368),
             public_key_instruction_index |-> index,
             message_data_offset |-> InInstruction(72),
             message_data_size |-> length - 72,
             message_instruction_index |-> index]]

ClientBurn(hook_length, value, max_fee, max_block_height) ==
  LET Number(n) == [high |-> 0, low |-> n] IN
  [length |-> 500 + hook_length, well_marked |-> TRUE,
   hook_data_length |-> hook_length, transfer_spec_length |-> 340 + hook_length,
   value |-> Number(value), max_fee |-> Number(max_fee),
   max_block_height |-> Number(max_block_height)]

FromAnybody ==
  /\ burn \in Burns /\ position \in Positions
  /\ top_level \in BOOLEAN /\ from_client = FALSE

\* The client's message fits the header's u16.
FromClient ==
  /\ \E hook_length \in HookLengths, value \in Amounts, max_fee \in Amounts,
        max_block_height \in Amounts :
       /\ 428 + hook_length <= U16Max
       /\ burn = ClientBurn(hook_length, value, max_fee, max_block_height)
  /\ position \in Positions \ {0}
  /\ top_level = TRUE /\ from_client = TRUE

\* The instruction before the current one, which has been executed.
Before == IF from_client THEN {ClientHeader(position, burn.length)} ELSE Headers

-----------------------------------------------------------------------------
(* BurnData. *)

AnyHighBytes(n) == TRUE

HighBytesAreZero(n) == n.high = 0

SpecLengthMatches(b) ==
  b.transfer_spec_length
    = TS_HOOK_DATA_OFFSET - TRANSFER_SPEC_OFFSET + b.hook_data_length

\* BurnData::new: how it ends.
Parse ==
  LET accepted ==
        /\ burn.length >= TS_HOOK_DATA_OFFSET
        /\ burn.well_marked
        /\ burn.length = TS_HOOK_DATA_OFFSET + burn.hook_data_length
        /\ SpecLengthMatches(burn)
        /\ HighBytesAreZero(burn.value) /\ burn.value.low > 0
  IN  /\ stage = "New"
      /\ stage' = IF accepted THEN "Parsed" ELSE "Rejected"
      /\ UNCHANGED <<burn, position, top_level, from_client, verified, executed>>

LengthWithoutPrefix == burn.length - BURN_INTENT_MESSAGE_PREFIX_OFFSET - 16

burn_intent_message_length == burn.length - BURN_INTENT_MESSAGE_PREFIX_OFFSET

-----------------------------------------------------------------------------
(* verify_user_signature. *)

BURN_DATA_OFFSET == DISCRIMINATOR_SIZE + 4

AsU16(n) == n % (U16Max + 1)

AnyMessageLength == TRUE

MessageLengthFits == burn_intent_message_length <= U16Max

PointsAtCurrent(d) ==
  /\ d.length = HEADER_SIZE
  /\ d.num_signatures = 1
  /\ d.padding = 0
  /\ d.signature_offset = BURN_DATA_OFFSET + BURN_DATA_USER_SIGNATURE_OFFSET
  /\ d.signature_instruction_index = position
  /\ d.public_key_offset = BURN_DATA_OFFSET + TS_SOURCE_SIGNER_OFFSET
  /\ d.public_key_instruction_index = position
  /\ d.message_data_offset
       = BURN_DATA_OFFSET + BURN_INTENT_MESSAGE_PREFIX_OFFSET
  /\ d.message_data_size = AsU16(burn_intent_message_length)
  /\ d.message_instruction_index = position

VerifyUserSignature ==
  /\ stage = "Parsed"
  /\ \E previous \in Before :
       \/ /\ MessageLengthFits
          /\ position > 0
          /\ previous.program = "Ed25519"
          /\ PointsAtCurrent(previous.data)
          /\ stage' = "Verified"
          /\ verified' = VerifiedBy(previous.data)
       \/ /\ ~ (/\ MessageLengthFits /\ position > 0
                /\ previous.program = "Ed25519" /\ PointsAtCurrent(previous.data))
          /\ stage' = "Rejected"
          /\ UNCHANGED verified
  /\ UNCHANGED <<burn, position, top_level, from_client, executed>>

\* The rest of gateway_burn reads the numbers and hashes the transfer spec,
\* unless one of its other checks fails.
Execute ==
  /\ stage = "Verified"
  /\ \/ /\ HighBytesAreZero(burn.max_block_height)
        /\ HighBytesAreZero(burn.max_fee)
        /\ stage' = "Done"
        /\ executed' = [value |-> burn.value.low, max_fee |-> burn.max_fee.low,
                        max_block_height |-> burn.max_block_height.low,
                        hashed |-> [first |-> TRANSFER_SPEC_OFFSET,
                                    size |-> burn.transfer_spec_length]]
     \/ /\ ~ (/\ HighBytesAreZero(burn.max_block_height)
              /\ HighBytesAreZero(burn.max_fee))
        /\ stage' = "Rejected"
        /\ UNCHANGED executed
     \/ /\ stage' = "Failed"
        /\ UNCHANGED executed
  /\ UNCHANGED <<burn, position, top_level, from_client, verified>>

\* One burn, of any transaction.
Init ==
  /\ stage = "New"
  /\ FromAnybody \/ FromClient
  /\ verified = Nothing /\ executed = Nothing

Next == Parse \/ VerifyUserSignature \/ Execute

Spec == Init /\ [][Next]_vars

-----------------------------------------------------------------------------
(* Properties. *)

\* The Ed25519 program has verified the signature in these data, by the key in
\* their source_signer field, over everything behind fee and signature, as far
\* as the burn data reach.
SignedIn(data) ==
  /\ verified.signature = Region(data, InInstruction(8), 64)
  /\ verified.public_key = Region(data, InInstruction(368), 32)
  /\ verified.message = Region(data, InInstruction(72), burn.length - 72)

\* When a top-level burn, which is what the client sends, has been executed, the
\* bytes verified are the burn's own, to the last byte of its hook data, however
\* its header was made.  Nothing is said of a burn that a program has called:
\* verify_user_signature has then looked at places of the caller's data.
RegionsAreSigned == stage = "Done" /\ top_level => SignedIn("Burn")

\* The same for every burn, as verify_user_signature's comments have it.
EveryBurnIsSigned == stage = "Done" => SignedIn("Burn")

\* The numbers a burn goes by are the 32-byte numbers of its burn intent, not
\* their last bytes; and the hash that marks it as used is that of the whole
\* transfer spec, so that two intents with the same spec have the same one.
NumbersAreAsSigned ==
  stage = "Done" =>
    /\ executed.value = NumberOf(burn.value)
    /\ executed.max_fee = NumberOf(burn.max_fee)
    /\ executed.max_block_height = NumberOf(burn.max_block_height)
    /\ executed.hashed.first = 160
    /\ executed.hashed.first + executed.hashed.size = burn.length

\* What the client sends is rejected neither by the parser nor by the
\* introspection, whatever its hook data and its place in the transaction.
ClientIsUnderstood == from_client => stage # "Rejected"
=============================================================================
