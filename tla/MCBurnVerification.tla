------------------------- MODULE MCBurnVerification -------------------------
(***************************************************************************)
(* Hook data of 0 to 4 bytes around the u16 limit on the message's length, *)
(* which is 430 here; every length off by one; numbers with and without    *)
(* high bytes; burns that are the current instruction and burns that it    *)
(* calls.  Headers that point at the burn data in its place, or where      *)
(* it would be behind an 8-byte discriminator, and each of them with one   *)
(* field changed.                                                          *)
(***************************************************************************)
EXTENDS BurnVerification

Lengths == 499 .. 504

MCBurns ==
  LET Small == [high |-> 0, low |-> 1]
      Large == [high |-> 1, low |-> 1]
      Zero == [high |-> 0, low |-> 0]
  IN  [length : Lengths, well_marked : {TRUE}, hook_data_length : 0 .. 4,
       transfer_spec_length : {340 + h : h \in 0 .. 4},
       value : {Zero, Small, Large}, max_fee : {Small, Large},
       max_block_height : {Small, Large}]
      \cup
      {[length |-> 500, well_marked |-> FALSE, hook_data_length |-> 0,
        transfer_spec_length |-> 340, value |-> Small, max_fee |-> Small,
        max_block_height |-> Small]}

MCHeaders ==
  LET Base(index, start, size) ==
        [length |-> 16, num_signatures |-> 1, padding |-> 0,
         signature_offset |-> start + 8, signature_instruction_index |-> index,
         public_key_offset |-> start + 368,
         public_key_instruction_index |-> index,
         message_data_offset |-> start + 72, message_data_size |-> size,
         message_instruction_index |-> index]
      Bases == {Base(index, start, size) :
                  index \in 0 .. 2, start \in {6, 12}, size \in {0, 1} \cup 428 .. 432}
      Changed == {[d EXCEPT ![f] = n] :
                    d \in Bases, f \in DOMAIN Base(0, 0, 0), n \in {0, 1, 2, 14}}
  IN  [program : {"Ed25519", "Other"}, data : Bases \cup Changed]
=============================================================================
