-------------------------------- MODULE Mask --------------------------------
(***************************************************************************)
(* mask.rs: the payload of a frame is masked by copying (mask_slice_copy,  *)
(* in encode) and unmasked in place (mask_slice, in decode), a byte at a   *)
(* time before the first aligned word and after the last one and a word at *)
(* a time between, from slices that start anywhere.  What a byte holds is  *)
(* the set of the bytes of the mask it is XORed with: XOR twice with the   *)
(* same byte takes it out again.  A register is a function from the        *)
(* significance of a byte (0 is the lowest) to the byte of the mask, in    *)
(* the order of the wire, that is there.  RotateNot, RotateLeft and        *)
(* PrefixWhole are faulty variants of the definition after them, used only *)
(* to show that the properties notice.  The names of its specification are *)
(* MaskSpec and so on, so that HeaderCodec can be extended together with   *)
(* this module.                                                            *)
(***************************************************************************)
EXTENDS Integers

CONSTANTS
  MaxLen,        (* bound on the length of the payload                      *)
  LittleEndian   (* the byte order of the platform                          *)

ASSUME MaskAssumption ==
  /\ MaxLen \in Nat
  /\ LittleEndian \in BOOLEAN

Untouched == {-1}

VARIABLES
  len,           (* the length of the payload                               *)
  bufAddr,       (* the address of the buffer written, modulo 4             *)
  dataAddr,      (* the address of the data read, modulo 4                  *)
  call,          (* "copy", "in_place" or "returned"                        *)
  i,             (* the bytes done by the call                              *)
  mask,          (* the local variable mask                                 *)
  buf            (* the bytes of the buffer                                 *)

maskVars == <<len, bufAddr, dataAddr, call, i, mask, buf>>

(* NativeEndian::read_u32 of the mask on the wire.                         *)
Register == [s \in 0..3 |-> IF LittleEndian THEN s ELSE 3 - s]

(* The byte of the mask that a word operation applies to byte j of a word. *)
InWord(j) == mask[IF LittleEndian THEN j ELSE 3 - j]

(* mask.rotate_right(8).                                                   *)
RotateNot == mask
RotateLeft == [s \in 0..3 |-> mask[(s + 3) % 4]]
Rotate == [s \in 0..3 |-> mask[(s + 1) % 4]]

(* align_to and align_to_mut on n bytes at address at: the bytes before    *)
(* the first aligned word, and the words.                                  *)
PrefixWhole(at, n) == IF 4 - at > n THEN n ELSE 4 - at
Prefix(at, n) == LET gap == (4 - at) % 4 IN IF gap > n THEN n ELSE gap
Words(at, n) == (n - Prefix(at, n)) \div 4

(* The source after the part that faces buf1, and whether it is aligned.   *)
DataAt == (dataAddr + Prefix(bufAddr, len)) % 4
DataLen == len - Prefix(bufAddr, len)
Aligned == call = "in_place" \/ Prefix(DataAt, DataLen) = 0

(* The byte at which the words end.                                        *)
WordsEnd == Prefix(bufAddr, len) + 4 * Words(bufAddr, len)

MaskInit ==
  /\ len \in 0..MaxLen /\ bufAddr \in 0..3 /\ dataAddr \in 0..3
  /\ call = "copy"
  /\ i = 0
  /\ mask = Register
  /\ buf = [k \in 0..len-1 |-> Untouched]

(* What is in the data at byte k, and its XOR with byte m of the mask.     *)
Read(k) == IF call = "copy" THEN {} ELSE buf[k]
Xor(b, m) == (b \ {m}) \cup ({m} \ b)

(* mask_u8_copy and mask_u8_in_place: one turn of the loop over buf1 or    *)
(* buf3.                                                                   *)
MaskByte ==
  /\ call # "returned"
  /\ i < len /\ (i < Prefix(bufAddr, len) \/ WordsEnd <= i)
  /\ buf' = [buf EXCEPT ![i] = Xor(Read(i), mask[0])]
  /\ mask' = Rotate
  /\ i' = i + 1
  /\ UNCHANGED <<len, bufAddr, dataAddr, call>>

(* mask_aligned_copy, mask_unaligned_copy and mask_aligned_in_place: one   *)
(* turn of the loop over buf2.                                             *)
MaskWord ==
  /\ call # "returned"
  /\ Prefix(bufAddr, len) <= i /\ i < WordsEnd
  /\ buf' = [k \in 0..len-1 |->
               IF k \in i..i+3 THEN Xor(Read(k), InWord(k - i)) ELSE buf[k]]
  /\ i' = i + 4
  /\ UNCHANGED <<len, bufAddr, dataAddr, call, mask>>

(* The frame is sent, and taken off a buffer where it has any alignment.   *)
Transfer ==
  /\ call = "copy" /\ i = len
  /\ call' = "in_place"
  /\ bufAddr' \in 0..3 /\ dataAddr' = bufAddr'
  /\ i' = 0
  /\ mask' = Register
  /\ UNCHANGED <<len, buf>>

Return ==
  /\ call = "in_place" /\ i = len
  /\ call' = "returned"
  /\ UNCHANGED <<len, bufAddr, dataAddr, i, mask, buf>>

Terminated == call = "returned" /\ UNCHANGED maskVars

MaskNext == MaskByte \/ MaskWord \/ Transfer \/ Return \/ Terminated

MaskSpec == MaskInit /\ [][MaskNext]_maskVars
-----------------------------------------------------------------------------
(* The values of the variables.                                            *)
TypeOK ==
  /\ len \in 0..MaxLen /\ bufAddr \in 0..3 /\ dataAddr \in 0..3
  /\ call \in {"copy", "in_place", "returned"}
  /\ i \in 0..len
  /\ mask \in [0..3 -> 0..3]
  /\ buf \in [0..len-1 -> SUBSET (-1..3)]

(* Byte k of what is sent is XORed with byte k % 4 of the mask, whatever   *)
(* the addresses of the slices (the test can_mask, mask.rs:129-147): at    *)
(* any time in the bytes that the copy has done, and in all of them when   *)
(* it is over and none is left as it was (message.rs:350-354).             *)
MaskedInOrder ==
  call = "copy" => \A k \in 0..len-1 : buf[k] = IF k < i THEN {k % 4} ELSE Untouched

(* Unmasking from a slice with another address restores what was masked.   *)
Restored == call = "returned" => \A k \in 0..len-1 : buf[k] = {}

(* No assertion of mask.rs fails, whatever the addresses (mask.rs:26-86):  *)
(* fewer than four bytes are done one at a time, before the words and      *)
(* after them, and an aligned source has as many words as the buffer.      *)
AssertsHold ==
  /\ Prefix(bufAddr, len) < 4 /\ len - WordsEnd < 4
  /\ call = "copy" /\ Aligned => Words(DataAt, DataLen) = Words(bufAddr, len)
=============================================================================
