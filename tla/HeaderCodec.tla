---------------------------- MODULE HeaderCodec ----------------------------
(***************************************************************************)
(* FrameHeaderCodec (frame.rs) byte by byte: headers are encoded one after *)
(* the other, their bytes arrive in pieces of any size, and what arrived   *)
(* is decoded.  A mask is the four bytes of its u32 in memory, the order   *)
(* in which NativeEndian reads and writes them; rsv is the number the code *)
(* keeps, the bits where they are in the first byte.  The faulty variant   *)
(* of a definition comes before it and is named for its fault; it is used  *)
(* only to show that the properties notice.                                *)
(***************************************************************************)
EXTENDS Frame

CONSTANTS
  Headers,       (* the headers that may be sent                            *)
  MaxHeaders     (* bound on the number of headers sent                     *)

Byte == 0..255
NoMask == <<>>

HeaderType ==
  {h \in [fin: BOOLEAN, rsv: {16 * r : r \in 0..7}, opcode: 0..15,
          mask: {NoMask} \cup [1..4 -> Byte], form: DOMAIN FormMax, n: Nat] :
     h.n <= FormMax[h.form]}

ASSUME HeaderAssumption ==
  /\ Headers \subseteq HeaderType
  /\ MaxHeaders \in Nat

VARIABLES
  sent,          (* the headers encoded                                     *)
  dst,           (* the bytes encoded that have not arrived yet             *)
  src,           (* the bytes that arrived and are still to be decoded      *)
  got            (* the headers decoded                                     *)

vars == <<sent, dst, src, got>>

Init == sent = <<>> /\ dst = <<>> /\ src = <<>> /\ got = <<>>

-----------------------------------------------------------------------------
(* FrameHeader::header_len.                                                *)
HeadLenUnmasked(h) == 2 + ExtendedLen[h.form]
HeadLen(h) == HeaderLen([form |-> h.form, mask |-> h.mask # NoMask])

(* The k bytes of BigEndian::write_u16 and write_u64, the last one the     *)
(* lowest, and the number that read_u16 and read_u64 make of them.         *)
BigEndian(n, k) ==
  LET rest[j \in 0..k] == IF j = 0 THEN n ELSE rest[j-1] \div 256
  IN  [j \in 1..k |-> rest[k-j] % 256]
FromBigEndian(bytes) ==
  LET read[j \in 0..Len(bytes)] == IF j = 0 THEN 0 ELSE 256 * read[j-1] + bytes[j]
  IN  read[Len(bytes)]

(* The bytes write_to_slice stores.                                        *)
MaskBytesSkipped(h) == <<>>
MaskBytes(h) == h.mask
FirstByte(h) == h.rsv + h.opcode + (IF h.fin THEN 128 ELSE 0)
SecondByte(h) ==
  (IF h.mask # NoMask THEN 128 ELSE 0)
    + CASE h.form = "Small" -> h.n [] h.form = "Medium" -> 126 [] h.form = "Large" -> 127
Stored(h) ==
  <<FirstByte(h), SecondByte(h)>> \o BigEndian(h.n, ExtendedLen[h.form]) \o MaskBytes(h)

(* write_to_bytes grows dst by header_len with set_len, which leaves the   *)
(* new bytes uninitialised, and lets write_to_slice store into them.       *)
Uninitialised == -1
Written(h) ==
  [k \in 1..HeadLen(h) |-> IF k <= Len(Stored(h)) THEN Stored(h)[k] ELSE Uninitialised]

Encode(h) ==
  /\ Len(sent) < MaxHeaders
  /\ sent' = Append(sent, h)
  /\ dst' = dst \o Written(h)
  /\ UNCHANGED <<src, got>>

Arrive ==
  /\ \E k \in 1..Len(dst) :
       /\ src' = src \o SubSeq(dst, 1, k)
       /\ dst' = SubSeq(dst, k + 1, Len(dst))
  /\ UNCHANGED <<sent, got>>

-----------------------------------------------------------------------------
(* FrameHeader::parse_slice: the bytes after the first two that hold the   *)
(* length and the mask, and the header once all of them are there.         *)
Extended(buf) ==
  CASE buf[2] % 128 = 127 -> 8 [] buf[2] % 128 = 126 -> 2 [] OTHER -> 0
ParsedLen(buf) == 2 + Extended(buf) + (IF buf[2] >= 128 THEN 4 ELSE 0)
IsSome(buf) == Len(buf) >= 2 /\ Len(buf) >= ParsedLen(buf)

RsvBeforeFin(buf) == (buf[1] % 128) \div 16
Rsv(buf) == (buf[1] % 128) - (buf[1] % 16)

Parsed(buf) ==
  LET ext == Extended(buf) IN
  [fin    |-> buf[1] >= 128,
   rsv    |-> Rsv(buf),
   opcode |-> buf[1] % 16,
   mask   |-> IF buf[2] >= 128 THEN SubSeq(buf, ext + 3, ext + 6) ELSE NoMask,
   form   |-> CASE ext = 8 -> "Large" [] ext = 2 -> "Medium" [] ext = 0 -> "Small",
   n      |-> IF ext = 0 THEN buf[2] % 128 ELSE FromBigEndian(SubSeq(buf, 3, ext + 2))]

Decode ==
  /\ IsSome(src)
  /\ got' = Append(got, Parsed(src))
  /\ src' = SubSeq(src, ParsedLen(src) + 1, Len(src))
  /\ UNCHANGED <<sent, dst>>

Next == (\E h \in Headers : Encode(h)) \/ Arrive \/ Decode

Spec == Init /\ [][Next]_vars

-----------------------------------------------------------------------------
(* write_to_slice stores every byte that set_len exposes: none of what is  *)
(* sent is left over from other uses of the memory (frame.rs:277-286).     *)
Initialised ==
  /\ \A k \in 1..Len(dst) : dst[k] # Uninitialised
  /\ \A k \in 1..Len(src) : src[k] # Uninitialised

(* However the bytes arrive, the headers decoded are the headers encoded,  *)
(* in order (the test round_trips, frame.rs:337-358, of one header that    *)
(* arrives whole).                                                         *)
RoundTrips ==
  Len(got) <= Len(sent) /\ \A k \in 1..Len(got) : got[k] = sent[k]

(* parse_slice asks for no more bytes than header_len promises and leaves  *)
(* none over: once everything arrived and nothing more can be decoded,     *)
(* every header has been.                                                  *)
AllDecoded == dst = <<>> /\ ~IsSome(src) => got = sent /\ src = <<>>
=============================================================================
