------------------------------- MODULE Frame -------------------------------
(***************************************************************************)
(* The header of a WebSocket frame: opcode.rs and the length arithmetic of *)
(* frame.rs.  A frame is a record                                          *)
(*   fin    : the FIN bit                                                  *)
(*   rsv    : the three reserved bits, as a number                         *)
(*   opcode : the 4-bit opcode                                             *)
(*   mask   : whether a mask follows the length (Option<Mask>)             *)
(*   form,n : DataLength, the representation used for the length and the   *)
(*            length itself                                                *)
(*   text   : how the payload reads as UTF-8 (module Message)              *)
(* The boundaries of the code are parameters, so that TLC can place them   *)
(* close to each other and a theorem holds for the real ones.              *)
(***************************************************************************)
EXTENDS Integers, Sequences

CONSTANTS
  SmallMax,      (* 125:   the longest length held in seven bits            *)
  MediumMax,     (* 65535: the longest length held in sixteen bits          *)
  LargeLimit,    (* 2^63:  lengths from here on are refused                 *)
  U64Max,        (* 2^64-1                                                  *)
  UsizeMax,      (* usize::MAX of the platform the crate is built for       *)
  ControlLimit   (* 126:   a control frame must be shorter than this        *)

ASSUME LengthAssumption ==
  /\ {SmallMax, MediumMax, LargeLimit, U64Max, UsizeMax, ControlLimit} \subseteq Nat
  /\ SmallMax < MediumMax /\ MediumMax < LargeLimit /\ LargeLimit <= U64Max
  /\ MediumMax <= UsizeMax

Text == 1
Binary == 2
Close == 8
Ping == 9
Pong == 10

(* Opcode::try_from: the opcodes of an unfragmented message; 0 continues   *)
(* one and every other value is refused.                                   *)
Continuation == 0
Supported == {Text, Binary, Close, Ping, Pong}

IsControl(opcode) == opcode \in {Close, Ping, Pong}

TextClasses == {"whole", "head", "middle", "tail", "bad"}

(* The largest length each representation can hold.                        *)
FormMax == [Small |-> SmallMax, Medium |-> MediumMax, Large |-> U64Max]

FrameType ==
  {f \in [fin: BOOLEAN, rsv: 0..7, opcode: 0..15, mask: BOOLEAN,
          form: DOMAIN FormMax, n: Nat, text: TextClasses] : f.n <= FormMax[f.form]}

(* From<u64> for DataLength: the shortest representation.                  *)
FormOf(n) ==
  IF n <= SmallMax THEN "Small" ELSE IF n <= MediumMax THEN "Medium" ELSE "Large"

(* TryFrom<DataLength> for u64 and then for usize succeed: the length is   *)
(* not padded, below 2^63, and addressable.                                *)
LengthOk(f) ==
  /\ f.form = "Medium" => f.n > SmallMax
  /\ f.form = "Large" => f.n > MediumMax /\ f.n < LargeLimit
  /\ f.n <= UsizeMax

(* FrameHeader::header_len, also the bytes parse_slice asks for before it  *)
(* returns Some.                                                           *)
ExtendedLen == [Small |-> 0, Medium |-> 2, Large |-> 8]
HeaderLen(f) == 2 + ExtendedLen[f.form] + (IF f.mask THEN 4 ELSE 0)

(* The bytes a frame takes up on the wire.                                 *)
FrameLen(f) == HeaderLen(f) + f.n

(* The lengths of things that lie end to end, added up: the first k of     *)
(* them take up Sums(lens)[k].                                             *)
Sums(lens) ==
  LET upTo[k \in 0..Len(lens)] == IF k = 0 THEN 0 ELSE upTo[k-1] + lens[k]
  IN  upTo

(* usize addition: wraps in a release build (a debug build panics).        *)
UsizeAdd(a, b) == (a + b) % (UsizeMax + 1)
=============================================================================
