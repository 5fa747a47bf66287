---------------------------- MODULE CloseReason ----------------------------
(***************************************************************************)
(* A close message from Message::close_with_reason at one end to           *)
(* Message::as_close at the other (message.rs, close.rs).                  *)
(*                                                                         *)
(* A string is its length in bytes and the set of its character            *)
(* boundaries; its i-th byte is -i.  All other bytes are 0..255, so that   *)
(* bytes of the reason can be told from those of the code.  CopyInPlace is *)
(* a faulty variant of CopyUp, used only to show that CloseArrives notices.*)
(***************************************************************************)
EXTENDS Frame, Sequences

CONSTANTS
  MaxReason,     (* 123: a longer reason is cut                             *)
  Codes,         (* the close codes sent, as u16                            *)
  Reasons        (* the reasons given                                       *)

Strings == {s \in [n: Nat, bounds: SUBSET Nat] : s.bounds \subseteq 0..s.n /\ {0, s.n} \subseteq s.bounds}

ASSUME CloseAssumption ==
  /\ MaxReason \in Nat /\ ControlLimit = MaxReason + 3
  /\ Codes \subseteq {n \in Nat : n < 65536}
  /\ Reasons \subseteq Strings

VARIABLES
  pc,            (* the statement of close_with_reason that comes next      *)
  code,          (* its arguments                                           *)
  reason,
  s,             (* the reason as far as it has been shortened              *)
  len,           (* the local variable len, then the length returned        *)
  data,          (* the payload of the message                              *)
  received       (* what the peer reads                                     *)

vars == <<pc, code, reason, s, len, data, received>>

-----------------------------------------------------------------------------
(* CloseCode: a name, and a code where the variant carries one.            *)
U16Of ==
  [Normal |-> 1000, Away |-> 1001, Protocol |-> 1002, Unsupported |-> 1003,
   Status |-> 1005, Abnormal |-> 1006, Invalid |-> 1007, Policy |-> 1008,
   Size |-> 1009, Extension |-> 1010, Error |-> 1011, Restart |-> 1012,
   Again |-> 1013, Tls |-> 1015]
ToU16(c) == IF c.name \in DOMAIN U16Of THEN U16Of[c.name] ELSE c.code

FromU16(n) ==
  CASE n = 1000 -> [name |-> "Normal", code |-> 0]
    [] n = 1001 -> [name |-> "Away", code |-> 0]
    [] n = 1002 -> [name |-> "Protocol", code |-> 0]
    [] n = 1003 -> [name |-> "Unsupported", code |-> 0]
    [] n = 1005 -> [name |-> "Status", code |-> 0]
    [] n = 1006 -> [name |-> "Abnormal", code |-> 0]
    [] n = 1007 -> [name |-> "Invalid", code |-> 0]
    [] n = 1008 -> [name |-> "Policy", code |-> 0]
    [] n = 1009 -> [name |-> "Size", code |-> 0]
    [] n = 1010 -> [name |-> "Extension", code |-> 0]
    [] n = 1011 -> [name |-> "Error", code |-> 0]
    [] n = 1012 -> [name |-> "Restart", code |-> 0]
    [] n = 1013 -> [name |-> "Again", code |-> 0]
    [] n = 1015 -> [name |-> "Tls", code |-> 0]
    [] 1016 <= n /\ n <= 2999 -> [name |-> "Reserved", code |-> n]
    [] 3000 <= n /\ n <= 3999 -> [name |-> "Iana", code |-> n]
    [] 4000 <= n /\ n <= 4999 -> [name |-> "Library", code |-> n]
    [] OTHER -> [name |-> "Bad", code |-> n]

-----------------------------------------------------------------------------
(* An application calls close_with_reason.                                 *)
Init ==
  /\ pc = "truncate"
  /\ code \in {FromU16(n) : n \in Codes}
  /\ reason \in Reasons
  /\ s = reason
  /\ len = reason.n
  /\ data = <<>>
  /\ received = <<>>

(* truncate_floor_char_boundary: a short string stays as it is, in a long  *)
(* one the last boundary that is not past the limit is looked for.         *)
KeepAll ==
  /\ pc = "truncate" /\ len <= MaxReason
  /\ pc' = "fill"
  /\ UNCHANGED <<code, reason, s, len, data, received>>

StartFloor ==
  /\ pc = "truncate" /\ len > MaxReason
  /\ pc' = "floor"
  /\ len' = MaxReason
  /\ UNCHANGED <<code, reason, s, data, received>>

AtBoundary == len \in s.bounds

Floor ==
  /\ pc = "floor" /\ ~AtBoundary
  /\ len' = len - 1
  /\ UNCHANGED <<pc, code, reason, s, data, received>>

Truncated == [n |-> len, bounds |-> s.bounds \cap 0..len]

Cut ==
  /\ pc = "floor" /\ AtBoundary
  /\ pc' = "fill"
  /\ s' = Truncated
  /\ UNCHANGED <<code, reason, len, data, received>>

(* Two bytes are added at the end of the string, copy_within moves the     *)
(* reason up by two, and the code is written in front of it.               *)
Bytes(n) == [i \in 1..n |-> -i]
Grown == Bytes(s.n) \o <<0, 0>>
CopyInPlace == Grown
CopyUp == [i \in 1..s.n+2 |-> IF i \in 3..len+2 THEN Grown[i-2] ELSE Grown[i]]

Fill ==
  /\ pc = "fill"
  /\ pc' = "sent"
  /\ data' = [CopyUp EXCEPT ![1] = ToU16(code) \div 256, ![2] = ToU16(code) % 256]
  /\ UNCHANGED <<code, reason, s, len, received>>

(* The peer's decode and as_close: a control frame must be short enough,   *)
(* and Message::new wants a code and then text.                            *)
Rest == SubSeq(data, 3, Len(data))
IsText(bytes) == Len(bytes) \in reason.bounds /\ bytes = Bytes(Len(bytes))
Accepted == Len(data) < ControlLimit /\ Len(data) >= 2 /\ IsText(Rest)

AsClose ==
  /\ pc = "sent" /\ Accepted
  /\ pc' = "received"
  /\ received' = <<FromU16(data[1] * 256 + data[2]), Rest>>
  /\ UNCHANGED <<code, reason, s, len, data>>

Terminated == pc = "received" /\ UNCHANGED vars

Next == KeepAll \/ StartFloor \/ Floor \/ Cut \/ Fill \/ AsClose \/ Terminated

Spec == Init /\ [][Next]_vars

-----------------------------------------------------------------------------
(* The values of the variables: the length never runs below zero or past   *)
(* the end of the string.                                                  *)
TypeOK ==
  /\ pc \in {"truncate", "floor", "fill", "sent", "received"}
  /\ code \in {FromU16(n) : n \in Codes}
  /\ reason \in Reasons
  /\ s \in Strings /\ s.n <= reason.n
  /\ len \in 0..s.n
  /\ data \in Seq(Int)

(* b is the longest prefix of the reason that is whole characters and fits *)
(* beside the code in a control frame.                                     *)
IsLongest(b) ==
  /\ b \in reason.bounds /\ b + 2 < ControlLimit
  /\ \A c \in reason.bounds : c + 2 < ControlLimit => c <= b

(* The peer's decoder takes every close message, and reads from it the     *)
(* code that was given and the longest prefix of the reason that a close   *)
(* frame can hold (message.rs:92-105 and 154-165, close.rs:96-147).        *)
CloseArrives ==
  /\ pc = "sent" => Accepted
  /\ pc = "received" =>
       /\ received[1] = code
       /\ \E b \in reason.bounds : IsLongest(b) /\ received[2] = Bytes(b)
=============================================================================
