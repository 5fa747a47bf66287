------------------------------ MODULE Message ------------------------------
(***************************************************************************)
(* Message::new (message.rs) over payloads that are not spelled out.  The  *)
(* bytes of a message are the sequence of the frames they came from: k for *)
(* the plain payload of wire[k], -k for that payload still XORed with its  *)
(* mask.  Masking twice is the identity, as negation is.                   *)
(***************************************************************************)
EXTENDS Frame

(* The bytes split off the buffer for frame k of wire w, and mask_slice.   *)
Payload(w, k) == IF w[k].mask THEN -k ELSE k
MaskSlice(payload) == -payload

(* The frame a payload came from, and how the payload reads as text.       *)
Source(payload) == IF payload < 0 THEN -payload ELSE payload
TextOf(w, payload) == IF payload < 0 THEN "bad" ELSE w[payload].text

(* How each class of piece moves a reader of UTF-8: "boundary" between two *)
(* characters, "mid" inside one.                                           *)
Utf8Steps == {<<"boundary", "whole", "boundary">>, <<"boundary", "head", "mid">>,
              <<"mid", "middle", "mid">>, <<"mid", "tail", "boundary">>}

(* str::from_utf8 on the concatenation of the pieces.                      *)
Utf8(w, data) ==
  \E at \in [0..Len(data) -> {"boundary", "mid"}] :
    /\ at[0] = "boundary" /\ at[Len(data)] = "boundary"
    /\ \A k \in 1..Len(data) :
         \/ <<at[k-1], TextOf(w, data[k]), at[k]>> \in Utf8Steps
         \/ w[Source(data[k])].n = 0 /\ at[k] = at[k-1]

(* The data of a close message: empty, or a two-byte code and then text    *)
(* (the text class of a close frame is that of its reason).                *)
CloseDataOk(w, data) ==
  LET f == w[Source(data[1])] IN
  \/ f.n = 0
  \/ f.n = 2
  \/ f.n > 2 /\ TextOf(w, data[1]) = "whole"

(* Message::new returns Ok.                                                *)
MessageNewOk(w, opcode, data) ==
  /\ opcode = Text => Utf8(w, data)
  /\ opcode = Close => CloseDataOk(w, data)

(* None of Option<(Opcode, BytesMut)>.                                     *)
Nothing == [opcode |-> 0, data |-> <<>>]
MessageType == [opcode: 0..15, data: Seq(Int)]
=============================================================================
