--------------------------- MODULE MessageStream ---------------------------
(***************************************************************************)
(* What MessageCodec promises, with no bytes, no buffer and no calls: the  *)
(* peer's frames are taken one at a time and in order, and each is a       *)
(* fragment of the open message, the end of it, a control message between  *)
(* its fragments, or an error that closes it.  SyncClient and AsyncClient  *)
(* implement this whatever way the bytes arrive.  A definition named for   *)
(* what goes wrong (DeliverNotBetween, AfterErrorKept) is a faulty variant *)
(* of the one after it and is used only to show that the properties notice.*)
(***************************************************************************)
EXTENDS Message, FiniteSets

CONSTANTS
  Frames,        (* the frames the peer may send                            *)
  MaxFrames      (* bound on the number of frames sent                      *)

ASSUME StreamAssumption ==
  /\ Frames \subseteq FrameType
  /\ MaxFrames \in Nat

VARIABLES
  wire,          (* the frames sent so far                                  *)
  pos,           (* how many of them have been taken                        *)
  open,          (* the message whose last fragment is still to come        *)
  out,           (* the messages delivered                                  *)
  failed         (* whether an error was ever reported                      *)

vars == <<wire, pos, open, out, failed>>

Init ==
  /\ wire = <<>>
  /\ pos = 0
  /\ open = Nothing
  /\ out = <<>>
  /\ failed = FALSE

-----------------------------------------------------------------------------
(* The frame alone is one the decoder supports.                            *)
SupportableAnyRsv(f) ==
  /\ f.opcode \in Supported \cup {Continuation}
  /\ IsControl(f.opcode) => f.n < ControlLimit
SupportableLong(f) ==
  /\ f.rsv = 0
  /\ f.opcode \in Supported \cup {Continuation}
SupportableShort(f) ==
  /\ f.rsv = 0
  /\ f.opcode \in Supported \cup {Continuation}
  /\ IsControl(f.opcode) => f.n < ControlLimit - 1
Supportable(f) ==
  /\ f.rsv = 0
  /\ f.opcode \in Supported \cup {Continuation}
  /\ IsControl(f.opcode) => f.n < ControlLimit

(* A control frame is whole; a data frame continues a message exactly when *)
(* one is open.                                                            *)
InPlace(f) ==
  IF IsControl(f.opcode) THEN f.fin
                         ELSE f.opcode = Continuation <=> open # Nothing

(* Twice the frame is more than can be addressed: the buffer that holds a  *)
(* part of it cannot grow to the whole, and the decoder may give up.       *)
MayGiveUp(f) == ~LengthOk(f) \/ 2 * FrameLen(f) > UsizeMax

(* The open message with the current frame added, and the current frame as *)
(* a message of its own.                                                   *)
Extended(f) ==
  [opcode |-> IF open = Nothing THEN f.opcode ELSE open.opcode,
   data   |-> Append(open.data, pos + 1)]
Alone(f) == [opcode |-> f.opcode, data |-> <<pos + 1>>]

(* The messages delivered once m is, and what is left open by an error.    *)
DeliverNotBetween(m) == IF IsControl(m.opcode) /\ open # Nothing THEN out ELSE Append(out, m)
Deliver(m) == Append(out, m)
AfterErrorKept == open
AfterError == Nothing

Ok(m) == MessageNewOk(wire, m.opcode, m.data)

PeerSend(f) ==
  /\ Len(wire) < MaxFrames
  /\ wire' = Append(wire, f)
  /\ UNCHANGED <<pos, open, out, failed>>

Take(f) ==
  /\ pos < Len(wire)
  /\ f = wire[pos + 1]
  /\ LengthOk(f)
  /\ pos' = pos + 1
  /\ UNCHANGED wire

Fragment(f) ==
  /\ Take(f)
  /\ Supportable(f) /\ InPlace(f)
  /\ ~f.fin
  /\ open' = Extended(f)
  /\ UNCHANGED <<out, failed>>

Complete(f) ==
  /\ Take(f)
  /\ Supportable(f) /\ InPlace(f)
  /\ f.fin /\ ~IsControl(f.opcode)
  /\ Ok(Extended(f))
  /\ open' = Nothing
  /\ out' = Deliver(Extended(f))
  /\ UNCHANGED failed

Control(f) ==
  /\ Take(f)
  /\ Supportable(f) /\ InPlace(f)
  /\ IsControl(f.opcode)
  /\ Ok(Alone(f))
  /\ out' = Deliver(Alone(f))
  /\ UNCHANGED <<open, failed>>

(* A frame out of place closes the open message along with itself, and so  *)
(* does an open message that turns out not to be text; a close message     *)
(* that is not well-formed leaves it open.                                 *)
Reject(f) ==
  /\ Take(f)
  /\ \/ ~(Supportable(f) /\ InPlace(f)) /\ open' = AfterError
     \/ /\ Supportable(f) /\ InPlace(f) /\ f.fin /\ ~IsControl(f.opcode)
        /\ ~Ok(Extended(f))
        /\ open' = AfterError
     \/ /\ Supportable(f) /\ InPlace(f) /\ IsControl(f.opcode)
        /\ ~Ok(Alone(f))
        /\ UNCHANGED open
  /\ failed' = TRUE
  /\ UNCHANGED out

(* A frame that cannot be held is never taken: the stream is stuck at it.  *)
GiveUp(f) ==
  /\ pos < Len(wire)
  /\ f = wire[pos + 1]
  /\ MayGiveUp(f)
  /\ open' = AfterError
  /\ failed' = TRUE
  /\ UNCHANGED <<wire, pos, out>>

Next ==
  \E f \in Frames :
    \/ PeerSend(f) \/ Fragment(f) \/ Complete(f)
    \/ Control(f) \/ Reject(f) \/ GiveUp(f)

Spec == Init /\ [][Next]_vars

-----------------------------------------------------------------------------
(* The values of the variables.                                            *)
TypeOK ==
  /\ wire \in Seq(Frames) /\ Len(wire) <= MaxFrames
  /\ pos \in 0..Len(wire)
  /\ open \in MessageType
  /\ out \in Seq(MessageType)
  /\ failed \in BOOLEAN

(* Strictly between frames i and j there are only control frames, each     *)
(* whole and one that the decoder supports.                                *)
Harmless(f) == IsControl(f.opcode) /\ f.fin /\ LengthOk(f) /\ Supportable(f)
Adjoining(i, j) == \A k \in i+1 .. j-1 : Harmless(wire[k])

(* d is a run of fragments of one message: it starts with the frame that   *)
(* names the opcode, and each later frame continues the one before it.     *)
IsRun(opcode, d) ==
  /\ d # <<>>
  /\ \A k \in 1..Len(d) : d[k] \in 1..pos /\ LengthOk(wire[d[k]]) /\ Supportable(wire[d[k]])
  /\ opcode = wire[d[1]].opcode /\ opcode # Continuation
  /\ \A k \in 1..Len(d)-1 :
       /\ d[k] < d[k+1]
       /\ wire[d[k+1]].opcode = Continuation
       /\ ~wire[d[k]].fin
       /\ Adjoining(d[k], d[k+1])

(* Every delivered message is exactly one run of fragments on the wire,    *)
(* from the frame that starts it to the one with FIN, or one whole control *)
(* frame (message.rs:224-324): no fragment is missing, repeated or         *)
(* borrowed from another message, and no frame that was refused for what   *)
(* it is or for where it stands lies between two of them.  The one refused *)
(* frame that may is a close message that is not well-formed, which        *)
(* Message::new finds (message.rs:326) after the open message was put back *)
(* (message.rs:299): a caller that goes on receives the rest of it.        *)
Exact ==
  \A k \in 1..Len(out) :
    LET m == out[k] IN IsRun(m.opcode, m.data) /\ wire[m.data[Len(m.data)]].fin

(* The open message is a run that reaches the present: only control frames *)
(* that are whole and supported came after its last fragment.              *)
OpenIsRun ==
  open # Nothing =>
    /\ IsRun(open.opcode, open.data)
    /\ ~IsControl(open.opcode)
    /\ LET i == open.data[Len(open.data)] IN ~wire[i].fin /\ Adjoining(i, pos + 1)

(* A data frame lies strictly between frames i and j.                      *)
DataBetween(i, j) == \E k \in i+1 .. j-1 : ~IsControl(wire[k].opcode)

(* What the protocol asks of the first n frames, read off the wire alone:  *)
(* no reserved bit, a known opcode, the shortest form for the length, a    *)
(* control frame whole and of the short form, and frame i continues a      *)
(* message exactly when the data frame before it did not finish one.       *)
Unfinished(i) ==
  \E j \in 1..i-1 : ~IsControl(wire[j].opcode) /\ ~wire[j].fin /\ ~DataBetween(j, i)

ConformsAt(i) ==
  LET f == wire[i] IN
  /\ f.rsv = 0 /\ f.opcode \in 0..2 \cup 8..10
  /\ f.form = FormOf(f.n) /\ f.n < LargeLimit
  /\ IsControl(f.opcode) => f.fin /\ f.form = "Small"
  /\ ~IsControl(f.opcode) => (f.opcode = Continuation <=> Unfinished(i))

Conformant(n) == \A i \in 1..n : ConformsAt(i)

(* The frames of the message that frame i finishes, and their order.       *)
RunTo(i) ==
  {j \in 1..i : /\ ~IsControl(wire[j].opcode)
                /\ \A k \in j+1..i : IsControl(wire[k].opcode)
                                       \/ wire[k].opcode = Continuation}
FramesOf(i) == IF IsControl(wire[i].opcode) THEN {i} ELSE RunTo(i)
Increasing(d) == \A j, k \in DOMAIN d : j < k => d[j] < d[k]

(* The payload of the message that frame i finishes is what its opcode     *)
(* promises, given that the first i frames conform.                        *)
PayloadOk(i) ==
  wire[i].fin =>
    \A d \in [1..Cardinality(FramesOf(i)) -> FramesOf(i)] :
      Increasing(d) => MessageNewOk(wire, wire[d[1]].opcode, d)

WellFormed(n) == Conformant(n) /\ \A i \in 1..n : PayloadOk(i)

(* The decoder reports no error exactly as long as the peer keeps to the   *)
(* protocol: no error in what it took means all of it conforms, and a wire *)
(* that conforms never makes it report one.                                *)
RejectsNonconformant == ~failed => WellFormed(pos)
PeerConforms == WellFormed(Len(wire)) /\ \A i \in 1..Len(wire) : ~MayGiveUp(wire[i])
AcceptsConformant == PeerConforms => ~failed

(* The messages that the first n frames finish, by their last frames; that *)
(* m is the one frame i finishes; and that those delivered are these.      *)
Finished(n) == {j \in 1..n : wire[j].fin}
Delivers(m, i) ==
  Increasing(m.data) /\ {m.data[k] : k \in DOMAIN m.data} = FramesOf(i)
AllDelivered ==
  /\ Len(out) = Cardinality(Finished(pos))
  /\ \A i \in Finished(pos) : Delivers(out[Cardinality(Finished(i))], i)

(* The messages that a peer that keeps to the protocol has finished are    *)
(* delivered, all of them, once each, in the order of their last frames    *)
(* and with all of their frames: also the control messages that came       *)
(* between the fragments of another (message.rs:297-301), and the message  *)
(* that they came in.                                                      *)
DeliversAll == PeerConforms => AllDelivered

=============================================================================
