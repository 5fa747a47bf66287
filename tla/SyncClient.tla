----------------------------- MODULE SyncClient -----------------------------
(***************************************************************************)
(* The receiving half of Client<S>: ClientBuilder::connect_on, the loop of *)
(* sync::Framed::receive, UpgradeCodec::decode and MessageCodec::decode,   *)
(* at the grain of one turn of either loop.  A definition named for what   *)
(* goes wrong (ParkedLost, FrameSizePayload) is a faulty variant of the    *)
(* one after it and is used only to show that the properties notice.       *)
(*                                                                         *)
(* The stream is a count of bytes: the response to the handshake, then the *)
(* frames of wire one after the other, frame k ending at ends[k].  recvd   *)
(* of these bytes have been read and the first head of them consumed, so   *)
(* read_buf holds bytes head+1 to recvd.  A read returns any number of     *)
(* bytes, fails, or finds the stream closed at any byte.                   *)
(***************************************************************************)
EXTENDS Message

CONSTANTS
  Frames,        (* the frames the server may send                          *)
  MaxFrames,     (* bound on the number of frames sent                      *)
  ResponseLen    (* the length of the server's HTTP response                *)

ASSUME ClientAssumption ==
  /\ Frames \subseteq FrameType
  /\ MaxFrames \in Nat
  /\ ResponseLen \in Nat \ {0}

VARIABLES
  response,      (* what the server answered to the handshake               *)
  wire,          (* the frames sent so far                                  *)
  ends,          (* ends[k]: the byte at which wire[k] ends                 *)
  limit,         (* the bytes of these that the client can ever read        *)
  closed,        (* whether the server's side of the stream is closed       *)
  recvd,         (* the bytes read into read_buf so far                     *)
  head,          (* the bytes split off read_buf so far                     *)
  codec,         (* the type of Framed::codec                               *)
  pc,            (* where the client's thread is                            *)
  interrupted,   (* MessageCodec::interrupted_message                       *)
  state,         (* the local variable state of MessageCodec::decode        *)
  pos,           (* the frames split off read_buf so far                    *)
  out,           (* the messages receive has returned                       *)
  failed,        (* whether MessageCodec::decode ever returned Err          *)
  result         (* what the last call of receive returned                  *)

peer == <<response, wire, ends, limit, closed>>
buffer == <<recvd, head>>
decoder == <<interrupted, state, pos, out, failed>>
vars == <<peer, buffer, codec, pc, decoder, result>>

Init ==
  /\ response = "none"
  /\ wire = <<>> /\ ends = <<>>
  /\ limit = 0 /\ closed = FALSE
  /\ recvd = 0 /\ head = 0
  /\ codec = "upgrade"
  /\ pc = "start"
  /\ interrupted = Nothing /\ state = Nothing
  /\ pos = 0 /\ out = <<>> /\ failed = FALSE
  /\ result = "none"

(* The byte after which frame k starts.                                    *)
Start(k) == IF k = 1 THEN ResponseLen ELSE ends[k-1]

-----------------------------------------------------------------------------
(* The server.  A response that the client rejects stands for all of them: *)
(* a status that is not 101, headers that are missing, wrong or more than  *)
(* 20, and bytes that are not HTTP; an overlong one has all that it should *)
(* but a Sec-WebSocket-Accept of more than the 20 bytes of a digest.       *)
ServerRespond ==
  /\ pc # "start" /\ response = "none" /\ ~closed
  /\ response' \in {"accept", "reject", "overlong"}
  /\ limit' = ResponseLen
  /\ UNCHANGED <<wire, ends, closed, buffer, codec, pc, decoder, result>>

PeerSend(f) ==
  /\ response = "accept" /\ ~closed
  /\ Len(wire) < MaxFrames
  /\ wire' = Append(wire, f)
  /\ ends' = Append(ends, Start(Len(wire) + 1) + FrameLen(f))
  /\ limit' = Start(Len(wire) + 1) + FrameLen(f)
  /\ UNCHANGED <<response, closed, buffer, codec, pc, decoder, result>>

(* The stream ends, perhaps before all that was written to it.             *)
PeerClose ==
  /\ pc # "start" /\ ~closed
  /\ closed' = TRUE
  /\ limit' \in recvd..limit
  /\ UNCHANGED <<response, wire, ends, buffer, codec, pc, decoder, result>>

-----------------------------------------------------------------------------
(* connect_on writes the request and calls receive: read_buf has no        *)
(* capacity yet, so that receive reads before it decodes.                  *)
Connect ==
  /\ pc = "start"
  /\ pc' \in {"read", "closed"}
  /\ UNCHANGED <<peer, buffer, codec, decoder, result>>

(* decode takes interrupted_message and leaves None in its place.          *)
BeginDecode(at) ==
  /\ pc' = at
  /\ state' = interrupted
  /\ interrupted' = Nothing

(* Client::receive.  The buffer may have no capacity left once everything  *)
(* has been split off it.                                                  *)
Receive ==
  /\ pc = "idle"
  /\ result' = "none"
  /\ \/ recvd = head /\ pc' = "read" /\ UNCHANGED <<interrupted, state>>
     \/ BeginDecode("decode")
  /\ UNCHANGED <<peer, buffer, codec, pos, out, failed>>

(* read returned n: decode goes on with the bytes, decode_eof with none.   *)
AfterReadUnchecked(n) == "decode"
AfterRead(n) == IF n = 0 THEN "decode_eof" ELSE "decode"

Read ==
  /\ pc = "read"
  /\ \E n \in 1 .. limit - recvd : recvd' = recvd + n /\ BeginDecode(AfterRead(n))
  /\ UNCHANGED <<peer, head, codec, pos, out, failed, result>>

ReadEof ==
  /\ pc = "read" /\ closed /\ recvd = limit
  /\ BeginDecode(AfterRead(0))
  /\ UNCHANGED <<peer, buffer, codec, pos, out, failed, result>>

(* read failed: receive returns Err, and so does connect_on.               *)
ReadError ==
  /\ pc = "read"
  /\ pc' = IF codec = "upgrade" THEN "closed" ELSE "idle"
  /\ result' = "io"
  /\ UNCHANGED <<peer, buffer, codec, decoder>>

-----------------------------------------------------------------------------
Decoding == pc \in {"decode", "decode_eof"}
Avail == recvd - head

(* What decode_eof makes of a decode that wants more bytes.                *)
EofResultClean(left) == "end"
EofResult(left) == IF left = 0 THEN "end" ELSE "truncated"

(* UpgradeCodec::decode on an incomplete response.  connect_on turns the   *)
(* end of the stream into an error of its own.                             *)
UpgradeMore ==
  /\ Decoding /\ codec = "upgrade"
  /\ Avail < ResponseLen
  /\ IF pc = "decode"
       THEN pc' = "read" /\ UNCHANGED result
       ELSE pc' = "closed" /\ result' = EofResult(Avail)
  /\ UNCHANGED <<peer, buffer, codec, decoder>>

(* A response that is not HTTP is refused at its first wrong byte.         *)
UpgradeReject ==
  /\ Decoding /\ codec = "upgrade"
  /\ response = "reject" /\ Avail > 0
  /\ pc' = "closed"
  /\ result' = "error"
  /\ UNCHANGED <<peer, buffer, codec, decoder>>

(* base64::decode_config_slice panics when what it decodes does not fit    *)
(* the slice it was given.                                                 *)
UpgradePanic ==
  /\ Decoding /\ codec = "upgrade"
  /\ response = "overlong" /\ Avail >= ResponseLen
  /\ pc' = "panicked"
  /\ UNCHANGED <<peer, buffer, codec, decoder, result>>

(* Framed::replace_codec hands read_buf, with what follows the response in *)
(* it, to the new codec.                                                   *)
ReplaceCodecEmpty(at) == recvd
ReplaceCodec(at) == at

UpgradeAccept ==
  /\ Decoding /\ codec = "upgrade"
  /\ response = "accept" /\ Avail >= ResponseLen
  /\ head' = ReplaceCodec(head + ResponseLen)
  /\ codec' = "message"
  /\ pc' = "idle"
  /\ UNCHANGED <<peer, recvd, decoder, result>>

-----------------------------------------------------------------------------
(* The frame at the front of the buffer, and FrameHeader::parse_slice      *)
(* returning Some.  Aligned is what makes this the right frame.            *)
Front == wire[pos + 1]
HeaderBuffered == pos < Len(wire) /\ HeaderLen(Front) <= Avail

(* frame_len, and the test that it is not all in the buffer yet.           *)
FrameSizePayload(f) == f.n
FrameSize(f) == UsizeAdd(HeaderLen(f), f.n)
IncompletePayload(f) == f.n > Avail
IncompleteOrExact(f) == FrameSize(f) >= Avail
Incomplete(f) == FrameSize(f) > Avail
Unreasonable(f) == FrameSize(f) > UsizeMax - Avail

(* The message under assembly when decode stops for want of bytes.         *)
ParkedLost(m) == Nothing
Parked(m) == m

NeedMore ==
  /\ Decoding /\ codec = "message"
  /\ HeaderBuffered => LengthOk(Front) /\ Incomplete(Front) /\ ~Unreasonable(Front)
  /\ interrupted' = Parked(state)
  /\ state' = Nothing
  /\ IF pc = "decode"
       THEN pc' = "read" /\ UNCHANGED result
       ELSE pc' = "idle" /\ result' = EofResult(Avail)
  /\ UNCHANGED <<peer, buffer, codec, pos, out, failed>>

(* decode returns Err, leaving kept in interrupted_message.                *)
Fail(kept) ==
  /\ pc' = "idle"
  /\ interrupted' = kept
  /\ state' = Nothing
  /\ failed' = TRUE
  /\ result' = "error"
  /\ UNCHANGED out

(* A length that cannot be right or cannot be held is reported before the  *)
(* frame is split off, and will be again.                                  *)
Refuse ==
  /\ Decoding /\ codec = "message"
  /\ HeaderBuffered
  /\ LengthOk(Front) => Incomplete(Front) /\ Unreasonable(Front)
  /\ Fail(Nothing)
  /\ UNCHANGED <<peer, buffer, codec, pos>>

(* frame_len wrapped around: it is less than the header, and advance       *)
(* panics (in a debug build the addition does).                            *)
Panic ==
  /\ Decoding /\ codec = "message"
  /\ HeaderBuffered /\ LengthOk(Front)
  /\ FrameSize(Front) < HeaderLen(Front)
  /\ pc' = "panicked"
  /\ UNCHANGED <<peer, buffer, codec, decoder, result>>

TakeFrame(f) ==
  /\ Decoding /\ codec = "message"
  /\ HeaderBuffered /\ f = Front
  /\ LengthOk(f) /\ ~Incomplete(f)
  /\ FrameSize(f) >= HeaderLen(f)
  /\ head' = head + FrameSize(f)
  /\ pos' = pos + 1
  /\ UNCHANGED <<peer, recvd, codec>>

(* The payload of the frame being taken, unmasked.                         *)
Data ==
  LET split == Payload(wire, pos + 1) IN IF Front.mask THEN MaskSlice(split) ELSE split

(* Message::new, and the return from decode and receive.                   *)
Return(opcode, data, kept) ==
  \/ /\ MessageNewOk(wire, opcode, data)
     /\ out' = Append(out, [opcode |-> opcode, data |-> data])
     /\ pc' = "idle"
     /\ interrupted' = kept
     /\ state' = Nothing
     /\ result' = "message"
     /\ UNCHANGED failed
  \/ ~MessageNewOk(wire, opcode, data) /\ Fail(kept)

Supports(f) ==
  /\ f.rsv = 0
  /\ f.opcode \in Supported \cup {Continuation}
  /\ IsControl(f.opcode) => f.n < ControlLimit

(* A frame the decoder never supports, or not at this point.               *)
RejectFrame(f) ==
  /\ TakeFrame(f)
  /\ \/ ~Supports(f)
     \/ state # Nothing /\ f.opcode # Continuation /\ ~(f.fin /\ IsControl(f.opcode))
     \/ state = Nothing /\ ~f.fin /\ IsControl(f.opcode)
     \/ state = Nothing /\ f.opcode = Continuation
  /\ Fail(Nothing)

(* A control message while another message is under assembly: that one     *)
(* goes back to interrupted_message.                                       *)
Interleave(f) ==
  /\ TakeFrame(f) /\ Supports(f)
  /\ state # Nothing /\ f.fin /\ IsControl(f.opcode)
  /\ Return(f.opcode, <<Data>>, Parked(state))

FirstFragment(f) ==
  /\ TakeFrame(f) /\ Supports(f)
  /\ state = Nothing /\ f.opcode # Continuation
  /\ \/ f.fin /\ Return(f.opcode, <<Data>>, Nothing)
     \/ /\ ~f.fin /\ ~IsControl(f.opcode)
        /\ state' = [opcode |-> f.opcode, data |-> <<Data>>]
        /\ UNCHANGED <<pc, interrupted, out, failed, result>>

NextFragment(f) ==
  /\ TakeFrame(f) /\ Supports(f)
  /\ state # Nothing /\ f.opcode = Continuation
  /\ \/ f.fin /\ Return(state.opcode, Append(state.data, Data), Nothing)
     \/ /\ ~f.fin
        /\ state' = [state EXCEPT !.data = Append(@, Data)]
        /\ UNCHANGED <<pc, interrupted, out, failed, result>>

(* The client is gone.                                                     *)
Terminated == pc \in {"closed", "panicked"} /\ UNCHANGED vars

Decode ==
  \/ UpgradeMore \/ UpgradeReject \/ UpgradePanic \/ UpgradeAccept
  \/ NeedMore \/ Refuse \/ Panic
  \/ \E f \in Frames : RejectFrame(f) \/ Interleave(f) \/ FirstFragment(f) \/ NextFragment(f)

Next ==
  \/ ServerRespond \/ PeerClose \/ \E f \in Frames : PeerSend(f)
  \/ Connect \/ Receive \/ Read \/ ReadEof \/ ReadError
  \/ Decode
  \/ Terminated

Spec == Init /\ [][Next]_vars

(* The application calls receive again after it returned, the thread runs, *)
(* and a read with bytes or the end of the stream before it does not fail  *)
(* every time.                                                             *)
FairSpec ==
  /\ Spec
  /\ WF_vars(Connect) /\ WF_vars(Receive) /\ WF_vars(Decode)
  /\ SF_vars(Read) /\ SF_vars(ReadEof)

-----------------------------------------------------------------------------
(* The values of the variables, and how the counts of bytes are related.   *)
TypeOK ==
  /\ response \in {"none", "accept", "reject", "overlong"}
  /\ wire \in Seq(Frames) /\ Len(wire) <= MaxFrames
  /\ ends \in Seq(Nat) /\ Len(ends) = Len(wire)
  /\ closed \in BOOLEAN
  /\ limit \in Nat /\ recvd \in 0..limit /\ head \in 0..recvd
  /\ codec \in {"upgrade", "message"}
  /\ pc \in {"start", "idle", "read", "decode", "decode_eof", "closed", "panicked"}
  /\ interrupted \in MessageType /\ state \in MessageType
  /\ pos \in 0..Len(wire)
  /\ out \in Seq(MessageType)
  /\ failed \in BOOLEAN
  /\ result \in {"none", "message", "error", "io", "end", "truncated"}

(* What has been split off the buffer is whole frames (and the response):  *)
(* after a control frame, an error, a refused length or the change of      *)
(* codec, the next header is read at the first byte of a frame             *)
(* (message.rs:235-261, client.rs:249).                                    *)
Aligned == head = IF codec = "upgrade" THEN 0 ELSE Start(pos + 1)

(* receive blocks in read only when the buffer does not hold an answer: a  *)
(* complete response or frame, or a length to complain about               *)
(* (sync.rs:48-67).  A message that came with the last bytes of another is *)
(* not left waiting for more.                                              *)
NoBlockOnReady ==
  pc = "read" =>
    IF codec = "upgrade" THEN recvd < ResponseLen
    ELSE HeaderBuffered => LengthOk(Front) /\ recvd < ends[pos + 1]

(* Ok(None) says that the stream ended between two frames and that every   *)
(* frame before its end was taken (decode_eof, sync.rs:71-72): a frame cut *)
(* short is reported as an error.                                          *)
CleanEnd == result = "end" => closed /\ recvd = limit /\ (codec = "message" => limit = Start(pos + 1))

(* MessageCodec::decode never panics, whatever length a frame announces    *)
(* (the test frame_bigger_than_2_64_does_not_panic, message.rs:553).  That *)
(* the handshake may (UpgradePanic) is another matter.                     *)
NeverPanics == codec = "message" => pc # "panicked"

(* While decode runs the open message is in its local variable.            *)
Open == IF pc \in {"decode", "decode_eof", "panicked"} THEN state ELSE interrupted

(* However the bytes are cut up by reads, whatever reads fail and wherever *)
(* the stream ends, the messages returned are those the frames spell.      *)
MS == INSTANCE MessageStream WITH open <- Open
Implements == MS!Spec

-----------------------------------------------------------------------------
(* A frame that Refuse refuses stays at the front of the buffer.           *)
Stuck == HeaderBuffered /\ (LengthOk(Front) => Incomplete(Front) /\ Unreasonable(Front))
Gone == pc \in {"closed", "panicked"} \/ Stuck

(* A frame that arrives whole is taken, unless one before it never is.     *)
Arrives(k) == k <= Len(wire) /\ ends[k] <= limit
Drained == \A k \in 1..MaxFrames : Arrives(k) ~> (pos >= k \/ Gone \/ ~Arrives(k))

(* A client that keeps calling receive is told that the stream ended.      *)
EndReported == closed ~> (result \in {"end", "truncated"} \/ Gone)
=============================================================================
