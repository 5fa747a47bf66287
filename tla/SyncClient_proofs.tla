-------------------------- MODULE SyncClient_proofs --------------------------
(***************************************************************************)
(* Proofs about SyncClient, for any frames, any number of them, a response *)
(* of any length and any values of the boundaries.                         *)
(***************************************************************************)
EXTENDS SyncClient, TLAPS

-----------------------------------------------------------------------------
(* The length arithmetic.                                                  *)
LEMMA HeaderFacts ==
  ASSUME NEW f \in Frames
  PROVE  /\ HeaderLen(f) \in 2..14 /\ f.n \in Nat
         /\ FrameLen(f) \in Nat /\ FrameLen(f) = HeaderLen(f) + f.n
         /\ f.form # "Large" => f.n <= MediumMax
<1>1. f.form \in {"Small", "Medium", "Large"} /\ f.mask \in BOOLEAN /\ f.n \in Nat
  BY ClientAssumption DEF FrameType, FormMax
<1>2. HeaderLen(f) \in 2..14
  BY <1>1 DEF HeaderLen, ExtendedLen
<1>3. f.form # "Large" => f.n <= MediumMax
  BY <1>1, ClientAssumption, LengthAssumption DEF FrameType, FormMax
<1>4. QED
  BY <1>1, <1>2, <1>3 DEF FrameLen

LEMMA ModFacts ==
  ASSUME NEW a \in Nat, NEW b \in Nat, b > 0
  PROVE  /\ a % b \in Nat /\ a % b <= a
         /\ a < b => a % b = a
         /\ a >= b => a % b <= a - b
  OBVIOUS

LEMMA SizeFacts ==
  ASSUME NEW f \in Frames
  PROVE  /\ FrameSize(f) \in Nat /\ FrameSize(f) <= FrameLen(f)
         /\ FrameLen(f) <= UsizeMax => FrameSize(f) = FrameLen(f)
         /\ LengthOk(f) /\ FrameSize(f) >= HeaderLen(f) => FrameSize(f) = FrameLen(f)
<1>1. /\ HeaderLen(f) \in 2..14 /\ f.n \in Nat /\ FrameLen(f) \in Nat
      /\ FrameLen(f) = HeaderLen(f) + f.n /\ UsizeMax \in Nat
  BY HeaderFacts, LengthAssumption
<1>2. FrameSize(f) = FrameLen(f) % (UsizeMax + 1)
  BY <1>1 DEF FrameSize, UsizeAdd
<1>3. LengthOk(f) => f.n <= UsizeMax
  BY DEF LengthOk
<1>4. UsizeMax + 1 \in Nat /\ UsizeMax + 1 > 0
  BY <1>1
<1>5. QED
  BY <1>1, <1>2, <1>3, <1>4, ModFacts

-----------------------------------------------------------------------------
(* TypeOK and Aligned are not inductive apart: that head does not pass     *)
(* recvd needs the frames to be where ends says, and that no byte of a     *)
(* frame is read before the frame is sent needs the handshake to be over.  *)
Layout ==
  /\ response # "accept" => wire = <<>>
  /\ response = "none" => limit = 0
  /\ limit <= Start(Len(wire) + 1)
  /\ \A k \in 1..Len(wire) : ends[k] = Start(k) + FrameLen(wire[k])
  /\ codec = "message" => response = "accept"
  /\ codec = "upgrade" => pos = 0
  /\ pc = "start" => recvd = 0 /\ codec = "upgrade"
  /\ pc = "idle" => codec = "message"

IInv == TypeOK /\ Layout /\ Aligned

LEMMA StartType == TypeOK => \A k \in 1..Len(wire)+1 : Start(k) \in Nat
BY ClientAssumption DEF TypeOK, Start

LEMMA NothingType == Nothing \in MessageType
BY DEF Nothing, MessageType

(* The parts of the type invariant, by who changes them.                   *)
PeerOK ==
  /\ response \in {"none", "accept", "reject", "overlong"}
  /\ wire \in Seq(Frames) /\ Len(wire) <= MaxFrames
  /\ ends \in Seq(Nat) /\ Len(ends) = Len(wire)
  /\ closed \in BOOLEAN
  /\ limit \in Nat
BufferOK == recvd \in 0..limit /\ head \in 0..recvd
ControlOK ==
  /\ codec \in {"upgrade", "message"}
  /\ pc \in {"start", "idle", "read", "decode", "decode_eof", "closed", "panicked"}
DecoderOK ==
  /\ interrupted \in MessageType /\ state \in MessageType
  /\ out \in Seq(MessageType)
  /\ failed \in BOOLEAN
  /\ result \in {"none", "message", "error", "io", "end", "truncated"}

LEMMA TypeParts ==
  /\ TypeOK <=> PeerOK /\ BufferOK /\ ControlOK /\ DecoderOK /\ pos \in 0..Len(wire)
  /\ TypeOK' <=> PeerOK' /\ BufferOK' /\ ControlOK' /\ DecoderOK' /\ pos' \in 0..Len(wire')
BY DEF TypeOK, PeerOK, BufferOK, ControlOK, DecoderOK

LEMMA IInvInit == Init => IInv
<1> SUFFICES ASSUME Init PROVE IInv
  OBVIOUS
<1> USE DEF Init
<1>1. 0 <= MaxFrames /\ ResponseLen \in Nat
  BY ClientAssumption
<1>2. PeerOK
  <2>1. wire \in Seq(Frames) /\ ends \in Seq(Nat)
    OBVIOUS
  <2>2. Len(wire) <= MaxFrames /\ Len(ends) = Len(wire)
    BY <1>1
  <2>3. QED
    BY <2>1, <2>2 DEF PeerOK
<1>3. DecoderOK
  <2>1. out \in Seq(MessageType)
    OBVIOUS
  <2>2. QED
    BY <2>1, NothingType DEF DecoderOK
<1>4. BufferOK /\ ControlOK /\ pos \in 0..Len(wire)
  BY DEF BufferOK, ControlOK
<1>5. Layout
  BY <1>1 DEF Layout, Start
<1>6. Aligned
  BY DEF Aligned
<1>7. QED
  BY <1>2, <1>3, <1>4, <1>5, <1>6, TypeParts DEF IInv

(* The server's steps.                                                     *)
LEMMA PeerSendStep ==
  ASSUME IInv, NEW f \in Frames, PeerSend(f)
  PROVE  IInv'
<1>1. TypeOK /\ Layout /\ Aligned
  BY DEF IInv
<1>2. PICK n \in Nat : n = Len(wire)
  BY <1>1 DEF TypeOK
<1>3. PICK e \in Nat : e = Start(n + 1) + FrameLen(f)
  BY <1>1, <1>2, StartType, HeaderFacts
<1>4. wire \in Seq(Frames) /\ ends \in Seq(Nat) /\ Len(ends) = n /\ pos \in 0..n
      /\ Start(n + 1) \in Nat /\ FrameLen(f) \in Nat
  BY <1>1, <1>2, StartType, HeaderFacts DEF TypeOK
<1>5. /\ wire' = Append(wire, f) /\ ends' = Append(ends, e) /\ limit' = e
      /\ response = "accept" /\ n < MaxFrames
      /\ UNCHANGED <<response, closed, recvd, head, codec, pc,
                     interrupted, state, pos, out, failed, result>>
  BY <1>2, <1>3 DEF PeerSend, buffer, decoder
<1>6. Len(wire') = n + 1 /\ wire'[n + 1] = f /\ \A k \in 1..n : wire'[k] = wire[k]
  BY <1>2, <1>4, <1>5
<1>7. Len(ends') = n + 1 /\ ends'[n + 1] = e /\ \A k \in 1..n : ends'[k] = ends[k]
  BY <1>4, <1>5
<1>8. ASSUME NEW k \in 1..n+1 PROVE Start(k)' = Start(k)
  <2>1. CASE k = 1
    BY <2>1 DEF Start
  <2>2. CASE k # 1
    <3>1. k - 1 \in 1..n
      BY <2>2
    <3>2. QED
      BY <2>2, <3>1, <1>7 DEF Start
  <2>3. QED
    BY <2>1, <2>2
<1>9. TypeOK'
  <2>1. PeerOK'
    BY <1>1, <1>2, <1>4, <1>5, <1>6, <1>7, ClientAssumption DEF PeerOK, TypeOK
  <2>2. BufferOK'
    <3>1. recvd \in Nat /\ head \in 0..recvd /\ limit \in Nat /\ recvd <= limit /\ limit <= Start(n + 1)
      BY <1>1, <1>2 DEF TypeOK, Layout
    <3>2. recvd <= e
      BY <3>1, <1>3, <1>4
    <3>3. QED
      BY <3>1, <3>2, <1>5 DEF BufferOK
  <2>3. ControlOK' /\ DecoderOK'
    BY <1>1, <1>5 DEF ControlOK, DecoderOK, TypeOK
  <2>4. pos' \in 0..Len(wire')
    BY <1>4, <1>5, <1>6
  <2>5. QED
    BY <2>1, <2>2, <2>3, <2>4, TypeParts
<1>10. Layout'
  <2>1. ASSUME NEW k \in 1..n+1 PROVE ends'[k] = Start(k)' + FrameLen(wire'[k])
    <3>1. CASE k = n + 1
      BY <3>1, <1>3, <1>6, <1>7, <1>8
    <3>2. CASE k # n + 1
      <4>1. k \in 1..n
        BY <3>2
      <4>2. ends[k] = Start(k) + FrameLen(wire[k])
        BY <4>1, <1>1, <1>2 DEF Layout
      <4>3. QED
        BY <4>1, <4>2, <1>6, <1>7, <1>8
    <3>3. QED
      BY <3>1, <3>2
  <2>2. limit' <= Start(Len(wire) + 1)'
    <3>1. n + 2 # 1 /\ n + 2 - 1 = n + 1
      OBVIOUS
    <3>2. Start(n + 2)' = e
      BY <3>1, <1>7 DEF Start
    <3>3. Len(wire') + 1 = n + 2
      BY <1>6
    <3>4. Start(Len(wire) + 1)' = e
      BY <3>2, <3>3 DEF Start
    <3>5. QED
      BY <3>4, <1>5
  <2>3. \A k \in 1..Len(wire') : ends'[k] = Start(k)' + FrameLen(wire'[k])
    BY <2>1, <1>6
  <2>4. QED
    BY <2>2, <2>3, <1>1, <1>5 DEF Layout
<1>11. Aligned'
  <2>1. pos + 1 \in 1..n+1
    BY <1>4
  <2>2. Start(pos + 1)' = Start(pos + 1)
    BY <2>1, <1>5, <1>8 DEF Start
  <2>3. QED
    BY <2>2, <1>1, <1>5 DEF Aligned
<1>12. QED
  BY <1>9, <1>10, <1>11 DEF IInv

(* A step of the client leaves the stream alone.                           *)
LEMMA ClientStep ==
  ASSUME IInv, UNCHANGED <<wire, ends, response, closed, limit>>,
         BufferOK', ControlOK', DecoderOK', pos' \in 0..Len(wire),
         codec' = "message" => response = "accept",
         codec' = "upgrade" => pos' = 0,
         pc' \in {"start", "idle"} => pc' = "idle" /\ codec' = "message",
         head' = IF codec' = "upgrade" THEN 0 ELSE Start(pos' + 1)
  PROVE  IInv'
<1>1. PeerOK /\ Layout
  BY TypeParts DEF IInv
<1>2. PeerOK'
  BY <1>1 DEF PeerOK
<1>3. TypeOK'
  BY <1>2, TypeParts
<1>4. \A k : Start(k)' = Start(k)
  BY DEF Start
<1>5. Layout'
  BY <1>1, <1>4 DEF Layout, Start
<1>6. Aligned'
  BY <1>4 DEF Aligned, Start
<1>7. QED
  BY <1>3, <1>5, <1>6 DEF IInv

(* And one that neither consumes bytes nor changes the codec.              *)
LEMMA QuietStep ==
  ASSUME IInv, UNCHANGED <<wire, ends, response, closed, limit, head, codec, pos>>,
         BufferOK', ControlOK', DecoderOK', pc' \in {"start", "idle"} => pc' = "idle" /\ codec = "message"
  PROVE  IInv'
<1>1. TypeOK /\ Layout /\ Aligned
  BY DEF IInv
<1>2. pos' \in 0..Len(wire)
  BY <1>1 DEF TypeOK
<1>3. head' = IF codec' = "upgrade" THEN 0 ELSE Start(pos' + 1)
  BY <1>1 DEF Aligned
<1>4. QED
  BY <1>1, <1>2, <1>3, ClientStep DEF Layout

LEMMA ServerStep ==
  ASSUME IInv, ServerRespond \/ PeerClose
  PROVE  IInv'
<1>1. TypeOK /\ Layout /\ Aligned
  BY DEF IInv
<1>2. UNCHANGED <<wire, ends, recvd, head, codec, pc, interrupted, state, pos, out, failed, result>>
  BY DEF ServerRespond, PeerClose, buffer, decoder
<1>3. \A k : Start(k)' = Start(k)
  BY <1>2 DEF Start
<1>4. ControlOK' /\ DecoderOK' /\ pos' \in 0..Len(wire') /\ Aligned'
  BY <1>1, <1>2, <1>3 DEF TypeOK, ControlOK, DecoderOK, Aligned, Start
<1>5. CASE ServerRespond
  <2>1. wire = <<>> /\ limit = 0 /\ codec = "upgrade"
    BY <1>1, <1>5 DEF ServerRespond, Layout, TypeOK
  <2>2. Start(Len(wire) + 1) = ResponseLen
    BY <2>1 DEF Start
  <2>3. ResponseLen \in Nat /\ limit' = ResponseLen /\ response' \in {"accept", "reject", "overlong"}
        /\ closed' = closed
    BY <1>5, ClientAssumption DEF ServerRespond
  <2>4. recvd \in 0..limit /\ head \in 0..recvd
    BY <1>1 DEF TypeOK
  <2>5. PeerOK' /\ BufferOK'
    BY <2>1, <2>3, <2>4, <1>1, <1>2 DEF TypeOK, PeerOK, BufferOK
  <2>6. Layout'
    BY <2>1, <2>2, <2>3, <1>1, <1>2, <1>3 DEF Layout, Start
  <2>7. QED
    BY <1>4, <2>5, <2>6, TypeParts DEF IInv
<1>6. CASE PeerClose
  <2>1. limit' \in recvd..limit /\ closed' = TRUE /\ response' = response
    BY <1>6 DEF PeerClose
  <2>2. limit \in Nat /\ recvd \in 0..limit /\ head \in 0..recvd
    BY <1>1 DEF TypeOK
  <2>3. limit' \in Nat /\ limit' <= limit /\ recvd <= limit'
    BY <2>1, <2>2
  <2>4. PeerOK' /\ BufferOK'
    BY <2>1, <2>2, <2>3, <1>1, <1>2 DEF TypeOK, PeerOK, BufferOK
  <2>5. limit' <= Start(Len(wire) + 1)
    <3>1. Start(Len(wire) + 1) \in Nat /\ limit <= Start(Len(wire) + 1)
      BY <1>1, StartType DEF TypeOK, Layout
    <3>2. QED
      BY <3>1, <2>2, <2>3
  <2>6. Layout'
    BY <2>1, <2>2, <2>3, <2>5, <1>1, <1>2, <1>3 DEF Layout, Start
  <2>7. QED
    BY <1>4, <2>4, <2>6, TypeParts DEF IInv
<1>7. QED
  BY <1>5, <1>6

(* Calls of receive and reads.                                             *)
LEMMA CallStep ==
  ASSUME IInv, Connect \/ Receive \/ Read \/ ReadEof \/ ReadError
  PROVE  IInv'
<1>1. TypeOK /\ Layout
  BY DEF IInv
<1>2. UNCHANGED <<wire, ends, response, closed, limit, head, codec, pos, out, failed>>
  BY DEF Connect, Receive, Read, ReadEof, ReadError, peer, buffer, decoder
<1>3. recvd \in 0..limit /\ head \in 0..recvd /\ limit \in Nat
  BY <1>1 DEF TypeOK
<1>4. recvd' \in 0..limit /\ recvd' >= recvd
  <2>1. CASE Read
    BY <2>1, <1>3 DEF Read
  <2>2. CASE ~Read
    BY <2>2, <1>3 DEF Connect, Receive, ReadEof, ReadError, buffer
  <2>3. QED
    BY <2>1, <2>2
<1>5. BufferOK'
  BY <1>2, <1>3, <1>4 DEF BufferOK
<1>6. ControlOK'
  BY <1>1, <1>2 DEF TypeOK, ControlOK, Connect, Receive, Read, ReadEof, ReadError, BeginDecode, AfterRead
<1>7. DecoderOK'
  <2>1. interrupted' \in MessageType /\ state' \in MessageType
    BY <1>1, NothingType
    DEF TypeOK, Connect, Receive, Read, ReadEof, ReadError, BeginDecode, decoder
  <2>2. result' \in {"none", "message", "error", "io", "end", "truncated"}
    BY <1>1 DEF TypeOK, Connect, Receive, Read, ReadEof, ReadError
  <2>3. QED
    BY <2>1, <2>2, <1>1, <1>2 DEF TypeOK, DecoderOK
<1>8. pc' \in {"start", "idle"} => pc' = "idle" /\ codec = "message"
  BY <1>1 DEF TypeOK, Connect, Receive, Read, ReadEof, ReadError, BeginDecode, AfterRead
<1>9. QED
  BY <1>2, <1>5, <1>6, <1>7, <1>8, QuietStep

(* Turns of decode that leave the bytes where they are.                    *)
LEMMA QuietDecodeStep ==
  ASSUME IInv, UpgradeMore \/ UpgradeReject \/ UpgradePanic \/ NeedMore \/ Refuse \/ Panic
  PROVE  IInv'
<1>1. TypeOK /\ Layout
  BY DEF IInv
<1>2. UNCHANGED <<wire, ends, response, closed, limit, recvd, head, codec, pos, out>>
  BY DEF UpgradeMore, UpgradeReject, UpgradePanic, NeedMore, Refuse, Panic, Fail, peer, buffer, decoder
<1>3. BufferOK'
  BY <1>1, <1>2 DEF BufferOK, TypeOK
<1>4. ControlOK'
  BY <1>1, <1>2 DEF TypeOK, ControlOK, UpgradeMore, UpgradeReject, UpgradePanic, NeedMore, Refuse, Panic, Fail
<1>5. DecoderOK'
  <2>1. interrupted' \in MessageType /\ state' \in MessageType /\ failed' \in BOOLEAN
    BY <1>1, NothingType
    DEF TypeOK, UpgradeMore, UpgradeReject, UpgradePanic, NeedMore, Refuse, Panic, Fail, Parked, decoder
  <2>2. result' \in {"none", "message", "error", "io", "end", "truncated"}
    BY <1>1 DEF TypeOK, UpgradeMore, UpgradeReject, UpgradePanic, NeedMore, Refuse, Panic, Fail, EofResult
  <2>3. QED
    BY <2>1, <2>2, <1>1, <1>2 DEF TypeOK, DecoderOK
<1>6. pc' \in {"start", "idle"} => pc' = "idle" /\ codec = "message"
  BY DEF UpgradeMore, UpgradeReject, UpgradePanic, NeedMore, Refuse, Panic, Fail, Decoding
<1>7. QED
  BY <1>2, <1>3, <1>4, <1>5, <1>6, QuietStep

LEMMA UpgradeAcceptStep ==
  ASSUME IInv, UpgradeAccept
  PROVE  IInv'
<1>1. TypeOK /\ Layout /\ Aligned
  BY DEF IInv
<1>2. head = 0 /\ pos = 0 /\ Start(1) = ResponseLen /\ ResponseLen \in Nat
  BY <1>1, ClientAssumption DEF UpgradeAccept, Aligned, Layout, Start
<1>3. recvd \in 0..limit /\ limit \in Nat /\ recvd >= ResponseLen
  BY <1>1, <1>2 DEF TypeOK, UpgradeAccept, Avail
<1>4. head' = ResponseLen /\ codec' = "message" /\ pc' = "idle" /\ response = "accept"
      /\ UNCHANGED <<wire, ends, response, closed, limit, recvd, pos,
                     interrupted, state, out, failed, result>>
  BY <1>2 DEF UpgradeAccept, ReplaceCodec, peer, decoder
<1>5. BufferOK'
  BY <1>2, <1>3, <1>4 DEF BufferOK
<1>6. ControlOK' /\ DecoderOK' /\ pos' \in 0..Len(wire)
  BY <1>1, <1>4 DEF TypeOK, ControlOK, DecoderOK
<1>7. Start(pos' + 1) = ResponseLen
  BY <1>2, <1>4
<1>8. QED
  BY <1>4, <1>5, <1>6, <1>7, ClientStep

(* Taking a frame off the buffer, whatever is made of it.                  *)
LEMMA TakeFrameFacts ==
  ASSUME IInv, NEW f \in Frames, TakeFrame(f)
  PROVE  /\ pos \in Nat /\ pos < Len(wire) /\ f = wire[pos + 1] /\ pos' = pos + 1
         /\ head = Start(pos + 1) /\ head' = ends[pos + 1] /\ head' = Start(pos' + 1)
         /\ head' \in 0..recvd /\ response = "accept" /\ codec = "message"
         /\ UNCHANGED <<wire, ends, response, closed, limit, recvd, codec>>
<1>1. TypeOK /\ Layout /\ Aligned
  BY DEF IInv
<1>2. /\ pos \in Nat /\ pos < Len(wire) /\ f = wire[pos + 1] /\ pos' = pos + 1
      /\ codec = "message" /\ UNCHANGED <<wire, ends, response, closed, limit, recvd, codec>>
      /\ head' = head + FrameSize(f) /\ LengthOk(f) /\ FrameSize(f) >= HeaderLen(f)
      /\ ~(FrameSize(f) > recvd - head)
  BY <1>1 DEF TakeFrame, HeaderBuffered, Front, Incomplete, Avail, TypeOK, peer
<1>3. FrameSize(f) = FrameLen(f) /\ FrameSize(f) \in Nat
  BY <1>2, SizeFacts
<1>4. head \in 0..recvd /\ recvd \in Nat
  BY <1>1 DEF TypeOK
<1>5. pos + 1 \in 1..Len(wire)
  BY <1>2, <1>1 DEF TypeOK
<1>6. head = Start(pos + 1) /\ response = "accept" /\ ends[pos + 1] = Start(pos + 1) + FrameLen(f)
  BY <1>1, <1>2, <1>5 DEF Aligned, Layout
<1>7. head' = ends[pos + 1]
  BY <1>2, <1>3, <1>6
<1>8. Start(pos' + 1) = ends[pos + 1]
  <2>1. pos + 2 # 1 /\ pos + 2 - 1 = pos + 1 /\ pos + 1 + 1 = pos + 2
    BY <1>2
  <2>2. QED
    BY <2>1, <1>2 DEF Start
<1>9. head' \in 0..recvd
  <2>1. PICK z \in Nat : z = FrameSize(f)
    BY <1>3
  <2>2. \A h \in 0..recvd : ~(z > recvd - h) => h + z \in 0..recvd
    BY <1>4, <2>1
  <2>3. ~(z > recvd - head) /\ head' = head + z
    BY <1>2, <2>1
  <2>4. QED
    BY <1>4, <2>2, <2>3
<1>10. QED
  BY <1>2, <1>6, <1>7, <1>8, <1>9

LEMMA TakeFrameStep ==
  ASSUME IInv, NEW f \in Frames, TakeFrame(f), DecoderOK',
         pc' \in {"idle", "decode", "decode_eof"}
  PROVE  IInv'
<1>1. TypeOK
  BY DEF IInv
<1>2. /\ pos \in Nat /\ pos < Len(wire) /\ pos' = pos + 1
      /\ head' \in 0..recvd /\ head' = Start(pos' + 1) /\ response = "accept" /\ codec' = "message"
      /\ UNCHANGED <<wire, ends, response, closed, limit, recvd>>
  BY TakeFrameFacts
<1>3. BufferOK'
  BY <1>1, <1>2 DEF TypeOK, BufferOK
<1>4. ControlOK'
  BY <1>2 DEF ControlOK
<1>5. pos' \in 0..Len(wire)
  BY <1>1, <1>2 DEF TypeOK
<1>6. QED
  BY <1>2, <1>3, <1>4, <1>5, ClientStep

LEMMA DataType == TypeOK => Data \in Int
<1>1. TypeOK => pos + 1 \in Int
  BY DEF TypeOK
<1>2. QED
  BY <1>1 DEF Data, Payload, MaskSlice

LEMMA FailType == ASSUME TypeOK, NEW kept \in MessageType, Fail(kept) PROVE DecoderOK' /\ pc' = "idle"
BY NothingType DEF Fail, DecoderOK, TypeOK

LEMMA ReturnType ==
  ASSUME TypeOK, NEW opcode \in 0..15, NEW data \in Seq(Int), NEW kept \in MessageType,
         Return(opcode, data, kept)
  PROVE  DecoderOK' /\ pc' = "idle"
<1>1. [opcode |-> opcode, data |-> data] \in MessageType
  BY DEF MessageType
<1>2. CASE Fail(kept)
  BY <1>2, FailType
<1>3. CASE MessageNewOk(wire, opcode, data)
  <2>1. PICK m \in MessageType : m = [opcode |-> opcode, data |-> data]
    BY <1>1
  <2>2. /\ out' = Append(out, m) /\ pc' = "idle" /\ interrupted' = kept
        /\ state' = Nothing /\ result' = "message" /\ failed' = failed
    BY <1>3, <2>1 DEF Return
  <2>3. out' \in Seq(MessageType)
    BY <2>1, <2>2 DEF TypeOK
  <2>4. QED
    BY <2>2, <2>3, NothingType DEF DecoderOK, TypeOK
<1>4. QED
  BY <1>2, <1>3 DEF Return

LEMMA FrameStep ==
  ASSUME IInv, NEW f \in Frames,
         RejectFrame(f) \/ Interleave(f) \/ FirstFragment(f) \/ NextFragment(f)
  PROVE  IInv'
<1>1. TypeOK /\ Data \in Int /\ Nothing \in MessageType /\ state \in MessageType
  BY DataType, NothingType DEF IInv, TypeOK
<1>2. f.opcode \in 0..15
  BY ClientAssumption DEF FrameType
<1>3. <<Data>> \in Seq(Int) /\ Append(state.data, Data) \in Seq(Int) /\ state.opcode \in 0..15
  BY <1>1 DEF MessageType
<1>4. TakeFrame(f)
  BY DEF RejectFrame, Interleave, FirstFragment, NextFragment
<1>5. pc \in {"decode", "decode_eof"}
  BY <1>4 DEF TakeFrame, Decoding
<1>6. CASE RejectFrame(f)
  BY <1>1, <1>4, <1>6, FailType, TakeFrameStep DEF RejectFrame
<1>7. CASE Interleave(f)
  BY <1>1, <1>2, <1>3, <1>4, <1>7, ReturnType, TakeFrameStep DEF Interleave, Parked
<1>8. CASE FirstFragment(f)
  <2>1. CASE Return(f.opcode, <<Data>>, Nothing)
    BY <2>1, <1>1, <1>2, <1>3, <1>4, ReturnType, TakeFrameStep
  <2>2. CASE state' = [opcode |-> f.opcode, data |-> <<Data>>]
             /\ UNCHANGED <<pc, interrupted, out, failed, result>>
    <3>1. DecoderOK'
      BY <2>2, <1>1, <1>2, <1>3 DEF DecoderOK, TypeOK, MessageType
    <3>2. QED
      BY <3>1, <2>2, <1>4, <1>5, TakeFrameStep
  <2>3. QED
    BY <2>1, <2>2, <1>8 DEF FirstFragment
<1>9. CASE NextFragment(f)
  <2>1. CASE Return(state.opcode, Append(state.data, Data), Nothing)
    BY <2>1, <1>1, <1>2, <1>3, <1>4, ReturnType, TakeFrameStep
  <2>2. CASE state' = [state EXCEPT !.data = Append(@, Data)]
             /\ UNCHANGED <<pc, interrupted, out, failed, result>>
    <3>1. DecoderOK'
      BY <2>2, <1>1, <1>3 DEF DecoderOK, TypeOK, MessageType
    <3>2. QED
      BY <3>1, <2>2, <1>4, <1>5, TakeFrameStep
  <2>3. QED
    BY <2>1, <2>2, <1>9 DEF NextFragment
<1>10. QED
  BY <1>6, <1>7, <1>8, <1>9

LEMMA StutterStep == IInv /\ UNCHANGED vars => IInv'
BY DEF IInv, TypeOK, Layout, Aligned, Start, vars, peer, buffer, decoder

LEMMA IInvStep == IInv /\ [Next]_vars => IInv'
BY PeerSendStep, ServerStep, CallStep, QuietDecodeStep, UpgradeAcceptStep, FrameStep, StutterStep
DEF Next, Decode, Terminated

LEMMA IInvHolds == Spec => []IInv
BY IInvInit, IInvStep, PTL DEF Spec

(* The variables keep their types, and head <= recvd <= limit (TypeOK).    *)
THEOREM TypeCorrect == Spec => []TypeOK
<1>1. IInv => TypeOK
  BY DEF IInv
<1>2. QED
  BY <1>1, IInvHolds, PTL

(* Every header is read at the first byte of a frame (Aligned).            *)
THEOREM AlignedHolds == Spec => []Aligned
<1>1. IInv => Aligned
  BY DEF IInv
<1>2. QED
  BY <1>1, IInvHolds, PTL

-----------------------------------------------------------------------------
(* usize holds the longest frame there can be: true where it is 64 bits    *)
(* wide, false where it is 32 (run narrow_usize_panic).                    *)
WideUsize == LargeLimit + 13 <= UsizeMax

LEMMA FrontType ==
  ASSUME TypeOK, pos < Len(wire)
  PROVE  Front \in Frames /\ pos + 1 \in 1..Len(wire)
<1>1. pos + 1 \in 1..Len(wire)
  BY DEF TypeOK
<1>2. QED
  BY <1>1 DEF TypeOK, Front

LEMMA NoWrap ==
  ASSUME WideUsize, NEW f \in Frames, LengthOk(f)
  PROVE  FrameSize(f) >= HeaderLen(f)
<1>1. /\ HeaderLen(f) \in 2..14 /\ f.n \in Nat /\ FrameLen(f) = HeaderLen(f) + f.n
      /\ f.form # "Large" => f.n <= MediumMax
  BY HeaderFacts
<1>2. f.n < LargeLimit
  BY <1>1, LengthAssumption DEF LengthOk
<1>3. FrameLen(f) <= UsizeMax
  BY <1>1, <1>2, LengthAssumption DEF WideUsize
<1>4. QED
  BY <1>1, <1>3, SizeFacts

(* Where usize is wide enough decode never panics (NeverPanics).           *)
THEOREM NeverPanicsHolds ==
  ASSUME WideUsize
  PROVE  Spec => []NeverPanics
<1>1. Init => NeverPanics
  BY DEF Init, NeverPanics
<1>2. IInv /\ NeverPanics /\ [Next]_vars => NeverPanics'
  <2> SUFFICES ASSUME IInv, NeverPanics, [Next]_vars PROVE NeverPanics'
    OBVIOUS
  <2>1. ~Panic
    <3>1. SUFFICES ASSUME Panic PROVE FALSE
      OBVIOUS
    <3>2. Front \in Frames
      BY <3>1, FrontType DEF Panic, HeaderBuffered, IInv
    <3>3. FrameSize(Front) \in Nat /\ HeaderLen(Front) \in Nat
      BY <3>2, SizeFacts, HeaderFacts
    <3>4. QED
      BY <3>1, <3>2, <3>3, NoWrap DEF Panic
  <2>2. ASSUME NEW f \in Frames, RejectFrame(f) \/ Interleave(f) \/ FirstFragment(f) \/ NextFragment(f)
        PROVE  NeverPanics'
    BY <2>2 DEF NeverPanics, RejectFrame, Interleave, FirstFragment, NextFragment, TakeFrame, Decoding,
                Return, Fail
  <2>3. QED
    BY <2>1, <2>2
    DEF NeverPanics, Next, Decode, Terminated, vars, ServerRespond, PeerClose, PeerSend, Connect,
        Receive, Read, ReadEof, ReadError, BeginDecode, AfterRead, UpgradeMore, UpgradeReject, UpgradePanic,
        UpgradeAccept, NeedMore, Refuse, Fail
<1>3. QED
  BY <1>1, <1>2, IInvHolds, PTL DEF Spec

-----------------------------------------------------------------------------
(* A read starts with less in the buffer than the frame at its front, or   *)
(* with nothing, and no later step but a read makes it more.               *)
Waiting ==
  IF codec = "upgrade" THEN recvd < ResponseLen
  ELSE HeaderBuffered => LengthOk(Front) /\ recvd < ends[pos + 1]

LEMMA WaitingPeerStep ==
  ASSUME IInv, Waiting, NEW f \in Frames, PeerSend(f)
  PROVE  Waiting'
<1>1. TypeOK /\ Layout /\ Aligned
  BY DEF IInv
<1>2. UNCHANGED <<recvd, head, pos, codec, pc>> /\ wire' = Append(wire, f)
      /\ ends' = Append(ends, Start(Len(wire) + 1) + FrameLen(f)) /\ response = "accept"
  BY DEF PeerSend, buffer, decoder
<1>3. Len(wire) \in Nat /\ pos \in 0..Len(wire) /\ Len(ends) = Len(wire) /\ recvd \in 0..limit /\ head \in 0..recvd
      /\ limit \in Nat /\ wire \in Seq(Frames) /\ ends \in Seq(Nat)
  BY <1>1 DEF TypeOK
<1>4. CASE codec = "upgrade"
  BY <1>2, <1>4 DEF Waiting
<1>5. CASE codec # "upgrade" /\ pos < Len(wire)
  <2>1. pos + 1 \in 1..Len(wire)
    BY <1>3, <1>5
  <2>2. wire'[pos + 1] = wire[pos + 1]
    BY <2>1, <1>2, <1>3
  <2>3. ends'[pos + 1] = ends[pos + 1]
    BY <2>1, <1>2, <1>3, StartType, <1>1, HeaderFacts
  <2>4. Front' = Front /\ (HeaderBuffered' => HeaderBuffered)
    BY <2>2, <1>2, <1>5 DEF Front, HeaderBuffered, Avail
  <2>5. QED
    BY <2>3, <2>4, <1>2, <1>5 DEF Waiting, LengthOk
<1>6. CASE codec # "upgrade" /\ pos = Len(wire)
  <2>1. recvd - head = 0
    <3>1. head = Start(Len(wire) + 1) /\ limit <= Start(Len(wire) + 1)
      BY <1>1, <1>6 DEF Aligned, Layout
    <3>2. QED
      BY <3>1, <1>3
  <2>2. pos' + 1 \in 1..Len(wire') /\ wire'[pos + 1] = f
    BY <1>2, <1>3, <1>6
  <2>3. Front' = f /\ HeaderLen(f) \in 2..14
    BY <2>2, <1>2, HeaderFacts DEF Front
  <2>4. ~HeaderBuffered'
    BY <2>1, <2>3, <1>2 DEF HeaderBuffered, Avail
  <2>5. QED
    BY <2>4, <1>2, <1>6 DEF Waiting
<1>7. QED
  BY <1>3, <1>4, <1>5, <1>6

LEMMA WaitingReadStep ==
  ASSUME IInv, Connect \/ (Receive /\ pc' = "read") \/ UpgradeMore \/ NeedMore
  PROVE  Waiting'
<1>1. TypeOK /\ Layout /\ Aligned
  BY DEF IInv
<1>2. UNCHANGED <<recvd, head, pos, codec, wire, ends>>
  BY DEF Connect, Receive, UpgradeMore, NeedMore, peer, buffer, decoder
<1>3. recvd \in Nat /\ head \in 0..recvd /\ ResponseLen \in Nat \ {0}
  BY <1>1, ClientAssumption DEF TypeOK
<1>4. Front' = Front /\ HeaderBuffered' = HeaderBuffered
  BY <1>2 DEF Front, HeaderBuffered, Avail
<1>5. CASE codec = "upgrade"
  <2>1. recvd < ResponseLen
    BY <1>1, <1>3, <1>5 DEF Connect, Receive, UpgradeMore, NeedMore, Layout, Aligned, Avail
  <2>2. QED
    BY <2>1, <1>2, <1>5 DEF Waiting
<1>6. CASE codec # "upgrade" /\ HeaderBuffered
  <2>1. Front \in Frames /\ pos + 1 \in 1..Len(wire)
    BY <1>1, <1>6, FrontType DEF HeaderBuffered
  <2>2. /\ HeaderLen(Front) \in 2..14 /\ FrameSize(Front) \in Nat
        /\ FrameLen(Front) \in Nat /\ FrameSize(Front) <= FrameLen(Front)
    BY <2>1, HeaderFacts, SizeFacts
  <2>3. recvd - head >= 2
    BY <1>3, <1>6, <2>2 DEF HeaderBuffered, Avail
  <2>4. NeedMore
    BY <1>1, <1>3, <1>6, <2>3 DEF Connect, Receive, UpgradeMore, Layout, BeginDecode
  <2>5. LengthOk(Front) /\ FrameSize(Front) > recvd - head
    BY <2>4, <1>6 DEF NeedMore, Incomplete, Avail
  <2>6. head = Start(pos + 1) /\ ends[pos + 1] = Start(pos + 1) + FrameLen(Front)
    BY <1>1, <1>6, <2>1 DEF Aligned, Layout, Front
  <2>7. recvd < ends[pos + 1]
    BY <2>2, <2>5, <2>6, <1>3
  <2>8. QED
    BY <2>5, <2>7, <1>2, <1>4, <1>6 DEF Waiting, LengthOk
<1>7. CASE codec # "upgrade" /\ ~HeaderBuffered
  BY <1>2, <1>4, <1>7 DEF Waiting
<1>8. QED
  BY <1>5, <1>6, <1>7

LEMMA BlockStep == IInv /\ NoBlockOnReady /\ [Next]_vars => NoBlockOnReady'
<1> SUFFICES ASSUME IInv, NoBlockOnReady, [Next]_vars PROVE NoBlockOnReady'
  OBVIOUS
<1>1. CASE pc' # "read"
  BY <1>1 DEF NoBlockOnReady
<1>2. CASE ServerRespond \/ PeerClose \/ UNCHANGED vars
  BY <1>2
  DEF ServerRespond, PeerClose, NoBlockOnReady, HeaderBuffered, Front, Avail, LengthOk, vars, peer, buffer, decoder
<1>3. ASSUME NEW f \in Frames, RejectFrame(f) \/ Interleave(f) \/ FirstFragment(f) \/ NextFragment(f)
      PROVE  pc' # "read"
  BY <1>3
  DEF RejectFrame, Interleave, FirstFragment, NextFragment, TakeFrame, Decoding, Return, Fail
<1>4. Read \/ ReadEof \/ ReadError \/ UpgradeReject \/ UpgradePanic \/ UpgradeAccept \/ Refuse \/ Panic => pc' # "read"
  BY DEF Read, ReadEof, ReadError, BeginDecode, AfterRead, UpgradeReject, UpgradePanic, UpgradeAccept, Refuse, Panic, Fail
<1>5. ASSUME NEW f \in Frames, PeerSend(f) PROVE NoBlockOnReady'
  BY <1>5, WaitingPeerStep DEF PeerSend, NoBlockOnReady, Waiting
<1>6. Waiting' => NoBlockOnReady'
  BY DEF NoBlockOnReady, Waiting
<1>7. QED
  BY <1>1, <1>2, <1>3, <1>4, <1>5, <1>6, WaitingReadStep DEF Next, Decode, Terminated

(* receive never blocks while the buffer holds an answer (NoBlockOnReady). *)
THEOREM NoBlockOnReadyHolds == Spec => []NoBlockOnReady
<1>1. Init => NoBlockOnReady
  BY DEF Init, NoBlockOnReady
<1>2. QED
  BY <1>1, BlockStep, IInvHolds, PTL DEF Spec

-----------------------------------------------------------------------------
(* The end is reported only by a call that is over by then, on a buffer    *)
(* that is empty and stays so.                                             *)
EndInv ==
  /\ pc = "decode_eof" => closed /\ recvd = limit
  /\ result = "end" =>
       /\ pc \in {"idle", "closed"} /\ closed /\ recvd = limit
       /\ codec = "message" => recvd = head

LEMMA EndStep == IInv /\ EndInv /\ [Next]_vars => EndInv'
<1> SUFFICES ASSUME IInv, EndInv, [Next]_vars PROVE EndInv'
  OBVIOUS
<1>1. TypeOK /\ Layout /\ Aligned
  BY DEF IInv
<1>2. limit \in Nat /\ recvd \in 0..limit /\ head \in 0..recvd /\ closed \in BOOLEAN
  BY <1>1 DEF TypeOK
<1>3. ASSUME NEW f \in Frames, PeerSend(f) PROVE EndInv'
  BY <1>3 DEF PeerSend, EndInv, buffer, decoder
<1>4. CASE ServerRespond \/ PeerClose
  BY <1>4 DEF ServerRespond, PeerClose, EndInv, buffer, decoder
<1>5. CASE Connect \/ Receive \/ Read \/ ReadEof \/ ReadError
  <2>1. CASE Read
    BY <2>1, <1>2 DEF Read, BeginDecode, AfterRead, EndInv, peer
  <2>2. CASE ReadEof
    BY <2>2, <1>2 DEF ReadEof, BeginDecode, AfterRead, EndInv, peer, buffer
  <2>3. CASE Connect \/ Receive \/ ReadError
    BY <2>3 DEF Connect, Receive, ReadError, BeginDecode, EndInv, peer, buffer, decoder
  <2>4. QED
    BY <1>5, <2>1, <2>2, <2>3
<1>6. CASE UpgradeMore
  <2>1. head = 0 /\ codec = "upgrade"
    BY <1>1, <1>6 DEF UpgradeMore, Aligned
  <2>2. QED
    BY <1>2, <1>6, <2>1 DEF UpgradeMore, Decoding, EofResult, EndInv, peer, buffer
<1>7. CASE UpgradeReject \/ UpgradePanic \/ UpgradeAccept \/ Refuse \/ Panic
  BY <1>7 DEF UpgradeReject, UpgradePanic, UpgradeAccept, Refuse, Panic, Fail, Decoding, EndInv, peer, buffer
<1>8. CASE NeedMore
  <2>1. UNCHANGED <<closed, limit, recvd, head, codec>> /\ pc' \in {"read", "idle"}
    BY <1>8 DEF NeedMore, peer, buffer
  <2>2. result' = "end" => pc = "decode_eof" /\ pc' = "idle" /\ recvd - head = 0
    BY <1>8 DEF NeedMore, Decoding, EofResult, EndInv, Avail
  <2>3. QED
    BY <1>2, <2>1, <2>2 DEF EndInv
<1>9. ASSUME NEW f \in Frames, RejectFrame(f) \/ Interleave(f) \/ FirstFragment(f) \/ NextFragment(f)
      PROVE  EndInv'
  <2>1. UNCHANGED <<closed, limit, recvd>> /\ pc \in {"decode", "decode_eof"}
    BY <1>9 DEF RejectFrame, Interleave, FirstFragment, NextFragment, TakeFrame, Decoding, peer
  <2>2. \/ pc' = "idle" /\ result' # "end"
        \/ pc' = pc /\ result' = result
    BY <1>9 DEF RejectFrame, Interleave, FirstFragment, NextFragment, Return, Fail
  <2>3. QED
    BY <2>1, <2>2 DEF EndInv
<1>10. CASE UNCHANGED vars
  BY <1>10 DEF vars, peer, buffer, EndInv
<1>11. QED
  BY <1>3, <1>4, <1>5, <1>6, <1>7, <1>8, <1>9, <1>10 DEF Next, Decode, Terminated

(* Ok(None) is returned only at the end of the stream, and only between    *)
(* two frames (CleanEnd).                                                  *)
THEOREM CleanEndHolds == Spec => []CleanEnd
<1>1. Init => EndInv
  BY DEF Init, EndInv
<1>2. IInv /\ EndInv => CleanEnd
  <2> SUFFICES ASSUME IInv, EndInv, result = "end" PROVE closed /\ recvd = limit /\ (codec = "message" => limit = Start(pos + 1))
    BY DEF CleanEnd
  <2>1. closed /\ recvd = limit /\ (codec = "message" => recvd = head)
    BY DEF EndInv
  <2>2. codec = "message" => head = Start(pos + 1)
    BY DEF IInv, Aligned
  <2>3. QED
    BY <2>1, <2>2
<1>3. QED
  BY <1>1, <1>2, EndStep, IInvHolds, PTL DEF Spec

-----------------------------------------------------------------------------
(* SyncClient implements MessageStream: what the application is given does  *)
(* not depend on how the bytes arrive.                                     *)
(* No message is under assembly before the handshake is over, nor in the   *)
(* local variable of decode while it does not run.                         *)
Idle == codec = "upgrade" => interrupted = Nothing /\ state = Nothing

LEMMA IdleInit == Init => Idle
BY DEF Init, Idle

LEMMA IdleStep == Idle /\ [Next]_vars => Idle'
<1> SUFFICES ASSUME Idle, [Next]_vars PROVE Idle'
  OBVIOUS
<1>1. CASE codec' = "message"
  BY <1>1 DEF Idle
<1>2. ASSUME NEW f \in Frames, TakeFrame(f) PROVE codec' = "message"
  BY <1>2 DEF TakeFrame
<1>3. NeedMore \/ Refuse \/ UpgradeAccept => codec' = "message"
  BY DEF NeedMore, Refuse, UpgradeAccept
<1>4. ASSUME NEW f \in Frames, PeerSend(f) PROVE Idle'
  BY <1>4 DEF PeerSend, Idle, decoder
<1>5. CASE ServerRespond \/ PeerClose \/ Connect \/ ReadError \/ UpgradeMore \/ UpgradeReject \/ UpgradePanic
           \/ Panic \/ UNCHANGED vars
  BY <1>5 DEF ServerRespond, PeerClose, Connect, ReadError, UpgradeMore, UpgradeReject, UpgradePanic, Panic,
              vars, decoder, Idle
<1>6. CASE Receive \/ Read \/ ReadEof
  BY <1>6 DEF Receive, Read, ReadEof, BeginDecode, Idle
<1>7. QED
  BY <1>1, <1>2, <1>3, <1>4, <1>5, <1>6
  DEF Next, Decode, Terminated, RejectFrame, Interleave, FirstFragment, NextFragment, Idle

-----------------------------------------------------------------------------
(* Steps that the abstract codec does not see.                             *)
Unseen == UNCHANGED <<wire, pos, Open, out, failed>>

LEMMA PeerRefines ==
  ASSUME NEW f \in Frames, PeerSend(f)
  PROVE  MS!PeerSend(f)
BY DEF PeerSend, MS!PeerSend, Open, decoder

LEMMA CallRefines ==
  ASSUME Idle, ServerRespond \/ PeerClose \/ Connect \/ Receive \/ Read \/ ReadEof \/ ReadError
  PROVE  Unseen
<1>1. CASE ServerRespond \/ PeerClose
  BY <1>1 DEF ServerRespond, PeerClose, Unseen, Open, decoder
<1>2. CASE Connect \/ ReadError
  BY <1>2 DEF Connect, ReadError, Unseen, Open, peer, decoder
<1>3. CASE Receive \/ Read \/ ReadEof
  BY <1>3 DEF Receive, Read, ReadEof, BeginDecode, AfterRead, Unseen, Open, peer
<1>4. QED
  BY <1>1, <1>2, <1>3

LEMMA DecodeRefines ==
  ASSUME Idle, UpgradeMore \/ UpgradeReject \/ UpgradePanic \/ UpgradeAccept \/ NeedMore \/ Panic
  PROVE  Unseen
<1>1. CASE UpgradeMore \/ UpgradeReject \/ UpgradePanic \/ UpgradeAccept
  BY <1>1 DEF UpgradeMore, UpgradeReject, UpgradePanic, UpgradeAccept, Decoding, Idle, Unseen, Open, peer, decoder
<1>2. CASE NeedMore
  BY <1>2 DEF NeedMore, Parked, Decoding, Unseen, Open, peer
<1>3. CASE Panic
  BY <1>3 DEF Panic, Decoding, Unseen, Open, peer, decoder
<1>4. QED
  BY <1>1, <1>2, <1>3

LEMMA RefuseRefines ==
  ASSUME IInv, Refuse
  PROVE  \E f \in Frames : MS!GiveUp(f)
<1>1. TypeOK /\ pos < Len(wire) /\ Front = wire[pos + 1]
  BY DEF IInv, Refuse, HeaderBuffered, Front
<1>2. Front \in Frames
  BY <1>1, FrontType
<1>3. PICK g \in Frames : g = wire[pos + 1] /\ g = Front
  BY <1>1, <1>2
<1>4. MS!MayGiveUp(g)
  <2>1. CASE ~LengthOk(g)
    BY <2>1 DEF MS!MayGiveUp, MS!LengthOk, LengthOk, MS!FormMax, FormMax
  <2>2. CASE LengthOk(g)
    <3>1. FrameSize(g) > recvd - head /\ FrameSize(g) > UsizeMax - (recvd - head)
      BY <1>3, <2>2 DEF Refuse, Incomplete, Unreasonable, Avail
    <3>2. FrameSize(g) \in Nat /\ FrameLen(g) \in Nat /\ FrameSize(g) <= FrameLen(g) /\ UsizeMax \in Nat
          /\ recvd \in Nat /\ head \in Nat
      BY <1>1, SizeFacts, HeaderFacts, LengthAssumption DEF TypeOK
    <3>3. 2 * FrameLen(g) > UsizeMax
      BY <3>1, <3>2
    <3>4. MS!FrameLen(g) = FrameLen(g)
      BY DEF MS!FrameLen, FrameLen, MS!HeaderLen, HeaderLen, MS!ExtendedLen, ExtendedLen
    <3>5. QED
      BY <3>3, <3>4 DEF MS!MayGiveUp
  <2>3. QED
    BY <2>1, <2>2
<1>5. Open' = Nothing /\ failed' = TRUE /\ UNCHANGED <<wire, pos, out>>
  BY DEF Refuse, Fail, Open, peer
<1>6. MS!GiveUp(g)
  BY <1>1, <1>3, <1>4, <1>5 DEF MS!GiveUp, MS!AfterError, MS!Nothing, Nothing
<1>7. QED
  BY <1>6

-----------------------------------------------------------------------------
(* The helpers of the two modules agree on the frame being taken.          *)
LEMMA SameHelpers ==
  /\ \A f : MS!IsControl(f.opcode) <=> IsControl(f.opcode)
  /\ \A f : MS!Supportable(f) <=> Supports(f)
  /\ \A f : MS!LengthOk(f) <=> LengthOk(f)
  /\ \A m : MS!Ok(m) <=> MessageNewOk(wire, m.opcode, m.data)
  /\ MS!Nothing = Nothing /\ MS!AfterError = Nothing /\ MS!Continuation = Continuation
<1>1. \A f : MS!IsControl(f.opcode) <=> IsControl(f.opcode)
  BY DEF MS!IsControl, IsControl, MS!Close, Close, MS!Ping, Ping, MS!Pong, Pong
<1>2. \A f : MS!Supportable(f) <=> Supports(f)
  BY <1>1 DEF MS!Supportable, Supports, MS!Supported, Supported, MS!Continuation, Continuation,
              MS!Text, Text, MS!Binary, Binary, MS!Close, Close, MS!Ping, Ping, MS!Pong, Pong
<1>3. \A f : MS!LengthOk(f) <=> LengthOk(f)
  BY DEF MS!LengthOk, LengthOk
<1>4. \A m : MS!Ok(m) <=> MessageNewOk(wire, m.opcode, m.data)
  BY DEF MS!Ok, MS!MessageNewOk, MessageNewOk, MS!Text, Text, MS!Close, Close, MS!Utf8, Utf8,
         MS!CloseDataOk, CloseDataOk, MS!TextOf, TextOf, MS!Source, Source, MS!Utf8Steps, Utf8Steps
<1>5. QED
  BY <1>1, <1>2, <1>3, <1>4
  DEF MS!Nothing, Nothing, MS!AfterError, MS!Continuation, Continuation

(* Unmasked data stand for the plain payload of the frame.                 *)
LEMMA DataIsPlain == TypeOK => Data = pos + 1
BY DEF TypeOK, Data, Front, Payload, MaskSlice

LEMMA TakeRefines ==
  ASSUME IInv, NEW f \in Frames, TakeFrame(f)
  PROVE  MS!Take(f) /\ pos \in Nat /\ Open = state /\ Data = pos + 1 /\ f = Front
         /\ pc \in {"decode", "decode_eof"}
<1>1. Open = state /\ LengthOk(f) /\ f = Front /\ pc \in {"decode", "decode_eof"}
  BY DEF TakeFrame, Decoding, Open
<1>2. MS!Take(f) /\ pos \in Nat
  BY <1>1, TakeFrameFacts, SameHelpers DEF MS!Take
<1>3. QED
  BY <1>1, <1>2, DataIsPlain DEF IInv

LEMMA RejectRefines ==
  ASSUME IInv, NEW f \in Frames, RejectFrame(f)
  PROVE  MS!Reject(f)
<1>1. MS!Take(f) /\ Open = state
  BY TakeRefines DEF RejectFrame
<1>2. ~(MS!Supportable(f) /\ MS!InPlace(f))
  BY <1>1, SameHelpers DEF RejectFrame, MS!InPlace, IsControl, Continuation, Close, Ping, Pong
<1>3. Open' = Nothing /\ failed' = TRUE /\ out' = out
  BY DEF RejectFrame, Fail, Open
<1>4. QED
  BY <1>1, <1>2, <1>3, SameHelpers DEF MS!Reject

LEMMA InterleaveRefines ==
  ASSUME IInv, NEW f \in Frames, Interleave(f)
  PROVE  MS!Control(f) \/ MS!Reject(f)
<1>1. MS!Take(f) /\ Open = state /\ Data = pos + 1
  BY TakeRefines DEF Interleave
<1>2. MS!Supportable(f) /\ MS!InPlace(f) /\ MS!IsControl(f.opcode)
  BY SameHelpers DEF Interleave, MS!InPlace
<1>3. PICK m : m = [opcode |-> f.opcode, data |-> <<pos + 1>>]
  OBVIOUS
<1>4. MS!Alone(f) = m /\ m.opcode = f.opcode /\ m.data = <<Data>>
  BY <1>1, <1>3 DEF MS!Alone
<1>5. CASE MessageNewOk(wire, f.opcode, <<Data>>)
  <2>1. out' = Append(out, m) /\ Open' = Open /\ failed' = failed
    BY <1>1, <1>3, <1>5 DEF Interleave, Return, Open, Parked
  <2>2. MS!Ok(m)
    BY <1>4, <1>5, SameHelpers
  <2>3. QED
    BY <1>1, <1>2, <1>4, <2>1, <2>2 DEF MS!Control, MS!Deliver
<1>6. CASE ~MessageNewOk(wire, f.opcode, <<Data>>)
  <2>1. out' = out /\ Open' = Open /\ failed' = TRUE
    BY <1>1, <1>6 DEF Interleave, Return, Fail, Open, Parked
  <2>2. ~MS!Ok(m)
    BY <1>4, <1>6, SameHelpers
  <2>3. QED
    BY <1>1, <1>2, <1>4, <2>1, <2>2 DEF MS!Reject
<1>7. QED
  BY <1>5, <1>6

(* The end of a message: kept in place of the open one is nothing.         *)
LEMMA ReturnRefines ==
  ASSUME IInv, NEW f \in Frames, TakeFrame(f), Supports(f), f.fin,
         f.opcode = Continuation <=> state # Nothing, ~IsControl(f.opcode),
         NEW m, m = MS!Extended(f), Return(m.opcode, m.data, Nothing),
         m = [opcode |-> m.opcode, data |-> m.data]
  PROVE  MS!Complete(f) \/ MS!Reject(f)
<1>1. MS!Take(f) /\ Open = state
  BY TakeRefines
<1>2. MS!Supportable(f) /\ MS!InPlace(f) /\ ~MS!IsControl(f.opcode)
  BY <1>1, SameHelpers DEF MS!InPlace
<1>3. CASE MessageNewOk(wire, m.opcode, m.data)
  <2>1. out' = Append(out, m) /\ Open' = Nothing /\ failed' = failed
    BY <1>3 DEF Return, Open
  <2>2. MS!Ok(m)
    BY <1>3, SameHelpers
  <2>3. QED
    BY <1>1, <1>2, <2>1, <2>2, SameHelpers DEF MS!Complete, MS!Deliver
<1>4. CASE ~MessageNewOk(wire, m.opcode, m.data)
  <2>1. out' = out /\ Open' = Nothing /\ failed' = TRUE
    BY <1>4 DEF Return, Fail, Open
  <2>2. ~MS!Ok(m)
    BY <1>4, SameHelpers
  <2>3. QED
    BY <1>1, <1>2, <2>1, <2>2, SameHelpers DEF MS!Reject
<1>5. QED
  BY <1>3, <1>4

LEMMA FirstRefines ==
  ASSUME IInv, NEW f \in Frames, FirstFragment(f)
  PROVE  MS!Fragment(f) \/ MS!Complete(f) \/ MS!Control(f) \/ MS!Reject(f)
<1>1. TakeFrame(f) /\ Supports(f) /\ state = Nothing /\ f.opcode # Continuation
  BY DEF FirstFragment
<1>2. MS!Take(f) /\ Open = state /\ Data = pos + 1 /\ pc \in {"decode", "decode_eof"}
  BY <1>1, TakeRefines
<1>3. PICK m : m = [opcode |-> f.opcode, data |-> <<Data>>]
  OBVIOUS
<1>4. m.opcode = f.opcode /\ m.data = <<Data>> /\ m = [opcode |-> m.opcode, data |-> m.data]
  BY <1>3
<1>5. MS!Alone(f) = m
  BY <1>2, <1>3 DEF MS!Alone
<1>6. MS!Extended(f) = m
  <2>1. Open.data = <<>> /\ Append(<<>>, pos + 1) = <<pos + 1>>
    BY <1>1, <1>2 DEF Nothing
  <2>2. QED
    BY <2>1, <1>1, <1>2, <1>3, SameHelpers DEF MS!Extended
<1>7. CASE Return(f.opcode, <<Data>>, Nothing) /\ f.fin /\ ~IsControl(f.opcode)
  BY <1>1, <1>4, <1>6, <1>7, ReturnRefines
<1>8. CASE Return(f.opcode, <<Data>>, Nothing) /\ f.fin /\ IsControl(f.opcode)
  <2>1. MS!Supportable(f) /\ MS!InPlace(f) /\ MS!IsControl(f.opcode)
    BY <1>1, <1>8, SameHelpers DEF MS!InPlace
  <2>2. MS!Ok(m) <=> MessageNewOk(wire, f.opcode, <<Data>>)
    BY <1>4, SameHelpers
  <2>3. CASE MS!Ok(m)
    <3>1. out' = Append(out, m) /\ Open' = Open /\ failed' = failed
      BY <1>1, <1>2, <1>3, <1>8, <2>2, <2>3 DEF Return, Open
    <3>2. QED
      BY <1>2, <1>5, <2>1, <2>3, <3>1 DEF MS!Control, MS!Deliver
  <2>4. CASE ~MS!Ok(m)
    <3>1. out' = out /\ Open' = Open /\ failed' = TRUE
      BY <1>1, <1>2, <1>8, <2>2, <2>4 DEF Return, Fail, Open
    <3>2. QED
      BY <1>2, <1>5, <2>1, <2>4, <3>1 DEF MS!Reject
  <2>5. QED
    BY <2>3, <2>4
<1>9. CASE ~f.fin /\ ~IsControl(f.opcode) /\ state' = m
           /\ UNCHANGED <<pc, interrupted, out, failed, result>>
  <2>1. MS!Supportable(f) /\ MS!InPlace(f)
    BY <1>1, <1>2, <1>9, SameHelpers DEF MS!InPlace
  <2>2. Open' = m
    BY <1>2, <1>9 DEF Open
  <2>3. QED
    BY <1>2, <1>6, <1>9, <2>1, <2>2 DEF MS!Fragment
<1>10. QED
  BY <1>3, <1>7, <1>8, <1>9 DEF FirstFragment

LEMMA NextRefines ==
  ASSUME IInv, NEW f \in Frames, NextFragment(f)
  PROVE  MS!Fragment(f) \/ MS!Complete(f) \/ MS!Reject(f)
<1>1. TakeFrame(f) /\ Supports(f) /\ state # Nothing /\ f.opcode = Continuation /\ ~IsControl(f.opcode)
  BY DEF NextFragment, IsControl, Continuation, Close, Ping, Pong
<1>2. MS!Take(f) /\ Open = state /\ Data = pos + 1 /\ pc \in {"decode", "decode_eof"}
  BY <1>1, TakeRefines
<1>3. PICK s \in MessageType : s = state
  BY DEF IInv, TypeOK
<1>4. PICK m : m = [opcode |-> state.opcode, data |-> Append(state.data, Data)]
  OBVIOUS
<1>5. /\ m.opcode = state.opcode /\ m.data = Append(state.data, Data)
      /\ m = [opcode |-> m.opcode, data |-> m.data]
  BY <1>4
<1>6. MS!Extended(f) = m
  BY <1>1, <1>2, <1>4, SameHelpers DEF MS!Extended
<1>7. CASE f.fin /\ Return(state.opcode, Append(state.data, Data), Nothing)
  BY <1>1, <1>5, <1>6, <1>7, ReturnRefines
<1>8. CASE ~f.fin /\ state' = [state EXCEPT !.data = Append(@, Data)]
           /\ UNCHANGED <<pc, interrupted, out, failed, result>>
  <2>1. MS!Supportable(f) /\ MS!InPlace(f)
    BY <1>1, <1>2, SameHelpers DEF MS!InPlace
  <2>2. PICK d : d = Append(state.data, Data)
    OBVIOUS
  <2>3. [s EXCEPT !.data = d] = [opcode |-> s.opcode, data |-> d]
    BY DEF MessageType
  <2>4. state' = m
    BY <1>3, <1>4, <1>8, <2>2, <2>3
  <2>5. Open' = m
    BY <1>2, <1>8, <2>4 DEF Open
  <2>6. QED
    BY <1>2, <1>6, <1>8, <2>1, <2>5 DEF MS!Fragment
<1>9. QED
  BY <1>7, <1>8 DEF NextFragment

LEMMA InitRefines == Init => MS!Init
BY DEF Init, MS!Init, Open, Nothing, MS!Nothing

LEMMA StepRefines == IInv /\ Idle /\ [Next]_vars => [MS!Next]_(MS!vars)
<1> SUFFICES ASSUME IInv, Idle, [Next]_vars PROVE MS!Next \/ Unseen
  BY DEF Unseen, MS!vars
<1>1. ASSUME NEW f \in Frames, PeerSend(f) PROVE MS!Next
  BY <1>1, PeerRefines DEF MS!Next
<1>2. CASE ServerRespond \/ PeerClose \/ Connect \/ Receive \/ Read \/ ReadEof \/ ReadError
  BY <1>2, CallRefines
<1>3. CASE UpgradeMore \/ UpgradeReject \/ UpgradePanic \/ UpgradeAccept \/ NeedMore \/ Panic
  BY <1>3, DecodeRefines
<1>4. CASE Refuse
  BY <1>4, RefuseRefines DEF MS!Next
<1>5. ASSUME NEW f \in Frames, RejectFrame(f) \/ Interleave(f) \/ FirstFragment(f) \/ NextFragment(f)
      PROVE  MS!Next
  BY <1>5, RejectRefines, InterleaveRefines, FirstRefines, NextRefines DEF MS!Next
<1>6. CASE UNCHANGED vars
  BY <1>6 DEF vars, peer, decoder, Unseen, Open
<1>7. QED
  BY <1>1, <1>2, <1>3, <1>4, <1>5, <1>6 DEF Next, Decode, Terminated

(* Whatever way the bytes of the frames are cut up by reads, the messages  *)
(* receive returns and the errors of the codec are those that the frames   *)
(* alone determine (Implements).                                           *)
THEOREM Refinement == Spec => Implements
<1>1. Spec => []Idle
  BY IdleInit, IdleStep, PTL DEF Spec
<1>2. QED
  BY <1>1, InitRefines, StepRefines, IInvHolds, PTL DEF Spec, Implements, MS!Spec
=============================================================================
