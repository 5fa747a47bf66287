------------------------- MODULE AsyncClient_proofs -------------------------
(***************************************************************************)
(* AsyncClient implements MessageStream, for any frames, boundaries, width *)
(* of usize and length of the response: dropping next() and calling it     *)
(* again after errors loses no message and invents none.                   *)
(*                                                                         *)
(* Most steps are steps of the blocking client, as B has them, and what is *)
(* proved of those is used here.                                           *)
(***************************************************************************)
EXTENDS AsyncClient, TLAPS

B == INSTANCE SyncClient_proofs

(* The constants are as the facts about B assume.                          *)
LEMMA Assumed == B!ClientAssumption /\ B!LengthAssumption
BY AsyncAssumption, LengthAssumption
DEF B!FrameType, FrameType, B!FormMax, FormMax, B!TextClasses, TextClasses

-----------------------------------------------------------------------------
(* The actions of the two instances are the same.                          *)
LEMMA SamePeer ==
  /\ S!ServerRespond => B!ServerRespond
  /\ S!PeerClose => B!PeerClose
  /\ \A f \in Frames : S!PeerSend(f) => B!PeerSend(f)
<1>1. S!ServerRespond => B!ServerRespond
  BY DEF S!ServerRespond, B!ServerRespond, S!buffer, B!buffer, S!decoder, B!decoder
<1>2. S!PeerClose => B!PeerClose
  BY DEF S!PeerClose, B!PeerClose, S!buffer, B!buffer, S!decoder, B!decoder
<1>3. ASSUME NEW f \in Frames, S!PeerSend(f) PROVE B!PeerSend(f)
  BY <1>3 DEF S!PeerSend, B!PeerSend, S!Start, B!Start, S!buffer, B!buffer, S!decoder, B!decoder,
              S!FrameLen, B!FrameLen, S!HeaderLen, B!HeaderLen, S!ExtendedLen, B!ExtendedLen
<1>4. QED
  BY <1>1, <1>2, <1>3

LEMMA SameCalls ==
  /\ S!Connect => B!Connect
  /\ S!Read => B!Read
  /\ S!ReadEof => B!ReadEof
  /\ S!ReadError => B!ReadError
  /\ S!Terminated => B!Terminated
<1> USE DEF S!peer, B!peer, S!buffer, B!buffer, S!decoder, B!decoder, S!Nothing, B!Nothing,
            S!BeginDecode, B!BeginDecode, S!AfterRead, B!AfterRead
<1>1. S!Connect => B!Connect
  BY DEF S!Connect, B!Connect
<1>2. S!Read => B!Read
  BY DEF S!Read, B!Read
<1>3. S!ReadEof => B!ReadEof
  BY DEF S!ReadEof, B!ReadEof
<1>4. S!ReadError => B!ReadError
  BY DEF S!ReadError, B!ReadError
<1>5. S!Terminated => B!Terminated
  BY DEF S!Terminated, B!Terminated, S!vars, B!vars
<1>6. QED
  BY <1>1, <1>2, <1>3, <1>4, <1>5

LEMMA SameUpgrade ==
  /\ S!UpgradeMore => B!UpgradeMore
  /\ S!UpgradeReject => B!UpgradeReject
  /\ S!UpgradePanic => B!UpgradePanic
  /\ S!UpgradeAccept => B!UpgradeAccept
<1> USE DEF S!peer, B!peer, S!buffer, B!buffer, S!decoder, B!decoder, S!Decoding, B!Decoding,
            S!Avail, B!Avail
<1>1. S!UpgradeMore => B!UpgradeMore
  BY DEF S!UpgradeMore, B!UpgradeMore, S!EofResult, B!EofResult
<1>2. S!UpgradeReject => B!UpgradeReject
  BY DEF S!UpgradeReject, B!UpgradeReject
<1>3. S!UpgradeAccept => B!UpgradeAccept
  BY DEF S!UpgradeAccept, B!UpgradeAccept, S!ReplaceCodec, B!ReplaceCodec
<1>4. S!UpgradePanic => B!UpgradePanic
  BY DEF S!UpgradePanic, B!UpgradePanic
<1>5. QED
  BY <1>1, <1>2, <1>3, <1>4

LEMMA SameFront ==
  /\ S!Front = B!Front /\ S!HeaderBuffered = B!HeaderBuffered
  /\ \A f : S!FrameSize(f) = B!FrameSize(f) /\ S!HeaderLen(f) = B!HeaderLen(f)
  /\ \A f : S!LengthOk(f) = B!LengthOk(f)
  /\ \A f : S!Incomplete(f) = B!Incomplete(f) /\ S!Unreasonable(f) = B!Unreasonable(f)
<1>1. \A f : S!HeaderLen(f) = B!HeaderLen(f)
  BY DEF S!HeaderLen, B!HeaderLen, S!ExtendedLen, B!ExtendedLen
<1>2. \A f : S!FrameSize(f) = B!FrameSize(f)
  BY <1>1 DEF S!FrameSize, B!FrameSize, S!UsizeAdd, B!UsizeAdd
<1>3. \A f : S!LengthOk(f) = B!LengthOk(f)
  BY DEF S!LengthOk, B!LengthOk
<1>4. \A f : S!Incomplete(f) = B!Incomplete(f) /\ S!Unreasonable(f) = B!Unreasonable(f)
  BY <1>2 DEF S!Incomplete, B!Incomplete, S!Unreasonable, B!Unreasonable, S!Avail, B!Avail
<1>5. S!Front = B!Front /\ S!HeaderBuffered = B!HeaderBuffered
  BY <1>1 DEF S!Front, B!Front, S!HeaderBuffered, B!HeaderBuffered, S!Avail, B!Avail
<1>6. QED
  BY <1>1, <1>2, <1>3, <1>4, <1>5

LEMMA SameDecode ==
  /\ S!NeedMore => B!NeedMore
  /\ S!Refuse => B!Refuse
  /\ S!Panic => B!Panic
<1> USE SameFront
    DEF S!peer, B!peer, S!buffer, B!buffer, S!decoder, B!decoder, S!Decoding, B!Decoding,
        S!Nothing, B!Nothing, S!Fail, B!Fail
<1>1. S!NeedMore => B!NeedMore
  BY DEF S!NeedMore, B!NeedMore, S!Parked, B!Parked, S!EofResult, B!EofResult, S!Avail, B!Avail
<1>2. S!Refuse => B!Refuse
  BY DEF S!Refuse, B!Refuse
<1>3. S!Panic => B!Panic
  BY DEF S!Panic, B!Panic
<1>4. QED
  BY <1>1, <1>2, <1>3

LEMMA SameMessages ==
  /\ S!Data = B!Data
  /\ \A f : S!Supports(f) = B!Supports(f)
  /\ \A m : S!Parked(m) = B!Parked(m)
  /\ \A o, d : S!MessageNewOk(wire, o, d) = B!MessageNewOk(wire, o, d)
  /\ \A c : S!IsControl(c) = B!IsControl(c)
  /\ S!Nothing = B!Nothing /\ S!Continuation = B!Continuation
<1>1. \A c : S!IsControl(c) = B!IsControl(c)
  BY DEF S!IsControl, B!IsControl, S!Close, B!Close, S!Ping, B!Ping, S!Pong, B!Pong
<1>2. \A f : S!Supports(f) = B!Supports(f)
  BY <1>1 DEF S!Supports, B!Supports, S!Supported, B!Supported, S!Continuation, B!Continuation,
              S!Text, B!Text, S!Binary, B!Binary, S!Close, B!Close, S!Ping, B!Ping, S!Pong, B!Pong
<1>3. \A o, d : S!MessageNewOk(wire, o, d) = B!MessageNewOk(wire, o, d)
  BY DEF S!MessageNewOk, B!MessageNewOk, S!Text, B!Text, S!Close, B!Close, S!Utf8, B!Utf8,
         S!CloseDataOk, B!CloseDataOk, S!TextOf, B!TextOf, S!Source, B!Source, S!Utf8Steps, B!Utf8Steps
<1>4. S!Data = B!Data
  BY SameFront DEF S!Data, B!Data, S!Payload, B!Payload, S!MaskSlice, B!MaskSlice
<1>5. QED
  BY <1>1, <1>2, <1>3, <1>4
  DEF S!Parked, B!Parked, S!Nothing, B!Nothing, S!Continuation, B!Continuation

LEMMA SameFrames ==
  ASSUME NEW f \in Frames
  PROVE  /\ S!RejectFrame(f) => B!RejectFrame(f)
         /\ S!Interleave(f) => B!Interleave(f)
         /\ S!FirstFragment(f) => B!FirstFragment(f)
         /\ S!NextFragment(f) => B!NextFragment(f)
<1>1. S!TakeFrame(f) => B!TakeFrame(f)
  BY SameFront DEF S!TakeFrame, B!TakeFrame, S!Decoding, B!Decoding, S!peer, B!peer
<1>2. \A kept : S!Fail(kept) => B!Fail(kept)
  BY SameMessages DEF S!Fail, B!Fail
<1>3. \A o, d, kept : S!Return(o, d, kept) => B!Return(o, d, kept)
  BY <1>2, SameMessages DEF S!Return, B!Return
<1>4. S!RejectFrame(f) => B!RejectFrame(f)
  BY <1>1, <1>2, SameMessages DEF S!RejectFrame, B!RejectFrame
<1>5. S!Interleave(f) => B!Interleave(f)
  BY <1>1, <1>3, SameMessages DEF S!Interleave, B!Interleave
<1>6. S!FirstFragment(f) => B!FirstFragment(f)
  BY <1>1, <1>3, SameMessages DEF S!FirstFragment, B!FirstFragment
<1>7. S!NextFragment(f) => B!NextFragment(f)
  BY <1>1, <1>3, SameMessages DEF S!NextFragment, B!NextFragment
<1>8. QED
  BY <1>4, <1>5, <1>6, <1>7

(* A step of the blocking client, and one that only this client takes.     *)
Own == PollAfterErr \/ Poll \/ DropNext \/ ReadEofAgain
Shared == B!Next \/ UNCHANGED <<peer, buffer, codec, pc, decoder, result>>

LEMMA StepCases == [Next]_vars => Own \/ Shared
<1> SUFFICES ASSUME [Next]_vars PROVE Own \/ Shared
  OBVIOUS
<1>1. CASE Environment
  BY <1>1, SamePeer, SameCalls DEF Environment, Peer, Shared, B!Next
<1>2. CASE Read \/ ReadEof \/ ReadError
  BY <1>2, SameCalls DEF Read, ReadEof, ReadError, Shared, B!Next
<1>3. CASE Upgraded
  BY <1>3, SameUpgrade DEF Upgraded, Shared, B!Next, B!Decode
<1>4. CASE Decode
  BY <1>4, SameUpgrade, SameDecode, SameFrames DEF Decode, S!Decode, Shared, B!Next, B!Decode
<1>5. CASE UNCHANGED vars
  BY <1>5 DEF vars, Shared
<1>6. QED
  BY <1>1, <1>2, <1>3, <1>4, <1>5 DEF Next, Own

-----------------------------------------------------------------------------
(* The invariant of the blocking client is one of this client too, and the *)
(* end of the stream does not leave the handshake undecided.               *)
Decided == eof /\ codec = "upgrade" => pc \in {"decode_eof", "closed", "panicked"}
IInv == B!IInv /\ B!Idle /\ Decided

LEMMA IInvInit == Init => IInv /\ B!MS!Init
<1> SUFFICES ASSUME Init PROVE IInv /\ B!MS!Init
  OBVIOUS
<1>1. B!Init /\ ~eof
  BY DEF Init, S!Init, B!Init, S!Nothing, B!Nothing
<1>2. B!IInv
  BY <1>1, B!IInvInit, Assumed, AsyncAssumption, LengthAssumption
<1>3. B!Idle /\ B!MS!Init
  BY <1>1, B!IdleInit, B!InitRefines, Assumed, AsyncAssumption, LengthAssumption
<1>4. QED
  BY <1>1, <1>2, <1>3 DEF IInv, Decided

LEMMA OwnFacts ==
  ASSUME IInv, Own
  PROVE  /\ UNCHANGED <<response, wire, ends, limit, closed, recvd, head, codec, pos, out, failed, eof>>
         /\ pc \in {"idle", "read"} /\ pc' \in {"idle", "read", "decode", "decode_eof"}
         /\ codec = "message"
         /\ result' \in {"none", "end", result}
         /\ \/ pc' \in {"idle", "read"} /\ UNCHANGED <<interrupted, state>>
            \/ pc' \in {"decode", "decode_eof"} /\ state' = interrupted /\ interrupted' = B!Nothing
<1>1. (pc = "idle" => codec = "message") /\ codec \in {"upgrade", "message"} /\ Decided
  BY DEF IInv, B!IInv, B!Layout, B!TypeOK
<1>2. CASE PollAfterErr \/ DropNext
  BY <1>1, <1>2 DEF PollAfterErr, DropNext, peer, buffer, decoder, framed
<1>3. CASE ReadEofAgain
  BY <1>1, <1>3 DEF ReadEofAgain, Decided, peer, buffer, decoder, framed
<1>4. CASE Poll
  BY <1>1, <1>4, SameMessages DEF Poll, S!BeginDecode, peer, buffer, framed
<1>5. QED
  BY <1>2, <1>3, <1>4 DEF Own

LEMMA OwnStep ==
  ASSUME IInv, Own
  PROVE  IInv' /\ B!Unseen
<1>1. B!TypeOK /\ B!Idle
  BY DEF IInv, B!IInv
<1>2. B!BufferOK' /\ B!ControlOK'
  BY <1>1, OwnFacts DEF B!TypeOK, B!BufferOK, B!ControlOK
<1>3. B!DecoderOK'
  BY <1>1, OwnFacts, B!NothingType, Assumed, AsyncAssumption, LengthAssumption
  DEF B!TypeOK, B!DecoderOK
<1>4. B!IInv'
  <2>1. UNCHANGED <<wire, ends, response, closed, limit, head, codec, pos>> /\ B!IInv
    BY OwnFacts DEF IInv
  <2>2. pc' \in {"start", "idle"} => pc' = "idle" /\ codec = "message"
    BY OwnFacts
  <2>3. QED
    BY <1>2, <1>3, <2>1, <2>2, B!QuietStep, Assumed, AsyncAssumption, LengthAssumption
<1>5. B!Idle' /\ Decided'
  BY OwnFacts DEF B!Idle, Decided
<1>6. B!Unseen
  BY OwnFacts DEF B!Unseen, B!Open
<1>7. QED
  BY <1>4, <1>5, <1>6 DEF IInv

LEMMA SharedStep ==
  ASSUME IInv, Shared
  PROVE  B!IInv' /\ B!Idle' /\ [B!MS!Next]_(B!MS!vars)
<1>1. [B!Next]_(B!vars)
  BY DEF Shared, B!vars, B!peer, B!buffer, B!decoder, peer, buffer, decoder
<1>2. B!IInv /\ B!Idle
  BY DEF IInv
<1>3. QED
  BY <1>1, <1>2, B!IInvStep, B!IdleStep, B!StepRefines, Assumed, AsyncAssumption, LengthAssumption

(* The end of the stream is noticed by ReadEof, and then decode_eof runs.  *)
LEMMA DecidedStep ==
  ASSUME IInv, [Next]_vars, ~Own
  PROVE  Decided'
<1>1. Decided
  BY DEF IInv
<1>2. CASE Environment
  <2>1. UNCHANGED <<eof, codec>> /\ (UNCHANGED pc \/ pc = "start")
    BY <1>2 DEF Environment, Peer, framed, S!ServerRespond, S!PeerClose, S!PeerSend, S!Connect,
                S!Terminated, S!vars
  <2>2. QED
    BY <2>1, <1>1 DEF Decided
<1>3. CASE Read \/ ReadEof
  BY <1>3 DEF Read, ReadEof, S!ReadEof, S!BeginDecode, S!AfterRead, Decided
<1>4. CASE ReadError
  BY <1>1, <1>4 DEF ReadError, S!ReadError, Decided
<1>5. CASE Upgraded
  BY <1>5 DEF Upgraded, Decided
<1>6. CASE Decode
  <2>1. codec' = codec /\ eof' = eof
    BY <1>6 DEF Decode
  <2>2. ASSUME codec = "upgrade", eof PROVE pc' \in {"decode_eof", "closed", "panicked"}
    BY <1>1, <1>6, <2>1, <2>2
    DEF Decode, S!Decode, Decided, S!UpgradeMore, S!UpgradeReject, S!UpgradePanic, S!UpgradeAccept, S!NeedMore,
        S!Refuse, S!Panic, S!RejectFrame, S!Interleave, S!FirstFragment, S!NextFragment, S!TakeFrame
  <2>3. QED
    BY <2>1, <2>2 DEF Decided
<1>7. CASE UNCHANGED vars
  BY <1>1, <1>7 DEF vars, framed, Decided
<1>8. QED
  BY <1>2, <1>3, <1>4, <1>5, <1>6, <1>7 DEF Next, Own

LEMMA IInvStep == IInv /\ [Next]_vars => IInv' /\ [B!MS!Next]_(B!MS!vars)
<1> SUFFICES ASSUME IInv, [Next]_vars PROVE IInv' /\ [B!MS!Next]_(B!MS!vars)
  OBVIOUS
<1>1. CASE Own
  BY <1>1, OwnStep DEF B!Unseen, B!MS!vars
<1>2. CASE ~Own
  BY <1>2, StepCases, SharedStep, DecidedStep DEF IInv
<1>3. QED
  BY <1>1, <1>2

-----------------------------------------------------------------------------
(* B and S implement the abstract codec in the same way.                   *)
LEMMA SameOpen ==
  /\ S!Open = B!Open
  /\ (S!Open)' = (B!Open)'
BY DEF S!Open, B!Open

LEMMA SameHelpers ==
  /\ \A f : B!MS!LengthOk(f) = S!MS!LengthOk(f)
  /\ \A f : B!MS!MayGiveUp(f) = S!MS!MayGiveUp(f)
  /\ \A c : B!MS!IsControl(c) = S!MS!IsControl(c)
  /\ \A f : B!MS!Supportable(f) = S!MS!Supportable(f)
  /\ \A f : B!MS!InPlace(f) = S!MS!InPlace(f)
  /\ \A f : B!MS!Extended(f) = S!MS!Extended(f) /\ B!MS!Alone(f) = S!MS!Alone(f)
  /\ \A m : B!MS!Ok(m) = S!MS!Ok(m)
  /\ \A m : B!MS!Deliver(m) = S!MS!Deliver(m)
  /\ B!MS!AfterError = S!MS!AfterError /\ B!MS!Nothing = S!MS!Nothing
<1>1. \A f : B!MS!LengthOk(f) = S!MS!LengthOk(f)
  BY DEF B!MS!LengthOk, S!MS!LengthOk
<1>2. \A f : B!MS!MayGiveUp(f) = S!MS!MayGiveUp(f)
  BY <1>1 DEF B!MS!MayGiveUp, S!MS!MayGiveUp, B!MS!FrameLen, S!MS!FrameLen,
              B!MS!HeaderLen, S!MS!HeaderLen, B!MS!ExtendedLen, S!MS!ExtendedLen
<1>3. \A c : B!MS!IsControl(c) = S!MS!IsControl(c)
  BY DEF B!MS!IsControl, S!MS!IsControl, B!MS!Close, S!MS!Close, B!MS!Ping, S!MS!Ping, B!MS!Pong, S!MS!Pong
<1>4. \A f : B!MS!Supportable(f) = S!MS!Supportable(f)
  BY <1>3 DEF B!MS!Supportable, S!MS!Supportable, B!MS!Supported, S!MS!Supported,
              B!MS!Continuation, S!MS!Continuation, B!MS!Text, S!MS!Text, B!MS!Binary, S!MS!Binary,
              B!MS!Close, S!MS!Close, B!MS!Ping, S!MS!Ping, B!MS!Pong, S!MS!Pong
<1>5. \A f : B!MS!InPlace(f) = S!MS!InPlace(f)
  BY <1>3, SameOpen DEF B!MS!InPlace, S!MS!InPlace, B!MS!Continuation, S!MS!Continuation,
                        B!MS!Nothing, S!MS!Nothing
<1>6. \A f : B!MS!Extended(f) = S!MS!Extended(f) /\ B!MS!Alone(f) = S!MS!Alone(f)
  BY SameOpen DEF B!MS!Extended, S!MS!Extended, B!MS!Alone, S!MS!Alone, B!MS!Nothing, S!MS!Nothing
<1>7. \A m : B!MS!Ok(m) = S!MS!Ok(m)
  BY DEF B!MS!Ok, S!MS!Ok, B!MS!MessageNewOk, S!MS!MessageNewOk, B!MS!Text, S!MS!Text,
         B!MS!Close, S!MS!Close, B!MS!Utf8, S!MS!Utf8, B!MS!CloseDataOk, S!MS!CloseDataOk,
         B!MS!TextOf, S!MS!TextOf, B!MS!Source, S!MS!Source, B!MS!Utf8Steps, S!MS!Utf8Steps
<1>8. QED
  BY <1>1, <1>2, <1>3, <1>4, <1>5, <1>6, <1>7
  DEF B!MS!Deliver, S!MS!Deliver, B!MS!AfterError, S!MS!AfterError, B!MS!Nothing, S!MS!Nothing

LEMMA SameStream ==
  ASSUME NEW f \in Frames
  PROVE  /\ B!MS!PeerSend(f) => S!MS!PeerSend(f)
         /\ B!MS!Fragment(f) => S!MS!Fragment(f)
         /\ B!MS!Complete(f) => S!MS!Complete(f)
         /\ B!MS!Control(f) => S!MS!Control(f)
         /\ B!MS!Reject(f) => S!MS!Reject(f)
         /\ B!MS!GiveUp(f) => S!MS!GiveUp(f)
<1>1. B!MS!Take(f) => S!MS!Take(f)
  BY SameHelpers DEF B!MS!Take, S!MS!Take
<1>2. B!MS!PeerSend(f) => S!MS!PeerSend(f)
  BY SameOpen DEF B!MS!PeerSend, S!MS!PeerSend
<1>3. B!MS!Fragment(f) => S!MS!Fragment(f)
  BY <1>1, SameOpen, SameHelpers DEF B!MS!Fragment, S!MS!Fragment
<1>4. B!MS!Complete(f) => S!MS!Complete(f)
  BY <1>1, SameOpen, SameHelpers DEF B!MS!Complete, S!MS!Complete
<1>5. B!MS!Control(f) => S!MS!Control(f)
  BY <1>1, SameOpen, SameHelpers DEF B!MS!Control, S!MS!Control
<1>6. B!MS!Reject(f) => S!MS!Reject(f)
  BY <1>1, SameOpen, SameHelpers DEF B!MS!Reject, S!MS!Reject
<1>7. B!MS!GiveUp(f) => S!MS!GiveUp(f)
  BY SameOpen, SameHelpers DEF B!MS!GiveUp, S!MS!GiveUp
<1>8. QED
  BY <1>2, <1>3, <1>4, <1>5, <1>6, <1>7

(* The messages next() gives are those that the frames spell, however the  *)
(* bytes come and whatever calls are dropped or repeated (Implements).     *)
THEOREM Refinement == Spec => Implements
<1>1. B!MS!Init => S!MS!Init
  BY SameOpen, SameHelpers DEF B!MS!Init, S!MS!Init
<1>2. B!MS!Next => S!MS!Next
  BY SameStream DEF B!MS!Next, S!MS!Next
<1>3. B!MS!vars' = B!MS!vars => S!MS!vars' = S!MS!vars
  BY SameOpen DEF B!MS!vars, S!MS!vars
<1>4. IInv /\ [Next]_vars => IInv' /\ [S!MS!Next]_(S!MS!vars)
  BY <1>2, <1>3, IInvStep
<1>5. Init => IInv /\ S!MS!Init
  BY <1>1, IInvInit
<1>6. QED
  BY <1>4, <1>5, PTL DEF Spec, Implements, S!Implements, S!MS!Spec

-----------------------------------------------------------------------------
(* What Framed remembers, and where the poll is.                           *)
Control ==
  /\ pc \in {"start", "read", "decode", "decode_eof"} => result = "none" /\ ~errored
  /\ pc \in {"start", "read"} => ~readable
  /\ pc = "decode" => ~eof

LEMMA ControlInit == Init => Control
BY DEF Init, S!Init, Control

(* What a step of decode leaves: the answer decides what is remembered.    *)
LEMMA DecodeFacts ==
  ASSUME IInv, Control, Decode
  PROVE  /\ UNCHANGED <<response, wire, ends, limit, closed, recvd, codec, eof>>
         /\ errored' <=> result' \in {"error", "truncated"}
         /\ told' <=> told \/ errored'
         /\ readable' <=> pc' # "read" /\ result' # "end"
         /\ pc \in {"decode", "decode_eof"} /\ result = "none"
         /\ \/ S!UpgradeMore \/ S!UpgradeReject \/ S!UpgradePanic \/ S!NeedMore \/ S!Refuse \/ S!Panic
            \/ pc' = "idle" /\ result' = "message"
            \/ pc' = "idle" /\ result' = "error" /\ failed'
            \/ pc' = pc /\ result' = result
<1>1. /\ UNCHANGED <<codec, eof>>
      /\ errored' <=> result' \in {"error", "truncated"}
      /\ told' <=> told \/ errored'
      /\ readable' <=> pc' # "read" /\ result' # "end"
  <2>1. UNCHANGED <<codec, eof>>
    BY DEF Decode
  <2>2. errored' <=> result' \in {"error", "truncated"}
    BY Zenon DEF Decode
  <2>3. told' <=> told \/ errored'
    BY Zenon DEF Decode
  <2>4. readable' <=> pc' # "read" /\ result' # "end"
    BY Zenon DEF Decode
  <2>5. QED
    BY <2>1, <2>2, <2>3, <2>4
<1>2. CASE S!UpgradeMore \/ S!UpgradeReject \/ S!UpgradePanic \/ S!NeedMore \/ S!Refuse \/ S!Panic
  BY <1>1, <1>2
  DEF S!UpgradeMore, S!UpgradeReject, S!UpgradePanic, S!NeedMore, S!Refuse, S!Panic, S!peer, S!buffer, S!Decoding, Control
<1>3. ASSUME NEW f \in Frames,
             S!RejectFrame(f) \/ S!Interleave(f) \/ S!FirstFragment(f) \/ S!NextFragment(f)
      PROVE  /\ UNCHANGED <<response, wire, ends, limit, closed, recvd>>
             /\ pc \in {"decode", "decode_eof"}
             /\ \/ pc' = "idle" /\ result' = "message"
                \/ pc' = "idle" /\ result' = "error" /\ failed'
                \/ pc' = pc /\ result' = result
  BY <1>3
  DEF S!RejectFrame, S!Interleave, S!FirstFragment, S!NextFragment, S!TakeFrame, S!Return, S!Fail,
      S!Decoding, S!peer
<1>4. CASE S!UpgradeAccept
  BY <1>1, <1>4 DEF S!UpgradeAccept
<1>5. QED
  BY <1>1, <1>2, <1>3, <1>4 DEF Decode, S!Decode, Control

LEMMA ControlStep ==
  ASSUME IInv, Control, [Next]_vars
  PROVE  Control'
<1>1. CASE Environment
  BY <1>1 DEF Environment, Peer, S!ServerRespond, S!PeerClose, S!PeerSend, S!Connect, S!Terminated,
              S!vars, framed, Control
<1>2. CASE PollAfterErr \/ Poll \/ DropNext \/ ReadEofAgain
  BY <1>2 DEF PollAfterErr, Poll, DropNext, ReadEofAgain, S!BeginDecode, framed, Control
<1>3. CASE Read
  BY <1>3 DEF Read, S!Read, S!BeginDecode, S!AfterRead, Control
<1>4. CASE ReadEof \/ ReadError
  BY <1>4 DEF ReadEof, ReadError, S!ReadEof, S!ReadError, S!BeginDecode, S!AfterRead, Control
<1>5. CASE Decode
  <2>1. CASE S!UpgradeMore \/ S!UpgradeReject \/ S!UpgradePanic \/ S!NeedMore \/ S!Refuse \/ S!Panic
    BY <1>5, <2>1, DecodeFacts
    DEF S!UpgradeMore, S!UpgradeReject, S!UpgradePanic, S!NeedMore, S!Refuse, S!Panic, S!Fail, Control
  <2>2. CASE ~(S!UpgradeMore \/ S!UpgradeReject \/ S!UpgradePanic \/ S!NeedMore \/ S!Refuse \/ S!Panic)
    BY <1>5, <2>2, DecodeFacts DEF Control
  <2>3. QED
    BY <2>1, <2>2
<1>6. CASE Upgraded
  BY <1>6 DEF Upgraded, S!UpgradeAccept, Control
<1>7. CASE UNCHANGED vars
  BY <1>7 DEF vars, framed, Control
<1>8. QED
  BY <1>1, <1>2, <1>3, <1>4, <1>5, <1>6, <1>7 DEF Next

-----------------------------------------------------------------------------
(* A client that was told of no error hears of the end only when the       *)
(* stream has ended and the buffer is empty, and it stays so.              *)
EndInv == told \/
  /\ ~errored
  /\ eof \/ pc = "decode_eof" => closed /\ recvd = limit
  /\ eof /\ ~readable /\ codec = "message" => head = recvd
  /\ pc = "decode_eof" => eof /\ readable
  /\ result = "end" =>
       /\ pc \in {"idle", "closed"} /\ closed /\ recvd = limit
       /\ codec = "message" => head = recvd

LEMMA EndInvInit == Init => EndInv
BY DEF Init, S!Init, EndInv

LEMMA EndInvStep ==
  ASSUME IInv, Control, EndInv, [Next]_vars
  PROVE  EndInv'
<1> SUFFICES ASSUME ~told' PROVE EndInv'
  BY DEF EndInv
<1>1. limit \in Nat /\ recvd \in 0..limit /\ head \in 0..recvd /\ codec \in {"upgrade", "message"}
  BY DEF IInv, B!IInv, B!TypeOK
<1>2. CASE Environment
  <2>1. /\ UNCHANGED <<recvd, head, codec, result, framed>>
        /\ UNCHANGED pc \/ (pc = "start" /\ pc' \in {"read", "closed"})
        /\ UNCHANGED <<closed, limit>> \/ ~closed
    BY <1>2 DEF Environment, Peer, S!ServerRespond, S!PeerClose, S!PeerSend, S!Connect, S!Terminated,
                S!vars, S!peer, S!buffer, S!decoder
  <2>2. QED
    BY <2>1 DEF framed, EndInv, Control
<1>3. CASE PollAfterErr
  BY <1>3 DEF PollAfterErr, EndInv
<1>4. CASE Poll \/ DropNext
  BY <1>4 DEF Poll, DropNext, S!BeginDecode, peer, buffer, framed, EndInv, Control
<1>5. CASE ReadEofAgain
  BY <1>5 DEF ReadEofAgain, peer, buffer, framed, EndInv, Control
<1>6. CASE Read
  BY <1>1, <1>6 DEF Read, S!Read, S!BeginDecode, S!AfterRead, S!peer, EndInv, Control
<1>7. CASE ReadEof
  BY <1>7 DEF ReadEof, S!ReadEof, S!BeginDecode, S!AfterRead, S!peer, S!buffer, EndInv, Control
<1>8. CASE ReadError
  BY <1>8 DEF ReadError
<1>9. CASE Decode
  <2>1. ~told /\ ~errored' /\ result' \notin {"error", "truncated"}
    BY <1>9, DecodeFacts
  <2>2. CASE S!UpgradeMore
    BY <1>9, <2>1, <2>2, DecodeFacts DEF S!UpgradeMore, EndInv, Control
  <2>3. CASE S!NeedMore
    BY <1>1, <1>9, <2>1, <2>3, DecodeFacts
    DEF S!NeedMore, S!EofResult, S!Avail, S!buffer, EndInv, Control
  <2>4. CASE S!UpgradeReject \/ S!Refuse
    BY <2>1, <2>4 DEF S!UpgradeReject, S!Refuse, S!Fail
  <2>5. CASE S!UpgradePanic \/ S!Panic
    BY <1>9, <2>1, <2>5, DecodeFacts DEF S!UpgradePanic, S!Panic, EndInv, Control
  <2>6. CASE pc' = "idle" /\ result' = "message"
    BY <1>9, <2>1, <2>6, DecodeFacts DEF EndInv, Control
  <2>7. CASE pc' = pc /\ result' = result
    BY <1>9, <2>1, <2>7, DecodeFacts DEF EndInv, Control
  <2>8. QED
    BY <1>9, <2>1, <2>2, <2>3, <2>4, <2>5, <2>6, <2>7, DecodeFacts
<1>10. CASE Upgraded
  BY <1>10 DEF Upgraded, S!UpgradeAccept, S!Decoding, S!peer, EndInv, Control
<1>11. CASE UNCHANGED vars
  BY <1>11 DEF vars, peer, buffer, framed, EndInv
<1>12. QED
  BY <1>2, <1>3, <1>4, <1>5, <1>6, <1>7, <1>8, <1>9, <1>10, <1>11 DEF Next

(* None says that the stream ended between two frames, all of them taken,  *)
(* unless the application was told of an error before (CleanEnd).          *)
THEOREM CleanEndHolds == Spec => []CleanEnd
<1>1. IInv /\ EndInv => CleanEnd
  <2> SUFFICES ASSUME IInv, EndInv PROVE CleanEnd
    OBVIOUS
  <2>1. B!Aligned
    BY DEF IInv, B!IInv
  <2>2. QED
    BY <2>1 DEF EndInv, CleanEnd, S!CleanEnd, B!Aligned, B!Start, S!Start
<1>2. Spec => []IInv
  BY IInvInit, IInvStep, PTL DEF Spec
<1>3. Spec => []Control
  BY <1>2, ControlInit, ControlStep, PTL DEF Spec
<1>4. QED
  BY <1>1, <1>2, <1>3, EndInvInit, EndInvStep, PTL DEF Spec

-----------------------------------------------------------------------------
(* Whenever the next poll would read, the buffer holds no answer.          *)
BlockInv == failed \/ B!Waiting \/
  /\ pc # "read"
  /\ pc = "idle" => readable /\ ~errored

LEMMA BlockInvInit == Init => BlockInv
BY DEF Init, S!Init, BlockInv

LEMMA SameWaiting ==
  UNCHANGED <<wire, ends, recvd, head, codec, pos>> => (B!Waiting)' = B!Waiting
BY DEF B!Waiting, B!HeaderBuffered, B!Front, B!Avail, B!LengthOk, B!HeaderLen, B!ExtendedLen

(* A buffer that may have no capacity is empty.                            *)
LEMMA UpgradedWaits ==
  ASSUME IInv, Upgraded
  PROVE  readable' \/ (B!Waiting)'
<1> SUFFICES ASSUME ~readable' PROVE (B!Waiting)'
  OBVIOUS
<1>1. B!UpgradeAccept /\ IInv'
  BY SameUpgrade, IInvStep DEF Upgraded, Next
<1>2. /\ ~(recvd - head' > 0) /\ codec' = "message"
      /\ UNCHANGED <<recvd, wire, pos>>
  BY DEF Upgraded, DecodeFirst, S!UpgradeAccept, S!peer, S!decoder
<1>3. (B!TypeOK)'
  BY <1>1 DEF IInv, B!IInv
<1>4. recvd' \in Nat /\ head' \in 0..recvd' /\ wire' \in Seq(Frames) /\ pos' \in 0..Len(wire')
  BY <1>3 DEF B!TypeOK
<1>5. recvd' - head' = 0
  <2>1. ~(recvd' - head' > 0)
    BY <1>2
  <2>2. \A n \in Nat : \A m \in 0..n : n - m > 0 \/ n - m = 0
    OBVIOUS
  <2>3. QED
    BY <2>1, <2>2, <1>4
<1>6. (B!HeaderBuffered)' <=> pos' < Len(wire') /\ B!HeaderLen(wire'[pos' + 1]) <= recvd' - head'
  BY DEF B!HeaderBuffered, B!Front, B!Avail, B!HeaderLen, B!ExtendedLen
<1>7. ~(B!HeaderBuffered)'
  <2>1. pos' < Len(wire') => wire'[pos' + 1] \in Frames
    BY <1>4
  <2>2. pos' < Len(wire') => B!HeaderLen(wire'[pos' + 1]) \in 2..14
    BY <2>1, B!HeaderFacts, Assumed, AsyncAssumption, LengthAssumption
  <2>3. QED
    BY <2>2, <1>5, <1>6
<1>8. QED
  BY <1>2, <1>7 DEF B!Waiting

LEMMA BlockInvStep ==
  ASSUME IInv, Control, BlockInv, [Next]_vars
  PROVE  BlockInv'
<1> USE Assumed, AsyncAssumption, LengthAssumption
<1>1. B!IInv
  BY DEF IInv
<1>2. CASE Environment
  <2>1. CASE S!Connect
    BY <1>1, <2>1, SameCalls, B!WaitingReadStep DEF BlockInv
  <2>2. CASE S!ServerRespond \/ S!PeerClose
    BY <1>2, <2>2, SameWaiting
    DEF Environment, S!ServerRespond, S!PeerClose, S!buffer, S!decoder, framed, BlockInv
  <2>3. ASSUME NEW f \in Frames, S!PeerSend(f)
        PROVE  BlockInv'
    <3>1. B!Waiting => (B!Waiting)'
      BY <1>1, <2>3, SamePeer, B!WaitingPeerStep
    <3>2. QED
      BY <3>1, <1>2, <2>3 DEF Environment, S!PeerSend, S!decoder, framed, BlockInv
  <2>4. CASE S!Terminated
    BY <1>2, <2>4, SameWaiting
    DEF Environment, S!Terminated, S!vars, S!peer, S!buffer, S!decoder, framed, BlockInv
  <2>5. QED
    BY <1>2, <2>1, <2>2, <2>3, <2>4 DEF Environment, Peer
<1>3. CASE Own
  <2>1. UNCHANGED <<wire, ends, recvd, head, codec, pos, failed>>
    BY <1>3 DEF Own, PollAfterErr, Poll, DropNext, ReadEofAgain, peer, buffer, decoder
  <2>2. BlockInv' \/ failed \/ B!Waiting
    BY <1>3 DEF Own, PollAfterErr, Poll, DropNext, ReadEofAgain, S!BeginDecode, framed, BlockInv
  <2>3. QED
    BY <2>1, <2>2, SameWaiting DEF BlockInv
<1>4. CASE Read
  BY <1>4 DEF Read, S!Read, S!BeginDecode, S!AfterRead, BlockInv
<1>5. CASE ReadEof
  BY <1>5 DEF ReadEof, S!ReadEof, S!BeginDecode, S!AfterRead, BlockInv
<1>6. CASE ReadError
  BY <1>6, SameWaiting DEF ReadError, S!ReadError, S!peer, S!buffer, S!decoder, BlockInv
<1>7. CASE Decode
  <2>1. CASE S!UpgradeMore \/ S!NeedMore
    BY <1>1, <2>1, SameUpgrade, SameDecode, B!WaitingReadStep DEF BlockInv
  <2>2. CASE S!UpgradeReject \/ S!UpgradePanic \/ S!Panic
    BY <2>2 DEF S!UpgradeReject, S!UpgradePanic, S!Panic, BlockInv, S!buffer, S!peer
  <2>3. CASE S!Refuse
    BY <2>3 DEF S!Refuse, S!Fail, BlockInv
  <2>4. CASE pc' = "idle" /\ result' = "message"
    BY <1>7, <2>4, DecodeFacts DEF BlockInv
  <2>5. CASE failed'
    BY <2>5 DEF BlockInv
  <2>6. CASE pc' = pc
    BY <1>7, <2>6, DecodeFacts DEF BlockInv
  <2>7. QED
    BY <1>7, <2>1, <2>2, <2>3, <2>4, <2>5, <2>6, DecodeFacts
<1>8. CASE Upgraded
  <2>1. pc' = "idle" /\ ~errored'
    BY <1>8 DEF Upgraded, S!UpgradeAccept, S!Decoding, Control
  <2>2. QED
    BY <1>8, <2>1, UpgradedWaits DEF BlockInv
<1>9. CASE UNCHANGED vars
  BY <1>9, SameWaiting DEF vars, peer, buffer, decoder, framed, BlockInv
<1>10. QED
  BY <1>2, <1>3, <1>4, <1>5, <1>6, <1>7, <1>8, <1>9 DEF Next, Own

(* next() waits for bytes only when the buffer holds no answer, unless the *)
(* decoder failed before (NoBlockOnReady).                                 *)
THEOREM NoBlockOnReadyHolds == Spec => []NoBlockOnReady
<1>1. BlockInv => NoBlockOnReady
  BY SameFront DEF BlockInv, NoBlockOnReady, S!NoBlockOnReady, B!Waiting
<1>2. Spec => []IInv
  BY IInvInit, IInvStep, PTL DEF Spec
<1>3. Spec => []Control
  BY <1>2, ControlInit, ControlStep, PTL DEF Spec
<1>4. QED
  BY <1>1, <1>2, <1>3, BlockInvInit, BlockInvStep, PTL DEF Spec
=============================================================================
