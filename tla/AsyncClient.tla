----------------------------- MODULE AsyncClient -----------------------------
(***************************************************************************)
(* The receiving half of AsyncClient<S>: async_connect_on, replace_codec   *)
(* and the polling of tokio_util's Framed (external) with UpgradeCodec and *)
(* then MessageCodec.  The codecs, the buffer and the peer are those of    *)
(* SyncClient; what differs is who calls them and when.  Framed remembers  *)
(* whether the buffer may hold a frame, whether the stream has ended, and  *)
(* whether the next call has to return None because this one returned Err; *)
(* and the future of next() may be dropped while it waits for bytes.  A    *)
(* definition named for what goes wrong (NoneForever, WaitForBytes) is a   *)
(* faulty variant of the one after it.                                     *)
(***************************************************************************)
EXTENDS Message

CONSTANTS Frames, MaxFrames, ResponseLen      (* as in SyncClient           *)

ASSUME AsyncAssumption ==
  /\ Frames \subseteq FrameType
  /\ MaxFrames \in Nat
  /\ ResponseLen \in Nat \ {0}

VARIABLES
  response, wire, ends, limit, closed,        (* the peer, as in SyncClient *)
  recvd, head,                                (* read_buf                   *)
  codec, pc, interrupted, state, pos, out, failed, result,
  readable,      (* ReadFrame::is_readable: decode before reading           *)
  eof,           (* ReadFrame::eof: the last read found the end             *)
  errored,       (* ReadFrame::has_errored: None is due                     *)
  told           (* whether next() ever returned Some(Err)                  *)

S == INSTANCE SyncClient

peer == <<response, wire, ends, limit, closed>>
buffer == <<recvd, head>>
decoder == <<interrupted, state, pos, out, failed>>
framed == <<readable, eof, errored, told>>
vars == <<peer, buffer, codec, pc, decoder, result, framed>>

Init ==
  /\ S!Init
  /\ readable = FALSE /\ eof = FALSE /\ errored = FALSE /\ told = FALSE

(* The peer, and async_connect_on up to its call of into_future.           *)
Peer == S!ServerRespond \/ S!PeerClose \/ \E f \in Frames : S!PeerSend(f)
Environment == (Peer \/ S!Connect \/ S!Terminated) /\ UNCHANGED framed

-----------------------------------------------------------------------------
(* The application polls next().  After an Err it gets None, once.         *)
NoneForever == TRUE
NoneOnce == FALSE
PollAfterErr ==
  /\ pc = "idle" /\ errored
  /\ result' = "end"
  /\ readable' = FALSE /\ errored' = NoneOnce
  /\ UNCHANGED <<peer, buffer, codec, pc, decoder, eof, told>>

Poll ==
  /\ pc = "idle" /\ ~errored
  /\ result' = "none"
  /\ IF readable THEN S!BeginDecode(IF eof THEN "decode_eof" ELSE "decode")
                 ELSE pc' = "read" /\ UNCHANGED <<interrupted, state>>
  /\ UNCHANGED <<peer, buffer, codec, pos, out, failed, framed>>

(* The application drops the future of next() while poll_read is pending,  *)
(* as a timeout around it does, and may poll another one later: the stream *)
(* is its own, and nothing is lost with the future.                        *)
DropNext ==
  /\ pc = "read" /\ codec = "message"
  /\ pc' = "idle"
  /\ UNCHANGED <<peer, buffer, codec, decoder, result, framed>>

Read ==
  /\ S!Read
  /\ readable' = TRUE /\ eof' = FALSE
  /\ UNCHANGED <<errored, told>>

(* The end of the stream: the first time for decode_eof, then for None.    *)
ReadEof ==
  /\ ~eof
  /\ S!ReadEof
  /\ readable' = TRUE /\ eof' = TRUE
  /\ UNCHANGED <<errored, told>>

ReadEofAgain ==
  /\ eof
  /\ pc = "read" /\ closed /\ recvd = limit
  /\ pc' = "idle"
  /\ result' = "end"
  /\ UNCHANGED <<peer, buffer, codec, decoder, framed>>

ReadError ==
  /\ S!ReadError
  /\ errored' = TRUE /\ told' = TRUE
  /\ UNCHANGED <<readable, eof>>

(* decode or decode_eof and what poll_next makes of its result.            *)
Decode ==
  /\ S!Decode
  /\ codec' = codec
  /\ errored' = (result' \in {"error", "truncated"})
  /\ told' = (told \/ errored')
  /\ readable' = (pc' # "read" /\ result' # "end")
  /\ UNCHANGED eof

(* replace_codec: Framed::new knows nothing of the bytes that came with    *)
(* the response, and from_parts decodes first when read_buf has any        *)
(* capacity, as it has when it holds a byte.                               *)
WaitForBytes(left) == {FALSE}
DecodeFirst(left) == IF left > 0 THEN {TRUE} ELSE BOOLEAN

Upgraded ==
  /\ S!UpgradeAccept
  /\ readable' \in DecodeFirst(recvd - head')
  /\ eof' = FALSE
  /\ UNCHANGED <<errored, told>>

Next ==
  \/ Environment
  \/ PollAfterErr \/ Poll \/ DropNext
  \/ Read \/ ReadEof \/ ReadEofAgain \/ ReadError
  \/ Decode \/ Upgraded

Spec == Init /\ [][Next]_vars

(* The application polls again after each answer and after it dropped      *)
(* next(); it does not drop it every time that the bytes are there, and    *)
(* the reads do not fail every time.                                       *)
FairSpec ==
  /\ Spec
  /\ WF_vars(S!Connect /\ UNCHANGED framed)
  /\ WF_vars(PollAfterErr \/ Poll) /\ WF_vars(Decode \/ Upgraded)
  /\ SF_vars(Read) /\ SF_vars(ReadEof \/ ReadEofAgain)

-----------------------------------------------------------------------------
(* The messages next() gives are those the frames spell, whatever calls    *)
(* were dropped half way and however the bytes came.                       *)
Implements == S!Implements

(* next() waits for bytes only when the buffer does not hold an answer, in *)
(* particular not when the first message came along with the response      *)
(* (client.rs:16-26, 230).  After an error it does: what has_errored says. *)
NoBlockOnReady == failed \/ S!NoBlockOnReady

(* An application that stops at the first Err or None is told the truth:   *)
(* None means that the stream ended between two frames, all of them taken. *)
CleanEnd == S!CleanEnd \/ told

(* A frame that arrives whole is taken, unless an error came before it.    *)
Drained ==
  \A k \in 1..MaxFrames :
    S!Arrives(k) ~> (pos >= k \/ S!Gone \/ failed \/ ~S!Arrives(k))

(* The end of the stream is reported even when errors came before it or    *)
(* calls were dropped.                                                     *)
EndReported ==
  closed ~> (pc \in {"closed", "panicked"} \/ (eof /\ result \in {"end", "truncated"}))
=============================================================================
