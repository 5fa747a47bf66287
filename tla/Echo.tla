-------------------------------- MODULE Echo --------------------------------
(***************************************************************************)
(* The programs that answer what they receive: the loops of                *)
(* autobahn-client.rs, async-autobahn-client.rs and autobahn-server.rs,    *)
(* with the sending half of both clients: MessageCodec::encode,            *)
(* sync::Framed::send, and the sink of tokio_util's Framed.                *)
(*                                                                         *)
(* What is received is MessageStream, which SyncClient and AsyncClient     *)
(* implement; what is sent is a stream of bytes, byte i of the k-th frame  *)
(* being <<k, i>>.  A definition named for what goes wrong (LeftoverKept,  *)
(* OnEndAgain) is a faulty variant of the one after it.                    *)
(***************************************************************************)
EXTENDS Message, SequencesExt

CONSTANTS
  Frames,        (* the frames the peer may send                            *)
  MaxFrames,     (* bound on the number of frames it sends                  *)
  Programs,      (* the programs that may be running                        *)
  Backpressure   (* tokio_util: a sink with so many bytes buffered flushes  *)
                 (* before it encodes                                       *)

AsyncPrograms == {"async_autobahn_client", "autobahn_server"}
SyncPrograms == {"autobahn_client", "get_case_count", "update_reports"}

ASSUME EchoAssumption ==
  /\ Frames \subseteq FrameType /\ MaxFrames \in Nat
  /\ Programs \subseteq AsyncPrograms \cup SyncPrograms
  /\ Backpressure \in Nat \ {0}

VARIABLES
  wire, pos, open, out, failed,  (* the receiving side, see MessageStream   *)
  closed,        (* whether the peer's side of the stream is closed         *)
  program,       (* the program running                                     *)
  pc,            (* where it is: in receive, in send, or at its end         *)
  reply,         (* the message given to send, where the program goes on    *)
                 (* when it was sent, and where when that failed            *)
  sent,          (* the messages encoded                                    *)
  write_buf,     (* Framed's write_buf                                      *)
  at,            (* the bytes of it that write_all has written              *)
  stream,        (* the bytes written                                       *)
  broken         (* whether a send ever failed                              *)

incoming == <<wire, pos, open, out, failed>>
outgoing == <<sent, write_buf, at, stream, broken>>
vars == <<incoming, closed, program, pc, reply, outgoing>>

In == INSTANCE MessageStream

Async == program \in AsyncPrograms

(* Nothing to send.                                                        *)
NoReply == [message |-> Nothing, ok |-> "done", err |-> "done"]

Init ==
  /\ In!Init
  /\ closed = FALSE
  /\ program \in Programs
  /\ pc = "receive" /\ reply = NoReply
  /\ sent = <<>> /\ write_buf = <<>> /\ at = 0 /\ stream = <<>>
  /\ broken = FALSE

-----------------------------------------------------------------------------
(* Message::header and MessageCodec::encode.  A client's frames are masked.*)
UseMask == program # "autobahn_server"
DataLen(m) == Sums([k \in DOMAIN m.data |-> wire[m.data[k]].n])[Len(m.data)]
FrameOf(m) ==
  [fin |-> TRUE, rsv |-> 0, opcode |-> m.opcode, mask |-> UseMask,
   form |-> FormOf(DataLen(m)), n |-> DataLen(m),
   text |-> IF Utf8(wire, m.data) THEN "whole" ELSE "bad"]
FrameBytes(k, m) == [i \in 1..FrameLen(FrameOf(m)) |-> <<k, i>>]

(* Message::close and Message::pong.                                       *)
CloseMessage == [opcode |-> Close, data |-> <<>>]
PongEmpty(m) == [opcode |-> Pong, data |-> <<>>]
PongTo(m) == [opcode |-> Pong, data |-> m.data]

(* The program calls send.                                                 *)
Send(m, ok, err) ==
  /\ pc' = "send"
  /\ reply' = [message |-> m, ok |-> ok, err |-> err]

GoOn(to) == pc' = to /\ UNCHANGED reply

(* After a failed send the clients stop, the server does not look.         *)
IfFailed == IF program = "autobahn_server" THEN "receive" ELSE "done"

(* What the program does with the message m it received.                   *)
OnText(m) ==
  CASE program = "get_case_count" -> GoOn("receive") \/ GoOn("done")
    [] program = "update_reports" -> GoOn("receive")
    [] OTHER -> Send(m, "receive", IfFailed)
OnBinary(m) ==
  IF program \in {"get_case_count", "update_reports"} THEN GoOn("receive")
                                                      ELSE Send(m, "receive", IfFailed)
OnClose ==
  CASE program = "async_autobahn_client" -> Send(CloseMessage, "receive", "done")
    [] program = "autobahn_server" -> GoOn("last")
    [] OTHER -> Send(CloseMessage, "done", "done")

OnMessage(m) ==
  CASE m.opcode = Text -> OnText(m)
    [] m.opcode = Binary -> OnBinary(m)
    [] m.opcode = Ping -> Send(PongTo(m), "receive", IfFailed)
    [] m.opcode = Pong -> GoOn("receive")
    [] m.opcode = Close -> OnClose

(* What it does when receive returns an error, and at the end.             *)
OnErrorGoesOn ==
  IF Async THEN Send(CloseMessage, "receive", "receive") ELSE GoOn("done")
OnError ==
  CASE program = "async_autobahn_client" -> Send(CloseMessage, "done", "done")
    [] program = "autobahn_server" -> Send(CloseMessage, "last", "last")
    [] OTHER -> GoOn("done")
OnEndAgain == GoOn("receive")
OnEnd == IF program = "autobahn_server" THEN GoOn("last") ELSE GoOn("done")

-----------------------------------------------------------------------------
PeerSend(f) ==
  /\ ~closed
  /\ In!PeerSend(f)
  /\ UNCHANGED <<closed, program, pc, reply, outgoing>>

PeerClose ==
  /\ ~closed
  /\ closed' = TRUE
  /\ UNCHANGED <<incoming, program, pc, reply, outgoing>>

Receiving == pc = "receive" /\ UNCHANGED <<closed, program, outgoing>>

ReceiveFragment(f) == Receiving /\ In!Fragment(f) /\ UNCHANGED <<pc, reply>>
ReceiveMessage(f) == Receiving /\ (In!Complete(f) \/ In!Control(f)) /\ OnMessage(Last(out'))
ReceiveError(f) == Receiving /\ (In!Reject(f) \/ In!GiveUp(f)) /\ OnError

(* A read fails, or the stream ends inside a frame.                        *)
ReadError == Receiving /\ OnError /\ UNCHANGED incoming
ReceiveEnd == Receiving /\ closed /\ pos = Len(wire) /\ OnEnd /\ UNCHANGED incoming

-----------------------------------------------------------------------------
Unwritten == SubSeq(write_buf, at + 1, Len(write_buf))

(* A sink with much in its buffer from a send that failed flushes first.   *)
MustFlush == Async /\ Len(write_buf) >= Backpressure

Flush ==
  /\ pc = "send" /\ MustFlush
  /\ pc' = "flush"
  /\ UNCHANGED <<incoming, closed, program, reply, outgoing>>

(* The blocking client discards what it had in write_buf, the sink appends.*)
(* write_all starts at its first byte.                                     *)
LeftoverKept == write_buf
Leftover == IF Async THEN write_buf ELSE <<>>
StartOfBuffer == 0

Encode ==
  /\ pc = "send" /\ ~MustFlush
  /\ pc' = "write"
  /\ sent' = Append(sent, reply.message)
  /\ write_buf' = Leftover \o FrameBytes(Len(sent) + 1, reply.message)
  /\ at' = StartOfBuffer
  /\ UNCHANGED <<incoming, closed, program, reply, stream, broken>>

(* write_all and poll_flush write until nothing is left.                   *)
Advance(n) ==
  IF Async THEN write_buf' = SubSeq(write_buf, n + 1, Len(write_buf)) /\ UNCHANGED at
           ELSE at' = at + n /\ UNCHANGED write_buf

Write ==
  /\ pc \in {"flush", "write"}
  /\ \E n \in 1..Len(Unwritten) :
       /\ stream' = stream \o SubSeq(Unwritten, 1, n)
       /\ Advance(n)
  /\ UNCHANGED <<incoming, closed, program, pc, reply, sent, broken>>

SomeWritten == Unwritten = <<>> \/ at > 0
EverythingWritten == Unwritten = <<>>

Flushed ==
  /\ pc = "flush" /\ EverythingWritten
  /\ pc' = "send"
  /\ UNCHANGED <<incoming, closed, program, reply, outgoing>>

SendOk ==
  /\ pc = "write" /\ EverythingWritten
  /\ pc' = reply.ok
  /\ reply' = NoReply
  /\ UNCHANGED <<incoming, closed, program, outgoing>>

(* A write fails, or, for a sink, the flush of the stream after the last.   *)
SendError ==
  /\ pc \in {"flush", "write"} /\ (Unwritten # <<>> \/ Async)
  /\ broken' = TRUE
  /\ pc' = reply.err
  /\ reply' = NoReply
  /\ UNCHANGED <<incoming, closed, program, sent, write_buf, at, stream>>

(* The server's last message, whatever ended its loop.                     *)
LastSend ==
  /\ pc = "last"
  /\ Send(CloseMessage, "done", "done")
  /\ UNCHANGED <<incoming, closed, program, outgoing>>

Terminated == pc = "done" /\ UNCHANGED vars

Receive ==
  \/ ReceiveEnd
  \/ \E f \in Frames : ReceiveFragment(f) \/ ReceiveMessage(f) \/ ReceiveError(f)

Sending == Flush \/ Encode \/ Write \/ Flushed \/ SendOk \/ SendError \/ LastSend

Next ==
  \/ PeerClose \/ \E f \in Frames : PeerSend(f)
  \/ Receive \/ ReadError \/ Sending \/ Terminated

Spec == Init /\ [][Next]_vars

(* The program runs, and a write returns: the peer reads, or the stream    *)
(* reports an error.                                                       *)
FairSpec == Spec /\ WF_vars(Receive) /\ WF_vars(Sending)

-----------------------------------------------------------------------------
(* The byte that comes after b when the frames sent lie end to end.        *)
After(b) == IF b[2] < FrameLen(FrameOf(sent[b[1]])) THEN <<b[1], b[2] + 1>> ELSE <<b[1] + 1, 1>>

(* What was written is a prefix of the frames encoded, end to end: however *)
(* writes are cut up and wherever one fails, no byte is written twice or   *)
(* left out and no frame begins inside another (sync.rs:34-42), so that    *)
(* the peer's decoder stays aligned.                                       *)
OutAligned ==
  /\ stream # <<>> => stream[1] = <<1, 1>>
  /\ \A i \in 1..Len(stream)-1 : stream[i+1] = After(stream[i])

(* A program that waits for the next message has all of its answers on the *)
(* stream, unless a send failed.                                           *)
AllWritten ==
  pc \in {"receive", "done"} /\ ~broken /\ sent # <<>> =>
    stream # <<>> /\ Last(stream) = <<Len(sent), FrameLen(FrameOf(Last(sent)))>>

(* The messages that the program must answer, and its answers to them, by  *)
(* their places in out and in sent.                                        *)
Echoes == program \notin {"get_case_count", "update_reports"}
Wanted(m) == m.opcode = Ping \/ (m.opcode \in {Text, Binary} /\ Echoes)
AnswerTo(m) == [m EXCEPT !.opcode = IF @ = Ping THEN Pong ELSE @]
Asked == {j \in DOMAIN out : Wanted(out[j])}
Answers == {k \in DOMAIN sent : sent[k].opcode # Close}
Rank(i, S) == Cardinality({x \in S : x <= i})

(* Each ping and each message is answered once, in the order in which they *)
(* came, with the data they had; an answer is only left out when a send    *)
(* failed, or before it is encoded.                                        *)
AnswersInOrder ==
  ~broken =>
    /\ \A k \in Answers : \E j \in Asked :
         Rank(j, Asked) = Rank(k, Answers) /\ sent[k] = AnswerTo(out[j])
    /\ pc = "receive" => Cardinality(Answers) = Cardinality(Asked)

(* The peer's decoder accepts every frame: although encode checks nothing, *)
(* what the programs send is text where it must be, and no control frame   *)
(* is too long (message.rs:341, 285, 45).                                  *)
Sent == [k \in 1..Len(sent) |-> FrameOf(sent[k])]
Peer == INSTANCE MessageStream WITH
          wire <- Sent, pos <- Len(sent), open <- Nothing, out <- <<>>, failed <- FALSE
PeerAccepts == Peer!WellFormed(Len(sent))

(* After a close message nothing but close messages is sent, if the peer   *)
(* keeps to that as well.                                                  *)
NothingAfterClose ==
  (\A k \in 1..Len(wire)-1 : wire[k].opcode # Close) =>
    \A j, k \in 1..Len(sent) : j < k /\ sent[j].opcode = Close => sent[k].opcode = Close

(* A program whose peer has closed its side comes to its end.              *)
Ends == closed ~> pc = "done"
=============================================================================
