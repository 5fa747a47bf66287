----------------------------- MODULE Echo_proofs -----------------------------
(***************************************************************************)
(* The programs answer what they must and send only what a peer accepts,   *)
(* for any frames, any number of them and any values of the boundaries.    *)
(* What is known of the messages they receive is proved of MessageStream.  *)
(***************************************************************************)
EXTENDS Echo, FiniteSetTheorems, SequenceTheorems, TLAPS

R == INSTANCE MessageStream_proofs

(* The constants are as the facts about R assume.                          *)
LEMMA Assumed == R!StreamAssumption /\ R!LengthAssumption
BY EchoAssumption, LengthAssumption
DEF R!FrameType, FrameType, R!FormMax, FormMax, R!TextClasses, TextClasses

-----------------------------------------------------------------------------
(* What is received is received in the same steps.                         *)
LEMMA SameFrames ==
  /\ \A f : In!LengthOk(f) = R!LengthOk(f) /\ In!MayGiveUp(f) = R!MayGiveUp(f)
  /\ \A f : In!Supportable(f) = R!Supportable(f) /\ In!InPlace(f) = R!InPlace(f)
  /\ \A f : In!Extended(f) = R!Extended(f) /\ In!Alone(f) = R!Alone(f)
  /\ \A c : In!IsControl(c) = R!IsControl(c)
  /\ \A m : In!Ok(m) = R!Ok(m) /\ In!Deliver(m) = R!Deliver(m)
  /\ In!Nothing = R!Nothing /\ In!AfterError = R!AfterError
<1>1. \A c : In!IsControl(c) = R!IsControl(c)
  BY DEF In!IsControl, R!IsControl, In!Close, R!Close, In!Ping, R!Ping, In!Pong, R!Pong
<1>2. In!Nothing = R!Nothing /\ In!AfterError = R!AfterError
  BY DEF In!Nothing, R!Nothing, In!AfterError, R!AfterError
<1>3. \A f : In!LengthOk(f) = R!LengthOk(f)
  BY DEF In!LengthOk, R!LengthOk
<1>4. \A f : In!MayGiveUp(f) = R!MayGiveUp(f)
  BY <1>3 DEF In!MayGiveUp, R!MayGiveUp, In!FrameLen, R!FrameLen, In!HeaderLen, R!HeaderLen,
              In!ExtendedLen, R!ExtendedLen
<1>5. \A f : In!Supportable(f) = R!Supportable(f) /\ In!InPlace(f) = R!InPlace(f)
  BY <1>1, <1>2
  DEF In!Supportable, R!Supportable, In!InPlace, R!InPlace, In!Supported, R!Supported,
      In!Continuation, R!Continuation, In!Text, R!Text, In!Binary, R!Binary,
      In!Close, R!Close, In!Ping, R!Ping, In!Pong, R!Pong
<1>6. \A f : In!Extended(f) = R!Extended(f) /\ In!Alone(f) = R!Alone(f)
  BY <1>2 DEF In!Extended, R!Extended, In!Alone, R!Alone
<1>7. \A m : In!Ok(m) = R!Ok(m)
  BY DEF In!Ok, R!Ok, In!MessageNewOk, R!MessageNewOk, In!Text, R!Text, In!Close, R!Close,
         In!Utf8, R!Utf8, In!CloseDataOk, R!CloseDataOk, In!TextOf, R!TextOf,
         In!Source, R!Source, In!Utf8Steps, R!Utf8Steps
<1>8. \A m : In!Deliver(m) = R!Deliver(m)
  BY DEF In!Deliver, R!Deliver
<1>9. QED
  BY <1>1, <1>2, <1>3, <1>4, <1>5, <1>6, <1>7, <1>8

LEMMA SameSteps ==
  ASSUME NEW f
  PROVE  /\ In!PeerSend(f) => R!PeerSend(f)
         /\ In!Fragment(f) => R!Fragment(f)
         /\ In!Complete(f) => R!Complete(f)
         /\ In!Control(f) => R!Control(f)
         /\ In!Reject(f) => R!Reject(f)
         /\ In!GiveUp(f) => R!GiveUp(f)
<1>1. In!Take(f) = R!Take(f)
  BY SameFrames DEF In!Take, R!Take
<1> USE <1>1, SameFrames
<1>2. In!PeerSend(f) => R!PeerSend(f)
  BY DEF In!PeerSend, R!PeerSend
<1>3. In!Fragment(f) => R!Fragment(f)
  BY DEF In!Fragment, R!Fragment
<1>4. In!Complete(f) => R!Complete(f)
  BY DEF In!Complete, R!Complete
<1>5. In!Control(f) => R!Control(f)
  BY DEF In!Control, R!Control
<1>6. In!Reject(f) => R!Reject(f)
  BY DEF In!Reject, R!Reject
<1>7. In!GiveUp(f) => R!GiveUp(f)
  BY DEF In!GiveUp, R!GiveUp
<1>8. QED
  BY <1>2, <1>3, <1>4, <1>5, <1>6, <1>7

(* Every step of a program is one of MessageStream, or leaves its state    *)
(* alone.                                                                  *)
LEMMA ReceivingStep == [Next]_vars => [R!Next]_(R!vars)
<1> SUFFICES ASSUME [Next]_vars PROVE [R!Next]_(R!vars)
  OBVIOUS
<1>1. UNCHANGED incoming => UNCHANGED R!vars
  BY DEF incoming, R!vars
<1>2. ASSUME NEW f \in Frames,
             \/ PeerSend(f) \/ ReceiveFragment(f) \/ ReceiveMessage(f) \/ ReceiveError(f)
      PROVE  R!Next
  BY <1>2, SameSteps DEF PeerSend, ReceiveFragment, ReceiveMessage, ReceiveError, R!Next
<1>3. CASE PeerClose \/ ReceiveEnd \/ ReadError \/ Sending \/ Terminated \/ UNCHANGED vars
  BY <1>1, <1>3 DEF PeerClose, ReceiveEnd, ReadError, Sending, Flush, Encode, Write, Flushed,
                    SendOk, SendError, LastSend, Terminated, vars, incoming
<1>4. QED
  BY <1>2, <1>3 DEF Next, Receive

LEMMA ReceivingInv == Init => R!IInv
<1>1. In!Init => R!Init
  BY SameFrames DEF In!Init, R!Init
<1>2. QED
  BY <1>1, R!IInvInit, Assumed DEF Init

(* What the message that a step delivers is made of.                       *)
Delivered(m) ==
  /\ m \in MessageType /\ m.opcode \in Supported
  /\ out' = Append(out, m)
  /\ m.data # <<>> /\ \A i \in 1..Len(m.data) : m.data[i] \in 1..Len(wire)
  /\ m.opcode = Text => Utf8(wire, m.data)
  /\ IsControl(m.opcode) =>
       m.data = <<pos + 1>> /\ wire[pos+1].n < ControlLimit /\ wire[pos+1].opcode = m.opcode

LEMMA SameMessages ==
  /\ Supported = R!Supported /\ MessageType = R!MessageType /\ Nothing = R!Nothing
  /\ Continuation = R!Continuation
  /\ \A c : IsControl(c) = R!IsControl(c)
  /\ \A d : Utf8(wire, d) = R!Utf8(wire, d)
  /\ \A f : R!Supportable(f) =>
       f.opcode \in Supported \cup {0} /\ (IsControl(f.opcode) => f.n < ControlLimit)
<1>1. Supported = R!Supported /\ Continuation = R!Continuation
  BY DEF Supported, R!Supported, Text, R!Text, Binary, R!Binary, Close, R!Close,
         Ping, R!Ping, Pong, R!Pong, Continuation, R!Continuation
<1>2. MessageType = R!MessageType /\ Nothing = R!Nothing
  BY DEF MessageType, R!MessageType, Nothing, R!Nothing
<1>3. \A c : IsControl(c) = R!IsControl(c)
  BY DEF IsControl, R!IsControl, Close, R!Close, Ping, R!Ping, Pong, R!Pong
<1>4. \A d : Utf8(wire, d) = R!Utf8(wire, d)
  BY DEF Utf8, R!Utf8, TextOf, R!TextOf, Source, R!Source, Utf8Steps, R!Utf8Steps
<1>5. QED
  BY <1>1, <1>2, <1>3, <1>4 DEF R!Supportable, Continuation

LEMMA Received ==
  ASSUME R!IInv, NEW f \in Frames, In!Complete(f) \/ In!Control(f)
  PROVE  /\ \E m \in MessageType : Delivered(m)
         /\ wire' = wire /\ pos' = pos + 1 /\ pos + 1 \in 1..Len(wire)
<1>1. R!Complete(f) \/ R!Control(f)
  BY SameSteps
<1>2. R!TypeOK /\ R!OpenIsRun
  BY DEF R!IInv
<1>3. /\ wire' = wire /\ pos' = pos + 1 /\ pos + 1 \in 1..Len(wire)
      /\ f = wire[pos + 1] /\ R!Supportable(f)
  BY <1>1, <1>2 DEF R!Complete, R!Control, R!Take, R!TypeOK
<1>4. R!IInv'
  BY <1>1, R!IInvStep, Assumed DEF R!Next
<1>5. R!Extended(f) \in MessageType /\ R!Alone(f) \in MessageType
  BY <1>2, R!ExtendedType, Assumed, SameMessages
<1>6. PICK m \in MessageType :
        /\ out' = Append(out, m)
        /\ R!Ok(m)
        /\ \/ m = R!Extended(f) /\ R!Complete(f)
           \/ m = R!Alone(f) /\ R!IsControl(f.opcode)
  BY <1>1, <1>5 DEF R!Complete, R!Control, R!Deliver
<1>7. out \in Seq(MessageType) /\ Len(out') = Len(out) + 1 /\ out'[Len(out')] = m
  <2>1. out \in Seq(MessageType)
    BY <1>2, SameMessages DEF R!TypeOK
  <2>2. QED
    BY <2>1, <1>6
<1>8. R!IsRun(m.opcode, m.data)'
  <2>1. R!Exact'
    BY <1>4 DEF R!IInv
  <2>2. QED
    BY <2>1, <1>7 DEF R!Exact
<1>9. \A i \in 1..Len(m.data) : m.data[i] \in 1..pos+1 /\ R!Supportable(wire[m.data[i]])
  BY <1>8, <1>3 DEF R!IsRun
<1>10. m.data \in Seq(Int) /\ m.data # <<>> /\ 1 \in 1..Len(m.data)
  BY <1>8 DEF R!IsRun, MessageType
<1>11. m.opcode = wire[m.data[1]].opcode /\ m.opcode # 0
  BY <1>8, <1>3, SameMessages DEF R!IsRun, Continuation
<1>12. m.opcode \in Supported
  BY <1>9, <1>10, <1>11, SameMessages
<1>13. \A i \in 1..Len(m.data) : m.data[i] \in 1..Len(wire)
  <2>1. pos \in Nat /\ pos + 1 <= Len(wire) /\ Len(wire) \in Nat
    BY <1>2, <1>3 DEF R!TypeOK
  <2>2. QED
    BY <2>1, <1>9
<1>14. m.opcode = Text => Utf8(wire, m.data)
  BY <1>6, SameMessages DEF R!Ok, R!MessageNewOk, R!Text, Text
<1>15. CASE m = R!Extended(f) /\ R!Complete(f)
  <2>1. ~R!IsControl(m.opcode)
    BY <1>2, <1>15, R!ExtendedIsRun, Assumed, SameMessages DEF R!Complete
  <2>2. QED
    BY <2>1, <1>3, <1>6, <1>10, <1>12, <1>13, <1>14, SameMessages DEF Delivered
<1>16. CASE m = R!Alone(f) /\ R!IsControl(f.opcode)
  <2>1. m.data = <<pos + 1>> /\ m.opcode = f.opcode
    BY <1>16 DEF R!Alone
  <2>2. QED
    BY <2>1, <1>3, <1>6, <1>10, <1>12, <1>13, <1>14, <1>16, SameMessages DEF Delivered
<1>17. QED
  BY <1>6, <1>15, <1>16

(* Frames sent and messages received stay as they are.                     *)
Grown ==
  /\ program' = program
  /\ wire' \in Seq(Frames) /\ Len(wire) <= Len(wire')
  /\ \A i \in 1..Len(wire) : wire'[i] = wire[i]
  /\ Len(out) <= Len(out') /\ \A j \in 1..Len(out) : out'[j] = out[j]

LEMMA StepGrows == R!IInv /\ [Next]_vars => Grown
<1> SUFFICES ASSUME R!IInv, [Next]_vars PROVE Grown
  OBVIOUS
<1>1. wire \in Seq(Frames) /\ out \in Seq(MessageType)
  BY SameMessages DEF R!IInv, R!TypeOK
<1>2. program' = program
  BY DEF Next, vars, PeerClose, PeerSend, Receive, ReceiveEnd, ReceiveFragment, ReceiveMessage,
         ReceiveError, ReadError, Receiving, Sending, Flush, Encode, Write, Flushed, SendOk,
         SendError, LastSend, Terminated
<1>3. [R!Next]_(R!vars)
  BY ReceivingStep
<1>4. wire' = wire \/ \E f \in Frames : wire' = Append(wire, f)
  BY <1>3
  DEF R!Next, R!vars, R!PeerSend, R!Fragment, R!Complete, R!Control, R!Reject, R!GiveUp, R!Take
<1>5. out' = out \/ \E m \in MessageType : out' = Append(out, m)
  BY <1>3, R!DeliveryStep, Assumed, SameMessages
<1>6. wire' \in Seq(Frames) /\ Len(wire) <= Len(wire') /\ \A i \in 1..Len(wire) : wire'[i] = wire[i]
  <2>1. CASE wire' = wire
    BY <1>1, <2>1
  <2>2. ASSUME NEW f \in Frames, wire' = Append(wire, f)
        PROVE  wire' \in Seq(Frames) /\ Len(wire) <= Len(wire') /\ \A i \in 1..Len(wire) : wire'[i] = wire[i]
    BY <1>1, <2>2
  <2>3. QED
    BY <1>4, <2>1, <2>2
<1>7. Len(out) <= Len(out') /\ \A j \in 1..Len(out) : out'[j] = out[j]
  <2>1. CASE out' = out
    BY <1>1, <2>1
  <2>2. ASSUME NEW m \in MessageType, out' = Append(out, m)
        PROVE  Len(out) <= Len(out') /\ \A j \in 1..Len(out) : out'[j] = out[j]
    BY <1>1, <2>2
  <2>3. QED
    BY <1>5, <2>1, <2>2
<1>8. QED
  BY <1>2, <1>6, <1>7 DEF Grown

-----------------------------------------------------------------------------
(* The frame a message is sent in.                                         *)
Held(m) == m \in MessageType /\ \A i \in 1..Len(m.data) : m.data[i] \in 1..Len(wire)

LEMMA SumsFacts ==
  ASSUME NEW lens \in Seq(Nat)
  PROVE  /\ Sums(lens)[Len(lens)] \in Nat
         /\ Len(lens) = 0 => Sums(lens)[Len(lens)] = 0
         /\ Len(lens) = 1 => Sums(lens)[Len(lens)] = lens[1]
<1>1. Sums(lens) = R!Sums(lens)
  BY DEF Sums, R!Sums
<1>2. \A k \in 0..Len(lens) : Sums(lens)[k] \in Nat
  BY <1>1, R!SumsType, Assumed
<1>3. Sums(lens)[0] = 0
  BY <1>1, R!SumsDef, Assumed
<1>4. \A k \in 1..Len(lens) : Sums(lens)[k] = Sums(lens)[k-1] + lens[k]
  BY <1>1, R!SumsDef, Assumed
<1>5. ASSUME Len(lens) = 1 PROVE Sums(lens)[1] = lens[1]
  <2>1. 1 \in 1..Len(lens)
    BY <1>5
  <2>2. Sums(lens)[1] = Sums(lens)[1-1] + lens[1]
    BY <2>1, <1>4
  <2>3. \A x \in Nat : 0 + x = x
    OBVIOUS
  <2>4. lens[1] \in Nat /\ 1 - 1 = 0
    BY <2>1
  <2>5. QED
    BY <2>2, <2>3, <2>4, <1>3
<1>6. Sums(lens)[Len(lens)] \in Nat
  BY <1>2
<1>7. QED
  BY <1>3, <1>5, <1>6

LEMMA DataLenFacts ==
  ASSUME wire \in Seq(Frames), NEW m, Held(m)
  PROVE  /\ DataLen(m) \in Nat
         /\ m.data = <<>> => DataLen(m) = 0
         /\ \A i \in 1..Len(wire) : m.data = <<i>> => DataLen(m) = wire[i].n
<1>1. m.data \in Seq(Int)
  BY DEF Held, MessageType
<1>2. PICK n \in Nat : n = Len(m.data) /\ DOMAIN m.data = 1..n
  BY <1>1
<1> DEFINE lens == [k \in 1..n |-> wire[m.data[k]].n]
<1>3. lens \in Seq(Nat) /\ Len(lens) = n /\ \A k \in 1..n : lens[k] = wire[m.data[k]].n
  <2>1. \A f \in Frames : f.n \in Nat
    BY EchoAssumption DEF FrameType
  <2>2. \A k \in 1..n : wire[m.data[k]].n \in Nat
    BY <1>2, <2>1 DEF Held
  <2>3. QED
    BY <2>2, <1>2
<1>4. DataLen(m) = Sums(lens)[Len(lens)]
  BY <1>2, <1>3 DEF DataLen
<1>5. m.data = <<>> => Len(lens) = 0
  BY <1>2, <1>3
<1>6. \A i \in 1..Len(wire) : m.data = <<i>> => Len(lens) = 1 /\ lens[1] = wire[i].n
  BY <1>2, <1>3
<1> HIDE DEF lens
<1>7. QED
  BY <1>3, <1>4, <1>5, <1>6, SumsFacts

LEMMA FrameOfFacts ==
  ASSUME wire \in Seq(Frames), NEW m, Held(m)
  PROVE  /\ FrameLen(FrameOf(m)) \in Nat /\ FrameLen(FrameOf(m)) >= 1
<1>1. DataLen(m) \in Nat
  BY DataLenFacts
<1>2. FormOf(DataLen(m)) \in {"Small", "Medium", "Large"}
  BY DEF FormOf
<1>3. FrameOf(m).form = FormOf(DataLen(m)) /\ FrameOf(m).n = DataLen(m)
  BY DEF FrameOf
<1>4. ExtendedLen[FrameOf(m).form] \in Nat
  BY <1>2, <1>3 DEF ExtendedLen
<1>5. HeaderLen(FrameOf(m)) \in Nat /\ HeaderLen(FrameOf(m)) >= 2
  <2>1. (IF FrameOf(m).mask THEN 4 ELSE 0) \in {0, 4}
    OBVIOUS
  <2> DEFINE a == ExtendedLen[FrameOf(m).form]
             b == IF FrameOf(m).mask THEN 4 ELSE 0
  <2>2. HeaderLen(FrameOf(m)) = 2 + a + b
    BY DEF HeaderLen
  <2>3. a \in Nat /\ b \in {0, 4}
    BY <1>4, <2>1
  <2> HIDE DEF a, b
  <2>4. QED
    BY <2>2, <2>3
<1>6. QED
  BY <1>1, <1>3, <1>5 DEF FrameLen

LEMMA FrameKept ==
  ASSUME wire \in Seq(Frames), Grown, NEW m, Held(m)
  PROVE  FrameOf(m)' = FrameOf(m) /\ Utf8(wire, m.data)' = Utf8(wire, m.data)
<1>1. m.data \in Seq(Int) /\ DOMAIN m.data = 1..Len(m.data)
  BY DEF Held, MessageType
<1>2. \A k \in 1..Len(m.data) : m.data[k] \in 1..Len(wire) /\ wire'[m.data[k]] = wire[m.data[k]]
  BY DEF Held, Grown
<1>3. [k \in DOMAIN m.data |-> wire'[m.data[k]].n] = [k \in DOMAIN m.data |-> wire[m.data[k]].n]
  BY <1>1, <1>2
<1>4. DataLen(m)' = DataLen(m)
  BY <1>2, <1>3 DEF DataLen
<1>5. \A k \in 1..Len(m.data) : /\ TextOf(wire', m.data[k]) = TextOf(wire, m.data[k])
                                /\ wire'[Source(m.data[k])].n = wire[Source(m.data[k])].n
  BY <1>2 DEF Source, TextOf
<1>6. Utf8(wire', m.data) = Utf8(wire, m.data)
  BY <1>5, Zenon DEF Utf8
<1>7. QED
  BY <1>4, <1>6 DEF FrameOf, UseMask, Grown

-----------------------------------------------------------------------------
(* What the programs do.                                                   *)
(* Nothing is delivered and the program does not move: the peer sends, or a *)
(* fragment is received.                                                   *)
Still ==
  /\ UNCHANGED <<program, pc, reply, out, outgoing>>
  /\ \/ \E f \in Frames : wire' = Append(wire, f) /\ UNCHANGED pos
     \/ UNCHANGED <<wire, pos>>
     \/ pc = "receive" /\ pos # Len(wire) /\ UNCHANGED wire

(* A message is passed over, answered, or ends the conversation.           *)
Skips(m) ==
  /\ ~Wanted(m) /\ m.opcode # Close
  /\ pc' \in {"receive", "done"} /\ UNCHANGED reply
Replies(m) == Wanted(m) /\ Send(AnswerTo(m), "receive", IfFailed)
Closes(m) ==
  /\ m.opcode = Close
  /\ \/ Send(CloseMessage, "receive", "done") \/ Send(CloseMessage, "done", "done")
     \/ pc' = "last" /\ UNCHANGED reply

(* What comes of an error or of the end, and at the latest after that.     *)
Stops ==
  \/ pc' \in {"last", "done"} /\ UNCHANGED reply
  \/ Async /\ \E to \in {"last", "done"} : Send(CloseMessage, to, to)

Takes ==
  /\ pc = "receive" /\ UNCHANGED <<program, outgoing, wire>>
  /\ \/ /\ pos' = pos + 1 /\ pos + 1 \in 1..Len(wire)
        /\ \E m \in MessageType : Delivered(m) /\ (Skips(m) \/ Replies(m) \/ Closes(m))
     \/ UNCHANGED out /\ Stops

LEMMA MessageCases ==
  ASSUME NEW m \in MessageType, m.opcode \in Supported, OnMessage(m)
  PROVE  Skips(m) \/ Replies(m) \/ Closes(m)
<1>1. /\ m = [opcode |-> m.opcode, data |-> m.data]
      /\ AnswerTo(m) = [opcode |-> IF m.opcode = Ping THEN Pong ELSE m.opcode, data |-> m.data]
  BY DEF MessageType, AnswerTo
<1>2. m.opcode \in {Text, Binary, Close, Ping, Pong}
  BY DEF Supported
<1> USE DEF Text, Binary, Close, Ping, Pong
<1>3. CASE m.opcode = Text
  <2>1. OnText(m)
    BY <1>3 DEF OnMessage
  <2>2. CASE Echoes
    BY <1>1, <1>3, <2>1, <2>2 DEF OnText, Echoes, Replies, Wanted
  <2>3. CASE ~Echoes
    BY <1>3, <2>1, <2>3 DEF OnText, Echoes, Skips, Wanted, GoOn
  <2>4. QED
    BY <2>2, <2>3
<1>4. CASE m.opcode = Binary
  <2>1. OnBinary(m)
    BY <1>4 DEF OnMessage
  <2>2. CASE Echoes
    BY <1>1, <1>4, <2>1, <2>2 DEF OnBinary, Echoes, Replies, Wanted
  <2>3. CASE ~Echoes
    BY <1>4, <2>1, <2>3 DEF OnBinary, Echoes, Skips, Wanted, GoOn
  <2>4. QED
    BY <2>2, <2>3
<1>5. CASE m.opcode = Ping
  <2>1. Send(PongTo(m), "receive", IfFailed)
    BY <1>5 DEF OnMessage
  <2>2. PongTo(m) = AnswerTo(m)
    BY <1>1, <1>5 DEF PongTo
  <2>3. QED
    BY <1>5, <2>1, <2>2 DEF Replies, Wanted
<1>6. CASE m.opcode = Pong
  BY <1>6 DEF OnMessage, Skips, Wanted, GoOn
<1>7. CASE m.opcode = Close
  <2>1. OnClose
    BY <1>7 DEF OnMessage
  <2>2. QED
    BY <1>7, <2>1 DEF OnClose, Closes, GoOn
<1>8. QED
  BY <1>2, <1>3, <1>4, <1>5, <1>6, <1>7

LEMMA StepCases ==
  ASSUME R!IInv, [Next]_vars
  PROVE  Still \/ Takes \/ Sending
<1>1. ASSUME NEW f \in Frames, PeerSend(f) PROVE Still
  BY <1>1 DEF PeerSend, In!PeerSend, Still
<1>2. ASSUME PeerClose \/ Terminated \/ UNCHANGED vars PROVE Still
  BY <1>2 DEF PeerClose, Terminated, vars, incoming, Still
<1>3. ASSUME NEW f \in Frames, ReceiveFragment(f) PROVE Still
  <2>1. pos \in Nat /\ Len(wire) \in Nat
    BY DEF R!IInv, R!TypeOK
  <2>2. QED
    BY <2>1, <1>3 DEF ReceiveFragment, Receiving, In!Fragment, In!Take, Still
<1>4. ASSUME NEW f \in Frames, ReceiveMessage(f) PROVE Takes
  <2>1. PICK m \in MessageType : Delivered(m)
    BY <1>4, Received DEF ReceiveMessage
  <2>2. wire' = wire /\ pos' = pos + 1 /\ pos + 1 \in 1..Len(wire)
    BY <1>4, Received DEF ReceiveMessage
  <2>3. Last(out') = m
    <3>1. out \in Seq(MessageType) /\ out' = Append(out, m)
      BY <2>1, SameMessages DEF R!IInv, R!TypeOK, Delivered
    <3>2. QED
      BY <3>1 DEF Last
  <2>4. OnMessage(m) /\ m.opcode \in Supported
    BY <1>4, <2>1, <2>3 DEF ReceiveMessage, Delivered
  <2>5. Skips(m) \/ Replies(m) \/ Closes(m)
    BY <2>4, MessageCases
  <2>6. QED
    BY <1>4, <2>1, <2>2, <2>5 DEF ReceiveMessage, Receiving, Takes
<1>5. ASSUME OnError PROVE Stops
  BY <1>5 DEF OnError, GoOn, Stops, Async, AsyncPrograms
<1>6. ASSUME NEW f \in Frames, ReceiveError(f) PROVE Takes
  BY <1>5, <1>6 DEF ReceiveError, Receiving, In!Reject, In!GiveUp, In!Take, Takes
<1>7. ASSUME ReadError PROVE Takes
  BY <1>5, <1>7 DEF ReadError, Receiving, incoming, Takes
<1>8. ASSUME ReceiveEnd PROVE Takes
  BY <1>8 DEF ReceiveEnd, Receiving, incoming, OnEnd, GoOn, Stops, Takes
<1>9. QED
  BY <1>1, <1>2, <1>3, <1>4, <1>6, <1>7, <1>8 DEF Next, Receive

-----------------------------------------------------------------------------
(* Sequences cut up and put together.                                      *)
LEMMA SameSeq ==
  ASSUME NEW S, NEW s \in Seq(S), NEW t \in Seq(S), Len(s) = Len(t),
         \A i \in 1..Len(s) : s[i] = t[i]
  PROVE  s = t
OBVIOUS

LEMMA DropFacts ==
  ASSUME NEW S, NEW s \in Seq(S), NEW n \in 0..Len(s)
  PROVE  /\ SubSeq(s, n + 1, Len(s)) \in Seq(S)
         /\ Len(SubSeq(s, n + 1, Len(s))) = Len(s) - n
         /\ \A i \in 1..Len(s)-n : SubSeq(s, n + 1, Len(s))[i] = s[n + i]
OBVIOUS

LEMMA TakeFacts ==
  ASSUME NEW S, NEW s \in Seq(S), NEW n \in 1..Len(s)
  PROVE  SubSeq(s, 1, n) \in Seq(S)
OBVIOUS

LEMMA JoinFacts ==
  ASSUME NEW S, NEW s \in Seq(S), NEW t \in Seq(S)
  PROVE  /\ s \o t \in Seq(S) /\ Len(s \o t) = Len(s) + Len(t)
         /\ \A i \in 1..Len(s) : (s \o t)[i] = s[i]
         /\ \A i \in 1..Len(t) : (s \o t)[Len(s) + i] = t[i]
OBVIOUS

LEMMA DropTwice ==
  ASSUME NEW S, NEW s \in Seq(S), NEW n \in 0..Len(s), NEW k \in 0..Len(s)-n
  PROVE  SubSeq(SubSeq(s, n + 1, Len(s)), k + 1, Len(s) - n) = SubSeq(s, n + k + 1, Len(s))
<1> DEFINE t == SubSeq(s, n + 1, Len(s))
<1>1. t \in Seq(S) /\ Len(t) = Len(s) - n /\ \A i \in 1..Len(s)-n : t[i] = s[n + i]
  BY DropFacts
<1> HIDE DEF t
<1>2. k \in 0..Len(t) /\ n + k \in 0..Len(s) /\ Len(s) \in Nat
  BY <1>1
<1> DEFINE u == SubSeq(t, k + 1, Len(t))
           v == SubSeq(s, (n + k) + 1, Len(s))
<1>3. u \in Seq(S) /\ Len(u) = Len(t) - k /\ \A i \in 1..Len(t)-k : u[i] = t[k + i]
  BY <1>1, <1>2, DropFacts
<1>4. v \in Seq(S) /\ Len(v) = Len(s) - (n + k) /\ \A i \in 1..Len(s)-(n+k) : v[i] = s[(n + k) + i]
  BY <1>2, DropFacts
<1> HIDE DEF u, v
<1>5. Len(u) = Len(v)
  BY <1>1, <1>2, <1>3, <1>4
<1>6. ASSUME NEW i \in 1..Len(u) PROVE u[i] = v[i]
  <2>1. i \in 1..Len(t)-k /\ i \in 1..Len(s)-(n+k) /\ k + i \in 1..Len(s)-n /\ n + (k + i) = (n + k) + i
    BY <1>1, <1>2, <1>3
  <2>2. QED
    BY <2>1, <1>1, <1>3, <1>4
<1>7. u = v
  BY <1>3, <1>4, <1>5, <1>6, SameSeq
<1>8. QED
  BY <1>1, <1>2, <1>7 DEF t, u, v

LEMMA TakeDrop ==
  ASSUME NEW S, NEW s \in Seq(S), NEW n \in 0..Len(s)
  PROVE  SubSeq(s, 1, n) \o SubSeq(s, n + 1, Len(s)) = s
<1>1. 1 \in 1..Len(s)+1 /\ n \in 1-1..Len(s) /\ Len(s) \in n..Len(s)
  OBVIOUS
<1>2. SubSeq(s, 1, n) \o SubSeq(s, n + 1, Len(s)) = SubSeq(s, 1, Len(s))
  BY <1>1, ConcatAdjacentSubSeq
<1>3. QED
  BY <1>2, SubSeqFull

LEMMA Regroup ==
  ASSUME NEW S, NEW s \in Seq(S), NEW t \in Seq(S), NEW u \in Seq(S)
  PROVE  (s \o t) \o u = s \o (t \o u)
<1> DEFINE a == s \o t
           b == t \o u
           l == a \o u
           r == s \o b
<1>1. a \in Seq(S) /\ Len(a) = Len(s) + Len(t)
  OBVIOUS
<1>2. b \in Seq(S) /\ Len(b) = Len(t) + Len(u)
  OBVIOUS
<1>3. \A i \in 1..Len(a) : a[i] = IF i <= Len(s) THEN s[i] ELSE t[i - Len(s)]
  OBVIOUS
<1>4. \A i \in 1..Len(b) : b[i] = IF i <= Len(t) THEN t[i] ELSE u[i - Len(t)]
  OBVIOUS
<1> HIDE DEF a, b
<1>a. a \in Seq(S)
  BY <1>1
<1>b. b \in Seq(S)
  BY <1>2
<1>5. /\ l \in Seq(S) /\ Len(l) = Len(a) + Len(u)
      /\ \A i \in 1..Len(l) : l[i] = IF i <= Len(a) THEN a[i] ELSE u[i - Len(a)]
  BY <1>a
<1>6. /\ r \in Seq(S) /\ Len(r) = Len(s) + Len(b)
      /\ \A i \in 1..Len(r) : r[i] = IF i <= Len(s) THEN s[i] ELSE b[i - Len(s)]
  BY <1>b
<1> HIDE DEF l, r
<1>7. Len(s) \in Nat /\ Len(t) \in Nat /\ Len(u) \in Nat
  OBVIOUS
<1>8. ASSUME NEW i \in 1..Len(l) PROVE l[i] = r[i]
  <2>1. CASE i <= Len(s)
    <3>1. i \in 1..Len(a) /\ i \in 1..Len(r) /\ i <= Len(a)
      BY <2>1, <1>1, <1>2, <1>5, <1>6, <1>7
    <3>2. QED
      BY <2>1, <3>1, <1>3, <1>5, <1>6
  <2>2. CASE i > Len(s) /\ i <= Len(s) + Len(t)
    <3>1. i - Len(s) \in 1..Len(b) /\ i - Len(s) <= Len(t)
      BY <2>2, <1>2, <1>7
    <3>2. b[i - Len(s)] = t[i - Len(s)]
      BY <3>1, <1>4
    <3>3. i \in 1..Len(a) /\ i \in 1..Len(r) /\ i <= Len(a) /\ ~(i <= Len(s))
      BY <2>2, <1>1, <1>2, <1>5, <1>6, <1>7
    <3>4. QED
      BY <3>2, <3>3, <1>3, <1>5, <1>6
  <2>3. CASE i > Len(s) + Len(t)
    <3>1. i - Len(s) \in 1..Len(b) /\ ~(i - Len(s) <= Len(t)) /\ (i - Len(s)) - Len(t) = i - Len(a)
      BY <2>3, <1>1, <1>2, <1>5, <1>7
    <3>2. b[i - Len(s)] = u[i - Len(a)]
      BY <3>1, <1>4
    <3>3. i \in 1..Len(r) /\ ~(i <= Len(a)) /\ ~(i <= Len(s))
      BY <2>3, <1>1, <1>2, <1>5, <1>6, <1>7
    <3>4. QED
      BY <3>2, <3>3, <1>5, <1>6
  <2>4. QED
    BY <2>1, <2>2, <2>3, <1>7
<1>9. Len(l) = Len(r)
  BY <1>1, <1>2, <1>5, <1>6, <1>7
<1>10. l = r
  BY <1>5, <1>6, <1>8, <1>9, SameSeq
<1>11. QED
  BY <1>10 DEF l, r, a, b

(* Writing n bytes of what is left only moves them to the stream.          *)
LEMMA Moved ==
  ASSUME NEW S, NEW s \in Seq(S), NEW u \in Seq(S), NEW n \in 0..Len(u)
  PROVE  (s \o SubSeq(u, 1, n)) \o SubSeq(u, n + 1, Len(u)) = s \o u
<1> DEFINE a == SubSeq(u, 1, n)
           b == SubSeq(u, n + 1, Len(u))
<1>1. a \in Seq(S)
  OBVIOUS
<1>2. b \in Seq(S)
  BY DropFacts
<1>3. a \o b = u
  BY TakeDrop
<1> HIDE DEF a, b
<1>4. \A x, y, z \in Seq(S) : (x \o y) \o z = x \o (y \o z)
  BY Regroup, SMTT(60)
<1>5. (s \o a) \o b = s \o (a \o b)
  BY <1>1, <1>2, <1>4, SMTT(30)
<1>6. QED
  BY <1>3, <1>5 DEF a, b

(* Frames end to end, and one more after them.                             *)
Follows(lens, b) ==
  IF b[2] < lens[b[1]] THEN <<b[1], b[2] + 1>> ELSE <<b[1] + 1, 1>>

LaidOut(lens, bytes) ==
  /\ \A i \in 1..Len(bytes) :
       bytes[i][1] \in 1..Len(lens) /\ bytes[i][2] \in 1..lens[bytes[i][1]]
  /\ bytes = <<>> <=> lens = <<>>
  /\ bytes # <<>> => /\ bytes[1] = <<1, 1>>
                     /\ bytes[Len(bytes)] = <<Len(lens), lens[Len(lens)]>>
  /\ \A i \in 1..Len(bytes)-1 : bytes[i+1] = Follows(lens, bytes[i])

FrameNo(k, n) == [i \in 1..n |-> <<k, i>>]

LEMMA FrameNoFacts ==
  ASSUME NEW k \in Nat, NEW n \in Nat
  PROVE  /\ FrameNo(k, n) \in Seq(Nat \X Nat) /\ Len(FrameNo(k, n)) = n
         /\ \A i \in 1..n : FrameNo(k, n)[i] = <<k, i>>
<1>1. \A i \in 1..n : i \in Nat
  OBVIOUS
<1>2. \A i \in 1..n : <<k, i>> \in Nat \X Nat
  BY <1>1
<1>3. QED
  BY <1>2 DEF FrameNo

LEMMA LaidMore ==
  ASSUME NEW lens \in Seq(Nat), NEW bytes \in Seq(Nat \X Nat), LaidOut(lens, bytes),
         NEW n \in Nat, n >= 1
  PROVE  /\ FrameNo(Len(lens) + 1, n) \in Seq(Nat \X Nat)
         /\ LaidOut(Append(lens, n), bytes \o FrameNo(Len(lens) + 1, n))
<1> DEFINE p == Len(lens)
           k == p + 1
           q == Len(bytes)
           next == FrameNo(k, n)
           more == Append(lens, n)
           all == bytes \o next
<1>1. p \in Nat /\ q \in Nat /\ k \in Nat /\ k = p + 1
  OBVIOUS
<1>2. more \in Seq(Nat) /\ Len(more) = k /\ more[k] = n /\ \A j \in 1..p : more[j] = lens[j]
  OBVIOUS
<1>3. next \in Seq(Nat \X Nat) /\ Len(next) = n /\ \A i \in 1..n : next[i] = <<k, i>>
  BY <1>1, FrameNoFacts
<1>4. /\ \A i \in 1..q : bytes[i][1] \in 1..p /\ bytes[i][2] \in 1..lens[bytes[i][1]]
      /\ bytes = <<>> <=> p = 0
      /\ bytes = <<>> <=> q = 0
  BY DEF LaidOut
<1>5. bytes # <<>> => bytes[1] = <<1, 1>> /\ bytes[q] = <<p, lens[p]>>
  BY DEF LaidOut
<1>6. \A i \in 1..q-1 : bytes[i+1] = Follows(lens, bytes[i])
  BY DEF LaidOut
<1>7. \A j \in 1..p : lens[j] \in Nat
  OBVIOUS
<1> HIDE DEF k, next, more
<1>8. next \in Seq(Nat \X Nat)
  BY <1>3
<1>9. /\ Len(all) = q + Len(next)
      /\ \A i \in 1..q : all[i] = bytes[i]
      /\ \A i \in 1..Len(next) : all[q + i] = next[i]
  BY <1>8, JoinFacts
<1>10. all \in Seq(Nat \X Nat)
  BY <1>8, JoinFacts
<1> HIDE DEF all, p, q
<1>11. Len(all) = q + n
  BY <1>3, <1>9
<1>12. \A i \in 1..n : all[q + i] = <<k, i>>
  BY <1>3, <1>9
<1>13. \A i \in 1..q : all[i] = bytes[i]
  BY <1>9
<1>14. ASSUME NEW i \in 1..q + n, i > q
       PROVE  i - q \in 1..n /\ all[i] = <<k, i - q>>
  <2>1. i - q \in 1..n /\ q + (i - q) = i
    BY <1>1, <1>14
  <2>2. QED
    BY <2>1, <1>12
<1>15. ASSUME NEW i \in 1..q PROVE bytes[i][1] \in 1..p /\ more[bytes[i][1]] = lens[bytes[i][1]]
  BY <1>2, <1>4
<1>16. ASSUME NEW i \in 1..Len(all)
       PROVE  all[i][1] \in 1..Len(more) /\ all[i][2] \in 1..more[all[i][1]]
  <2>1. CASE i \in 1..q
    <3>1. all[i] = bytes[i] /\ bytes[i][1] \in 1..p /\ more[bytes[i][1]] = lens[bytes[i][1]]
      BY <2>1, <1>13, <1>15
    <3>2. bytes[i][2] \in 1..lens[bytes[i][1]]
      BY <2>1, <1>4
    <3>3. bytes[i][1] \in 1..k
      <4>1. \A j \in 1..p : j \in 1..k
        BY <1>1
      <4>2. QED
        BY <3>1, <4>1
    <3>4. QED
      BY <3>1, <3>2, <3>3, <1>2
  <2>2. CASE i > q
    <3>1. i - q \in 1..n /\ all[i] = <<k, i - q>>
      BY <2>2, <1>11, <1>14
    <3>2. all[i][1] = k /\ all[i][2] = i - q
      BY <3>1
    <3>3. k \in 1..k
      BY <1>1
    <3>4. QED
      BY <3>1, <3>2, <3>3, <1>2
  <2>3. QED
    BY <2>1, <2>2, <1>1, <1>11
<1>17. all # <<>> /\ more # <<>>
  <2>1. Len(all) # 0 /\ Len(more) # 0
    BY <1>1, <1>2, <1>11
  <2>2. QED
    BY <2>1
<1>18. all[1] = <<1, 1>>
  <2>1. CASE bytes = <<>>
    <3>1. q = 0 /\ k = 1 /\ 1 \in 1..n /\ q + 1 = 1
      BY <2>1, <1>1, <1>4
    <3>2. QED
      BY <3>1, <1>12
  <2>2. CASE bytes # <<>>
    <3>1. 1 \in 1..q
      BY <2>2, <1>1, <1>4
    <3>2. QED
      BY <2>2, <3>1, <1>5, <1>13
  <2>3. QED
    BY <2>1, <2>2
<1>19. all[Len(all)] = <<Len(more), more[Len(more)]>>
  <2>1. n \in 1..n
    OBVIOUS
  <2>2. QED
    BY <2>1, <1>2, <1>11, <1>12
<1>20. ASSUME NEW i \in 1..Len(all)-1
       PROVE  all[i+1] = Follows(more, all[i])
  <2>1. CASE i \in 1..q-1
    <3>1. i \in 1..q /\ i + 1 \in 1..q
      BY <2>1, <1>1
    <3>2. all[i] = bytes[i] /\ all[i+1] = bytes[i+1] /\ more[bytes[i][1]] = lens[bytes[i][1]]
      BY <3>1, <1>13, <1>15
    <3>3. bytes[i+1] = Follows(lens, bytes[i])
      BY <2>1, <1>6
    <3>4. QED
      BY <3>2, <3>3 DEF Follows
  <2>2. CASE i = q
    <3>1. i \in 1..q /\ i + 1 = q + 1 /\ 1 \in 1..n /\ q # 0
      BY <2>2, <1>1
    <3>2. all[i] = bytes[i] /\ bytes[i] = <<p, lens[p]>>
      BY <2>2, <3>1, <1>4, <1>5, <1>13
    <3>3. all[i][1] = p /\ all[i][2] = lens[p]
      BY <3>2
    <3>4. p \in 1..p
      BY <3>1, <1>1, <1>4
    <3>5. more[p] = lens[p] /\ lens[p] \in Nat
      BY <3>4, <1>2, <1>7
    <3>6. ~(all[i][2] < more[all[i][1]])
      BY <3>3, <3>5
    <3>7. Follows(more, all[i]) = <<all[i][1] + 1, 1>>
      BY <3>6 DEF Follows
    <3>8. Follows(more, all[i]) = <<k, 1>>
      BY <3>7, <3>3, <1>1
    <3>9. QED
      BY <3>1, <3>8, <1>12
  <2>3. CASE i > q
    <3>1. i - q \in 1..n /\ all[i] = <<k, i - q>>
      BY <2>3, <1>1, <1>11, <1>14
    <3>2. (i + 1) - q \in 1..n /\ all[i+1] = <<k, (i + 1) - q>>
      <4>1. i + 1 \in 1..q+n /\ i + 1 > q
        BY <2>3, <1>1, <1>11
      <4>2. QED
        BY <4>1, <1>14
    <3>3. all[i][1] = k /\ all[i][2] = i - q
      BY <3>1
    <3>4. all[i][2] < more[all[i][1]] /\ (i + 1) - q = all[i][2] + 1
      BY <3>1, <3>2, <3>3, <1>1, <1>2
    <3>5. Follows(more, all[i]) = <<all[i][1], all[i][2] + 1>>
      BY <3>4 DEF Follows
    <3>6. QED
      BY <3>2, <3>3, <3>4, <3>5
  <2>4. QED
    BY <2>1, <2>2, <2>3, <1>1, <1>11
<1>21. LaidOut(more, all)
  BY <1>16, <1>17, <1>18, <1>19, <1>20 DEF LaidOut
<1>22. QED
  BY <1>8, <1>21 DEF all, more, next, k, p
-----------------------------------------------------------------------------
(* What the parts of the state hold.                                       *)
States == {"receive", "send", "flush", "write", "last", "done"}
Rests == {"receive", "last", "done"}
Pending == pc \in {"send", "flush", "write"}

OwnType ==
  /\ program \in Programs /\ pc \in States
  /\ reply \in [message: MessageType, ok: Rests, err: Rests]
  /\ sent \in Seq(MessageType)
  /\ write_buf \in Seq(Nat \X Nat) /\ stream \in Seq(Nat \X Nat)
  /\ at \in 0..Len(write_buf)
  /\ broken \in BOOLEAN

(* A message the program may send: a close message with no data, or one    *)
(* with the data of a message that it received.                            *)
Sendable(m) ==
  /\ Held(m) /\ m.opcode \in Supported
  /\ m.data = <<>> \/ \E j \in 1..Len(out) : out[j].data = m.data
  /\ m.opcode = Text => Utf8(wire, m.data)
  /\ m.opcode = Close => m.data = <<>>
  /\ IsControl(m.opcode) /\ m.data # <<>> =>
       \E i \in 1..Len(wire) : m.data = <<i>> /\ wire[i].n < ControlLimit

Messages ==
  /\ \A k \in 1..Len(sent) : Sendable(sent[k])
  /\ Pending => Sendable(reply.message)

(* The bytes of the frames sent lie end to end.                            *)
Lens == [k \in 1..Len(sent) |-> FrameLen(FrameOf(sent[k]))]
Bytes == stream \o Unwritten
Laid == LaidOut(Lens, Bytes)

(* Where the program is when something is left to write.                   *)
Control ==
  /\ Async => at = 0
  /\ pc = "flush" => Async
  /\ Pending /\ ~Async => reply.err = "done"
  /\ \/ pc \in {"receive", "send", "last"} /\ (~broken \/ ~Async)
     \/ pc = "done" /\ ~broken
     => Unwritten = <<>>

(* Every answer so far is paired with what it answers, and so is the one   *)
(* that is to be encoded next.                                             *)
Matched ==
  \A k \in Answers : \E j \in Asked :
    Rank(j, Asked) = Rank(k, Answers) /\ sent[k] = AnswerTo(out[j])
Waiting == pc \in {"send", "flush"} /\ reply.message.opcode # Close
Paired ==
  ~broken =>
    /\ Matched
    /\ IF Waiting
       THEN /\ Cardinality(Asked) = Cardinality(Answers) + 1
            /\ Len(out) \in Asked /\ reply.message = AnswerTo(out[Len(out)])
       ELSE Cardinality(Asked) = Cardinality(Answers)

(* The peer sends nothing after its close message, and that was received.  *)
Heard == pos = Len(wire) /\ pos > 0 /\ wire[pos].opcode = Close
LastWords ==
  Pending => /\ reply.message.opcode = Close
             /\ Heard \/ {reply.ok, reply.err} \subseteq {"last", "done"}
CloseSaid ==
  \/ \E k \in 1..Len(sent) : sent[k].opcode = Close
  \/ Pending /\ reply.message.opcode = Close
Closing ==
  (\A k \in 1..Len(wire)-1 : wire[k].opcode # Close) /\ CloseSaid
  => LastWords /\ (pc = "receive" => Heard)
EInv == R!IInv /\ OwnType /\ Messages /\ Laid /\ Control /\ Paired /\ Closing /\ NothingAfterClose

-----------------------------------------------------------------------------
(* One part of the invariant after another is kept by every step.          *)
LEMMA AnswerFacts ==
  ASSUME NEW m \in MessageType
  PROVE  /\ AnswerTo(m) \in MessageType /\ AnswerTo(m).data = m.data
         /\ AnswerTo(m).opcode = IF m.opcode = Ping THEN Pong ELSE m.opcode
         /\ CloseMessage \in MessageType /\ CloseMessage.opcode = Close /\ CloseMessage.data = <<>>
<1>1. m.opcode \in 0..15 /\ m.data \in Seq(Int) /\ m = [opcode |-> m.opcode, data |-> m.data]
  BY DEF MessageType
<1>2. AnswerTo(m) = [opcode |-> IF m.opcode = Ping THEN Pong ELSE m.opcode, data |-> m.data]
  BY <1>1 DEF AnswerTo
<1>3. QED
  BY <1>1, <1>2 DEF MessageType, CloseMessage, Pong, Close

(* Where a program that took something goes on.                            *)
LEMMA TakesFacts ==
  ASSUME Takes
  PROVE  \/ pc' \in {"receive", "done", "last"} /\ UNCHANGED reply
         \/ /\ pc' = "send"
            /\ reply' \in [message: MessageType, ok: Rests, err: Rests]
            /\ \/ reply'.message = CloseMessage
               \/ \E m \in MessageType :
                    Delivered(m) /\ wire' = wire /\ Replies(m) /\ reply'.message = AnswerTo(m)
<1>0. CloseMessage \in MessageType
  BY DEF CloseMessage, MessageType, Close
<1>1. ASSUME NEW m \in MessageType, NEW ok \in Rests, NEW err \in Rests, Send(m, ok, err)
      PROVE  /\ pc' = "send" /\ reply'.message = m
             /\ reply' \in [message: MessageType, ok: Rests, err: Rests]
  BY <1>1 DEF Send
<1>2. IfFailed \in Rests /\ {"receive", "last", "done"} \subseteq Rests
  BY DEF IfFailed, Rests
<1>3. CASE Stops
  BY <1>0, <1>1, <1>2, <1>3 DEF Stops
<1>4. ASSUME NEW m \in MessageType, Delivered(m), Skips(m) \/ Closes(m), wire' = wire
      PROVE  \/ pc' \in {"receive", "done", "last"} /\ UNCHANGED reply
             \/ /\ pc' = "send" /\ reply'.message = CloseMessage
                /\ reply' \in [message: MessageType, ok: Rests, err: Rests]
  <2>1. CASE Skips(m)
    BY <2>1 DEF Skips
  <2>2. CASE Closes(m)
    BY <1>0, <1>1, <1>2, <2>2 DEF Closes
  <2>3. QED
    BY <1>4, <2>1, <2>2
<1>5. ASSUME NEW m \in MessageType, Delivered(m), Replies(m), wire' = wire
      PROVE  /\ pc' = "send" /\ reply'.message = AnswerTo(m)
             /\ reply' \in [message: MessageType, ok: Rests, err: Rests]
  <2>1. AnswerTo(m) \in MessageType
    BY AnswerFacts
  <2>2. Send(AnswerTo(m), "receive", IfFailed)
    BY <1>5 DEF Replies
  <2>3. QED
    BY <1>1, <1>2, <2>1, <2>2
<1>6. QED
  BY <1>3, <1>4, <1>5 DEF Takes

LEMMA SendableKept ==
  ASSUME wire \in Seq(Frames), Grown, NEW m, Sendable(m)
  PROVE  Sendable(m)'
<1>1. Held(m) /\ Held(m)'
  BY DEF Sendable, Held, Grown
<1>2. Utf8(wire, m.data)' = Utf8(wire, m.data)
  BY <1>1, FrameKept
<1>3. m.data = <<>> \/ \E j \in 1..Len(out') : out'[j].data = m.data
  BY DEF Sendable, Grown
<1>4. IsControl(m.opcode) /\ m.data # <<>> =>
        \E i \in 1..Len(wire') : m.data = <<i>> /\ wire'[i].n < ControlLimit
  BY DEF Sendable, Grown
<1>5. QED
  BY <1>1, <1>2, <1>3, <1>4 DEF Sendable

LEMMA SendableReply ==
  ASSUME R!IInv, NEW m \in MessageType, Delivered(m), Replies(m), wire' = wire
  PROVE  Sendable(AnswerTo(m))'
<1> DEFINE a == AnswerTo(m)
<1>1. a \in MessageType /\ a.data = m.data /\ a.opcode = IF m.opcode = Ping THEN Pong ELSE m.opcode
  BY AnswerFacts
<1>2. AnswerTo(m)' = a
  BY DEF AnswerTo
<1> HIDE DEF a
<1>3. m.opcode \in {Ping, Text, Binary}
  BY DEF Replies, Wanted
<1>4. a.opcode \in Supported /\ a.opcode # Close /\ (a.opcode = Text => m.opcode = Text)
      /\ (IsControl(a.opcode) => IsControl(m.opcode))
  BY <1>1, <1>3 DEF Supported, Text, Binary, Ping, Pong, Close, IsControl
<1>5. Held(a)'
  BY <1>1 DEF Held, Delivered
<1>6. \E j \in 1..Len(out') : out'[j].data = a.data
  <2>1. out \in Seq(MessageType) /\ out' = Append(out, m)
    BY SameMessages DEF R!IInv, R!TypeOK, Delivered
  <2>2. Len(out') \in 1..Len(out') /\ out'[Len(out')] = m
    BY <2>1
  <2>3. QED
    BY <2>2, <1>1
<1>7. a.opcode = Text => Utf8(wire, a.data)'
  BY <1>1, <1>4 DEF Delivered
<1>8. IsControl(a.opcode) => \E i \in 1..Len(wire') : a.data = <<i>> /\ wire'[i].n < ControlLimit
  <2>1. IsControl(a.opcode) => m.data = <<pos + 1>> /\ wire[pos+1].n < ControlLimit
    BY <1>4 DEF Delivered
  <2>2. IsControl(a.opcode) => pos + 1 \in 1..Len(wire)
    <3>1. Len(<<pos + 1>>) = 1 /\ <<pos + 1>>[1] = pos + 1 /\ 1 \in 1..1
      OBVIOUS
    <3>2. QED
      BY <2>1, <3>1 DEF Delivered
  <2>3. QED
    BY <2>1, <2>2, <1>1
<1>9. QED
  BY <1>2, <1>4, <1>5, <1>6, <1>7, <1>8 DEF Sendable

(* The bytes of the next frame.                                            *)
LEMMA FrameBytesFacts ==
  ASSUME wire \in Seq(Frames), NEW m, Held(m), NEW k \in Nat
  PROVE  /\ FrameBytes(k, m) = FrameNo(k, FrameLen(FrameOf(m)))
         /\ FrameBytes(k, m) \in Seq(Nat \X Nat)
         /\ FrameLen(FrameOf(m)) \in Nat /\ FrameLen(FrameOf(m)) >= 1
<1>1. FrameLen(FrameOf(m)) \in Nat /\ FrameLen(FrameOf(m)) >= 1
  BY FrameOfFacts
<1>2. FrameBytes(k, m) = FrameNo(k, FrameLen(FrameOf(m)))
  BY DEF FrameBytes, FrameNo
<1>3. QED
  BY <1>1, <1>2, FrameNoFacts

LEMMA OwnTypeStep == EInv /\ [Next]_vars => OwnType'
<1> SUFFICES ASSUME EInv, [Next]_vars PROVE OwnType'
  OBVIOUS
<1>1. R!IInv /\ OwnType /\ Messages
  BY DEF EInv
<1>2. Still \/ Takes \/ Sending
  BY <1>1, StepCases
<1>3. wire \in Seq(Frames) /\ CloseMessage \in MessageType
  BY <1>1 DEF R!IInv, R!TypeOK, CloseMessage, MessageType, Close
<1>4. CASE Still
  BY <1>1, <1>4 DEF OwnType, Still, outgoing
<1>5. CASE Takes
  <2>1. pc' \in States /\ reply' \in [message: MessageType, ok: Rests, err: Rests]
    BY <1>1, <1>5, TakesFacts DEF States, OwnType
  <2>2. UNCHANGED <<program, outgoing>>
    BY <1>5 DEF Takes
  <2>3. QED
    BY <1>1, <2>1, <2>2 DEF OwnType, outgoing
<1>6. CASE Encode
  <2>1. reply.message \in MessageType /\ Held(reply.message)
    BY <1>1, <1>6 DEF Encode, Messages, Pending, Sendable, OwnType
  <2>2. Len(sent) + 1 \in Nat /\ sent' \in Seq(MessageType)
    BY <1>1, <1>6, <2>1 DEF Encode, OwnType
  <2>3. FrameBytes(Len(sent) + 1, reply.message) \in Seq(Nat \X Nat)
    BY <1>3, <2>1, <2>2, FrameBytesFacts
  <2>4. Leftover \in Seq(Nat \X Nat)
    BY <1>1 DEF Leftover, OwnType
  <2>5. write_buf' \in Seq(Nat \X Nat)
    <3>1. write_buf' = Leftover \o FrameBytes(Len(sent) + 1, reply.message)
      BY <1>6 DEF Encode
    <3>2. QED
      BY <2>3, <2>4, <3>1, JoinFacts
  <2>6. at' \in 0..Len(write_buf')
    BY <1>6, <2>5 DEF Encode, StartOfBuffer
  <2>7. QED
    BY <1>1, <1>6, <2>2, <2>5, <2>6 DEF Encode, OwnType, States
<1>7. CASE Write
  <2>1. PICK n \in 1..Len(Unwritten) :
          stream' = stream \o SubSeq(Unwritten, 1, n) /\ Advance(n)
    BY <1>7 DEF Write
  <2>2. Unwritten \in Seq(Nat \X Nat) /\ Len(Unwritten) = Len(write_buf) - at
    BY <1>1, DropFacts DEF OwnType, Unwritten
  <2>3. SubSeq(Unwritten, 1, n) \in Seq(Nat \X Nat)
    <3>1. Unwritten \in Seq(Nat \X Nat)
      BY <2>2
    <3>2. QED
      BY <3>1, TakeFacts
  <2>4. stream' \in Seq(Nat \X Nat)
    BY <1>1, <2>1, <2>3, JoinFacts DEF OwnType
  <2>5. write_buf' \in Seq(Nat \X Nat) /\ at' \in 0..Len(write_buf')
    <3>1. at \in Nat /\ Len(write_buf) \in Nat /\ at <= Len(write_buf) /\ write_buf \in Seq(Nat \X Nat)
      BY <1>1 DEF OwnType
    <3>2. CASE ~Async
      BY <2>1, <2>2, <3>1, <3>2 DEF Advance
    <3>3. CASE Async
      <4>1. at = 0
        BY <1>1, <3>3 DEF EInv, Control
      <4>2. write_buf' = SubSeq(write_buf, n + 1, Len(write_buf)) /\ at' = at
        BY <2>1, <3>3 DEF Advance
      <4>3. n \in 0..Len(write_buf)
        BY <2>2, <4>1, <3>1
      <4>4. write_buf' \in Seq(Nat \X Nat)
        BY <3>1, <4>2, <4>3, DropFacts
      <4>5. QED
        BY <4>1, <4>2, <4>4
    <3>4. QED
      BY <3>2, <3>3
  <2>6. UNCHANGED <<program, pc, reply, sent, broken>>
    BY <1>7 DEF Write
  <2>7. QED
    BY <1>1, <2>4, <2>5, <2>6 DEF OwnType
<1>8. CASE LastSend
  BY <1>1, <1>3, <1>8 DEF LastSend, Send, OwnType, States, Rests, outgoing
<1>9. CASE Flush \/ Flushed
  BY <1>1, <1>9 DEF Flush, Flushed, OwnType, States, outgoing
<1>10. NoReply \in [message: MessageType, ok: Rests, err: Rests]
  BY DEF NoReply, Nothing, MessageType, Rests
<1>11. CASE SendOk
  BY <1>1, <1>10, <1>11 DEF SendOk, OwnType, States, Rests, outgoing
<1>12. CASE SendError
  BY <1>1, <1>10, <1>12 DEF SendError, OwnType, States, Rests
<1>13. QED
  BY <1>2, <1>4, <1>5, <1>6, <1>7, <1>8, <1>9, <1>11, <1>12 DEF Sending

LEMMA MessagesStep == EInv /\ [Next]_vars => Messages'
<1> SUFFICES ASSUME EInv, [Next]_vars PROVE Messages'
  OBVIOUS
<1>1. R!IInv /\ OwnType /\ Messages /\ Grown
  BY StepGrows DEF EInv
<1>2. Still \/ Takes \/ Sending
  BY <1>1, StepCases
<1>3. wire \in Seq(Frames)
  BY <1>1 DEF R!IInv, R!TypeOK
<1>4. \A m : Sendable(m) => Sendable(m)'
  BY <1>1, <1>3, SendableKept
<1>5. ASSUME sent' = sent, NEW k \in 1..Len(sent') PROVE Sendable(sent[k])'
  <2>1. Sendable(sent[k])
    BY <1>1, <1>5 DEF Messages
  <2>2. PICK m : m = sent[k]
    OBVIOUS
  <2>3. Sendable(m)'
    BY <1>4, <2>1, <2>2
  <2>4. QED
    BY <1>5, <2>2, <2>3
<1>6. ASSUME Pending, reply' = reply PROVE Sendable(reply.message)'
  <2>1. PICK m : m = reply.message
    OBVIOUS
  <2>2. Sendable(m)'
    BY <1>1, <1>4, <1>6, <2>1 DEF Messages
  <2>3. QED
    BY <1>6, <2>1, <2>2
<1>7. ASSUME reply'.message = CloseMessage PROVE Sendable(reply.message)'
  <2>1. /\ CloseMessage \in MessageType /\ CloseMessage.data = <<>> /\ Len(CloseMessage.data) = 0
        /\ CloseMessage.opcode \in Supported /\ CloseMessage.opcode # Text
    BY DEF CloseMessage, MessageType, Close, Supported, Text
  <2>2. QED
    BY <1>7, <2>1 DEF Sendable, Held
<1>8. CASE Still
  <2>1. sent' = sent /\ reply' = reply /\ pc' = pc
    BY <1>8 DEF Still, outgoing
  <2>2. QED
    BY <1>5, <1>6, <2>1 DEF Messages, Pending
<1>9. CASE Takes
  <2>1. sent' = sent /\ pc = "receive"
    BY <1>9 DEF Takes, outgoing
  <2>2. ASSUME Pending' PROVE Sendable(reply.message)'
    <3>1. CASE reply'.message = CloseMessage
      BY <1>7, <3>1
    <3>2. ASSUME NEW m \in MessageType, Delivered(m), wire' = wire, Replies(m), reply'.message = AnswerTo(m)
          PROVE  Sendable(reply.message)'
      <4>1. Sendable(AnswerTo(m))'
        BY <1>1, <3>2, SendableReply
      <4>2. AnswerTo(m)' = AnswerTo(m)
        BY DEF AnswerTo
      <4>3. QED
        BY <3>2, <4>1, <4>2
    <3>3. QED
      BY <1>9, <2>2, <3>1, <3>2, TakesFacts DEF Pending
  <2>3. QED
    BY <1>5, <2>1, <2>2 DEF Messages
<1>10. CASE Encode
  <2>1. sent' = Append(sent, reply.message) /\ reply' = reply /\ Pending
    BY <1>10 DEF Encode, Pending
  <2>2. Sendable(reply.message)'
    BY <1>6, <2>1
  <2>3. ASSUME NEW k \in 1..Len(sent') PROVE Sendable(sent[k])'
    <3>1. CASE k = Len(sent) + 1
      <4>1. sent'[k] = reply'.message
        BY <1>1, <2>1, <3>1 DEF OwnType
      <4>2. QED
        BY <2>2, <4>1
    <3>2. CASE k \in 1..Len(sent)
      <4>1. sent'[k] = sent[k] /\ Sendable(sent[k])
        BY <1>1, <2>1, <3>2 DEF OwnType, Messages
      <4>2. PICK m : m = sent[k]
        OBVIOUS
      <4>3. Sendable(m)'
        BY <1>4, <4>1, <4>2
      <4>4. QED
        BY <4>1, <4>2, <4>3
    <3>3. QED
      BY <1>1, <2>1, <3>1, <3>2 DEF OwnType
  <2>4. QED
    BY <2>2, <2>3 DEF Messages
<1>11. CASE LastSend
  BY <1>5, <1>7, <1>11 DEF LastSend, Send, Messages, outgoing
<1>12. CASE Flush \/ Flushed \/ Write
  <2>1. sent' = sent /\ reply' = reply /\ (Pending' => Pending)
    BY <1>12 DEF Flush, Flushed, Write, Pending, outgoing
  <2>2. QED
    BY <1>5, <1>6, <2>1 DEF Messages
<1>13. CASE SendOk \/ SendError
  <2>1. sent' = sent
    BY <1>13 DEF SendOk, SendError, outgoing
  <2>2. ~Pending'
    BY <1>1, <1>13 DEF SendOk, SendError, Pending, OwnType, Rests
  <2>3. QED
    BY <1>5, <2>1, <2>2 DEF Messages
<1>14. QED
  BY <1>2, <1>8, <1>9, <1>10, <1>11, <1>12, <1>13 DEF Sending

LEMMA ControlStep == EInv /\ [Next]_vars => Control'
<1> SUFFICES ASSUME EInv, [Next]_vars PROVE Control'
  OBVIOUS
<1>1. R!IInv /\ OwnType /\ Control /\ Grown
  BY StepGrows DEF EInv
<1>2. Still \/ Takes \/ Sending
  BY <1>1, StepCases
<1>3. Async' = Async
  BY <1>1 DEF Async, Grown
<1>4. UNCHANGED <<write_buf, at>> => Unwritten' = Unwritten
  BY DEF Unwritten
<1> HIDE DEF Unwritten
<1>5. CASE Still
  BY <1>1, <1>3, <1>4, <1>5 DEF Control, Still, outgoing, Pending
<1>6. CASE Takes
  <2>1. pc = "receive" /\ Unwritten' = Unwritten /\ at' = at /\ broken' = broken
    BY <1>4, <1>6 DEF Takes, outgoing
  <2>2. pc' \in {"receive", "done", "last", "send"}
    BY <1>6, TakesFacts
  <2>3. Pending' /\ ~Async => reply'.err = "done"
    <3>1. IfFailed = "done" \/ Async
      BY DEF IfFailed, Async, AsyncPrograms
    <3>2. \A m \in MessageType : (Skips(m) \/ Replies(m) \/ Closes(m)) /\ Pending' /\ ~Async => reply'.err = "done"
      BY <3>1 DEF Skips, Replies, Closes, Send, Pending
    <3>3. Stops /\ Pending' => Async
      BY DEF Stops, Pending
    <3>4. QED
      BY <1>6, <3>2, <3>3 DEF Takes
  <2>4. QED
    BY <1>1, <1>3, <2>1, <2>2, <2>3 DEF Control
<1>7. CASE Flush
  BY <1>1, <1>3, <1>4, <1>7 DEF Flush, MustFlush, Control, Pending, outgoing
<1>8. CASE Encode
  BY <1>1, <1>3, <1>8 DEF Encode, StartOfBuffer, Control, Pending
<1>9. CASE Write
  <2>1. Async => at' = at
    BY <1>9 DEF Write, Advance
  <2>2. QED
    BY <1>1, <1>3, <1>9, <2>1 DEF Write, Control, Pending
<1>10. CASE Flushed
  BY <1>1, <1>3, <1>4, <1>10 DEF Flushed, EverythingWritten, Control, Pending, outgoing
<1>11. CASE SendOk
  <2>1. ~Pending' /\ pc' # "flush"
    BY <1>1, <1>11 DEF SendOk, Pending, OwnType, Rests
  <2>2. Unwritten' = <<>> /\ at' = at
    BY <1>4, <1>11 DEF SendOk, EverythingWritten, outgoing
  <2>3. QED
    BY <1>1, <1>3, <2>1, <2>2 DEF Control
<1>12. CASE SendError
  <2>1. ~Pending' /\ pc' # "flush"
    BY <1>1, <1>12 DEF SendError, Pending, OwnType, Rests
  <2>2. broken' = TRUE /\ at' = at /\ (~Async => pc' = "done")
    BY <1>1, <1>12 DEF SendError, Control, Pending
  <2>3. QED
    BY <1>1, <1>3, <2>1, <2>2 DEF Control
<1>13. CASE LastSend
  BY <1>1, <1>3, <1>4, <1>13 DEF LastSend, Send, Control, outgoing
<1>14. QED
  BY <1>2, <1>5, <1>6, <1>7, <1>8, <1>9, <1>10, <1>11, <1>12, <1>13 DEF Sending

LEMMA LensFacts ==
  ASSUME wire \in Seq(Frames), OwnType, Messages
  PROVE  /\ Lens \in Seq(Nat) /\ Len(Lens) = Len(sent)
         /\ \A k \in 1..Len(sent) : Lens[k] = FrameLen(FrameOf(sent[k])) /\ Lens[k] >= 1
<1>1. Len(sent) \in Nat
  BY DEF OwnType
<1>2. ASSUME NEW k \in 1..Len(sent)
      PROVE  FrameLen(FrameOf(sent[k])) \in Nat /\ FrameLen(FrameOf(sent[k])) >= 1
  BY FrameOfFacts DEF Messages, Sendable
<1>3. QED
  BY <1>1, <1>2 DEF Lens

LEMMA LensKept ==
  ASSUME EInv, Grown, NEW k \in 1..Len(sent), sent'[k] = sent[k]
  PROVE  FrameOf(sent[k])' = FrameOf(sent[k])
<1>1. PICK m : m = sent[k]
  OBVIOUS
<1>2. wire \in Seq(Frames) /\ Held(m)
  BY <1>1 DEF EInv, R!IInv, R!TypeOK, Messages, Sendable
<1>3. FrameOf(m)' = FrameOf(m)
  BY <1>2, FrameKept
<1>4. QED
  BY <1>1, <1>3

LEMMA UnwrittenFacts ==
  ASSUME EInv
  PROVE  /\ stream \in Seq(Nat \X Nat) /\ write_buf \in Seq(Nat \X Nat)
         /\ Unwritten \in Seq(Nat \X Nat)
         /\ Async => Unwritten = write_buf /\ at = 0
         /\ pc = "send" => Unwritten = Leftover
<1>1. stream \in Seq(Nat \X Nat) /\ write_buf \in Seq(Nat \X Nat) /\ at \in 0..Len(write_buf)
  BY DEF EInv, OwnType
<1>2. Unwritten \in Seq(Nat \X Nat)
  BY <1>1, DropFacts DEF Unwritten
<1>3. Async => Unwritten = write_buf /\ at = 0
  <2>1. Async => at = 0
    BY DEF EInv, Control
  <2>2. SubSeq(write_buf, 1, Len(write_buf)) = write_buf
    BY <1>1, SubSeqFull
  <2>3. 0 + 1 = 1
    OBVIOUS
  <2>4. QED
    BY <2>1, <2>2, <2>3 DEF Unwritten
<1>4. pc = "send" /\ ~Async => Unwritten = <<>>
  BY DEF EInv, Control
<1>5. QED
  BY <1>1, <1>2, <1>3, <1>4 DEF Leftover

LEMMA LaidStep == EInv /\ [Next]_vars => Laid'
<1> SUFFICES ASSUME EInv, [Next]_vars PROVE Laid'
  OBVIOUS
<1>1. R!IInv /\ OwnType /\ Messages /\ Laid /\ Control /\ Grown
  BY StepGrows DEF EInv
<1>2. Still \/ Takes \/ Sending
  BY <1>1, StepCases
<1>3. sent' = sent => Lens' = Lens
  BY LensKept, <1>1 DEF Lens
<1>4. UNCHANGED <<stream, write_buf, at>> => Bytes' = Bytes
  BY DEF Bytes, Unwritten
<1>5. wire \in Seq(Frames)
  BY <1>1 DEF R!IInv, R!TypeOK
<1>6. CASE UNCHANGED <<sent, stream, write_buf, at>>
  BY <1>1, <1>3, <1>4, <1>6 DEF Laid
<1>7. CASE Write
  <2>1. PICK n \in 1..Len(Unwritten) :
          stream' = stream \o SubSeq(Unwritten, 1, n) /\ Advance(n)
    BY <1>7 DEF Write
  <2>2. Unwritten' = SubSeq(Unwritten, n + 1, Len(Unwritten))
    <3>1. CASE Async
      <4>1. write_buf' = SubSeq(write_buf, n + 1, Len(write_buf)) /\ Unwritten = write_buf
        BY <2>1, <3>1, UnwrittenFacts DEF Advance
      <4>3. at' = 0 /\ write_buf' \in Seq(Nat \X Nat)
        BY <2>1, <3>1, UnwrittenFacts, OwnTypeStep DEF Advance, OwnType
      <4>4. SubSeq(write_buf', 1, Len(write_buf')) = write_buf'
        BY <4>3, SubSeqFull
      <4>5. 0 + 1 = 1
        OBVIOUS
      <4>6. Unwritten' = write_buf'
        BY <4>3, <4>4, <4>5 DEF Unwritten
      <4>7. QED
        BY <4>1, <4>6
    <3>2. CASE ~Async
      <4>1. at' = at + n /\ write_buf' = write_buf
        BY <2>1, <3>2 DEF Advance
      <4>2. /\ write_buf \in Seq(Nat \X Nat) /\ at \in 0..Len(write_buf) /\ Len(write_buf) \in Nat
            /\ Len(Unwritten) = Len(write_buf) - at
        BY <1>1, DropFacts DEF OwnType, Unwritten
      <4>3. n \in 0..Len(write_buf)-at
        BY <4>2
      <4>4. SubSeq(SubSeq(write_buf, at + 1, Len(write_buf)), n + 1, Len(write_buf) - at)
              = SubSeq(write_buf, at + n + 1, Len(write_buf))
        BY <4>2, <4>3, DropTwice
      <4>5. QED
        BY <4>1, <4>2, <4>4 DEF Unwritten
    <3>3. QED
      BY <3>1, <3>2
  <2>3. n \in 0..Len(Unwritten) /\ stream \in Seq(Nat \X Nat) /\ Unwritten \in Seq(Nat \X Nat)
    BY UnwrittenFacts
  <2>4. (stream \o SubSeq(Unwritten, 1, n)) \o SubSeq(Unwritten, n + 1, Len(Unwritten)) = stream \o Unwritten
    BY <2>3, Moved
  <2>5. Bytes' = Bytes
    BY <2>1, <2>2, <2>4 DEF Bytes
  <2>6. QED
    BY <1>1, <1>3, <1>7, <2>5 DEF Laid, Write
<1>8. CASE Encode
  <2> DEFINE m == reply.message
             fb == FrameBytes(Len(sent) + 1, m)
             n == FrameLen(FrameOf(m))
  <2>1. /\ sent' = Append(sent, m) /\ write_buf' = Leftover \o fb /\ at' = 0
        /\ stream' = stream /\ pc = "send" /\ reply' = reply
    BY <1>8 DEF Encode, StartOfBuffer
  <2>2. Held(m) /\ m \in MessageType
    BY <1>1, <2>1 DEF Messages, Pending, Sendable, Held
  <2>3. fb = FrameNo(Len(sent) + 1, n) /\ fb \in Seq(Nat \X Nat) /\ n \in Nat /\ n >= 1
    <3>1. Len(sent) + 1 \in Nat
      BY <1>1 DEF OwnType
    <3>2. QED
      BY <1>5, <2>2, <3>1, FrameBytesFacts
  <2>4. FrameOf(m)' = FrameOf(m)
    <3>1. PICK x : x = m
      OBVIOUS
    <3>2. FrameOf(x)' = FrameOf(x)
      BY <1>1, <1>5, <2>2, <3>1, FrameKept
    <3>3. QED
      BY <2>1, <3>1, <3>2
  <2>5. Lens' = Append(Lens, n)
    <3>1. Lens \in Seq(Nat) /\ Len(Lens) = Len(sent) /\ Len(sent) \in Nat
      BY <1>1, <1>5, LensFacts DEF OwnType
    <3>2. /\ Len(sent') = Len(sent) + 1 /\ sent'[Len(sent) + 1] = m
          /\ \A k \in 1..Len(sent) : sent'[k] = sent[k]
      BY <1>1, <2>1, <2>2 DEF OwnType
    <3>3. ASSUME NEW k \in 1..Len(sent)+1
          PROVE  FrameLen(FrameOf(sent[k])') = IF k <= Len(sent) THEN FrameLen(FrameOf(sent[k])) ELSE n
      <4>1. CASE k \in 1..Len(sent)
        <5>1. FrameOf(sent[k])' = FrameOf(sent[k])
          BY <1>1, <3>2, <4>1, LensKept
        <5>2. QED
          BY <4>1, <5>1
      <4>2. CASE k = Len(sent) + 1
        <5>1. sent'[k] = m'
          BY <2>1, <3>2, <4>2
        <5>2. FrameOf(sent[k])' = FrameOf(m)
          BY <2>4, <5>1
        <5>3. ~(k <= Len(sent))
          BY <3>1, <4>2
        <5>4. QED
          BY <5>2, <5>3
      <4>3. QED
        BY <3>1, <4>1, <4>2
    <3> HIDE DEF n
    <3>4. Lens' = [k \in 1..Len(sent)+1 |-> IF k <= Len(sent) THEN FrameLen(FrameOf(sent[k])) ELSE n]
      BY <3>2, <3>3 DEF Lens
    <3>5. Lens = [k \in 1..Len(sent) |-> FrameLen(FrameOf(sent[k]))]
      BY DEF Lens
    <3>6. n \in Nat /\ \A k \in 1..Len(sent) : FrameLen(FrameOf(sent[k])) \in Nat
      BY <1>1, <1>5, <2>3, LensFacts, <3>1, <3>5
    <3>7. QED
      BY <3>1, <3>4, <3>5, <3>6
  <2>6. Bytes' = Bytes \o fb
    <3>1. Unwritten = Leftover /\ Unwritten \in Seq(Nat \X Nat) /\ stream \in Seq(Nat \X Nat)
      BY <2>1, UnwrittenFacts
    <3>2. Unwritten' = write_buf'
      <4>1. write_buf' \in Seq(Nat \X Nat)
        BY OwnTypeStep DEF OwnType
      <4>2. SubSeq(write_buf', 1, Len(write_buf')) = write_buf'
        BY <4>1, SubSeqFull
      <4>3. 0 + 1 = 1
        OBVIOUS
      <4>4. QED
        BY <2>1, <4>2, <4>3 DEF Unwritten
    <3>3. fb \in Seq(Nat \X Nat)
      BY <2>3
    <3> HIDE DEF fb
    <3>4. (stream \o Unwritten) \o fb = stream \o (Unwritten \o fb)
      <4> DEFINE P == Nat \X Nat
      <4>1. Unwritten \in Seq(P) /\ stream \in Seq(P) /\ fb \in Seq(P)
        BY <3>1, <3>3
      <4> HIDE DEF P
      <4>2. \A x, y, z \in Seq(P) : (x \o y) \o z = x \o (y \o z)
        BY Regroup, SMTT(60)
      <4>3. QED
        BY <4>1, <4>2
    <3>5. QED
      BY <2>1, <3>1, <3>2, <3>4 DEF Bytes
  <2>7. Lens \in Seq(Nat) /\ Len(Lens) = Len(sent) /\ Bytes \in Seq(Nat \X Nat)
    BY <1>1, <1>5, LensFacts, UnwrittenFacts, JoinFacts DEF Bytes
  <2>8. LaidOut(Append(Lens, n), Bytes \o FrameNo(Len(Lens) + 1, n))
    BY <1>1, <2>3, <2>7, LaidMore DEF Laid
  <2>9. QED
    BY <2>3, <2>5, <2>6, <2>7, <2>8 DEF Laid
<1>9. CASE Still \/ Takes \/ Flush \/ Flushed \/ SendOk \/ SendError \/ LastSend
  BY <1>6, <1>9 DEF Still, Takes, Flush, Flushed, SendOk, SendError, LastSend, outgoing
<1>10. QED
  BY <1>2, <1>7, <1>8, <1>9 DEF Sending

LEMMA SendingKeeps == Sending => UNCHANGED <<incoming, wire, pos, out, program>>
BY DEF Sending, Flush, Encode, Write, Flushed, SendOk, SendError, LastSend, incoming

(* The peer kept to the protocol if it did so a frame later.               *)
LEMMA KeptTo ==
  ASSUME wire \in Seq(Frames), Grown, \A k \in 1..Len(wire')-1 : wire'[k].opcode # Close
  PROVE  \A k \in 1..Len(wire)-1 : wire[k].opcode # Close
BY DEF Grown

LEMMA ClosingStep == EInv /\ [Next]_vars => Closing'
<1> SUFFICES ASSUME EInv, [Next]_vars, \A k \in 1..Len(wire')-1 : wire'[k].opcode # Close, CloseSaid'
             PROVE  (LastWords /\ (pc = "receive" => Heard))'
  BY DEF Closing, CloseSaid
<1>1. R!IInv /\ OwnType /\ Grown /\ Closing
  BY StepGrows DEF EInv
<1>2. Still \/ Takes \/ Sending
  BY <1>1, StepCases
<1>3. wire \in Seq(Frames) /\ pos \in Nat /\ Len(wire) \in Nat
  BY <1>1 DEF R!IInv, R!TypeOK
<1>4. CloseSaid => LastWords /\ (pc = "receive" => Heard)
  <2>1. \A k \in 1..Len(wire)-1 : wire[k].opcode # Close
    BY <1>1, <1>3, KeptTo
  <2>2. QED
    BY <2>1, <1>1 DEF Closing, CloseSaid
<1>5. CASE Still
  <2>1. CloseSaid /\ UNCHANGED <<pc, reply>>
    BY <1>5 DEF Still, CloseSaid, Pending, outgoing
  <2>2. ASSUME NEW f \in Frames, wire' = Append(wire, f) PROVE ~Heard
    <3>1. Heard => Len(wire) \in 1..Len(wire')-1 /\ wire'[Len(wire)].opcode = Close
      BY <2>2, <1>3 DEF Heard
    <3>2. QED
      BY <3>1
  <2>3. CASE UNCHANGED <<wire, pos>>
    BY <1>4, <2>1, <2>3 DEF LastWords, Heard, Pending
  <2>4. CASE ~Heard
    BY <1>4, <2>1, <2>4 DEF LastWords, Pending
  <2>5. CASE pc = "receive" /\ pos # Len(wire)
    BY <1>4, <2>1, <2>5 DEF Heard
  <2>6. QED
    BY <1>5, <2>2, <2>3, <2>4, <2>5 DEF Still
<1>6. CASE Takes
  <2>1. pc = "receive" /\ sent' = sent /\ wire' = wire
    BY <1>6 DEF Takes, outgoing
  <2>2. CASE Stops
    BY <2>2 DEF Stops, Send, CloseMessage, LastWords, Pending
  <2>3. ASSUME NEW m \in MessageType, Delivered(m), Skips(m) \/ Replies(m) \/ Closes(m),
               pos' = pos + 1, pos + 1 \in 1..Len(wire)
        PROVE  (LastWords /\ (pc = "receive" => Heard))'
    <3>1. ~Heard
      BY <2>3, <1>3 DEF Heard
    <3>2. ~\E k \in 1..Len(sent') : sent'[k].opcode = Close
      BY <1>4, <2>1, <3>1 DEF CloseSaid
    <3>3. pc' = "send" /\ reply'.message.opcode = Close
      <4>1. pc' = "send" \/ pc' \in {"receive", "done", "last"}
        BY <2>3 DEF Skips, Replies, Closes, Send
      <4>2. QED
        BY <3>2, <4>1 DEF CloseSaid, Pending
    <3>4. CASE Skips(m)
      BY <3>3, <3>4 DEF Skips
    <3>5. CASE Replies(m)
      <4>1. reply'.message = AnswerTo(m) /\ Wanted(m)
        BY <3>5 DEF Replies, Send
      <4>2. AnswerTo(m).opcode = IF m.opcode = Ping THEN Pong ELSE m.opcode
        BY AnswerFacts
      <4>3. QED
        BY <3>3, <4>1, <4>2 DEF Wanted, Ping, Pong, Text, Binary, Close
    <3>6. CASE Closes(m)
      <4>1. m.opcode = Close
        BY <3>6 DEF Closes
      <4>2. wire[pos+1].opcode = Close
        BY <2>3, <4>1 DEF Delivered, IsControl
      <4>3. ~(pos + 1 \in 1..Len(wire)-1)
        BY <2>1, <4>2
      <4>4. Heard'
        BY <2>1, <2>3, <4>2, <4>3, <1>3 DEF Heard
      <4>5. QED
        BY <3>3, <4>4 DEF LastWords
    <3>7. QED
      BY <2>3, <3>4, <3>5, <3>6
  <2>4. QED
    BY <1>6, <2>2, <2>3 DEF Takes
<1>7. CASE Sending
  <2>1. Heard' = Heard
    BY <1>7, SendingKeeps DEF Heard
  <2>2. CASE Flush \/ Flushed \/ Write
    <3>1. sent' = sent /\ reply' = reply /\ Pending /\ Pending' /\ pc' # "receive"
      BY <2>2 DEF Flush, Flushed, Write, Pending, outgoing
    <3>2. QED
      BY <1>4, <2>1, <3>1 DEF CloseSaid, LastWords
  <2>3. CASE Encode
    <3>1. sent' = Append(sent, reply.message) /\ reply' = reply /\ Pending /\ Pending' /\ pc' # "receive"
      BY <2>3 DEF Encode, Pending
    <3>2. \A k \in 1..Len(sent') : sent'[k].opcode = Close => CloseSaid
      <4>1. ASSUME NEW k \in 1..Len(sent'), sent'[k].opcode = Close, ~(k \in 1..Len(sent))
            PROVE  sent'[k] = reply.message
        BY <1>1, <3>1, <4>1 DEF OwnType
      <4>2. ASSUME NEW k \in 1..Len(sent) PROVE sent'[k] = sent[k]
        BY <1>1, <3>1 DEF OwnType
      <4>3. QED
        BY <3>1, <4>1, <4>2 DEF CloseSaid
    <3>3. CloseSaid
      BY <3>1, <3>2 DEF CloseSaid
    <3>4. QED
      BY <1>4, <2>1, <3>1, <3>3 DEF LastWords
  <2>4. CASE SendOk \/ SendError
    <3>1. sent' = sent /\ pc' \in {reply.ok, reply.err} /\ Pending /\ ~Pending'
      BY <1>1, <2>4 DEF SendOk, SendError, Pending, OwnType, Rests, outgoing
    <3>2. CloseSaid
      BY <3>1 DEF CloseSaid
    <3>3. QED
      BY <1>4, <2>1, <3>1, <3>2 DEF LastWords
  <2>5. CASE LastSend
    BY <2>5 DEF LastSend, Send, CloseMessage, LastWords
  <2>6. QED
    BY <1>7, <2>2, <2>3, <2>4, <2>5 DEF Sending
<1>8. QED
  BY <1>2, <1>5, <1>6, <1>7

LEMMA QuietStep == EInv /\ [Next]_vars => NothingAfterClose'
<1> SUFFICES ASSUME EInv, [Next]_vars, \A k \in 1..Len(wire')-1 : wire'[k].opcode # Close,
                    NEW j \in 1..Len(sent'), NEW k \in 1..Len(sent'), j < k, sent'[j].opcode = Close
             PROVE  sent'[k].opcode = Close
  BY DEF NothingAfterClose
<1>1. R!IInv /\ OwnType /\ Grown /\ Closing /\ NothingAfterClose
  BY StepGrows DEF EInv
<1>2. Still \/ Takes \/ Sending
  BY <1>1, StepCases
<1>3. wire \in Seq(Frames)
  BY <1>1 DEF R!IInv, R!TypeOK
<1>4. \A i \in 1..Len(wire)-1 : wire[i].opcode # Close
  BY <1>1, <1>3, KeptTo
<1>5. CASE sent' = sent
  BY <1>1, <1>4, <1>5 DEF NothingAfterClose
<1>6. CASE Encode
  <2>1. sent' = Append(sent, reply.message) /\ Pending
    BY <1>6 DEF Encode, Pending
  <2>2. /\ Len(sent) \in Nat /\ Len(sent') = Len(sent) + 1 /\ sent'[Len(sent)+1] = reply.message
        /\ \A i \in 1..Len(sent) : sent'[i] = sent[i]
    BY <1>1, <2>1 DEF OwnType
  <2>3. CASE k \in 1..Len(sent)
    <3>1. j \in 1..Len(sent)
      BY <2>2, <2>3
    <3>2. QED
      BY <1>1, <1>4, <2>2, <2>3, <3>1 DEF NothingAfterClose
  <2>4. CASE k = Len(sent) + 1
    <3>1. j \in 1..Len(sent)
      BY <2>2, <2>4
    <3>2. sent[j].opcode = Close
      BY <2>2, <3>1
    <3>3. reply.message.opcode = Close
      BY <1>1, <1>4, <2>1, <3>1, <3>2 DEF Closing, CloseSaid, LastWords
    <3>4. QED
      BY <2>2, <2>4, <3>3
  <2>5. QED
    BY <2>2, <2>3, <2>4
<1>7. QED
  BY <1>2, <1>5, <1>6
  DEF Still, Takes, Sending, Flush, Write, Flushed, SendOk, SendError, LastSend, outgoing

(* How many of the messages come at or before one of them.                 *)
LEMMA RankFacts ==
  ASSUME NEW n \in Nat, NEW S, S \subseteq 1..n
  PROVE  /\ IsFiniteSet(S) /\ Cardinality(S) \in Nat
         /\ Rank(n, S) = Cardinality(S)
         /\ Cardinality(S \cup {n + 1}) = Cardinality(S) + 1
         /\ Rank(n + 1, S \cup {n + 1}) = Cardinality(S) + 1
         /\ \A k \in 1..n : Rank(k, S \cup {n + 1}) = Rank(k, S)
<1>1. IsFiniteSet(S) /\ Cardinality(S) \in Nat
  <2>1. IsFiniteSet(1..n)
    BY FS_Interval
  <2>2. QED
    BY <2>1, FS_Subset, FS_CardinalityType
<1>a. \A x \in S : x \in 1..n
  OBVIOUS
<1>b. \A x \in 1..n : x <= n /\ x <= n + 1 /\ x # n + 1
  OBVIOUS
<1>c. n + 1 <= n + 1 /\ \A k \in 1..n : ~(n + 1 <= k)
  OBVIOUS
<1>2. {x \in S : x <= n} = S
  BY <1>a, <1>b
<1>3. n + 1 \notin S
  BY <1>a, <1>b
<1>4. Cardinality(S \cup {n + 1}) = Cardinality(S) + 1
  BY <1>1, <1>3, FS_AddElement
<1>5. {x \in S \cup {n + 1} : x <= n + 1} = S \cup {n + 1}
  BY <1>a, <1>b, <1>c
<1>6. ASSUME NEW k \in 1..n PROVE Rank(k, S \cup {n + 1}) = Rank(k, S)
  <2>1. {x \in S \cup {n + 1} : x <= k} = {x \in S : x <= k}
    BY <1>c
  <2>2. QED
    BY <2>1 DEF Rank
<1>7. QED
  BY <1>1, <1>2, <1>4, <1>5, <1>6 DEF Rank

LEMMA IndexFacts ==
  ASSUME R!IInv, OwnType
  PROVE  /\ out \in Seq(MessageType) /\ Len(out) \in Nat /\ Asked \subseteq 1..Len(out)
         /\ Len(sent) \in Nat /\ Answers \subseteq 1..Len(sent)
<1>1. out \in Seq(MessageType) /\ sent \in Seq(MessageType)
  BY SameMessages DEF R!IInv, R!TypeOK, OwnType
<1>2. QED
  BY <1>1 DEF Asked, Answers

LEMMA AskedMore ==
  ASSUME R!IInv, OwnType, program' = program, NEW m \in MessageType, out' = Append(out, m)
  PROVE  /\ Asked' = IF Wanted(m) THEN Asked \cup {Len(out) + 1} ELSE Asked
         /\ Len(out') = Len(out) + 1 /\ out'[Len(out) + 1] = m
         /\ \A j \in Asked : out'[j] = out[j]
<1>1. out \in Seq(MessageType) /\ Len(out) \in Nat /\ DOMAIN out = 1..Len(out)
  BY IndexFacts
<1>2. /\ DOMAIN out' = 1..Len(out)+1 /\ Len(out') = Len(out) + 1 /\ out'[Len(out) + 1] = m
      /\ \A j \in 1..Len(out) : out'[j] = out[j]
  BY <1>1
<1>3. \A x : Wanted(x)' = Wanted(x)
  BY DEF Wanted, Echoes
<1>4. \A j \in 1..Len(out) : Wanted(out[j])' = Wanted(out[j])
  BY <1>2, <1>3
<1>5. PICK n \in Nat : n = Len(out)
  BY <1>1, Zenon
<1>6. Wanted(out[n + 1])' = Wanted(m)
  BY <1>2, <1>3, <1>5
<1>7. Asked' = {j \in 1..n+1 : Wanted(out[j])'}
  BY <1>2, <1>5 DEF Asked
<1>8. Asked = {j \in 1..n : Wanted(out[j])}
  BY <1>1, <1>5 DEF Asked
<1>9. \A j \in 1..n : Wanted(out[j])' = Wanted(out[j])
  BY <1>4, <1>5
<1>10. \A j \in 1..n+1 : j \in 1..n \/ j = n + 1
  OBVIOUS
<1>11. Asked' = IF Wanted(m) THEN Asked \cup {n + 1} ELSE Asked
  <2>1. n + 1 \in 1..n+1 /\ \A j \in 1..n : j \in 1..n+1
    OBVIOUS
  <2>2. \A j : j \in Asked' <=> j \in Asked \/ (j = n + 1 /\ Wanted(m))
    BY <1>6, <1>7, <1>8, <1>9, <1>10, <2>1
  <2>3. QED
    BY <2>2
<1>12. QED
  BY <1>2, <1>5, <1>8, <1>11

LEMMA PairedStep == EInv /\ [Next]_vars => Paired'
<1> SUFFICES ASSUME EInv, [Next]_vars, ~broken' PROVE Paired'
  BY DEF Paired
<1>1. R!IInv /\ OwnType /\ Messages /\ Paired /\ Grown
  BY StepGrows DEF EInv
<1>2. Still \/ Takes \/ Sending
  BY <1>1, StepCases
<1>3. ~broken
  BY <1>2
  DEF Still, Takes, Sending, Flush, Encode, Write, Flushed, SendOk, SendError, LastSend, outgoing
<1>4. /\ Matched
      /\ IF Waiting
         THEN /\ Cardinality(Asked) = Cardinality(Answers) + 1
              /\ Len(out) \in Asked /\ reply.message = AnswerTo(out[Len(out)])
         ELSE Cardinality(Asked) = Cardinality(Answers)
  BY <1>1, <1>3 DEF Paired, Matched
<1>5. SUFFICES /\ Matched'
               /\ IF Waiting'
                  THEN /\ Cardinality(Asked') = Cardinality(Answers') + 1
                       /\ Len(out') \in Asked' /\ reply'.message = AnswerTo(out'[Len(out')])
                  ELSE Cardinality(Asked') = Cardinality(Answers')
  BY DEF Paired, Matched, AnswerTo
<1>6. program' = program /\ (out' = out => Asked' = Asked) /\ (sent' = sent => Answers' = Answers)
  BY <1>1 DEF Grown, Asked, Wanted, Echoes, Answers
<1>7. UNCHANGED <<out, sent>> => Matched'
  BY <1>4, <1>6 DEF Matched, AnswerTo
<1>8. /\ out \in Seq(MessageType) /\ Len(out) \in Nat /\ Asked \subseteq 1..Len(out)
      /\ Len(sent) \in Nat /\ Answers \subseteq 1..Len(sent)
  BY <1>1, IndexFacts
<1>9. ASSUME UNCHANGED <<out, sent>>, ~Waiting, ~Waiting'
      PROVE  Matched' /\ ~Waiting' /\ Cardinality(Asked') = Cardinality(Answers')
  BY <1>4, <1>6, <1>7, <1>9
<1>10. CASE UNCHANGED <<out, sent, reply>> /\ Waiting' = Waiting
  BY <1>4, <1>6, <1>7, <1>10
<1>11. CASE Takes
  <2>1. pc = "receive" /\ sent' = sent /\ ~Waiting
    BY <1>11 DEF Takes, outgoing, Waiting
  <2>2. CASE UNCHANGED out /\ Stops
    <3>1. ~Waiting'
      BY <2>2 DEF Stops, Send, CloseMessage, Waiting
    <3>2. QED
      BY <1>9, <2>1, <2>2, <3>1
  <2>3. ASSUME NEW m \in MessageType, Delivered(m), Skips(m) \/ Replies(m) \/ Closes(m)
        PROVE  /\ Matched'
               /\ IF Waiting'
                  THEN /\ Cardinality(Asked') = Cardinality(Answers') + 1
                       /\ Len(out') \in Asked' /\ reply'.message = AnswerTo(out'[Len(out')])
                  ELSE Cardinality(Asked') = Cardinality(Answers')
    <3>1. out' = Append(out, m)
      BY <2>3 DEF Delivered
    <3>2. /\ Asked' = IF Wanted(m) THEN Asked \cup {Len(out) + 1} ELSE Asked
          /\ Len(out') = Len(out) + 1 /\ out'[Len(out) + 1] = m
          /\ \A j \in Asked : out'[j] = out[j]
      BY <1>1, <1>6, <3>1, AskedMore
    <3>3. Cardinality(Asked) = Cardinality(Answers) /\ Answers' = Answers
      BY <1>4, <1>6, <2>1
    <3>4. \A j \in Asked : Rank(j, Asked') = Rank(j, Asked) /\ j \in Asked'
      <4>1. \A j \in Asked : Rank(j, Asked \cup {Len(out) + 1}) = Rank(j, Asked)
        BY <1>8, RankFacts
      <4>2. QED
        BY <3>2, <4>1
    <3>5. Matched'
      <4>1. \A j \in Asked : AnswerTo(out[j])' = AnswerTo(out[j])
        BY <3>2 DEF AnswerTo
      <4>2. \A k \in Answers : \E j \in Asked' :
              Rank(j, Asked') = Rank(k, Answers) /\ sent[k] = AnswerTo(out[j])'
        BY <1>4, <3>4, <4>1 DEF Matched
      <4>3. QED
        BY <2>1, <3>3, <4>2 DEF Matched, Rank
    <3>6. CASE Skips(m) \/ Closes(m)
      <4>1. ~Wanted(m) /\ ~Waiting'
        BY <3>6 DEF Skips, Closes, Wanted, Waiting, Send, CloseMessage, Text, Binary, Ping, Close
      <4>2. QED
        BY <3>2, <3>3, <3>5, <4>1
    <3>7. CASE Replies(m)
      <4>1. Wanted(m) /\ pc' = "send" /\ reply'.message = AnswerTo(m)
        BY <3>7 DEF Replies, Send
      <4>2. AnswerTo(m).opcode = IF m.opcode = Ping THEN Pong ELSE m.opcode
        BY AnswerFacts
      <4>3. Waiting'
        BY <4>1, <4>2 DEF Waiting, Wanted, Ping, Pong, Text, Binary, Close
      <4>4. Cardinality(Asked') = Cardinality(Asked) + 1
        <5>1. Cardinality(Asked \cup {Len(out) + 1}) = Cardinality(Asked) + 1
          BY <1>8, RankFacts
        <5>2. QED
          BY <3>2, <4>1, <5>1
      <4>5. Len(out') \in Asked' /\ reply'.message = AnswerTo(out'[Len(out')])
        BY <3>2, <4>1
      <4>6. QED
        BY <3>3, <3>5, <4>3, <4>4, <4>5
    <3>8. QED
      BY <2>3, <3>6, <3>7
  <2>4. QED
    BY <1>11, <2>2, <2>3 DEF Takes
<1>12. CASE Encode
  <2>1. sent' = Append(sent, reply.message) /\ out' = out /\ pc = "send" /\ ~Waiting'
    BY <1>12 DEF Encode, incoming, Waiting
  <2>2. /\ DOMAIN sent' = 1..Len(sent)+1 /\ sent'[Len(sent)+1] = reply.message
        /\ \A k \in 1..Len(sent) : sent'[k] = sent[k]
        /\ DOMAIN sent = 1..Len(sent)
    BY <1>1, <2>1 DEF OwnType
  <2>3. Answers' = IF reply.message.opcode # Close THEN Answers \cup {Len(sent) + 1} ELSE Answers
    BY <1>8, <2>2 DEF Answers
  <2>4. \A k \in Answers : Rank(k, Answers') = Rank(k, Answers)
    <3>1. \A k \in Answers : Rank(k, Answers \cup {Len(sent) + 1}) = Rank(k, Answers)
      <4>1. PICK n \in Nat : n = Len(sent)
        BY <1>8
      <4>2. Answers \subseteq 1..n
        BY <1>8, <4>1
      <4>3. \A k \in 1..n : Rank(k, Answers \cup {n + 1}) = Rank(k, Answers)
        BY <4>2, RankFacts
      <4>4. QED
        BY <4>1, <4>2, <4>3
    <3>2. QED
      BY <2>3, <3>1
  <2>a. Asked' = Asked /\ \A j : AnswerTo(out[j])' = AnswerTo(out[j])
    BY <1>6, <2>1 DEF AnswerTo
  <2>5. \A k \in Answers : \E j \in Asked' :
          Rank(j, Asked') = Rank(k, Answers') /\ sent'[k] = AnswerTo(out[j])'
    BY <1>4, <1>8, <2>a, <2>2, <2>4 DEF Matched
  <2>6. CASE reply.message.opcode = Close
    <3>1. Answers' = Answers /\ ~Waiting
      BY <2>3, <2>6 DEF Waiting
    <3>2. Matched'
      BY <2>5, <3>1 DEF Matched, Rank
    <3>3. QED
      BY <1>4, <1>6, <2>1, <3>1, <3>2
  <2>7. CASE reply.message.opcode # Close
    <3>1. Waiting /\ Answers' = Answers \cup {Len(sent) + 1}
      BY <2>1, <2>3, <2>7 DEF Waiting
    <3>2. /\ Cardinality(Asked) = Cardinality(Answers) + 1
          /\ Len(out) \in Asked /\ reply.message = AnswerTo(out[Len(out)])
      BY <1>4, <3>1
    <3>3. /\ Cardinality(Answers') = Cardinality(Answers) + 1
          /\ Rank(Len(sent) + 1, Answers') = Cardinality(Answers) + 1
      BY <1>8, <3>1, RankFacts
    <3>4. Rank(Len(out), Asked) = Cardinality(Asked)
      BY <1>8, RankFacts
    <3>5. \E j \in Asked' : /\ Rank(j, Asked') = Rank(Len(sent) + 1, Answers')
                           /\ sent'[Len(sent) + 1] = AnswerTo(out[j])'
      BY <2>a, <2>2, <3>2, <3>3, <3>4
    <3>6. Matched'
      BY <2>5, <3>1, <3>5 DEF Matched, Rank
    <3>7. QED
      BY <1>6, <2>1, <3>2, <3>3, <3>6
  <2>8. QED
    BY <2>6, <2>7
<1>13. CASE Flush \/ Flushed \/ Write
  BY <1>10, <1>13 DEF Flush, Flushed, Write, outgoing, incoming, Waiting
<1>14. CASE LastSend
  <2>1. ~Waiting /\ ~Waiting' /\ UNCHANGED <<out, sent>>
    BY <1>14 DEF LastSend, Send, CloseMessage, Waiting, outgoing, incoming
  <2>2. QED
    BY <1>9, <2>1
<1>15. CASE SendOk
  <2>1. ~Waiting /\ ~Waiting' /\ UNCHANGED <<out, sent>>
    BY <1>1, <1>15 DEF SendOk, Waiting, outgoing, incoming, OwnType, Rests
  <2>2. QED
    BY <1>9, <2>1
<1>16. CASE SendError
  BY <1>16 DEF SendError
<1>17. CASE Still
  BY <1>10, <1>17 DEF Still, outgoing, Waiting
<1>18. QED
  BY <1>2, <1>11, <1>12, <1>13, <1>14, <1>15, <1>16, <1>17 DEF Sending

(* The invariant holds at first and is kept by every step.                 *)
LEMMA EInvInit == Init => EInv
<1> SUFFICES ASSUME Init PROVE EInv
  OBVIOUS
<1>1. R!IInv
  BY ReceivingInv
<1>2. /\ pc = "receive" /\ reply = NoReply /\ broken = FALSE /\ program \in Programs
      /\ sent = <<>> /\ write_buf = <<>> /\ at = 0 /\ stream = <<>> /\ out = <<>>
  BY DEF Init, In!Init
<1>3. NoReply \in [message: MessageType, ok: Rests, err: Rests]
  BY DEF NoReply, Nothing, MessageType, Rests
<1>a. sent \in Seq(MessageType) /\ write_buf \in Seq(Nat \X Nat) /\ stream \in Seq(Nat \X Nat)
  BY <1>2
<1>b. at \in 0..Len(write_buf)
  BY <1>2
<1>c. program \in Programs /\ pc \in States /\ broken \in BOOLEAN
  BY <1>2 DEF States
<1>d. reply \in [message: MessageType, ok: Rests, err: Rests]
  BY <1>2, <1>3
<1>4. OwnType
  BY <1>a, <1>b, <1>c, <1>d, Zenon DEF OwnType
<1>5. Unwritten = <<>>
  BY <1>2 DEF Unwritten
<1>6. Messages /\ Control
  BY <1>2, <1>5 DEF Messages, Control, Pending
<1>7. Lens = <<>> /\ Bytes = <<>>
  BY <1>2, <1>5 DEF Lens, Bytes
<1>8. Laid
  BY <1>7 DEF Laid, LaidOut
<1>9. Asked = {} /\ Answers = {} /\ ~Waiting
  BY <1>2 DEF Asked, Answers, Waiting
<1>10. Paired
  BY <1>9 DEF Paired, Matched
<1>11. Closing /\ NothingAfterClose
  BY <1>2 DEF Closing, CloseSaid, Pending, NothingAfterClose
<1>12. QED
  BY <1>1, <1>4, <1>6, <1>8, <1>10, <1>11 DEF EInv

LEMMA EInvStep == EInv /\ [Next]_vars => EInv'
<1> SUFFICES ASSUME EInv, [Next]_vars PROVE EInv'
  OBVIOUS
<1>1. R!IInv /\ [R!Next]_(R!vars)
  BY ReceivingStep DEF EInv
<1>2. R!IInv'
  BY <1>1, R!IInvStep, Assumed
<1>3. QED
  BY <1>2, OwnTypeStep, MessagesStep, LaidStep, ControlStep, PairedStep, ClosingStep, QuietStep
  DEF EInv

(* The invariant holds of all five programs, whatever they receive: the    *)
(* theorems below follow from it.                                          *)
THEOREM EInvHolds == Spec => []EInv
<1>1. QED
  BY EInvInit, EInvStep, PTL DEF Spec

-----------------------------------------------------------------------------
(* What was written is the beginning of what was encoded.                  *)
LEMMA EInvAligned == EInv => OutAligned
<1> SUFFICES ASSUME EInv PROVE OutAligned
  OBVIOUS
<1>1. /\ stream \in Seq(Nat \X Nat) /\ Unwritten \in Seq(Nat \X Nat)
      /\ Len(stream) \in Nat /\ Len(Unwritten) \in Nat
  BY UnwrittenFacts
<1>2. /\ Bytes \in Seq(Nat \X Nat) /\ Len(Bytes) = Len(stream) + Len(Unwritten)
      /\ \A i \in 1..Len(stream) : Bytes[i] = stream[i]
  BY <1>1, JoinFacts DEF Bytes
<1>3. wire \in Seq(Frames) /\ OwnType /\ Messages
  BY DEF EInv, R!IInv, R!TypeOK
<1>4. Len(Lens) = Len(sent) /\ \A k \in 1..Len(sent) : Lens[k] = FrameLen(FrameOf(sent[k]))
  BY <1>3, LensFacts
<1>5. LaidOut(Lens, Bytes)
  BY DEF EInv, Laid
<1> HIDE DEF Bytes, Lens
<1>6. stream # <<>> => stream[1] = <<1, 1>>
  <2>1. ASSUME stream # <<>> PROVE 1 \in 1..Len(stream) /\ Bytes # <<>>
    BY <1>1, <1>2, <2>1
  <2>2. QED
    BY <2>1, <1>2, <1>5 DEF LaidOut
<1>7. ASSUME NEW i \in 1..Len(stream)-1 PROVE stream[i+1] = After(stream[i])
  <2>a. Len(stream) \in Nat /\ Len(Unwritten) \in Nat /\ Len(Bytes) = Len(stream) + Len(Unwritten)
    BY <1>1, <1>2
  <2>1. i \in 1..Len(Bytes)-1 /\ i \in 1..Len(Bytes) /\ i \in 1..Len(stream) /\ i + 1 \in 1..Len(stream)
    BY <2>a
  <2>2. Bytes[i] = stream[i] /\ Bytes[i+1] = stream[i+1]
    BY <1>2, <2>1
  <2>3. Bytes[i+1] = Follows(Lens, Bytes[i]) /\ Bytes[i][1] \in 1..Len(Lens)
    BY <1>5, <2>1 DEF LaidOut
  <2>4. Lens[Bytes[i][1]] = FrameLen(FrameOf(sent[Bytes[i][1]]))
    BY <1>4, <2>3
  <2>5. QED
    BY <2>2, <2>3, <2>4 DEF Follows, After
<1>8. QED
  BY <1>6, <1>7 DEF OutAligned

LEMMA EInvWritten == EInv => AllWritten
<1> SUFFICES ASSUME EInv, pc \in {"receive", "done"}, ~broken, sent # <<>>
             PROVE  stream # <<>> /\ Last(stream) = <<Len(sent), FrameLen(FrameOf(Last(sent)))>>
  BY DEF AllWritten
<1>1. Unwritten = <<>>
  BY DEF EInv, Control
<1>2. stream \in Seq(Nat \X Nat)
  BY UnwrittenFacts
<1>3. Bytes = stream
  <2>1. stream \o <<>> = stream
    BY <1>2, ConcatEmptySeq
  <2>2. QED
    BY <1>1, <2>1 DEF Bytes
<1>4. wire \in Seq(Frames) /\ OwnType /\ Messages
  BY DEF EInv, R!IInv, R!TypeOK
<1>5. /\ Lens \in Seq(Nat) /\ Len(Lens) = Len(sent)
      /\ \A k \in 1..Len(sent) : Lens[k] = FrameLen(FrameOf(sent[k]))
  BY <1>4, LensFacts
<1>6. Len(sent) \in 1..Len(sent) /\ Len(sent) # 0
  BY <1>4 DEF OwnType
<1>7. Lens # <<>>
  BY <1>5, <1>6
<1>8. stream # <<>> /\ stream[Len(stream)] = <<Len(Lens), Lens[Len(Lens)]>>
  BY <1>3, <1>7 DEF EInv, Laid, LaidOut
<1>9. QED
  BY <1>5, <1>6, <1>8 DEF Last

LEMMA EInvAnswers == EInv => AnswersInOrder
BY DEF EInv, Paired, Matched, Waiting, AnswersInOrder

(* Frames lie end to end on the stream, none begun inside another, however *)
(* the writes are cut up and wherever one fails (sync.rs:34-42).           *)
THEOREM OutAlignedHolds == Spec => []OutAligned
<1>1. QED
  BY EInvHolds, EInvAligned, PTL

(* Who waits for a message, or came to the end, has written all that was   *)
(* encoded, unless a send failed (sync.rs:34-42).                          *)
THEOREM AllWrittenHolds == Spec => []AllWritten
<1>1. QED
  BY EInvHolds, EInvWritten, PTL

(* Every ping and every message is answered once, in their order and with  *)
(* their data (the loops of the five programs).                             *)
THEOREM AnswersInOrderHolds == Spec => []AnswersInOrder
<1>1. QED
  BY EInvHolds, EInvAnswers, PTL

(* Once a close message is sent nothing else is, if the peer also stops    *)
(* after its own.                                                          *)
THEOREM NothingAfterCloseHolds == Spec => []NothingAfterClose
<1>1. EInv => NothingAfterClose
  BY DEF EInv
<1>2. QED
  BY <1>1, EInvHolds, PTL

-----------------------------------------------------------------------------
(* What is sent is what a peer's decoder accepts.  A control frame must be *)
(* shorter than 126 and the shortest form holds up to 125 (message.rs:285, *)
(* frame.rs:25); what is echoed was held in memory, and is shorter than    *)
(* 2^63, where DataLength has no form (frame.rs:70): a Vec is shorter.     *)
ShortControl == ControlLimit = SmallMax + 1
Fits == \A j \in 1..Len(out) : DataLen(out[j]) < LargeLimit

(* A frame for a message that may be sent conforms by itself.              *)
LEMMA FrameConforms ==
  ASSUME ShortControl, Fits, wire \in Seq(Frames), NEW m, Sendable(m)
  PROVE  LET f == FrameOf(m) IN
         /\ f.rsv = 0 /\ f.opcode \in {1, 2, 8, 9, 10} /\ f.fin
         /\ f.form = FormOf(f.n) /\ f.n \in Nat /\ f.n < LargeLimit
         /\ IsControl(f.opcode) => f.form = "Small"
         /\ f.opcode = Text => f.text = "whole"
         /\ f.opcode = Close => f.n = 0
<1>1. Held(m) /\ DataLen(m) \in Nat
  BY DataLenFacts DEF Sendable
<1>2. m.data = <<>> => DataLen(m) = 0
  BY <1>1, DataLenFacts
<1>3. DataLen(m) < LargeLimit
  <2>1. 0 < LargeLimit
    BY LengthAssumption
  <2>2. ASSUME NEW j \in 1..Len(out), out[j].data = m.data PROVE DataLen(m) < LargeLimit
    <3>1. DataLen(out[j]) = DataLen(m)
      BY <2>2 DEF DataLen
    <3>2. QED
      BY <3>1 DEF Fits
  <2>3. QED
    BY <1>2, <2>1, <2>2 DEF Sendable
<1>4. IsControl(m.opcode) => DataLen(m) <= SmallMax
  <2>1. SmallMax \in Nat /\ ControlLimit = SmallMax + 1
    BY LengthAssumption DEF ShortControl
  <2>2. ASSUME NEW i \in 1..Len(wire), m.data = <<i>>, wire[i].n < ControlLimit
        PROVE  DataLen(m) <= SmallMax
    <3>1. DataLen(m) = wire[i].n
      BY <1>1, <2>2, DataLenFacts
    <3>2. QED
      BY <1>1, <2>1, <2>2, <3>1
  <2>3. QED
    BY <1>2, <2>1, <2>2 DEF Sendable
<1>5. /\ FrameOf(m).rsv = 0 /\ FrameOf(m).opcode = m.opcode /\ FrameOf(m).fin
      /\ FrameOf(m).n = DataLen(m) /\ FrameOf(m).form = FormOf(DataLen(m))
      /\ Utf8(wire, m.data) => FrameOf(m).text = "whole"
  BY DEF FrameOf
<1>6. m.opcode \in {1, 2, 8, 9, 10}
  BY DEF Sendable, Supported, Text, Binary, Close, Ping, Pong
<1>7. IsControl(m.opcode) => FormOf(DataLen(m)) = "Small"
  BY <1>4 DEF FormOf
<1>8. (m.opcode = Text => Utf8(wire, m.data)) /\ (m.opcode = Close => m.data = <<>>)
  BY DEF Sendable
<1>9. QED
  BY <1>1, <1>2, <1>3, <1>5, <1>6, <1>7, <1>8

(* Frames that are whole and conform by themselves are accepted.           *)
LEMMA WholeFrames ==
  ASSUME Len(sent) \in Nat,
         \A i \in 1..Len(sent) :
           /\ Sent[i].rsv = 0 /\ Sent[i].opcode \in {1, 2, 8, 9, 10} /\ Sent[i].fin
           /\ Sent[i].form = FormOf(Sent[i].n) /\ Sent[i].n < LargeLimit
           /\ IsControl(Sent[i].opcode) => Sent[i].form = "Small"
           /\ Sent[i].opcode = Text => Sent[i].text = "whole"
           /\ Sent[i].opcode = Close => Sent[i].n = 0
  PROVE  PeerAccepts
<1> DEFINE n == Len(sent)
<1>1. /\ \A c : Peer!IsControl(c) = IsControl(c)
      /\ \A x : Peer!FormOf(x) = FormOf(x)
      /\ Peer!Continuation = 0
  BY DEF Peer!IsControl, IsControl, Peer!Close, Close, Peer!Ping, Ping, Peer!Pong, Pong,
         Peer!FormOf, FormOf, Peer!Continuation
<1> HIDE DEF Sent
<1>2. ASSUME NEW i \in 1..n PROVE Peer!ConformsAt(i)
  <2>1. ~Peer!Unfinished(i)
    <3>1. \A j \in 1..i-1 : j \in 1..n
      OBVIOUS
    <3>2. QED
      BY <3>1 DEF Peer!Unfinished
  <2>2. Sent[i].opcode \in 0..2 \cup 8..10 /\ Sent[i].opcode # 0
    <3>1. Sent[i].opcode \in {1, 2, 8, 9, 10}
      BY <1>2
    <3>2. QED
      BY <3>1
  <2>3. QED
    BY <1>1, <2>1, <2>2 DEF Peer!ConformsAt
<1>3. ASSUME NEW i \in 1..n PROVE Peer!FramesOf(i) = {i}
  <2>1. ASSUME ~IsControl(Sent[i].opcode), NEW j \in Peer!RunTo(i) PROVE j = i
    <3>1. j \in 1..i /\ \A k \in j+1..i : IsControl(Sent[k].opcode) \/ Sent[k].opcode = 0
      BY <1>1, <2>1 DEF Peer!RunTo
    <3>2. Sent[i].opcode # 0
      <4>1. Sent[i].opcode \in {1, 2, 8, 9, 10}
        BY <1>3
      <4>2. QED
        BY <4>1
    <3>3. ~(i \in j+1..i)
      BY <3>1, <3>2, <2>1
    <3>4. QED
      BY <3>1, <3>3
  <2>2. ASSUME ~IsControl(Sent[i].opcode) PROVE i \in Peer!RunTo(i)
    BY <1>1, <2>2 DEF Peer!RunTo
  <2>3. QED
    BY <1>1, <2>1, <2>2 DEF Peer!FramesOf
<1>4. ASSUME NEW i \in 1..n, NEW d, d = [k \in 1..1 |-> i]
      PROVE  Peer!MessageNewOk(Sent, Sent[d[1]].opcode, d)
  <2>1. d[1] = i /\ Len(d) = 1 /\ i > 0
    BY <1>4
  <2>2. Peer!Source(i) = i /\ Peer!TextOf(Sent, i) = Sent[i].text
    BY <2>1 DEF Peer!Source, Peer!TextOf
  <2>3. ASSUME Sent[i].opcode = Text PROVE Peer!Utf8(Sent, d)
    <3> DEFINE b == [k \in 0..1 |-> "boundary"]
    <3>1. b \in [0..1 -> {"boundary", "mid"}] /\ b[0] = "boundary" /\ b[1] = "boundary"
      OBVIOUS
    <3>2. <<"boundary", "whole", "boundary">> \in Peer!Utf8Steps
      BY DEF Peer!Utf8Steps
    <3>3. Peer!TextOf(Sent, d[1]) = "whole"
      BY <2>1, <2>2, <2>3
    <3> HIDE DEF b
    <3>4. \A k \in 1..1 : k = 1 /\ k - 1 = 0
      OBVIOUS
    <3>5. \A k \in 1..1 : <<b[k-1], Peer!TextOf(Sent, d[k]), b[k]>> \in Peer!Utf8Steps
      BY <3>1, <3>2, <3>3, <3>4
    <3>6. QED
      BY <2>1, <3>1, <3>5 DEF Peer!Utf8
  <2>4. Sent[i].opcode = Close => Peer!CloseDataOk(Sent, d)
    BY <2>1, <2>2 DEF Peer!CloseDataOk
  <2>5. QED
    BY <2>1, <2>3, <2>4 DEF Peer!MessageNewOk, Peer!Text, Text, Peer!Close, Close
<1>5. ASSUME NEW i \in 1..n PROVE Peer!PayloadOk(i)
  <2>1. Peer!Cardinality({i}) = 1
    <3>1. Peer!Cardinality({i}) = Cardinality({i})
      BY DEF Peer!Cardinality, Cardinality
    <3>2. QED
      BY <3>1, FS_Singleton
  <2>2. \A d \in [1..1 -> {i}] : d = [k \in 1..1 |-> i]
    OBVIOUS
  <2>3. \A d \in [1..1 -> {i}] : Peer!MessageNewOk(Sent, Sent[d[1]].opcode, d)
    BY <1>4, <2>2
  <2>4. QED
    BY <1>3, <2>1, <2>3 DEF Peer!PayloadOk
<1>6. QED
  BY <1>2, <1>5 DEF PeerAccepts, Peer!WellFormed, Peer!Conformant

LEMMA EInvAccepted == ASSUME ShortControl, EInv, Fits PROVE PeerAccepts
<1>1. wire \in Seq(Frames) /\ Len(sent) \in Nat
  BY DEF EInv, R!IInv, R!TypeOK, OwnType
<1>2. \A i \in 1..Len(sent) : Sendable(sent[i]) /\ Sent[i] = FrameOf(sent[i])
  BY DEF EInv, Messages, Sent
<1>3. QED
  BY <1>1, <1>2, FrameConforms, WholeFrames

(* A peer's decoder accepts every frame sent, as long as the messages      *)
(* echoed are shorter than 2^63 (message.rs:341, 285, 45).                 *)
THEOREM PeerAcceptsHolds ==
  ASSUME ShortControl
  PROVE  Spec /\ []Fits => []PeerAccepts
<1>1. EInv /\ Fits => PeerAccepts
  BY EInvAccepted
<1>2. QED
  BY <1>1, EInvHolds, PTL
=============================================================================
