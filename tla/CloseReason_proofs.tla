------------------------ MODULE CloseReason_proofs ------------------------
(***************************************************************************)
(* Theorems about CloseReason, for every set of reasons and of codes.      *)
(***************************************************************************)
EXTENDS CloseReason, SequenceTheorems, TLAPS

(* The message close_with_reason builds from a reason cut to n bytes.      *)
Payload(n) == <<ToU16(code) \div 256, ToU16(code) % 256>> \o Bytes(n)

(* Where the loop stands: no boundary has been passed.                     *)
Shortening ==
  /\ pc = "truncate" => s = reason /\ len = reason.n
  /\ pc = "floor" =>
       /\ s = reason /\ reason.n > MaxReason
       /\ len <= MaxReason
       /\ \A c \in reason.bounds : c <= MaxReason => c <= len
  /\ pc = "fill" => len = s.n /\ IsLongest(len)

(* What has been sent and read.                                            *)
Sent ==
  /\ pc \in {"sent", "received"} => \E b \in reason.bounds : IsLongest(b) /\ data = Payload(b)
  /\ pc = "received" =>
       received[1] = code /\ \E b \in reason.bounds : IsLongest(b) /\ received[2] = Bytes(b)

Inv == TypeOK /\ Shortening /\ Sent

-----------------------------------------------------------------------------
(* Every code names a CloseCode that stands for it (close.rs:96-147): the  *)
(* two conversions agree on all of their arms.                             *)
THEOREM CodeRoundTrips ==
  ASSUME NEW n \in Nat
  PROVE  ToU16(FromU16(n)) = n
  BY DEF ToU16, FromU16, U16Of

(* The two bytes of the code are read as they were written.                *)
LEMMA TwoBytes ==
  ASSUME NEW n \in Nat
  PROVE  /\ n \div 256 \in Nat /\ n % 256 \in Nat
         /\ (n \div 256) * 256 + (n % 256) = n
  OBVIOUS

LEMMA CodeFacts ==
  ASSUME TypeOK
  PROVE  /\ ToU16(code) \in Nat
         /\ FromU16(ToU16(code)) = code
<1>1. PICK n \in Codes : code = FromU16(n)
  BY DEF TypeOK
<1>2. n \in Nat
  BY CloseAssumption
<1>3. QED
  BY <1>1, <1>2, CodeRoundTrips

(* Two sequences with the same elements are the same, and where the        *)
(* elements of a pair followed by a sequence are.                          *)
LEMMA SameSeq ==
  ASSUME NEW a \in Seq(Int), NEW b \in Seq(Int), Len(a) = Len(b),
         \A i \in 1..Len(a) : a[i] = b[i]
  PROVE  a = b
  BY SeqEqual

LEMMA PairThen ==
  ASSUME NEW hi \in Int, NEW lo \in Int, NEW t \in Seq(Int)
  PROVE  /\ <<hi, lo>> \o t \in Seq(Int)
         /\ Len(<<hi, lo>> \o t) = Len(t) + 2
         /\ (<<hi, lo>> \o t)[1] = hi /\ (<<hi, lo>> \o t)[2] = lo
         /\ \A i \in 1..Len(t) : (<<hi, lo>> \o t)[i+2] = t[i]
<1> DEFINE p == <<hi, lo>>
<1>1. p \in Seq(Int) /\ Len(p) = 2 /\ p[1] = hi /\ p[2] = lo
  OBVIOUS
<1> HIDE DEF p
<1>2. /\ p \o t \in Seq(Int) /\ Len(p \o t) = Len(t) + 2
      /\ (p \o t)[1] = p[1] /\ (p \o t)[2] = p[2]
      /\ \A i \in 1..Len(t) : (p \o t)[i+2] = t[i]
  <2>1. Len(t) \in Nat
    BY LenProperties
  <2>2. /\ p \o t \in Seq(Int) /\ Len(p \o t) = 2 + Len(t)
        /\ \A i \in 1..2+Len(t) : (p \o t)[i] = IF i <= 2 THEN p[i] ELSE t[i-2]
    <3>1. p \in Seq(Int)
      BY <1>1
    <3>2. /\ p \o t \in Seq(Int)
          /\ Len(p \o t) = Len(p) + Len(t)
          /\ \A i \in 1..Len(p) + Len(t) :
               (p \o t)[i] = IF i <= Len(p) THEN p[i] ELSE t[i - Len(p)]
      BY <3>1, ConcatProperties
    <3>3. QED
      BY <3>2, <1>1
  <2>3. \A i \in 1..Len(t) : i+2 \in 1..2+Len(t) /\ ~(i+2 <= 2) /\ (i+2)-2 = i
    BY <2>1
  <2>4. 1 \in 1..2+Len(t) /\ 2 \in 1..2+Len(t)
    BY <2>1
  <2>5. QED
    BY <2>1, <2>2, <2>3, <2>4
<1>3. QED
  BY <1>1, <1>2 DEF p

(* A payload read back: its length, its code and its reason.               *)
LEMMA PayloadFacts ==
  ASSUME TypeOK, NEW b \in Nat
  PROVE  /\ Len(Payload(b)) = b + 2
         /\ SubSeq(Payload(b), 3, Len(Payload(b))) = Bytes(b)
         /\ FromU16(Payload(b)[1] * 256 + Payload(b)[2]) = code
         /\ Payload(b) \in Seq(Int)
<1> DEFINE hi == ToU16(code) \div 256
           lo == ToU16(code) % 256
<1>1. hi \in Nat /\ lo \in Nat /\ hi * 256 + lo = ToU16(code)
  BY CodeFacts, TwoBytes
<1>2. Bytes(b) \in Seq(Int) /\ Len(Bytes(b)) = b
  BY DEF Bytes
<1>3. Payload(b) = <<hi, lo>> \o Bytes(b)
  BY DEF Payload
<1> HIDE DEF hi, lo
<1>4. /\ Len(Payload(b)) = b + 2
      /\ Payload(b)[1] = hi /\ Payload(b)[2] = lo
      /\ Payload(b) \in Seq(Int)
      /\ \A i \in 1..b : Payload(b)[i+2] = Bytes(b)[i]
  BY <1>1, <1>2, <1>3, PairThen
<1>5. SubSeq(Payload(b), 3, Len(Payload(b))) = Bytes(b)
  <2> DEFINE t == SubSeq(Payload(b), 3, Len(Payload(b)))
  <2>1. t \in Seq(Int) /\ Len(t) = b
    BY <1>4
  <2>2. \A i \in 1..b : t[i] = Payload(b)[i+2]
    BY <1>4
  <2> HIDE DEF t
  <2>3. t = Bytes(b)
    BY <2>1, <2>2, <1>2, <1>4
  <2>4. QED
    BY <2>3 DEF t
<1>6. QED
  BY <1>1, <1>4, <1>5, CodeFacts

(* What Fill writes is a payload.                                          *)
LEMMA FillFacts ==
  ASSUME TypeOK, len = s.n
  PROVE  [CopyUp EXCEPT ![1] = ToU16(code) \div 256, ![2] = ToU16(code) % 256] = Payload(len)
<1> DEFINE hi == ToU16(code) \div 256
           lo == ToU16(code) % 256
           filled == [CopyUp EXCEPT ![1] = hi, ![2] = lo]
<1>1. len \in Nat /\ hi \in Nat /\ lo \in Nat
  BY CodeFacts, TwoBytes DEF TypeOK, Strings
<1> HIDE DEF hi, lo
<1>2. Bytes(len) \in Seq(Int) /\ Len(Bytes(len)) = len /\ \A i \in 1..len : Bytes(len)[i] = -i
  BY <1>1 DEF Bytes
<1>3. Grown \in Seq(Int) /\ Len(Grown) = len + 2 /\ \A i \in 1..len : Grown[i] = -i
  BY <1>1, <1>2 DEF Grown
<1>4. CopyUp \in Seq(Int) /\ Len(CopyUp) = len + 2 /\ \A i \in 3..len+2 : CopyUp[i] = -(i-2)
  <2>1. \A i \in 1..len+2 : (i \in 3..len+2 => i-2 \in 1..len) /\ (i \notin 3..len+2 => i \in 1..len+2)
    BY <1>1
  <2>2. \A i \in 1..len+2 : (IF i \in 3..len+2 THEN Grown[i-2] ELSE Grown[i]) \in Int
    BY <1>1, <1>3, <2>1
  <2>3. CopyUp = [i \in 1..len+2 |-> IF i \in 3..len+2 THEN Grown[i-2] ELSE Grown[i]]
    BY DEF CopyUp
  <2>4. CopyUp \in Seq(Int) /\ Len(CopyUp) = len + 2
    <3>1. len + 2 \in Nat
      BY <1>1
    <3>2. CopyUp \in [1..len+2 -> Int]
      BY <2>2, <2>3
    <3>3. QED
      BY <3>1, <3>2, SeqDef
  <2>5. \A i \in 3..len+2 : i \in 1..len+2 /\ CopyUp[i] = Grown[i-2]
    BY <1>1, <2>3
  <2>6. QED
    BY <1>1, <1>3, <2>1, <2>4, <2>5
<1>5. /\ filled \in Seq(Int) /\ Len(filled) = len + 2
      /\ filled[1] = hi /\ filled[2] = lo
      /\ \A i \in 3..len+2 : filled[i] = -(i-2)
  BY <1>1, <1>4
<1>6. /\ <<hi, lo>> \o Bytes(len) \in Seq(Int) /\ Len(<<hi, lo>> \o Bytes(len)) = len + 2
      /\ (<<hi, lo>> \o Bytes(len))[1] = hi /\ (<<hi, lo>> \o Bytes(len))[2] = lo
      /\ \A i \in 3..len+2 : (<<hi, lo>> \o Bytes(len))[i] = -(i-2)
  <2>1. \A i \in 3..len+2 : i-2 \in 1..len /\ i = (i-2)+2
    BY <1>1
  <2>2. QED
    BY <1>1, <1>2, <2>1, PairThen
<1> HIDE DEF filled
<1>7. \A i \in 1..len+2 : filled[i] = (<<hi, lo>> \o Bytes(len))[i]
  <2> TAKE i \in 1..len+2
  <2>1. i = 1 \/ i = 2 \/ i \in 3..len+2
    BY <1>1
  <2>2. QED
    BY <2>1, <1>5, <1>6
<1>8. filled = <<hi, lo>> \o Bytes(len)
  BY <1>5, <1>6, <1>7, SameSeq
<1>9. QED
  BY <1>8 DEF filled, Payload, hi, lo

(* The limit is the one of a control frame.                                *)
LEMMA LimitFacts ==
  ASSUME NEW b \in Nat
  PROVE  b + 2 < ControlLimit <=> b <= MaxReason
  BY CloseAssumption

-----------------------------------------------------------------------------
LEMMA InitInv == Init => Inv
<1> SUFFICES ASSUME Init PROVE Inv
  OBVIOUS
<1>1. reason \in Strings
  BY CloseAssumption DEF Init
<1>2. QED
  BY <1>1 DEF Init, Inv, TypeOK, Shortening, Sent, Strings

LEMMA StepInv ==
  ASSUME Inv, [Next]_vars
  PROVE  Inv'
<1> USE DEF Inv
<1>1. /\ reason \in Strings /\ s \in Strings
      /\ reason.n \in Nat /\ reason.bounds \subseteq 0..reason.n
      /\ 0 \in reason.bounds /\ reason.n \in reason.bounds
      /\ s.n \in Nat /\ s.bounds \subseteq 0..s.n /\ len \in 0..s.n
  BY CloseAssumption DEF TypeOK, Strings
<1>2. MaxReason \in Nat /\ ControlLimit = MaxReason + 3
  BY CloseAssumption
<1>3. ASSUME KeepAll PROVE Inv'
  <2>1. IsLongest(len)
    BY <1>1, <1>2, <1>3 DEF KeepAll, IsLongest, Shortening
  <2>2. QED
    BY <1>1, <1>3, <2>1 DEF KeepAll, TypeOK, Shortening, Sent, IsLongest
<1>4. ASSUME StartFloor PROVE Inv'
  BY <1>1, <1>2, <1>4 DEF StartFloor, TypeOK, Shortening, Sent
<1>5. ASSUME Floor PROVE Inv'
  <2>1. len # 0 /\ len \notin reason.bounds
    BY <1>1, <1>5 DEF Floor, AtBoundary, Shortening
  <2>2. \A c \in reason.bounds : c <= MaxReason => c <= len - 1
    BY <1>1, <1>5, <2>1 DEF Floor, Shortening
  <2>3. QED
    BY <1>1, <1>2, <1>5, <2>1, <2>2 DEF Floor, TypeOK, Shortening, Sent
<1>6. ASSUME Cut PROVE Inv'
  <2>1. s = reason /\ len \in reason.bounds /\ len <= MaxReason /\ len \in 0..reason.n
    BY <1>1, <1>6 DEF Cut, AtBoundary, Shortening
  <2>2. IsLongest(len)
    BY <1>1, <1>2, <1>6, <2>1 DEF Cut, IsLongest, Shortening
  <2>3. s' \in Strings /\ s'.n = len
    BY <1>1, <1>6, <2>1 DEF Cut, Truncated, Strings
  <2>4. TypeOK'
    BY <1>1, <1>6, <2>1, <2>3 DEF Cut, TypeOK
  <2>5. QED
    BY <1>6, <2>2, <2>3, <2>4 DEF Cut, Shortening, Sent, IsLongest
<1>7. ASSUME Fill PROVE Inv'
  <2>1. len = s.n /\ IsLongest(len) /\ len \in reason.bounds
    BY <1>7 DEF Fill, Shortening, IsLongest
  <2>2. data' = Payload(len)
    BY <1>7, <2>1, FillFacts DEF Fill
  <2>3. data' \in Seq(Int)
    BY <1>1, <2>2, PayloadFacts
  <2>4. TypeOK'
    BY <1>7, <2>3 DEF Fill, TypeOK
  <2>5. Sent'
    <3>1. pc' = "sent" /\ UNCHANGED <<code, reason, len>>
      BY <1>7 DEF Fill
    <3>2. Payload(len)' = Payload(len) /\ IsLongest(len)' = IsLongest(len)
      BY <3>1 DEF Payload, IsLongest, Bytes
    <3>3. len' \in reason.bounds' /\ IsLongest(len)' /\ data' = Payload(len)'
      BY <2>1, <2>2, <3>1, <3>2
    <3>4. QED
      BY <3>1, <3>3 DEF Sent
  <2>6. Shortening'
    BY <1>7 DEF Fill, Shortening
  <2>7. QED
    BY <2>4, <2>5, <2>6
<1>8. ASSUME AsClose PROVE Inv'
  <2>1. PICK b \in reason.bounds : IsLongest(b) /\ data = Payload(b)
    BY <1>8 DEF AsClose, Sent
  <2>2. b \in Nat
    BY <1>1
  <2>3. received' = <<code, Bytes(b)>>
    BY <1>8, <2>1, <2>2, PayloadFacts DEF AsClose, Rest
  <2>4. pc' = "received" /\ UNCHANGED <<code, reason, s, len, data>>
    BY <1>8 DEF AsClose
  <2>5. \A c : Payload(c)' = Payload(c) /\ IsLongest(c)' = IsLongest(c) /\ Bytes(c)' = Bytes(c)
    BY <2>4 DEF Payload, IsLongest, Bytes
  <2>6. Sent'
    <3>1. received'[1] = code /\ received'[2] = Bytes(b)
      BY <2>3
    <3>2. QED
      BY <2>1, <2>4, <2>5, <3>1 DEF Sent
  <2>7. TypeOK' /\ Shortening'
    BY <2>4 DEF TypeOK, Shortening
  <2>8. QED
    BY <2>6, <2>7
<1>9. CASE UNCHANGED vars
  <2>1. UNCHANGED <<pc, code, reason, s, len, data, received>>
    BY <1>9 DEF vars
  <2>2. \A c : Payload(c)' = Payload(c) /\ IsLongest(c)' = IsLongest(c)
    BY <2>1 DEF Payload, IsLongest, Bytes
  <2>3. Sent'
    BY <2>1, <2>2 DEF Sent
  <2>4. TypeOK' /\ Shortening'
    BY <2>1, <2>2 DEF TypeOK, Shortening
  <2>5. QED
    BY <2>3, <2>4
<1>10. QED
  BY <1>3, <1>4, <1>5, <1>6, <1>7, <1>8, <1>9 DEF Next, Terminated

(* The invariant holds of every string, limit and code: the theorems below *)
(* follow from it.                                                         *)
THEOREM InvHolds == Spec => []Inv
<1>1. Init => Inv
  BY InitInv
<1>2. Inv /\ [Next]_vars => Inv'
  BY StepInv
<1>3. QED
  BY <1>1, <1>2, PTL DEF Spec

(* The length that truncate_floor_char_boundary counts down never runs     *)
(* below zero, whatever the reason (message.rs:202-216).                   *)
THEOREM TypeCorrect == Spec => []TypeOK
<1>1. Inv => TypeOK
  BY DEF Inv
<1>2. QED
  BY <1>1, InvHolds, PTL

(* Every close message is taken by the peer, which reads the code and the  *)
(* longest prefix of the reason that fits (message.rs:92-105, 154-165).    *)
THEOREM CloseArrivesHolds == Spec => []CloseArrives
<1>1. Inv => CloseArrives
  <2> SUFFICES ASSUME Inv PROVE CloseArrives
    OBVIOUS
  <2>1. ASSUME pc = "sent" PROVE Accepted
    <3>1. PICK b \in reason.bounds : IsLongest(b) /\ data = Payload(b)
      BY <2>1 DEF Inv, Sent
    <3>2. b \in Nat /\ TypeOK
      BY CloseAssumption DEF Inv, TypeOK, Strings
    <3>3. Len(data) = b + 2 /\ Rest = Bytes(b)
      BY <3>1, <3>2, PayloadFacts DEF Rest
    <3>4. b + 2 < ControlLimit
      BY <3>1 DEF IsLongest
    <3>5. Len(Bytes(b)) = b
      BY <3>2 DEF Bytes
    <3>6. IsText(Rest)
      BY <3>3, <3>5 DEF IsText
    <3>7. QED
      BY <3>2, <3>3, <3>4, <3>6 DEF Accepted
  <2>2. QED
    BY <2>1 DEF Inv, Sent, CloseArrives
<1>2. QED
  BY <1>1, InvHolds, PTL
=============================================================================
