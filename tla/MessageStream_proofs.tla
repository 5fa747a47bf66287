------------------------ MODULE MessageStream_proofs ------------------------
(***************************************************************************)
(* Proofs about MessageStream, for any frames, any number of them and any  *)
(* values of the boundaries.                                               *)
(***************************************************************************)
EXTENDS MessageStream, FiniteSetTheorems, WellFoundedInduction, TLAPS

-----------------------------------------------------------------------------
(* Lengths added up (Sums).                                                *)
(* A set of numbers has a smallest one: induction over the length of a     *)
(* sequence goes by the shortest that would be a counterexample.           *)
LEMMA Smallest ==
  ASSUME NEW n \in Nat, NEW T \in SUBSET (1..n), T # {}
  PROVE  \E x \in T : \A y \in T : x <= y
<1> DEFINE R == StrictSubsetOrdering(1..n)
           U == {1..i : i \in T}
<1>1. IsWellFoundedOn(R, SUBSET (1..n))
  <2>1. IsFiniteSet(1..n)
    BY FS_Interval
  <2>2. FiniteSubsetsOf(1..n) = SUBSET (1..n)
    BY <2>1, FS_FiniteSubsetsOfFinite
  <2>3. QED
    BY <2>2, FS_StrictSubsetOrderingWellFounded
<1>2. U \subseteq SUBSET (1..n) /\ U # {}
  <2>1. \A i \in T : 1..i \subseteq 1..n
    OBVIOUS
  <2>2. QED
    BY <2>1
<1>3. \E X \in U : \A Y \in U : <<Y, X>> \notin R
  <2> HIDE DEF R, U
  <2>1. QED
    BY <1>1, <1>2, WFMin
<1>4. PICK x \in T : \A y \in T : <<1..y, 1..x>> \notin R
  BY <1>3
<1>5. ASSUME NEW y \in T PROVE x <= y
  <2>1. x \in 1..n /\ y \in 1..n
    OBVIOUS
  <2>2. SUFFICES ASSUME y < x PROVE FALSE
    BY <2>1
  <2>3. 1..y \subseteq 1..x /\ x \in 1..x /\ x \notin 1..y
    BY <2>1, <2>2
  <2>4. 1..x \in SUBSET (1..n) /\ 1..y \in SUBSET (1..n) /\ 1..y # 1..x
    BY <2>1, <2>3
  <2>5. QED
    BY <1>4, <2>3, <2>4 DEF StrictSubsetOrdering
<1>6. QED
  BY <1>5

(* Sums(lens) is the function its recursive definition asks for.           *)
Adds(sum, lens, n) ==
  sum = [k \in 0..n |-> IF k = 0 THEN 0 ELSE sum[k-1] + lens[k]]

LEMMA SumsExist ==
  ASSUME NEW lens \in Seq(Nat)
  PROVE  \A n \in 0..Len(lens) : \E sum : Adds(sum, lens, n)
<1> DEFINE T == {n \in 1..Len(lens) : ~\E sum : Adds(sum, lens, n)}
<1>1. \E sum : Adds(sum, lens, 0)
  <2> DEFINE zero == [k \in 0..0 |-> 0]
  <2>1. zero = [k \in 0..0 |-> IF k = 0 THEN 0 ELSE zero[k-1] + lens[k]]
    OBVIOUS
  <2>2. QED
    BY <2>1 DEF Adds
<1>2. T = {}
  <2>1. SUFFICES ASSUME T # {} PROVE FALSE
    OBVIOUS
  <2>2. PICK n \in T : \A m \in T : n <= m
    <3>1. Len(lens) \in Nat /\ T \in SUBSET (1..Len(lens))
      OBVIOUS
    <3> HIDE DEF T
    <3>2. QED
      BY <2>1, <3>1, Smallest
  <2>3. n \in 1..Len(lens) /\ n - 1 \in 0..Len(lens)
    BY <2>2
  <2>4. PICK sum : Adds(sum, lens, n - 1)
    <3>1. n - 1 \notin T
      <4> HIDE DEF T
      <4>1. QED
        BY <2>2, <2>3
    <3>2. QED
      BY <1>1, <2>3, <3>1
  <2> DEFINE more == [k \in 0..n |-> IF k = n THEN sum[n-1] + lens[n] ELSE sum[k]]
  <2>5. ASSUME NEW k \in 0..n
        PROVE  more[k] = IF k = 0 THEN 0 ELSE more[k-1] + lens[k]
    <3>1. CASE k = n
      BY <3>1, <2>3
    <3>2. CASE k # n
      <4>1. k \in 0..n-1 /\ more[k] = sum[k] /\ (k # 0 => more[k-1] = sum[k-1])
        BY <3>2, <2>3
      <4>2. sum[k] = IF k = 0 THEN 0 ELSE sum[k-1] + lens[k]
        BY <4>1, <2>4 DEF Adds
      <4>3. QED
        BY <4>1, <4>2
    <3>3. QED
      BY <3>1, <3>2
  <2>6. Adds(more, lens, n)
    BY <2>5, Zenon DEF Adds
  <2>7. QED
    BY <2>2, <2>6
<1>3. QED
  BY <1>1, <1>2

LEMMA SumsDef ==
  ASSUME NEW lens \in Seq(Nat)
  PROVE  /\ Sums(lens)[0] = 0
         /\ \A k \in 1..Len(lens) : Sums(lens)[k] = Sums(lens)[k-1] + lens[k]
<1>1. \E sum : Adds(sum, lens, Len(lens))
  BY SumsExist
<1>2. Sums(lens) = CHOOSE sum : Adds(sum, lens, Len(lens))
  BY DEF Sums, Adds
<1>3. Adds(Sums(lens), lens, Len(lens))
  BY <1>1, <1>2
<1>4. PICK sum : sum = Sums(lens)
  OBVIOUS
<1>5. \A k \in 0..Len(lens) : sum[k] = IF k = 0 THEN 0 ELSE sum[k-1] + lens[k]
  BY <1>3, <1>4 DEF Adds
<1>6. QED
  BY <1>4, <1>5

(* A sum is a number, and never more than a later one.                     *)
LEMMA SumsType ==
  ASSUME NEW lens \in Seq(Nat)
  PROVE  \A k \in 0..Len(lens) : Sums(lens)[k] \in Nat
<1> DEFINE T == {k \in 1..Len(lens) : Sums(lens)[k] \notin Nat}
<1>1. T = {}
  <2>1. SUFFICES ASSUME T # {} PROVE FALSE
    OBVIOUS
  <2>2. PICK n \in T : \A m \in T : n <= m
    <3>1. Len(lens) \in Nat /\ T \in SUBSET (1..Len(lens))
      OBVIOUS
    <3> HIDE DEF T
    <3>2. QED
      BY <2>1, <3>1, Smallest
  <2>3. n \in 1..Len(lens) /\ n - 1 \notin T /\ lens[n] \in Nat
    BY <2>2
  <2>4. Sums(lens)[n - 1] \in Nat
    BY <2>3, SumsDef
  <2>5. QED
    BY <2>2, <2>3, <2>4, SumsDef
<1>2. QED
  BY <1>1, SumsDef

LEMMA SumsGrow ==
  ASSUME NEW lens \in Seq(Nat), NEW j \in 0..Len(lens), NEW k \in 0..Len(lens), j <= k
  PROVE  Sums(lens)[j] <= Sums(lens)[k]
<1>1. PICK s : s = Sums(lens)
  OBVIOUS
<1>2. \A m \in 0..Len(lens) : s[m] \in Nat
  BY <1>1, SumsType
<1> DEFINE T == {m \in 1..Len(lens) : j < m /\ ~(s[j] <= s[m])}
<1>3. T = {}
  <2>1. SUFFICES ASSUME T # {} PROVE FALSE
    OBVIOUS
  <2>2. PICK n \in T : \A m \in T : n <= m
    <3>1. Len(lens) \in Nat /\ T \in SUBSET (1..Len(lens))
      OBVIOUS
    <3> HIDE DEF T
    <3>2. QED
      BY <2>1, <3>1, Smallest
  <2>3. n \in 1..Len(lens) /\ j < n /\ lens[n] \in Nat /\ ~(s[j] <= s[n])
    BY <2>2
  <2>4. n - 1 \notin T
    <3> HIDE DEF T
    <3>1. QED
      BY <2>2, <2>3
  <2>5. s[j] <= s[n - 1]
    <3>1. CASE n - 1 = j
      BY <3>1, <1>2
    <3>2. CASE n - 1 # j
      <4>1. n - 1 \in 1..Len(lens) /\ j < n - 1
        BY <3>2, <2>3
      <4>2. QED
        BY <4>1, <2>4
    <3>3. QED
      BY <3>1, <3>2
  <2>6. s[n] \in Nat /\ s[n - 1] \in Nat
    <3>1. n \in 0..Len(lens) /\ n - 1 \in 0..Len(lens)
      BY <2>3
    <3>2. QED
      BY <1>2, <3>1
  <2>8. s[n] = s[n - 1] + lens[n]
    BY <1>1, <2>3, SumsDef
  <2>9. \A a, b, l \in Nat : a <= b => a <= b + l
    OBVIOUS
  <2>10. QED
    BY <1>2, <2>3, <2>5, <2>6, <2>8, <2>9, Zenon
<1>4. s[j] <= s[k]
  <2>1. CASE k = j
    BY <2>1, <1>2
  <2>2. CASE k # j
    BY <2>2, <1>3
  <2>3. QED
    BY <2>1, <2>2
<1>5. QED
  BY <1>1, <1>4

-----------------------------------------------------------------------------
(* Frames have an opcode of four bits.                                     *)
LEMMA FrameFacts ==
  ASSUME NEW f \in Frames
  PROVE  f.opcode \in 0..15 /\ f.fin \in BOOLEAN
BY StreamAssumption DEF FrameType

(* What the steps of the decoder do to the variables, whatever the outcome.*)
LEMMA ExtendedType ==
  ASSUME TypeOK, NEW f \in Frames
  PROVE  Extended(f) \in MessageType /\ Alone(f) \in MessageType
<1>1. f.opcode \in 0..15
  BY FrameFacts
<1>2. open \in [opcode: 0..15, data: Seq(Int)] /\ pos + 1 \in Int
  BY DEF TypeOK, MessageType
<1>3. Append(open.data, pos + 1) \in Seq(Int) /\ <<pos + 1>> \in Seq(Int)
  BY <1>2
<1>4. QED
  BY <1>1, <1>2, <1>3 DEF Extended, Alone, MessageType

-----------------------------------------------------------------------------
(* The variables keep their types (TypeOK).                                *)
LEMMA TypeInit == Init => TypeOK
<1> SUFFICES ASSUME Init PROVE TypeOK
  OBVIOUS
<1> USE DEF Init
<1>1. wire \in Seq(Frames) /\ out \in Seq(MessageType)
  OBVIOUS
<1>2. Len(wire) <= MaxFrames /\ pos \in 0..Len(wire)
  BY StreamAssumption
<1>3. open \in MessageType
  BY DEF Nothing, MessageType
<1>4. QED
  BY <1>1, <1>2, <1>3 DEF TypeOK

LEMMA TypeStep == TypeOK /\ [Next]_vars => TypeOK'
<1> SUFFICES ASSUME TypeOK, [Next]_vars PROVE TypeOK'
  OBVIOUS
<1> USE DEF TypeOK
<1>1. ASSUME NEW f \in Frames, PeerSend(f) PROVE TypeOK'
  BY <1>1, StreamAssumption DEF PeerSend
<1>2. ASSUME NEW f \in Frames, Take(f),
             open' \in MessageType, out' \in Seq(MessageType), failed' \in BOOLEAN
      PROVE  TypeOK'
  BY <1>2 DEF Take
<1>3. Nothing \in MessageType
  BY DEF Nothing, MessageType
<1>4. ASSUME NEW f \in Frames, Fragment(f) PROVE TypeOK'
  BY <1>4, <1>2, ExtendedType DEF Fragment
<1>5. ASSUME NEW f \in Frames, Complete(f) PROVE TypeOK'
  BY <1>5, <1>2, <1>3, ExtendedType DEF Complete, Deliver
<1>6. ASSUME NEW f \in Frames, Control(f) PROVE TypeOK'
  BY <1>6, <1>2, ExtendedType DEF Control, Deliver
<1>7. ASSUME NEW f \in Frames, Reject(f) PROVE TypeOK'
  BY <1>7, <1>2, <1>3 DEF Reject, AfterError
<1>8. ASSUME NEW f \in Frames, GiveUp(f) PROVE TypeOK'
  BY <1>8, <1>3 DEF GiveUp, AfterError
<1>9. CASE UNCHANGED vars
  BY <1>9 DEF vars
<1>10. QED
  BY <1>1, <1>4, <1>5, <1>6, <1>7, <1>8, <1>9 DEF Next

(* The variables of the abstract decoder have their types, whatever the    *)
(* frames (MessageCodec::decode, message.rs:220-337).                      *)
THEOREM TypeCorrect == Spec => []TypeOK
BY TypeInit, TypeStep, PTL DEF Spec

-----------------------------------------------------------------------------
(* Exact alone is not inductive: that the message completed by a frame is  *)
(* an unbroken run follows from what the open message was before.          *)
IInv == TypeOK /\ Exact /\ OpenIsRun

(* A step never changes what was taken.                                    *)
PastKept == pos' \in Nat /\ pos <= pos' /\ \A i \in 1..pos : wire'[i] = wire[i]

LEMMA StepKeepsPast == TypeOK /\ [Next]_vars => PastKept
<1> SUFFICES ASSUME TypeOK, [Next]_vars PROVE PastKept
  OBVIOUS
<1> USE DEF TypeOK, PastKept
<1>1. ASSUME NEW f \in Frames, PeerSend(f) PROVE PastKept
  BY <1>1 DEF PeerSend
<1>2. ASSUME NEW f \in Frames, Take(f) PROVE PastKept
  BY <1>2 DEF Take
<1>3. ASSUME UNCHANGED <<wire, pos>> PROVE PastKept
  BY <1>3
<1>4. QED
  BY <1>1, <1>2, <1>3 DEF Next, Fragment, Complete, Control, Reject, GiveUp, vars

(* What makes d a run after a step.                                        *)
LEMMA RunAfter ==
  ASSUME NEW o, NEW d \in Seq(Int), d # <<>>,
         \A k \in 1..Len(d) : d[k] \in 1..pos' /\ LengthOk(wire'[d[k]]) /\ Supportable(wire'[d[k]]),
         o = wire'[d[1]].opcode, o # Continuation,
         \A k \in 1..Len(d)-1 :
           /\ d[k] < d[k+1] /\ wire'[d[k+1]].opcode = Continuation
           /\ ~wire'[d[k]].fin /\ Adjoining(d[k], d[k+1])'
  PROVE  IsRun(o, d)'
<1>1. (\A k \in 1..Len(d) : d[k] \in 1..pos /\ LengthOk(wire[d[k]]) /\ Supportable(wire[d[k]]))'
  OBVIOUS
<1>2. (o = wire[d[1]].opcode /\ o # Continuation)'
  OBVIOUS
<1>3. (\A k \in 1..Len(d)-1 :
         d[k] < d[k+1] /\ wire[d[k+1]].opcode = Continuation /\ ~wire[d[k]].fin)'
  OBVIOUS
<1>4. (\A k \in 1..Len(d)-1 : Adjoining(d[k], d[k+1]))'
  OBVIOUS
<1>5. QED
  BY <1>1, <1>2, <1>3, <1>4 DEF IsRun

(* So a run stays a run.                                                   *)
LEMMA RunKept ==
  ASSUME TypeOK, PastKept, NEW o, NEW d \in Seq(Int), IsRun(o, d)
  PROVE  IsRun(o, d)'
<1>1. pos \in Nat /\ pos' \in Nat /\ pos <= pos' /\ \A i \in 1..pos : wire'[i] = wire[i]
  BY DEF TypeOK, PastKept
<1>2. \A k \in 1..Len(d) : d[k] \in 1..pos /\ wire'[d[k]] = wire[d[k]]
  BY <1>1 DEF IsRun
<1>3. ASSUME NEW k \in 1..Len(d)-1 PROVE Adjoining(d[k], d[k+1])' <=> Adjoining(d[k], d[k+1])
  <2>1. k \in 1..Len(d) /\ k + 1 \in 1..Len(d)
    OBVIOUS
  <2>2. d[k] \in 1..pos /\ d[k+1] \in 1..pos
    BY <2>1, <1>2
  <2>3. \A i \in d[k]+1 .. d[k+1]-1 : wire'[i] = wire[i]
    BY <2>2, <1>1
  <2>4. QED
    BY <2>3 DEF Adjoining
<1>4. \A k \in 1..Len(d) : LengthOk(wire'[d[k]]) /\ Supportable(wire'[d[k]]) /\ d[k] \in 1..pos'
  BY <1>1, <1>2 DEF IsRun
<1>5. 1 \in 1..Len(d)
  BY DEF IsRun
<1>6. o = wire'[d[1]].opcode
  BY <1>2, <1>5 DEF IsRun
<1>7. ASSUME NEW k \in 1..Len(d)-1
      PROVE  d[k] < d[k+1] /\ wire'[d[k+1]].opcode = Continuation /\ ~wire'[d[k]].fin
  <2>1. k \in 1..Len(d) /\ k + 1 \in 1..Len(d)
    OBVIOUS
  <2>2. QED
    BY <2>1, <1>2 DEF IsRun
<1>8. d # <<>> /\ o # Continuation /\ \A k \in 1..Len(d)-1 : Adjoining(d[k], d[k+1])'
  BY <1>3 DEF IsRun
<1>9. QED
  BY <1>4, <1>6, <1>7, <1>8, RunAfter

LEMMA SingletonIsRun ==
  ASSUME TypeOK, NEW f \in Frames, Take(f), Supportable(f), f.opcode # Continuation,
         NEW d, d = <<pos + 1>>
  PROVE  IsRun(f.opcode, d)' /\ d[Len(d)] = pos + 1
<1>1. pos \in Nat /\ pos' = pos + 1 /\ wire' = wire /\ f = wire[pos + 1] /\ LengthOk(f)
  BY DEF TypeOK, Take
<1>2. d \in Seq(Int) /\ d # <<>> /\ Len(d) = 1 /\ d[1] = pos + 1
  BY <1>1
<1>3. \A k \in 1..Len(d) :
        d[k] \in 1..pos' /\ LengthOk(wire'[d[k]]) /\ Supportable(wire'[d[k]])
  <2>1. SUFFICES ASSUME NEW k \in 1..Len(d)
                 PROVE  d[k] \in 1..pos' /\ LengthOk(wire'[d[k]]) /\ Supportable(wire'[d[k]])
    OBVIOUS
  <2>2. k = 1
    BY <1>2
  <2>3. QED
    BY <2>2, <1>1, <1>2
<1>4. f.opcode = wire'[d[1]].opcode
  BY <1>1, <1>2
<1>5. 1..Len(d)-1 = {}
  BY <1>2
<1>6. IsRun(f.opcode, d)'
  BY <1>2, <1>3, <1>4, <1>5, RunAfter
<1>7. QED
  BY <1>2, <1>6

(* A data frame in its place makes a run of the open message and itself.   *)
LEMMA ExtendedIsRun ==
  ASSUME TypeOK, OpenIsRun, NEW f \in Frames, Take(f),
         Supportable(f), InPlace(f), ~IsControl(f.opcode),
         NEW m \in MessageType, m = Extended(f)
  PROVE  /\ IsRun(m.opcode, m.data)'
         /\ m.data[Len(m.data)] = pos + 1
         /\ ~IsControl(m.opcode)
<1>1. /\ pos \in Nat /\ pos < Len(wire) /\ wire \in Seq(Frames)
      /\ pos' = pos + 1 /\ wire' = wire
      /\ f = wire[pos + 1] /\ LengthOk(f)
  BY DEF TypeOK, Take
<1>2. f.opcode = Continuation <=> open # Nothing
  BY DEF InPlace
<1>3. CASE open = Nothing
  <2>1. m.opcode = f.opcode /\ m.data = <<pos + 1>>
    BY <1>3 DEF Extended, Nothing
  <2>2. f.opcode # Continuation
    BY <1>2, <1>3
  <2>3. QED
    BY <2>1, <2>2, SingletonIsRun
<1>4. CASE open # Nothing
  <2>1. PICK p \in MessageType : p = open
    BY DEF TypeOK
  <2> DEFINE l == Len(p.data)
  <2>2. m.opcode = p.opcode /\ m.data = Append(p.data, pos + 1)
    BY <1>4, <2>1 DEF Extended
  <2>3. p.data \in Seq(Int) /\ m.data \in Seq(Int)
    BY DEF MessageType
  <2>4. IsRun(p.opcode, p.data) /\ ~IsControl(p.opcode)
    BY <1>4, <2>1 DEF OpenIsRun
  <2>5. l \in Nat /\ l >= 1 /\ \A k \in 1..l : p.data[k] \in 1..pos
    BY <2>3, <2>4 DEF IsRun
  <2>6. /\ Len(m.data) = l + 1 /\ m.data[l + 1] = pos + 1
        /\ \A k \in 1..l : m.data[k] = p.data[k]
    BY <2>2, <2>3, <1>1
  <2>7. ASSUME NEW k \in 1..Len(m.data)
        PROVE  m.data[k] \in 1..pos' /\ LengthOk(wire'[m.data[k]]) /\ Supportable(wire'[m.data[k]])
    <3>1. CASE k = l + 1
      BY <3>1, <2>6, <1>1
    <3>2. CASE k # l + 1
      <4>1. k \in 1..l
        BY <3>2, <2>5, <2>6
      <4>2. LengthOk(wire[p.data[k]]) /\ Supportable(wire[p.data[k]])
        BY <4>1, <2>4 DEF IsRun
      <4>3. QED
        BY <4>1, <4>2, <2>5, <2>6, <1>1
    <3>3. QED
      BY <3>1, <3>2
  <2>8. ASSUME NEW k \in 1..Len(m.data)-1
        PROVE  /\ m.data[k] < m.data[k+1] /\ wire'[m.data[k+1]].opcode = Continuation
               /\ ~wire'[m.data[k]].fin /\ Adjoining(m.data[k], m.data[k+1])'
    <3>1. Adjoining(m.data[k], m.data[k+1])' <=> Adjoining(m.data[k], m.data[k+1])
      BY <1>1 DEF Adjoining
    <3>2. CASE k = l
      <4>1. ~wire[p.data[l]].fin /\ Adjoining(p.data[l], pos + 1)
        BY <1>4, <2>1 DEF OpenIsRun
      <4>2. m.data[k] = p.data[l] /\ m.data[k+1] = pos + 1 /\ p.data[l] \in 1..pos
        BY <3>2, <2>5, <2>6
      <4>3. QED
        BY <3>1, <4>1, <4>2, <1>1, <1>2, <1>4
    <3>3. CASE k # l
      <4>1. k \in 1..l-1 /\ k \in 1..l /\ k + 1 \in 1..l
        BY <3>3, <2>5, <2>6
      <4>2. m.data[k] = p.data[k] /\ m.data[k+1] = p.data[k+1]
        BY <4>1, <2>6
      <4>3. QED
        BY <4>1, <4>2, <3>1, <2>4, <1>1 DEF IsRun
    <3>4. QED
      BY <3>2, <3>3
  <2>9. m.data # <<>> /\ m.opcode = wire'[m.data[1]].opcode /\ m.opcode # Continuation
    <3>1. 1 \in 1..l /\ m.data[1] = p.data[1] /\ Len(m.data) # 0
      BY <2>5, <2>6
    <3>2. p.opcode = wire[p.data[1]].opcode /\ p.opcode # Continuation
      BY <2>4 DEF IsRun
    <3>3. QED
      BY <3>1, <3>2, <2>2, <2>3, <1>1
  <2>10. IsRun(m.opcode, m.data)'
    BY <2>3, <2>7, <2>8, <2>9, RunAfter
  <2>11. QED
    BY <2>2, <2>4, <2>5, <2>6, <2>10
<1>5. QED
  BY <1>3, <1>4

(* And so does a control frame of itself.                                  *)
LEMMA AloneIsRun ==
  ASSUME TypeOK, NEW f \in Frames, Take(f), Supportable(f), IsControl(f.opcode),
         NEW m \in MessageType, m = Alone(f)
  PROVE  IsRun(m.opcode, m.data)' /\ m.data[Len(m.data)] = pos + 1
<1>1. m.opcode = f.opcode /\ m.data = <<pos + 1>>
  BY DEF Alone
<1>2. f.opcode # Continuation
  BY DEF IsControl, Close, Ping, Pong, Continuation
<1>3. QED
  BY <1>1, <1>2, SingletonIsRun

-----------------------------------------------------------------------------
(* Exact, one message at a time.                                           *)
Sound(m) == IsRun(m.opcode, m.data) /\ wire[m.data[Len(m.data)]].fin

LEMMA SoundKept ==
  ASSUME TypeOK, PastKept, NEW m \in MessageType, Sound(m)
  PROVE  Sound(m)'
<1>1. IsRun(m.opcode, m.data)'
  BY RunKept DEF Sound, MessageType
<1>2. Len(m.data) \in 1..Len(m.data) /\ m.data[Len(m.data)] \in 1..pos
  BY DEF Sound, IsRun, MessageType
<1>3. wire'[m.data[Len(m.data)]].fin
  BY <1>2 DEF PastKept, Sound
<1>4. QED
  BY <1>1, <1>3 DEF Sound

LEMMA ExactKept ==
  ASSUME TypeOK, PastKept, Exact
  PROVE  /\ out' = out => Exact'
         /\ \A m \in MessageType : Sound(m)' /\ out' = Append(out, m) => Exact'
<1>1. \A k \in 1..Len(out) : out[k] \in MessageType /\ Sound(out[k])
  BY DEF TypeOK, Exact, Sound
<1>2. ASSUME NEW k \in 1..Len(out), NEW m \in MessageType, m = out[k] PROVE Sound(m)'
  BY <1>1, <1>2, SoundKept
<1>3. ASSUME out' = out PROVE Exact'
  BY <1>1, <1>2, <1>3 DEF Exact, Sound
<1>4. ASSUME NEW m \in MessageType, Sound(m)', out' = Append(out, m) PROVE Exact'
  <2>1. SUFFICES ASSUME NEW k \in 1..Len(out')
                 PROVE  \E n \in MessageType : n = out'[k] /\ Sound(n)'
    BY DEF Exact, Sound
  <2>2. out \in Seq(MessageType) /\ Len(out') = Len(out) + 1 /\ out'[Len(out) + 1] = m
        /\ \A i \in 1..Len(out) : out'[i] = out[i]
    BY <1>4 DEF TypeOK
  <2>3. CASE k = Len(out) + 1
    BY <2>2, <2>3, <1>4
  <2>4. CASE k # Len(out) + 1
    <3>1. k \in 1..Len(out)
      BY <2>2, <2>4
    <3>2. QED
      BY <3>1, <2>2, <1>1, <1>2
  <2>5. QED
    BY <2>3, <2>4
<1>5. QED
  BY <1>3, <1>4

(* What makes p the open message after a step.                             *)
LEMMA OpenAfter ==
  ASSUME NEW q \in Nat, pos' = q, NEW p, open' = p,
         NEW i \in Nat, i = p.data[Len(p.data)],
         IsRun(p.opcode, p.data)', ~IsControl(p.opcode), ~wire'[i].fin,
         \A j \in i+1 .. q : Harmless(wire'[j])
  PROVE  OpenIsRun'
<1>1. q + 1 - 1 = q
  OBVIOUS
<1>2. Adjoining(i, pos + 1)'
  BY <1>1 DEF Adjoining
<1>3. IsRun(open.opcode, open.data)'
  OBVIOUS
<1>4. Adjoining(open.data[Len(open.data)], pos + 1)'
  BY <1>2
<1>5. QED
  BY <1>3, <1>4 DEF OpenIsRun

(* The open message goes on being a run when a control frame is taken, or  *)
(* none is.                                                                *)
LEMMA OpenKept ==
  ASSUME TypeOK, OpenIsRun, PastKept, open' = open,
         pos' = pos \/ (pos' = pos + 1 /\ Harmless(wire'[pos + 1]))
  PROVE  OpenIsRun'
<1>1. SUFFICES ASSUME open # Nothing, NEW p \in MessageType, p = open PROVE OpenIsRun'
  BY DEF TypeOK, OpenIsRun
<1>2. IsRun(p.opcode, p.data) /\ ~IsControl(p.opcode)
  BY <1>1 DEF OpenIsRun
<1>3. IsRun(p.opcode, p.data)'
  BY <1>2, RunKept DEF MessageType
<1> DEFINE i == p.data[Len(p.data)]
<1>4. i \in 1..pos /\ pos \in Nat
  BY <1>2 DEF IsRun, MessageType, TypeOK
<1>5. ~wire[i].fin /\ Adjoining(i, pos + 1)
  BY <1>1 DEF OpenIsRun
<1>6. \A j \in 1..pos : wire'[j] = wire[j]
  BY DEF PastKept
<1>7. ASSUME NEW j \in i+1 .. pos' PROVE Harmless(wire'[j])
  <2>1. CASE j \in i+1 .. pos
    BY <2>1, <1>4, <1>5, <1>6 DEF Adjoining
  <2>2. CASE j \notin i+1 .. pos
    BY <2>2, <1>4
  <2>3. QED
    BY <2>1, <2>2
<1>8. ~wire'[i].fin
  BY <1>4, <1>5, <1>6
<1>9. pos' \in Nat
  BY DEF PastKept
<1>10. QED
  BY <1>1, <1>2, <1>3, <1>4, <1>7, <1>8, <1>9, OpenAfter

(* It is a run that reaches the present when a fragment has been added.    *)
LEMMA OpenExtended ==
  ASSUME TypeOK, OpenIsRun, NEW f \in Frames, Take(f),
         Supportable(f), InPlace(f), ~IsControl(f.opcode), ~f.fin,
         open' = Extended(f)
  PROVE  OpenIsRun'
<1>1. PICK m \in MessageType : m = Extended(f)
  BY ExtendedType
<1>2. /\ IsRun(m.opcode, m.data)'
      /\ m.data[Len(m.data)] = pos + 1
      /\ ~IsControl(m.opcode)
  BY <1>1, ExtendedIsRun
<1>3. pos \in Nat /\ pos' = pos + 1 /\ wire' = wire /\ f = wire[pos + 1]
  BY DEF TypeOK, Take
<1>4. ~wire'[pos + 1].fin /\ \A j \in pos+2 .. pos' : Harmless(wire'[j])
  BY <1>3
<1>5. pos + 1 + 1 = pos + 2 /\ pos' \in Nat /\ pos + 1 \in Nat
  BY <1>3
<1>6. QED
  BY <1>1, <1>2, <1>4, <1>5, OpenAfter

LEMMA IInvStep == IInv /\ [Next]_vars => IInv'
<1> SUFFICES ASSUME IInv, [Next]_vars PROVE IInv'
  OBVIOUS
<1>1. TypeOK /\ Exact /\ OpenIsRun
  BY DEF IInv
<1>2. TypeOK' /\ PastKept
  BY <1>1, TypeStep, StepKeepsPast
<1>3. ASSUME open' = Nothing PROVE OpenIsRun'
  BY <1>3 DEF OpenIsRun
<1>4. ASSUME out' = out PROVE Exact'
  BY <1>4, <1>1, <1>2, ExactKept
<1>5. ASSUME NEW f \in Frames, PeerSend(f) PROVE Exact' /\ OpenIsRun'
  BY <1>5, <1>1, <1>2, <1>4, OpenKept DEF PeerSend
<1>6. ASSUME NEW f \in Frames, Fragment(f) PROVE Exact' /\ OpenIsRun'
  <2>1. ~IsControl(f.opcode)
    BY <1>6 DEF Fragment, InPlace
  <2>2. QED
    BY <2>1, <1>6, <1>1, <1>4, OpenExtended DEF Fragment
<1>7. ASSUME NEW f \in Frames, Complete(f) PROVE Exact' /\ OpenIsRun'
  <2>1. PICK m \in MessageType : m = Extended(f)
    BY <1>1, ExtendedType
  <2>2. Sound(m)'
    <3>1. IsRun(m.opcode, m.data)' /\ m.data[Len(m.data)] = pos + 1
      BY <2>1, <1>7, <1>1, ExtendedIsRun DEF Complete
    <3>2. wire'[pos + 1].fin
      BY <1>7 DEF Complete, Take
    <3>3. QED
      BY <3>1, <3>2 DEF Sound
  <2>3. QED
    BY <2>1, <2>2, <1>7, <1>1, <1>2, <1>3, ExactKept DEF Complete, Deliver
<1>8. ASSUME NEW f \in Frames, Control(f) PROVE Exact' /\ OpenIsRun'
  <2>1. PICK m \in MessageType : m = Alone(f)
    BY <1>1, ExtendedType
  <2>2. Sound(m)'
    <3>1. IsRun(m.opcode, m.data)' /\ m.data[Len(m.data)] = pos + 1
      BY <2>1, <1>8, <1>1, AloneIsRun DEF Control
    <3>2. wire'[pos + 1].fin
      BY <1>8 DEF Control, Take, InPlace
    <3>3. QED
      BY <3>1, <3>2 DEF Sound
  <2>3. Exact'
    BY <2>1, <2>2, <1>8, <1>1, <1>2, ExactKept DEF Control, Deliver
  <2>4. OpenIsRun'
    BY <1>8, <1>1, <1>2, OpenKept DEF Control, Take, InPlace, Harmless
  <2>5. QED
    BY <2>3, <2>4
<1>9. ASSUME NEW f \in Frames, Reject(f) PROVE Exact' /\ OpenIsRun'
  <2>1. CASE open' = Nothing
    BY <2>1, <1>9, <1>3, <1>4 DEF Reject
  <2>2. CASE Supportable(f) /\ InPlace(f) /\ IsControl(f.opcode) /\ UNCHANGED open
    <3>1. Harmless(f) /\ f = wire'[pos + 1] /\ pos' = pos + 1 /\ out' = out
      BY <2>2, <1>9 DEF Reject, Take, InPlace, Harmless
    <3>2. QED
      BY <3>1, <2>2, <1>1, <1>2, <1>4, OpenKept
  <2>3. QED
    BY <2>1, <2>2, <1>9 DEF Reject, AfterError
<1>10. ASSUME NEW f \in Frames, GiveUp(f) PROVE Exact' /\ OpenIsRun'
  BY <1>10, <1>3, <1>4 DEF GiveUp, AfterError
<1>11. CASE UNCHANGED vars
  <2>1. out' = out /\ open' = open /\ pos' = pos
    BY <1>11 DEF vars
  <2>2. QED
    BY <2>1, <1>1, <1>2, <1>4, OpenKept DEF IInv
<1>12. QED
  BY <1>2, <1>5, <1>6, <1>7, <1>8, <1>9, <1>10, <1>11 DEF IInv, Next

LEMMA IInvInit == Init => IInv
<1> SUFFICES ASSUME Init PROVE IInv
  OBVIOUS
<1>1. Exact
  BY DEF Init, Exact
<1>2. OpenIsRun
  BY DEF Init, OpenIsRun
<1>3. QED
  BY <1>1, <1>2, TypeInit DEF IInv

LEMMA IInvHolds == Spec => []IInv
BY IInvInit, IInvStep, PTL DEF Spec

(* Every delivered message is one unbroken run of fragments ended by FIN,  *)
(* or one control frame (Exact).                                           *)
THEOREM ExactHolds == Spec => []Exact
<1>1. IInv => Exact
  BY DEF IInv
<1>2. QED
  BY <1>1, IInvHolds, PTL

(* The open message is a run that reaches the present (OpenIsRun).         *)
THEOREM OpenIsRunHolds == Spec => []OpenIsRun
<1>1. IInv => OpenIsRun
  BY DEF IInv
<1>2. QED
  BY <1>1, IInvHolds, PTL

-----------------------------------------------------------------------------
(* A message delivered by a step ends with the frame the step takes.       *)
LEMMA DeliveryStep ==
  ASSUME IInv, [Next]_vars
  PROVE  \/ out' = out
         \/ \E m \in MessageType : out' = Append(out, m) /\ m.data[Len(m.data)] = pos + 1
<1>1. TypeOK /\ OpenIsRun
  BY DEF IInv
<1>2. ASSUME NEW f \in Frames, Complete(f)
      PROVE  \E m \in MessageType : out' = Append(out, m) /\ m.data[Len(m.data)] = pos + 1
  <2>1. PICK m \in MessageType : m = Extended(f)
    BY <1>1, ExtendedType
  <2>2. m.data[Len(m.data)] = pos + 1
    BY <2>1, <1>2, <1>1, ExtendedIsRun DEF Complete
  <2>3. QED
    BY <2>1, <2>2, <1>2 DEF Complete, Deliver
<1>3. ASSUME NEW f \in Frames, Control(f)
      PROVE  \E m \in MessageType : out' = Append(out, m) /\ m.data[Len(m.data)] = pos + 1
  <2>1. PICK m \in MessageType : m = Alone(f)
    BY <1>1, ExtendedType
  <2>2. m.data[Len(m.data)] = pos + 1
    BY <2>1, <1>3, <1>1, AloneIsRun DEF Control
  <2>3. QED
    BY <2>1, <2>2, <1>3 DEF Control, Deliver
<1>4. QED
  BY <1>2, <1>3 DEF Next, vars, PeerSend, Fragment, Reject, GiveUp

-----------------------------------------------------------------------------
(* The decoder reports an error exactly when the peer breaks the protocol. *)
(*                                                                         *)
(* 125 and 126: the control frames that are short enough are those whose   *)
(* length has the short form (message.rs:285, frame.rs:25).                *)
ShortControl == ControlLimit = SmallMax + 1

-----------------------------------------------------------------------------
(* There is one way to put a set in order.                                 *)
Onto(s, n, R) == s \in [1..n -> R] /\ Increasing(s) /\ \A x \in R : \E k \in 1..n : s[k] = x

LEMMA UpTo ==
  ASSUME NEW n \in Nat, NEW R \in SUBSET Int, NEW s, Onto(s, n, R), NEW k \in 1..n
  PROVE  LET A == {x \in R : x <= s[k]} IN IsFiniteSet(A) /\ Cardinality(A) = k
<1> DEFINE A == {x \in R : x <= s[k]}
           f == [i \in 1..k |-> s[i]]
<1>1. /\ s \in [1..n -> R] /\ \A i, j \in 1..n : i < j => s[i] < s[j]
      /\ \A x \in R : \E i \in 1..n : s[i] = x
  BY DEF Onto, Increasing
<1>2. \A i \in 1..n : s[i] \in Int
  BY <1>1
<1>3. \A i, j \in 1..n : s[i] <= s[j] => i <= j
  BY <1>1, <1>2
<1>4. \A i \in 1..k : i \in 1..n /\ s[i] \in R /\ s[i] <= s[k]
  BY <1>1, <1>2
<1>5. f \in [1..k -> A]
  BY <1>4
<1>6. \A i, j \in 1..k : f[i] = f[j] => i = j
  <2>1. \A i, j \in 1..n : s[i] = s[j] => i = j
    BY <1>2, <1>3
  <2>2. QED
    BY <2>1, <1>4
<1>7. \A x \in A : \E i \in 1..k : f[i] = x
  <2>1. ASSUME NEW x \in A PROVE \E i \in 1..k : f[i] = x
    <3>1. PICK i \in 1..n : s[i] = x
      BY <1>1
    <3>2. i <= k
      BY <3>1, <1>3
    <3>3. i \in 1..k /\ f[i] = x
      BY <3>1, <3>2
    <3>4. QED
      BY <3>3
  <2>2. QED
    BY <2>1
<1>8. f \in Bijection(1..k, A)
  <2> HIDE DEF A, f
  <2>1. QED
    BY <1>5, <1>6, <1>7, Zenon DEF Bijection, Injection, Surjection, IsInjective
<1>9. IsFiniteSet(1..k) /\ Cardinality(1..k) = k
  BY FS_Interval
<1>10. QED
  <2> HIDE DEF A, f
  <2>1. ExistsBijection(1..k, A)
    BY <1>8 DEF ExistsBijection
  <2>2. IsFiniteSet(A) /\ Cardinality(A) = k
    BY <1>9, <2>1, FS_Bijection
  <2>3. QED
    BY <2>2 DEF A

LEMMA SameOrder ==
  ASSUME NEW n \in Nat, NEW R \in SUBSET Int, NEW s, NEW t, Onto(s, n, R), Onto(t, n, R)
  PROVE  s = t
<1> DEFINE Below(y) == {x \in R : x <= y}
<1>1. ASSUME NEW k \in 1..n PROVE s[k] = t[k]
  <2>1. s[k] \in R /\ t[k] \in R /\ s[k] \in Int /\ t[k] \in Int
    BY DEF Onto
  <2>2. IsFiniteSet(Below(s[k])) /\ Cardinality(Below(s[k])) = k
    BY UpTo
  <2>3. IsFiniteSet(Below(t[k])) /\ Cardinality(Below(t[k])) = k
    BY UpTo
  <2>4. s[k] \in Below(s[k]) /\ t[k] \in Below(t[k])
    BY <2>1
  <2>5. /\ s[k] <= t[k] => Below(s[k]) \in SUBSET Below(t[k])
        /\ t[k] <= s[k] => Below(t[k]) \in SUBSET Below(s[k])
    <3>1. \A y, z \in Int : y <= z => \A x \in R : x <= y => x <= z
      OBVIOUS
    <3>2. \A y, z \in Int : y <= z => Below(y) \in SUBSET Below(z)
      BY <3>1
    <3>3. QED
      BY <2>1, <3>2
  <2>6. Below(s[k]) = Below(t[k])
    <3> HIDE DEF Below
    <3>1. CASE s[k] <= t[k]
      BY <3>1, <2>2, <2>3, <2>5, FS_Subset
    <3>2. CASE t[k] <= s[k]
      BY <3>2, <2>2, <2>3, <2>5, FS_Subset
    <3>3. QED
      BY <3>1, <3>2, <2>1
  <2>7. QED
    BY <2>1, <2>4, <2>6
<1>2. s \in [1..n -> R] /\ t \in [1..n -> R]
  BY DEF Onto
<1>3. QED
  BY <1>1, <1>2

(* d has exactly the elements of R, in order.                              *)
Lists(d, R) == d \in Seq(Int) /\ Onto(d, Len(d), R)

LEMMA TheOrder ==
  ASSUME NEW R \in SUBSET Int, NEW d, Lists(d, R)
  PROVE  /\ IsFiniteSet(R) /\ Cardinality(R) = Len(d)
         /\ d \in [1..Cardinality(R) -> R] /\ Increasing(d)
         /\ \A s \in [1..Cardinality(R) -> R] : Increasing(s) => s = d
<1> DEFINE n == Len(d)
<1>1. n \in Nat /\ Onto(d, n, R)
  BY DEF Lists
<1> HIDE DEF n
<1>2. IsFiniteSet(1..n) /\ Cardinality(1..n) = n
  BY <1>1, FS_Interval
<1>3. ASSUME NEW s \in [1..n -> R], Increasing(s)
      PROVE  s \in Injection(1..n, R)
  <2>1. \A i, j \in 1..n : s[i] \in Int /\ (i < j => s[i] < s[j])
    BY <1>3 DEF Increasing
  <2>2. \A i, j \in 1..n : s[i] = s[j] => i = j
    BY <1>1, <2>1
  <2>3. QED
    BY <1>3, <2>2, Zenon DEF Injection, IsInjective
<1>4. d \in Bijection(1..n, R)
  <2>1. d \in [1..n -> R] /\ Increasing(d) /\ \A x \in R : \E k \in 1..n : d[k] = x
    BY <1>1 DEF Onto
  <2>2. QED
    BY <1>3, <2>1, Zenon DEF Bijection, Surjection
<1>5. IsFiniteSet(R) /\ Cardinality(R) = n
  <2>1. ExistsBijection(1..n, R)
    BY <1>4 DEF ExistsBijection
  <2>2. QED
    BY <1>2, <2>1, FS_Bijection
<1>6. ASSUME NEW s \in [1..n -> R], Increasing(s) PROVE s = d
  <2>1. s \in Injection(1..n, R)
    BY <1>6, <1>3
  <2>2. s \in Surjection(1..n, R)
    BY <2>1, <1>2, <1>5, FS_Injection
  <2>3. Onto(s, n, R)
    BY <1>6, <2>2, Zenon DEF Onto, Surjection
  <2>4. QED
    BY <1>1, <2>3, SameOrder
<1>7. QED
  BY <1>1, <1>5, <1>6 DEF n, Onto

LEMMA OneFrame ==
  ASSUME NEW i \in Int
  PROVE  Lists(<<i>>, {i})
BY DEF Lists, Onto, Increasing

-----------------------------------------------------------------------------
(* What was sent stays as it is.                                           *)
LEMMA SamePayloads ==
  ASSUME NEW w, NEW v, NEW n \in Nat, \A i \in 1..n : w[i] = v[i],
         NEW d, NEW m \in Nat \ {0}, d \in [1..m -> 1..n], NEW o
  PROVE  MessageNewOk(w, o, d) <=> MessageNewOk(v, o, d)
<1>1. Len(d) = m /\ d[1] \in 1..n /\ \A k \in 1..m : d[k] \in 1..n
  OBVIOUS
<1>2. ASSUME NEW k \in 1..m
      PROVE  TextOf(w, d[k]) = TextOf(v, d[k]) /\ w[Source(d[k])] = v[Source(d[k])]
  <2>1. d[k] \in 1..n /\ Source(d[k]) = d[k] /\ ~(d[k] < 0)
    BY DEF Source
  <2>2. QED
    BY <2>1 DEF TextOf
<1>3. Utf8(w, d) <=> Utf8(v, d)
  <2> DEFINE P(u, at, k) == \/ <<at[k-1], TextOf(u, d[k]), at[k]>> \in Utf8Steps
                            \/ u[Source(d[k])].n = 0 /\ at[k] = at[k-1]
  <2>1. \A at : \A k \in 1..m : P(w, at, k) <=> P(v, at, k)
    BY <1>2
  <2>2. \A u : Utf8(u, d) <=> \E at \in [0..m -> {"boundary", "mid"}] :
                 at[0] = "boundary" /\ at[m] = "boundary" /\ \A k \in 1..m : P(u, at, k)
    BY <1>1 DEF Utf8
  <2> HIDE DEF P
  <2>3. QED
    BY <2>1, <2>2
<1>4. CloseDataOk(w, d) <=> CloseDataOk(v, d)
  <2>1. 1 \in 1..m
    OBVIOUS
  <2>2. QED
    BY <2>1, <1>2 DEF CloseDataOk
<1>5. QED
  BY <1>3, <1>4 DEF MessageNewOk

(* A frame's set of frames is a finite set of earlier ones.                *)
LEMMA FramesOfFinite ==
  ASSUME NEW i \in Nat \ {0}
  PROVE  /\ FramesOf(i) \in SUBSET (1..i) /\ Cardinality(FramesOf(i)) \in Nat
         /\ FramesOf(i) # {} => Cardinality(FramesOf(i)) # 0
<1>1. FramesOf(i) \in SUBSET (1..i)
  BY DEF FramesOf, RunTo
<1>2. IsFiniteSet(1..i)
  BY FS_Interval
<1>3. IsFiniteSet(FramesOf(i))
  BY <1>1, <1>2, FS_Subset
<1>4. QED
  BY <1>1, <1>3, FS_CardinalityType, FS_EmptySet

LEMMA InItself ==
  ASSUME NEW i \in Nat \ {0}
  PROVE  i \in FramesOf(i)
BY DEF FramesOf, RunTo

LEMMA PayloadKept ==
  ASSUME NEW i \in Nat \ {0}, \A j \in 1..i : wire'[j] = wire[j]
  PROVE  PayloadOk(i)' <=> PayloadOk(i)
<1> DEFINE S == FramesOf(i)
           n == Cardinality(S)
<1>1. wire'[i] = wire[i]
  OBVIOUS
<1>2. FramesOf(i)' = S
  BY DEF FramesOf, RunTo
<1>3. S \in SUBSET (1..i) /\ n \in Nat \ {0}
  BY FramesOfFinite, InItself
<1> HIDE DEF S, n
<1>4. ASSUME NEW d \in [1..n -> S]
      PROVE  MessageNewOk(wire', wire'[d[1]].opcode, d) <=> MessageNewOk(wire, wire[d[1]].opcode, d)
  <2>1. d \in [1..n -> 1..i] /\ d[1] \in 1..i
    <3>1. \A k \in 1..n : d[k] \in 1..i
      BY <1>3
    <3>2. 1 \in 1..n
      BY <1>3
    <3>3. QED
      BY <3>1, <3>2
  <2>2. wire'[d[1]] = wire[d[1]]
    BY <2>1
  <2>3. QED
    BY <1>3, <2>1, <2>2, SamePayloads
<1>5. PayloadOk(i) <=> (wire[i].fin => \A d \in [1..n -> S] :
                          Increasing(d) => MessageNewOk(wire, wire[d[1]].opcode, d))
  BY DEF PayloadOk, S, n
<1>6. PayloadOk(i)' <=> (wire'[i].fin => \A d \in [1..n -> S] :
                          Increasing(d) => MessageNewOk(wire', wire'[d[1]].opcode, d))
  BY <1>2 DEF PayloadOk, n
<1>7. QED
  BY <1>1, <1>4, <1>5, <1>6

LEMMA ConformsKept ==
  ASSUME NEW i \in Nat \ {0}, \A j \in 1..i : wire'[j] = wire[j]
  PROVE  ConformsAt(i)' <=> ConformsAt(i)
<1>1. wire'[i] = wire[i]
  OBVIOUS
<1>2. ASSUME NEW j \in 1..i-1
      PROVE  wire'[j] = wire[j] /\ (DataBetween(j, i)' <=> DataBetween(j, i))
  BY DEF DataBetween
<1>3. Unfinished(i)' <=> Unfinished(i)
  BY <1>2 DEF Unfinished
<1>4. QED
  BY <1>1, <1>3 DEF ConformsAt

LEMMA WellFormedKept ==
  ASSUME NEW n \in Nat, \A j \in 1..n : wire'[j] = wire[j]
  PROVE  WellFormed(n)' <=> WellFormed(n)
<1>1. \A i \in 1..n : (ConformsAt(i)' <=> ConformsAt(i)) /\ (PayloadOk(i)' <=> PayloadOk(i))
  BY ConformsKept, PayloadKept
<1>2. QED
  BY <1>1 DEF WellFormed, Conformant

-----------------------------------------------------------------------------
(* The open message is what the wire says is unfinished, and has exactly   *)
(* the frames of that message.                                             *)
Link ==
  /\ open # Nothing <=> Unfinished(pos + 1)
  /\ open # Nothing => Lists(open.data, RunTo(pos))

(* So a frame conforms exactly if the decoder supports it where it is.     *)
LEMMA ConformsNow ==
  ASSUME ShortControl, Link, NEW f \in Frames, Take(f)
  PROVE  ConformsAt(pos + 1) <=> Supportable(f) /\ InPlace(f)
<1>1. /\ f.form \in {"Small", "Medium", "Large"} /\ f.n \in Nat /\ f.opcode \in 0..15
      /\ f.form = "Small" => f.n <= SmallMax
      /\ f.form = "Medium" => f.n <= MediumMax
  BY StreamAssumption DEF FrameType, FormMax
<1>2. f.form = FormOf(f.n) /\ f.n < LargeLimit
  <2>1. /\ f.form = "Medium" => f.n > SmallMax
        /\ f.form = "Large" => f.n > MediumMax /\ f.n < LargeLimit
    BY DEF Take, LengthOk
  <2>2. /\ SmallMax \in Nat /\ MediumMax \in Nat /\ LargeLimit \in Nat
        /\ SmallMax < MediumMax /\ MediumMax < LargeLimit
    BY LengthAssumption
  <2>3. CASE f.form = "Small"
    BY <1>1, <2>2, <2>3 DEF FormOf
  <2>4. CASE f.form = "Medium"
    BY <1>1, <2>1, <2>2, <2>4 DEF FormOf
  <2>5. CASE f.form = "Large"
    BY <1>1, <2>1, <2>2, <2>5 DEF FormOf
  <2>6. QED
    BY <1>1, <2>3, <2>4, <2>5
<1>3. f.form = "Small" <=> f.n < ControlLimit
  BY <1>1, <1>2, LengthAssumption DEF ShortControl, FormOf
<1>4. f.opcode \in Supported \cup {Continuation} <=> f.opcode \in 0..2 \cup 8..10
  BY <1>1 DEF Supported, Continuation, Text, Binary, Close, Ping, Pong
<1>5. f = wire[pos + 1]
  BY DEF Take
<1>6. ConformsAt(pos + 1) <=>
        /\ f.rsv = 0 /\ f.opcode \in 0..2 \cup 8..10
        /\ IsControl(f.opcode) => f.fin /\ f.form = "Small"
        /\ ~IsControl(f.opcode) => (f.opcode = Continuation <=> open # Nothing)
  BY <1>2, <1>5 DEF ConformsAt, Link
<1>7. QED
  BY <1>3, <1>4, <1>6 DEF Supportable, InPlace

(* The message that it ends, or is a part of, has the frames that it has   *)
(* on the wire.                                                            *)
LEMMA ExtendedLists ==
  ASSUME IInv, Link, NEW f \in Frames, Take(f), InPlace(f), ~IsControl(f.opcode)
  PROVE  /\ Lists(Extended(f).data, RunTo(pos + 1))
         /\ Extended(f).opcode = wire[Extended(f).data[1]].opcode
<1> DEFINE d == Extended(f).data
<1>1. /\ pos \in Nat /\ f = wire[pos + 1] /\ d = Append(open.data, pos + 1)
      /\ Extended(f).opcode = IF open = Nothing THEN f.opcode ELSE open.opcode
      /\ f.opcode = Continuation <=> open # Nothing
  BY DEF IInv, TypeOK, Take, Extended, InPlace
<1>2. ASSUME open = Nothing
      PROVE  Lists(d, RunTo(pos + 1)) /\ d[1] = pos + 1
  <2>1. d = <<pos + 1>>
    BY <1>1, <1>2 DEF Nothing
  <2>2. RunTo(pos + 1) = {pos + 1}
    BY <1>1, <1>2 DEF RunTo
  <2> HIDE DEF d
  <2>3. Lists(<<pos + 1>>, {pos + 1}) /\ <<pos + 1>>[1] = pos + 1
    BY <1>1, OneFrame
  <2>4. QED
    BY <2>1, <2>2, <2>3
<1>3. ASSUME open # Nothing
      PROVE  /\ Lists(d, RunTo(pos + 1)) /\ d[1] = open.data[1]
             /\ open.opcode = wire[open.data[1]].opcode
  <2> DEFINE e == open.data
             n == Len(e)
  <2>1. /\ e \in Seq(Int) /\ e \in [1..n -> RunTo(pos)]
        /\ \A j, k \in 1..n : j < k => e[j] < e[k]
        /\ \A x \in RunTo(pos) : \E k \in 1..n : e[k] = x
    BY <1>3 DEF Link, Lists, Onto, Increasing
  <2>2. IsRun(open.opcode, e)
    BY <1>3 DEF IInv, OpenIsRun
  <2>3. e # <<>> /\ open.opcode = wire[e[1]].opcode
    BY <2>2 DEF IsRun
  <2>4. RunTo(pos + 1) = RunTo(pos) \cup {pos + 1}
    BY <1>1, <1>3 DEF RunTo
  <2>5. \A x \in RunTo(pos) : x \in 1..pos
    BY DEF RunTo
  <2>6. d = Append(e, pos + 1) /\ n \in Nat
    BY <1>1, <2>1
  <2> HIDE DEF d, e
  <2>7. /\ d \in Seq(Int) /\ Len(d) = n + 1 /\ d[n+1] = pos + 1
        /\ \A k \in 1..n : d[k] = e[k]
    <3>1. \A s \in Seq(Int), x \in Int : /\ Append(s, x) \in Seq(Int) /\ Len(Append(s, x)) = Len(s) + 1
                                         /\ Append(s, x)[Len(s)+1] = x
                                         /\ \A k \in 1..Len(s) : Append(s, x)[k] = s[k]
      OBVIOUS
    <3>2. e \in Seq(Int) /\ pos + 1 \in Int
      BY <1>1, <2>1
    <3>3. QED
      BY <2>6, <3>1, <3>2
  <2>8. \A k \in 1..n : e[k] \in RunTo(pos) /\ e[k] \in 1..pos
    BY <2>1, <2>5
  <2>9. ASSUME NEW j \in 1..n+1, NEW k \in 1..n+1, j < k
        PROVE  d[j] < d[k]
    <3>1. j \in 1..n
      BY <2>6, <2>9
    <3>2. CASE k \in 1..n
      BY <2>1, <2>7, <2>9, <3>1, <3>2
    <3>3. CASE k = n + 1
      BY <1>1, <2>7, <2>8, <3>1, <3>3
    <3>4. QED
      BY <2>6, <3>2, <3>3
  <2>10. d \in [1..n+1 -> RunTo(pos + 1)]
    <3>1. \A k \in 1..n+1 : d[k] \in RunTo(pos + 1)
      BY <2>4, <2>6, <2>7, <2>8
    <3>2. QED
      BY <2>7, <3>1
  <2>11. \A x \in RunTo(pos + 1) : \E k \in 1..n+1 : d[k] = x
    <3>1. n + 1 \in 1..n+1 /\ 1..n \subseteq 1..n+1
      BY <2>6
    <3>2. QED
      BY <2>1, <2>4, <2>7, <3>1
  <2>12. Lists(d, RunTo(pos + 1))
    BY <2>7, <2>9, <2>10, <2>11 DEF Lists, Onto, Increasing
  <2>13. 1 \in 1..n
    BY <2>1, <2>3 DEF e
  <2>14. d[1] = e[1]
    BY <2>7, <2>13
  <2>15. QED
    BY <2>3, <2>12, <2>14 DEF e
<1>4. QED
  <2> HIDE DEF d
  <2>1. CASE open = Nothing
    BY <1>1, <1>2, <2>1 DEF d
  <2>2. CASE open # Nothing
    BY <1>1, <1>3, <2>2 DEF d
  <2>3. QED
    BY <2>1, <2>2

(* So has the message that a step delivers.                                *)
LEMMA FinalFrames ==
  ASSUME IInv, Link, NEW f \in Frames, Take(f), InPlace(f),
         NEW m, m = IF IsControl(f.opcode) THEN Alone(f) ELSE Extended(f)
  PROVE  Lists(m.data, FramesOf(pos + 1)) /\ m.opcode = wire[m.data[1]].opcode
<1> DEFINE R == FramesOf(pos + 1)
<1>1. f = wire[pos + 1] /\ pos + 1 \in Nat \ {0}
  BY DEF IInv, TypeOK, Take
<1>2. CASE IsControl(f.opcode)
  <2>1. m.data = <<pos + 1>> /\ R = {pos + 1} /\ m.opcode = f.opcode
    BY <1>1, <1>2 DEF Alone, FramesOf
  <2>2. m.data[1] = pos + 1
    BY <2>1
  <2> HIDE DEF R
  <2>3. QED
    BY <1>1, <2>1, <2>2, OneFrame DEF R
<1>3. CASE ~IsControl(f.opcode)
  BY <1>1, <1>3, ExtendedLists DEF FramesOf
<1>4. QED
  BY <1>2, <1>3

(* And its payload is what the protocol asks exactly if Message::new takes *)
(* it.                                                                     *)
LEMMA PayloadNow ==
  ASSUME IInv, Link, NEW f \in Frames, Take(f), InPlace(f), f.fin
  PROVE  PayloadOk(pos + 1) <=> Ok(IF IsControl(f.opcode) THEN Alone(f) ELSE Extended(f))
<1> DEFINE m == IF IsControl(f.opcode) THEN Alone(f) ELSE Extended(f)
           R == FramesOf(pos + 1)
<1>1. f = wire[pos + 1] /\ pos + 1 \in Nat \ {0}
  BY DEF IInv, TypeOK, Take
<1>2. Lists(m.data, R) /\ m.opcode = wire[m.data[1]].opcode
  BY FinalFrames
<1>3. R \in SUBSET Int
  BY <1>1, FramesOfFinite
<1>4. PayloadOk(pos + 1) <=> \A d \in [1..Cardinality(R) -> R] :
        Increasing(d) => MessageNewOk(wire, wire[d[1]].opcode, d)
  BY <1>1 DEF PayloadOk
<1> HIDE DEF m, R
<1>5. PayloadOk(pos + 1) <=> MessageNewOk(wire, m.opcode, m.data)
  BY <1>2, <1>3, <1>4, TheOrder
<1>6. QED
  BY <1>5 DEF Ok, m

-----------------------------------------------------------------------------
(* What is delivered (AllDelivered).                                       *)
LEMMA FinishedFacts ==
  ASSUME NEW n \in Nat
  PROVE  /\ IsFiniteSet(Finished(n)) /\ Cardinality(Finished(n)) \in Nat
         /\ \A i \in Finished(n) : Cardinality(Finished(i)) \in 1..Cardinality(Finished(n))
         /\ ~wire[n+1].fin => Finished(n + 1) = Finished(n)
         /\ wire[n+1].fin =>
              /\ Finished(n + 1) = Finished(n) \cup {n + 1}
              /\ Cardinality(Finished(n + 1)) = Cardinality(Finished(n)) + 1
<1>1. ASSUME NEW k \in Nat PROVE IsFiniteSet(Finished(k)) /\ Cardinality(Finished(k)) \in Nat
  <2>1. IsFiniteSet(1..k) /\ Finished(k) \in SUBSET (1..k)
    BY FS_Interval DEF Finished
  <2>2. QED
    BY <2>1, FS_Subset, FS_CardinalityType
<1>2. ASSUME NEW i \in Finished(n) PROVE Cardinality(Finished(i)) \in 1..Cardinality(Finished(n))
  <2>1. i \in 1..n /\ i \in Nat /\ i \in Finished(i) /\ Finished(i) \in SUBSET Finished(n)
    BY DEF Finished
  <2>2. Cardinality(Finished(i)) <= Cardinality(Finished(n))
    BY <1>1, <2>1, FS_Subset
  <2>3. Cardinality(Finished(i)) # 0
    BY <1>1, <2>1, FS_EmptySet
  <2>4. Cardinality(Finished(i)) \in Nat /\ Cardinality(Finished(n)) \in Nat
    BY <1>1, <2>1
  <2>5. QED
    BY <2>2, <2>3, <2>4
<1>3. 1..n+1 = 1..n \cup {n+1}
  OBVIOUS
<1>4. ~wire[n+1].fin => Finished(n + 1) = Finished(n)
  BY <1>3 DEF Finished
<1>5. ASSUME wire[n+1].fin
      PROVE  /\ Finished(n + 1) = Finished(n) \cup {n + 1}
             /\ Cardinality(Finished(n + 1)) = Cardinality(Finished(n)) + 1
  <2>1. Finished(n + 1) = Finished(n) \cup {n + 1}
    BY <1>3, <1>5 DEF Finished
  <2>2. n + 1 \notin Finished(n)
    BY DEF Finished
  <2>3. QED
    BY <1>1, <2>1, <2>2, FS_AddElement
<1>6. QED
  BY <1>1, <1>2, <1>4, <1>5

(* The messages of the first n frames are what l lists.                    *)
Listed(l, n) ==
  /\ Len(l) = Cardinality(Finished(n))
  /\ \A i \in Finished(n) : Delivers(l[Cardinality(Finished(i))], i)

LEMMA SameListed ==
  ASSUME NEW n \in Nat, \A i \in 1..n : wire'[i] = wire[i], NEW l
  PROVE  /\ \A i \in 0..n : Finished(i)' = Finished(i)
         /\ \A i \in 1..n : FramesOf(i)' = FramesOf(i)
         /\ Listed(l, n)' <=> Listed(l, n)
<1>1. \A i \in 0..n : Finished(i)' = Finished(i)
  BY DEF Finished
<1>2. ASSUME NEW i \in 1..n PROVE FramesOf(i)' = FramesOf(i)
  <2>1. i \in Nat /\ \A j \in 1..i : wire'[j] = wire[j]
    OBVIOUS
  <2>2. RunTo(i)' = RunTo(i)
    BY <2>1 DEF RunTo
  <2>3. QED
    BY <2>1, <2>2 DEF FramesOf
<1>3. Finished(n) \in SUBSET (1..n) /\ n \in 0..n
  BY DEF Finished
<1>4. \A i \in 1..n : Finished(i)' = Finished(i)
  BY <1>1
<1>5. ASSUME NEW i \in Finished(n), NEW m PROVE Delivers(m, i)' <=> Delivers(m, i)
  BY <1>2, <1>3 DEF Delivers, Increasing
<1>6. ASSUME NEW i \in Finished(n)
      PROVE  LET c == Cardinality(Finished(i)) IN Delivers(l[c], i)' <=> Delivers(l[c], i)
  BY <1>3, <1>4, <1>5
<1>7. QED
  BY <1>1, <1>2, <1>3, <1>4, <1>6 DEF Listed

(* One message more.                                                       *)
LEMMA ListedNext ==
  ASSUME NEW n \in Nat, NEW l \in Seq(MessageType), Listed(l, n),
         NEW m \in MessageType, wire[n+1].fin, Lists(m.data, FramesOf(n + 1))
  PROVE  Listed(Append(l, m), n + 1)
<1> DEFINE c(i) == Cardinality(Finished(i))
           k == Append(l, m)
<1>1. /\ c(n) \in Nat /\ \A i \in Finished(n) : c(i) \in 1..c(n)
      /\ Finished(n + 1) = Finished(n) \cup {n + 1} /\ c(n + 1) = c(n) + 1
  BY FinishedFacts
<1>2. Len(l) = c(n) /\ \A i \in Finished(n) : Delivers(l[c(i)], i)
  BY DEF Listed
<1>3. /\ Len(k) = Len(l) + 1 /\ k[Len(l) + 1] = m
      /\ \A j \in 1..Len(l) : k[j] = l[j]
  OBVIOUS
<1>4. Delivers(m, n + 1)
  <2>1. DOMAIN m.data = 1..Len(m.data)
    BY DEF MessageType
  <2>2. QED
    BY <2>1 DEF Lists, Onto, Delivers
<1> HIDE DEF k, c
<1>5. ASSUME NEW i \in Finished(n + 1) PROVE Delivers(k[c(i)], i)
  <2>1. CASE i = n + 1
    BY <1>1, <1>2, <1>3, <1>4, <2>1
  <2>2. CASE i \in Finished(n)
    BY <1>1, <1>2, <1>3, <2>2
  <2>3. QED
    BY <1>1, <2>1, <2>2
<1>6. QED
  BY <1>1, <1>2, <1>3, <1>5 DEF Listed, k, c

-----------------------------------------------------------------------------
(* The invariant.                                                          *)
Clean == ~failed => WellFormed(pos) /\ Link /\ Listed(out, pos)
CInv == IInv /\ Clean /\ AcceptsConformant

LEMMA WellFormedNext ==
  ASSUME NEW n \in Nat
  PROVE  WellFormed(n + 1) <=> WellFormed(n) /\ ConformsAt(n + 1) /\ PayloadOk(n + 1)
<1>1. 1..n+1 = 1..n \cup {n+1}
  OBVIOUS
<1>2. QED
  BY <1>1 DEF WellFormed, Conformant

LEMMA WellFormedPrefix ==
  ASSUME NEW n \in Nat, NEW i \in 1..n, WellFormed(n)
  PROVE  ConformsAt(i) /\ PayloadOk(i)
BY DEF WellFormed, Conformant

(* What a frame taken does to what is unfinished.                          *)
LEMMA UnfinishedNext ==
  ASSUME NEW n \in Nat
  PROVE  Unfinished(n + 2) <=> IF IsControl(wire[n+1].opcode) THEN Unfinished(n + 1)
                                                              ELSE ~wire[n+1].fin
<1>1. ASSUME NEW j \in 1..n
      PROVE  DataBetween(j, n + 2) <=> DataBetween(j, n + 1) \/ ~IsControl(wire[n+1].opcode)
  <2>1. j+1 .. (n+2)-1 = (j+1 .. (n+1)-1) \cup {n+1}
    OBVIOUS
  <2>2. QED
    BY <2>1 DEF DataBetween
<1>2. ~DataBetween(n + 1, n + 2)
  BY DEF DataBetween
<1>3. 1..(n+2)-1 = 1..n \cup {n+1} /\ 1..(n+1)-1 = 1..n
  OBVIOUS
<1>4. QED
  BY <1>1, <1>2, <1>3 DEF Unfinished

LEMMA SendStep ==
  ASSUME CInv, NEW f \in Frames, PeerSend(f)
  PROVE  Clean' /\ AcceptsConformant'
<1>0. wire \in Seq(Frames)
  BY DEF CInv, IInv, TypeOK
<1>n. PICK n \in Nat : n = Len(wire)
  BY <1>0
<1>1. /\ pos \in 0..n /\ wire' = Append(wire, f) /\ Len(wire') = n + 1
      /\ \A i \in 1..n : wire'[i] = wire[i]
      /\ UNCHANGED <<pos, open, failed, out>>
  BY <1>n DEF CInv, IInv, TypeOK, PeerSend
<1>2. Clean'
  <2>1. ASSUME NEW p \in 0..n, p = pos PROVE Clean'
    <3>1. p \in Nat /\ \A i \in 1..p : wire'[i] = wire[i]
      BY <1>1
    <3>2. WellFormed(p)' <=> WellFormed(p)
      BY <3>1, WellFormedKept
    <3>3. ASSUME NEW j \in 1..p PROVE DataBetween(j, p + 1)' <=> DataBetween(j, p + 1)
      BY <3>1 DEF DataBetween
    <3>4. Unfinished(p + 1)' <=> Unfinished(p + 1)
      BY <3>1, <3>3 DEF Unfinished
    <3>5. RunTo(p)' = RunTo(p)
      BY <3>1 DEF RunTo
    <3>6. Link' <=> Link
      BY <1>1, <2>1, <3>4, <3>5 DEF Link
    <3>7. Listed(out, pos)' <=> Listed(out, pos)
      <4>1. \A l : Listed(l, p)' <=> Listed(l, p)
        BY <3>1, SameListed
      <4>2. QED
        BY <1>1, <2>1, <4>1
    <3>8. QED
      BY <1>1, <2>1, <3>2, <3>6, <3>7 DEF CInv, Clean
  <2>2. QED
    BY <1>1, <2>1
<1>3. AcceptsConformant'
  <2>1. WellFormed(n)' <=> WellFormed(n)
    BY <1>1, WellFormedKept
  <2>2. WellFormed(n + 1)' => WellFormed(n)'
    <3>1. 1..n \subseteq 1..n+1
      OBVIOUS
    <3>2. QED
      BY <3>1 DEF WellFormed, Conformant
  <2>3. (\A i \in 1..n+1 : ~MayGiveUp(wire'[i])) => \A i \in 1..n : ~MayGiveUp(wire[i])
    BY <1>1
  <2>4. WellFormed(Len(wire))' <=> WellFormed(n + 1)'
    BY <1>1
  <2>5. QED
    BY <1>n, <1>1, <2>1, <2>2, <2>3, <2>4 DEF CInv, AcceptsConformant, PeerConforms
<1>4. QED
  BY <1>2, <1>3

LEMMA TakeStep ==
  ASSUME ShortControl, CInv, NEW f \in Frames, Fragment(f) \/ Complete(f) \/ Control(f)
  PROVE  Clean' /\ AcceptsConformant'
<1>1. /\ pos \in Nat /\ f = wire[pos + 1] /\ Take(f) /\ Supportable(f) /\ InPlace(f)
      /\ wire' = wire /\ pos' = pos + 1 /\ failed' = failed
  BY DEF CInv, IInv, TypeOK, Fragment, Complete, Control, Take
<1>2. AcceptsConformant' <=> AcceptsConformant
  BY <1>1 DEF AcceptsConformant, PeerConforms, WellFormed, Conformant, ConformsAt, Unfinished, DataBetween,
     PayloadOk, FramesOf, RunTo
<1>3. ASSUME ~failed PROVE WellFormed(pos)' /\ Link' /\ Listed(out, pos)'
  <2>1. WellFormed(pos) /\ Link /\ Listed(out, pos) /\ IInv
    BY <1>3 DEF CInv, Clean
  <2>2. ConformsAt(pos + 1)
    BY <1>1, <2>1, ConformsNow
  <2>3. PayloadOk(pos + 1)
    <3>1. CASE ~f.fin
      BY <1>1, <3>1 DEF PayloadOk
    <3>2. CASE f.fin
      <4>1. Ok(IF IsControl(f.opcode) THEN Alone(f) ELSE Extended(f))
        BY <3>2 DEF Fragment, Complete, Control
      <4>2. QED
        BY <1>1, <2>1, <3>2, <4>1, PayloadNow
    <3>3. QED
      BY <3>1, <3>2
  <2>4. WellFormed(pos + 1)
    BY <1>1, <2>1, <2>2, <2>3, WellFormedNext
  <2>5. ASSUME NEW p \in Nat, p = pos + 1 PROVE (WellFormed(p)' <=> WellFormed(p))
                                                /\ RunTo(p)' = RunTo(p)
                                                /\ (Unfinished(p + 1)' <=> Unfinished(p + 1))
    <3>1. WellFormed(p)' <=> WellFormed(p)
      BY <1>1, WellFormedKept
    <3>2. RunTo(p)' = RunTo(p)
      BY <1>1 DEF RunTo
    <3>3. Unfinished(p + 1)' <=> Unfinished(p + 1)
      BY <1>1 DEF Unfinished, DataBetween
    <3>4. QED
      BY <3>1, <3>2, <3>3
  <2>6. /\ WellFormed(pos)' <=> WellFormed(pos + 1)
        /\ RunTo(pos)' = RunTo(pos + 1)
        /\ Unfinished(pos + 1)' <=> Unfinished(pos + 2)
    <3>1. pos + 1 \in Nat /\ (pos + 1) + 1 = pos + 2
      BY <1>1
    <3>2. PICK p \in Nat : p = pos + 1
      BY <3>1
    <3>3. /\ WellFormed(pos)' <=> WellFormed(p)'
          /\ RunTo(pos)' = RunTo(p)'
          /\ Unfinished(pos + 1)' <=> Unfinished(p + 1)'
      BY <1>1, <3>2
    <3>4. QED
      BY <2>5, <3>1, <3>2, <3>3
  <2>7. Link'
    <3>1. Unfinished(pos + 2) <=> IF IsControl(f.opcode) THEN open # Nothing ELSE ~f.fin
      BY <1>1, <2>1, UnfinishedNext DEF Link
    <3>2. CASE IsControl(f.opcode)
      <4>1. open' = open
        BY <1>1, <3>2 DEF Fragment, Complete, Control, InPlace
      <4>2. RunTo(pos + 1) = RunTo(pos)
        BY <1>1, <3>2 DEF RunTo
      <4>3. QED
        BY <2>1, <2>6, <3>1, <3>2, <4>1, <4>2 DEF Link
    <3>3. CASE ~IsControl(f.opcode) /\ f.fin
      <4>1. open' = Nothing
        BY <3>3 DEF Fragment, Complete, Control
      <4>2. QED
        BY <2>6, <3>1, <3>3, <4>1 DEF Link
    <3>4. CASE ~IsControl(f.opcode) /\ ~f.fin
      <4>1. open' = Extended(f)
        BY <3>4 DEF Fragment, Complete, Control
      <4>2. Lists(Extended(f).data, RunTo(pos + 1))
        BY <1>1, <2>1, <3>4, ExtendedLists
      <4>3. Extended(f) # Nothing
        <5>1. open.data \in Seq(Int) /\ Extended(f).data = Append(open.data, pos + 1)
          BY <2>1 DEF IInv, TypeOK, MessageType, Extended
        <5>2. Extended(f).data # <<>>
          <6>1. \A q \in Seq(Int), x \in Int : Len(Append(q, x)) = Len(q) + 1 /\ Len(q) + 1 # 0
            OBVIOUS
          <6>2. pos + 1 \in Int
            BY <1>1
          <6>3. Len(Append(open.data, pos + 1)) # 0
            BY <5>1, <6>1, <6>2
          <6>4. Len(<<>>) = 0
            OBVIOUS
          <6>5. QED
            BY <5>1, <6>3, <6>4
        <5>3. QED
          BY <5>2 DEF Nothing
      <4>4. QED
        BY <2>6, <3>1, <3>4, <4>1, <4>2, <4>3 DEF Link
    <3>5. QED
      BY <3>2, <3>3, <3>4
  <2>8. Listed(out', pos + 1)
    <3>1. CASE ~f.fin
      <4>1. out' = out
        BY <1>1, <3>1 DEF Fragment, Complete, Control, InPlace
      <4>2. Finished(pos + 1) = Finished(pos)
        BY <1>1, <3>1, FinishedFacts
      <4>3. QED
        BY <2>1, <4>1, <4>2 DEF Listed
    <3>2. CASE f.fin
      <4>1. PICK m : m = IF IsControl(f.opcode) THEN Alone(f) ELSE Extended(f)
        OBVIOUS
      <4>2. out' = Append(out, m)
        BY <3>2, <4>1 DEF Fragment, Complete, Control, Deliver
      <4>3. m \in MessageType /\ out \in Seq(MessageType)
        <5>1. TypeOK
          BY <2>1 DEF IInv
        <5>2. QED
          BY <4>1, <5>1, ExtendedType DEF TypeOK
      <4>4. Lists(m.data, FramesOf(pos + 1))
        BY <1>1, <2>1, <4>1, FinalFrames
      <4>5. QED
        BY <1>1, <2>1, <3>2, <4>2, <4>3, <4>4, ListedNext
    <3>3. QED
      BY <3>1, <3>2
  <2>9. Listed(out, pos)'
    <3>1. PICK p \in Nat : p = pos + 1
      BY <1>1
    <3>2. PICK l : l = out'
      OBVIOUS
    <3>3. Listed(l, p)
      BY <2>8, <3>1, <3>2
    <3>4. Listed(l, p)'
      BY <1>1, <3>3, SameListed
    <3>5. QED
      BY <1>1, <3>1, <3>2, <3>4
  <2>10. QED
    BY <2>4, <2>6, <2>7, <2>9
<1>4. QED
  BY <1>1, <1>2, <1>3 DEF CInv, Clean

LEMMA RejectStep ==
  ASSUME ShortControl, CInv, NEW f \in Frames, Reject(f) \/ GiveUp(f)
  PROVE  Clean' /\ AcceptsConformant'
<1>1. /\ pos \in Nat /\ f = wire[pos + 1] /\ wire' = wire /\ failed' = TRUE
      /\ Len(wire) \in Nat /\ pos + 1 \in 1..Len(wire)
  BY DEF CInv, IInv, TypeOK, Reject, GiveUp, Take
<1>2. WellFormed(Len(wire)) => \E i \in 1..Len(wire) : MayGiveUp(wire[i])
  <2>1. CASE failed
    BY <2>1 DEF CInv, AcceptsConformant, PeerConforms
  <2>2. CASE GiveUp(f)
    BY <1>1, <2>2 DEF GiveUp
  <2>3. CASE ~failed /\ Reject(f)
    <3>1. Link /\ IInv /\ Take(f)
      BY <2>3 DEF CInv, Clean, Reject
    <3>2. SUFFICES ASSUME ConformsAt(pos + 1), PayloadOk(pos + 1) PROVE FALSE
      BY <1>1, WellFormedPrefix
    <3>3. Supportable(f) /\ InPlace(f)
      BY <3>1, <3>2, ConformsNow
    <3>4. f.fin /\ ~Ok(IF IsControl(f.opcode) THEN Alone(f) ELSE Extended(f))
      BY <2>3, <3>3 DEF Reject, InPlace
    <3>5. QED
      BY <3>1, <3>2, <3>3, <3>4, PayloadNow
  <2>4. QED
    BY <2>1, <2>2, <2>3
<1>3. WellFormed(Len(wire))' <=> WellFormed(Len(wire))
  BY <1>1 DEF WellFormed, Conformant, ConformsAt, Unfinished, DataBetween, PayloadOk, FramesOf, RunTo
<1>4. QED
  BY <1>1, <1>2, <1>3 DEF Clean, AcceptsConformant, PeerConforms

LEMMA CInvHolds == ASSUME ShortControl PROVE Spec => []CInv
<1>1. Init => CInv
  <2> SUFFICES ASSUME Init PROVE CInv
    OBVIOUS
  <2>1. pos = 0 /\ open = Nothing /\ ~failed
    BY DEF Init
  <2>2. WellFormed(pos) /\ ~Unfinished(pos + 1)
    BY <2>1 DEF WellFormed, Conformant, Unfinished
  <2>3. Listed(out, pos)
    <3>1. Finished(0) = {} /\ Len(out) = 0
      BY DEF Init, Finished
    <3>2. QED
      BY <2>1, <3>1, FS_EmptySet DEF Listed
  <2>4. QED
    BY <2>1, <2>2, <2>3, IInvInit DEF CInv, Clean, Link, AcceptsConformant, PeerConforms
<1>2. CInv /\ [Next]_vars => CInv'
  <2> SUFFICES ASSUME CInv, [Next]_vars PROVE CInv'
    OBVIOUS
  <2>1. IInv'
    BY IInvStep DEF CInv
  <2>2. CASE Next
    BY <2>1, <2>2, SendStep, TakeStep, RejectStep DEF Next, CInv
  <2>3. CASE UNCHANGED vars
    <3>1. UNCHANGED <<wire, pos, open, failed, out>>
      BY <2>3 DEF vars
    <3>2. /\ WellFormed(pos)' <=> WellFormed(pos)
          /\ WellFormed(Len(wire))' <=> WellFormed(Len(wire))
      BY <3>1 DEF WellFormed, Conformant, ConformsAt, Unfinished, DataBetween, PayloadOk, FramesOf, RunTo
    <3>3. Link' <=> Link
      BY <3>1 DEF Link, Unfinished, DataBetween, RunTo
    <3>4. Listed(out, pos)' <=> Listed(out, pos)
      BY <3>1 DEF Listed, Finished, Delivers, Increasing, FramesOf, RunTo
    <3>5. QED
      BY <2>1, <3>1, <3>2, <3>3, <3>4 DEF CInv, Clean, AcceptsConformant, PeerConforms
  <2>4. QED
    BY <2>2, <2>3
<1>3. QED
  BY <1>1, <1>2, PTL DEF Spec

(* No error was reported only if all frames taken keep to the protocol     *)
(* (RejectsNonconformant).                                                 *)
THEOREM RejectsNonconformantHolds ==
  ASSUME ShortControl
  PROVE  Spec => []RejectsNonconformant
<1>1. CInv => RejectsNonconformant
  BY DEF CInv, Clean, RejectsNonconformant
<1>2. QED
  BY <1>1, CInvHolds, PTL

(* A wire that keeps to the protocol never makes the decoder report one    *)
(* (AcceptsConformant).                                                    *)
THEOREM AcceptsConformantHolds ==
  ASSUME ShortControl
  PROVE  Spec => []AcceptsConformant
<1>1. CInv => AcceptsConformant
  BY DEF CInv
<1>2. QED
  BY <1>1, CInvHolds, PTL

(* All messages of a peer that keeps to the protocol are delivered, once   *)
(* each, in order and whole (DeliversAll).                                 *)
THEOREM DeliversAllHolds ==
  ASSUME ShortControl
  PROVE  Spec => []DeliversAll
<1>1. CInv => DeliversAll
  <2> SUFFICES ASSUME CInv, PeerConforms PROVE AllDelivered
    BY DEF DeliversAll
  <2>1. ~failed
    BY DEF CInv, AcceptsConformant
  <2>2. Listed(out, pos)
    BY <2>1 DEF CInv, Clean
  <2>3. QED
    BY <2>2 DEF Listed, AllDelivered
<1>2. QED
  BY <1>1, CInvHolds, PTL
=============================================================================
