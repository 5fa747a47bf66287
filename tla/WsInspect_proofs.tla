-------------------------- MODULE WsInspect_proofs --------------------------
(***************************************************************************)
(* wsinspect reads every header where a frame begins and says what is true *)
(* of the file, for any frames, any size of its buffer and any limit of    *)
(* the file system.  What is known of lengths added up is proved in        *)
(* MessageStream_proofs, of which nothing else is used.                    *)
(***************************************************************************)
EXTENDS WsInspect, TLAPS

W == INSTANCE MessageStream_proofs WITH
       wire <- frames, pos <- k, open <- <<>>, out <- <<>>, failed <- FALSE

(* The constants are as the facts about W assume.                          *)
LEMMA Assumed == W!StreamAssumption /\ W!LengthAssumption
BY InspectAssumption, LengthAssumption
DEF W!FrameType, FrameType, W!FormMax, FormMax, W!TextClasses, TextClasses

-----------------------------------------------------------------------------
(* Where the frames begin.                                                 *)
LEMMA HeaderFacts ==
  ASSUME NEW f \in Frames
  PROVE  /\ HeaderLen(f) \in Nat /\ HeaderLen(f) >= 2 /\ HeaderLen(f) <= BufSize
         /\ f.n \in Nat
<1>1. f.form \in {"Small", "Medium", "Large"} /\ f.n \in Nat
  BY InspectAssumption DEF FrameType, FormMax
<1> DEFINE a == ExtendedLen[f.form]
           b == IF f.mask THEN 4 ELSE 0
<1>2. a \in Nat
  BY <1>1 DEF ExtendedLen
<1>3. b \in {0, 4}
  OBVIOUS
<1>4. HeaderLen(f) = 2 + a + b
  BY DEF HeaderLen
<1>5. HeaderLen(f) <= BufSize
  BY InspectAssumption
<1> HIDE DEF a, b
<1>6. QED
  BY <1>1, <1>2, <1>3, <1>4, <1>5

LEMMA StartFacts ==
  ASSUME frames \in Seq(Frames)
  PROVE  /\ Start(1) = 0
         /\ \A i \in 1..Len(frames)+1 : Start(i) \in Nat
         /\ \A i \in 1..Len(frames) : Start(i + 1) = Start(i) + (HeaderLen(frames[i]) + frames[i].n)
         /\ \A i, j \in 1..Len(frames)+1 : i <= j => Start(i) <= Start(j)
<1>1. PICK n \in Nat : n = Len(frames) /\ DOMAIN frames = 1..n
  OBVIOUS
<1>2. \A i \in 1..n : frames[i] \in Frames
  BY <1>1
<1>3. \A i \in 1..n : HeaderLen(frames[i]) \in Nat /\ frames[i].n \in Nat
  BY <1>2, HeaderFacts
<1> DEFINE lens == [j \in 1..n |-> FrameLen(frames[j])]
<1>4. \A i \in 1..n : FrameLen(frames[i]) \in Nat /\ FrameLen(frames[i]) = HeaderLen(frames[i]) + frames[i].n
  BY <1>3 DEF FrameLen
<1>5. lens \in Seq(Nat) /\ Len(lens) = n /\ \A i \in 1..n : lens[i] = FrameLen(frames[i])
  BY <1>4
<1>6. \A i : Start(i) = Sums(lens)[i - 1]
  BY <1>1 DEF Start
<1> HIDE DEF lens
<1>7. Sums(lens) = W!Sums(lens)
  BY DEF Sums, W!Sums
<1>8. PICK s : s = Sums(lens)
  OBVIOUS
<1>9. \A i \in 0..n : s[i] \in Nat
  BY <1>5, <1>7, <1>8, W!SumsType, Assumed
<1>10. s[0] = 0
  BY <1>5, <1>7, <1>8, W!SumsDef, Assumed
<1>11. \A i \in 1..n : s[i] = s[i-1] + lens[i]
  BY <1>5, <1>7, <1>8, W!SumsDef, Assumed
<1>12. \A i, j \in 0..n : i <= j => s[i] <= s[j]
  BY <1>5, <1>7, <1>8, W!SumsGrow, Assumed
<1>13. \A i : Start(i) = s[i - 1]
  BY <1>6, <1>8
<1>14. \A i \in 1..n+1 : i - 1 \in 0..n
  OBVIOUS
<1>15. ASSUME NEW i \in 1..n
       PROVE  Start(i + 1) = Start(i) + (HeaderLen(frames[i]) + frames[i].n)
  <2>1. s[i] = s[i-1] + lens[i]
    BY <1>11
  <2>2. (i + 1) - 1 = i
    OBVIOUS
  <2>3. Start(i + 1) = s[i] /\ Start(i) = s[i-1]
    BY <1>13, <2>2
  <2>4. lens[i] = HeaderLen(frames[i]) + frames[i].n
    BY <1>4, <1>5
  <2>5. QED
    BY <2>1, <2>3, <2>4
<1>16. ASSUME NEW i \in 1..n+1, NEW j \in 1..n+1, i <= j PROVE Start(i) <= Start(j)
  <2>1. i - 1 <= j - 1
    BY <1>16
  <2>2. QED
    BY <2>1, <1>12, <1>13, <1>14
<1>17. \A i \in 1..n+1 : Start(i) \in Nat
  BY <1>9, <1>13, <1>14
<1>18. Start(1) = 0
  BY <1>10, <1>13
<1>19. QED
  BY <1>1, <1>15, <1>16, <1>17, <1>18

(* The header of frame i lies before its payload, and that before the next.*)
H(i) == HeaderLen(frames[i])

LEMMA FrameSpan ==
  ASSUME frames \in Seq(Frames), NEW i \in 1..Len(frames)
  PROVE  /\ Start(i) \in Nat /\ Start(i + 1) \in Nat
         /\ H(i) \in Nat /\ H(i) >= 2 /\ H(i) <= BufSize /\ frames[i].n \in Nat
         /\ Start(i + 1) = Start(i) + H(i) + frames[i].n
         /\ Start(i) + H(i) <= Start(i + 1) /\ Start(i) + H(i) > Start(i)
<1>1. frames[i] \in Frames /\ i \in 1..Len(frames)+1 /\ i + 1 \in 1..Len(frames)+1
  OBVIOUS
<1>2. H(i) \in Nat /\ H(i) >= 2 /\ H(i) <= BufSize /\ frames[i].n \in Nat
  BY <1>1, HeaderFacts DEF H
<1>3. Start(i) \in Nat /\ Start(i + 1) \in Nat
  BY <1>1, StartFacts
<1>4. Start(i + 1) = Start(i) + (H(i) + frames[i].n)
  BY StartFacts DEF H
<1>5. PICK a \in Nat : a = Start(i)
  BY <1>3
<1>6. PICK b \in Nat : b = H(i) /\ b >= 2
  BY <1>2
<1>7. PICK c \in Nat : c = frames[i].n
  BY <1>2
<1>8. PICK d \in Nat : d = Start(i + 1) /\ d = a + (b + c)
  BY <1>3, <1>4, <1>5, <1>6, <1>7
<1>9. d = a + b + c /\ a + b <= d /\ a + b > a
  <2>1. b >= 2
    BY <1>6
  <2>2. d = a + (b + c)
    BY <1>8
  <2>3. d = a + b + c
    BY <2>2
  <2>4. a + b <= d
    BY <2>2
  <2>5. a + b > a
    BY <2>1
  <2>6. QED
    BY <2>3, <2>4, <2>5
<1>10. QED
  BY <1>2, <1>3, <1>5, <1>6, <1>7, <1>8, <1>9

-----------------------------------------------------------------------------
(* What is true of a file that ends between the beginnings of two frames.  *)
LEMMA EndsInFrame ==
  ASSUME frames \in Seq(Frames), len \in Nat,
         NEW j \in 1..Len(frames), Start(j) < len, len < Start(j + 1)
  PROVE  /\ ~\E i \in 1..Len(frames)+1 : len = Start(i)
         /\ \A i \in 1..Len(frames) :
              i # j => ~(Start(i) < len /\ len < Start(i) + H(i))
<1>1. Len(frames) \in Nat /\ j \in 1..Len(frames)+1 /\ j + 1 \in 1..Len(frames)+1
  OBVIOUS
<1>2. Start(j) \in Nat /\ Start(j + 1) \in Nat
  BY <1>1, StartFacts
<1>3. ASSUME NEW i \in 1..Len(frames)+1 PROVE len # Start(i)
  <2>1. Start(i) \in Nat
    BY StartFacts
  <2>2. i <= j \/ j + 1 <= i
    BY <1>1
  <2>3. Start(i) <= Start(j) \/ Start(j + 1) <= Start(i)
    BY <1>1, <2>2, StartFacts
  <2>4. QED
    BY <1>2, <2>1, <2>3
<1>4. ASSUME NEW i \in 1..Len(frames), i # j PROVE ~(Start(i) < len /\ len < Start(i) + H(i))
  <2>1. Start(i) \in Nat /\ Start(i + 1) \in Nat /\ H(i) \in Nat
    BY FrameSpan
  <2>2. Start(i) + H(i) <= Start(i + 1)
    BY FrameSpan
  <2>3. i \in 1..Len(frames)+1 /\ i + 1 \in 1..Len(frames)+1 /\ (i + 1 <= j \/ j + 1 <= i)
    BY <1>1, <1>4
  <2>4. Start(i + 1) <= Start(j) \/ Start(j + 1) <= Start(i)
    BY <1>1, <2>3, StartFacts
  <2>5. \A a, b, c, l, x, y \in Nat :
          a + b <= c /\ x < l /\ l < y /\ (c <= x \/ y <= a) => ~(a < l /\ l < a + b)
    OBVIOUS
  <2>6. QED
    BY <1>2, <2>1, <2>2, <2>4, <2>5, Zenon
<1>5. QED
  BY <1>3, <1>4

LEMMA TruthOk ==
  ASSUME NEW i \in 1..Len(frames)+1, len = Start(i)
  PROVE  Truth = "ok"
BY DEF Truth

LEMMA TruthAdditional ==
  ASSUME frames \in Seq(Frames), len \in Nat,
         NEW j \in 1..Len(frames), Start(j) < len, len < Start(j) + H(j)
  PROVE  Truth = "additional"
<1>1. len < Start(j + 1)
  <2>1. Start(j) \in Nat /\ Start(j + 1) \in Nat /\ H(j) \in Nat /\ Start(j) + H(j) <= Start(j + 1)
    BY FrameSpan
  <2>2. \A a, b, c, l \in Nat : l < a + b /\ a + b <= c => l < c
    OBVIOUS
  <2>3. QED
    BY <2>1, <2>2, Zenon
<1>2. ~\E i \in 1..Len(frames)+1 : len = Start(i)
  BY <1>1, EndsInFrame
<1>3. QED
  BY <1>2 DEF Truth, H

LEMMA TruthIncomplete ==
  ASSUME frames \in Seq(Frames), len \in Nat,
         NEW j \in 1..Len(frames), Start(j) + H(j) <= len, len < Start(j + 1)
  PROVE  Truth = "incomplete"
<1>1. Start(j) < len /\ ~(len < Start(j) + H(j))
  <2>1. Start(j) \in Nat /\ H(j) \in Nat /\ H(j) >= 2
    BY FrameSpan
  <2>2. \A a, b, l \in Nat : b >= 2 /\ a + b <= l => a < l /\ ~(l < a + b)
    OBVIOUS
  <2>3. QED
    BY <2>1, <2>2, Zenon
<1>2. ~\E i \in 1..Len(frames)+1 : len = Start(i)
  BY <1>1, EndsInFrame
<1>3. \A i \in 1..Len(frames) : ~(Start(i) < len /\ len < Start(i) + H(i))
  BY <1>1, EndsInFrame
<1>4. QED
  BY <1>2, <1>3 DEF Truth, H

-----------------------------------------------------------------------------
(* What the state of inspect says of the file.                             *)
OwnType ==
  /\ frames \in Seq(Frames) /\ dump \in BOOLEAN
  /\ len \in Nat /\ len <= Start(Len(frames) + 1) /\ len <= SeekMax
  /\ pos \in Nat /\ filled \in Nat /\ prev \in Nat /\ left \in Nat
  /\ k \in 0..Len(frames)

(* A part of the next header is buffered.                                  *)
Partial == filled > 0 /\ k < Len(frames) /\ filled < H(k + 1)

(* Between two frames.  What is buffered there was all that a read gave,   *)
(* unless a payload was copied out of the buffer before.                   *)
Between ==
  /\ pc \in {"decode", "finish"} => pos = Start(k + 1) /\ pos + filled <= len
  /\ pc = "decode" =>
       /\ prev = 0 \/ (prev = filled /\ Partial)
       /\ dump \/ filled = 0 \/ filled = Smaller(BufSize, len - pos)
  /\ pc = "finish" =>
       \/ filled = 0 /\ pos = len
       \/ Partial /\ (dump \/ pos + filled = len)

(* In the payload of frame k.                                              *)
Inside ==
  pc \in {"skip", "copy"} =>
    /\ k >= 1 /\ prev = 0 /\ pos + filled <= len
    /\ pos + left = Start(k + 1) /\ Start(k) + H(k) <= pos
    /\ dump <=> pc = "copy"

Told == (pc # "done" => result = "none") /\ Verdict

WInv == OwnType /\ Between /\ Inside /\ Told

LEMMA FillFacts ==
  ASSUME pos \in Nat, filled \in Nat, len \in Nat, pos + filled <= len
  PROVE  /\ FillBuf \in Nat /\ pos + FillBuf <= len
         /\ filled > 0 => FillBuf = filled
         /\ filled = 0 => FillBuf = Smaller(BufSize, len - pos)
         /\ filled = 0 /\ pos = len => FillBuf = 0
         /\ FillBuf = 0 /\ BufSize > 0 => filled = 0 /\ pos = len
<1>1. BufSize \in Nat
  BY InspectAssumption
<1>2. CASE pos < len
  BY <1>1, <1>2 DEF FillBuf, Smaller, Rest
<1>3. CASE pos = len
  BY <1>1, <1>3 DEF FillBuf, Smaller, Rest
<1>4. QED
  BY <1>2, <1>3

LEMMA FileFacts ==
  ASSUME OwnType
  PROVE  /\ Len(frames) \in Nat /\ k \in Nat /\ k <= Len(frames)
         /\ \A i \in 1..Len(frames)+1 : Start(i) \in Nat
         /\ Start(1) = 0
         /\ k + 1 \in 1..Len(frames)+1
         /\ k < Len(frames) => k + 1 \in 1..Len(frames)
         /\ Len(frames) > 0 => BufSize > 0
<1>1. frames \in Seq(Frames) /\ k \in 0..Len(frames)
  BY DEF OwnType
<1>2. Len(frames) \in Nat
  BY <1>1
<1>3. ASSUME Len(frames) > 0 PROVE BufSize > 0
  <2>1. 1 \in 1..Len(frames)
    BY <1>2, <1>3
  <2>2. H(1) \in Nat /\ H(1) >= 2 /\ H(1) <= BufSize
    BY <1>1, <2>1, FrameSpan
  <2>3. BufSize \in Nat
    BY InspectAssumption
  <2>4. QED
    BY <2>2, <2>3
<1>4. k \in Nat /\ k <= Len(frames) /\ k + 1 \in 1..Len(frames)+1 /\ (k < Len(frames) => k + 1 \in 1..Len(frames))
  BY <1>1, <1>2
<1>5. QED
  BY <1>1, <1>2, <1>3, <1>4, StartFacts

(* Nothing more can be read only at the end of the file.                   *)
LEMMA Exhausted ==
  ASSUME OwnType, Between, pc \in {"decode", "finish"}, FillBuf = 0
  PROVE  filled = 0 /\ pos = len
<1>1. pos \in Nat /\ filled \in Nat /\ len \in Nat /\ pos + filled <= len
  BY DEF OwnType, Between
<1>2. CASE BufSize > 0
  BY <1>1, <1>2, FillFacts
<1>3. CASE ~(BufSize > 0)
  <2>1. Len(frames) = 0
    BY <1>3, FileFacts
  <2>2. len <= Start(1) /\ Start(1) = 0
    BY <2>1, FileFacts DEF OwnType
  <2>3. QED
    BY <1>1, <2>2
<1>4. QED
  BY <1>2, <1>3

(* Whoever gets more bytes is at a frame.                                  *)
LEMMA MoreToCome ==
  ASSUME OwnType, Between, pc = "decode", ~NoMore(FillBuf)
  PROVE  k < Len(frames) /\ k + 1 \in 1..Len(frames) /\ (prev = 0 /\ FillBuf > 0)
<1>1. pos \in Nat /\ filled \in Nat /\ len \in Nat /\ pos + filled <= len /\ pos = Start(k + 1)
  BY DEF OwnType, Between
<1>2. FillBuf # prev /\ FillBuf \in Nat
  BY <1>1, FillFacts DEF NoMore
<1>3. prev = 0
  <2>1. ~(prev = filled /\ filled > 0)
    BY <1>1, <1>2, FillFacts
  <2>2. QED
    BY <2>1 DEF Between, Partial
<1>4. k < Len(frames)
  <2>1. SUFFICES ASSUME k = Len(frames) PROVE FALSE
    BY FileFacts
  <2>2. len <= pos
    BY <1>1, <2>1 DEF OwnType
  <2>3. filled = 0 /\ pos = len
    BY <1>1, <2>2
  <2>4. FillBuf = 0
    BY <1>1, <2>3, FillFacts
  <2>5. QED
    BY <1>2, <1>3, <2>4
<1>5. QED
  BY <1>2, <1>3, <1>4, FileFacts

LEMMA WInvInit == Init => WInv
<1> SUFFICES ASSUME Init PROVE WInv
  OBVIOUS
<1>1. PICK n \in 0..MaxFrames : frames \in [1..n -> Frames]
  BY DEF Init
<1>2. frames \in Seq(Frames) /\ Len(frames) = n /\ n \in Nat
  BY <1>1, InspectAssumption
<1>3. Start(Len(frames) + 1) \in Nat /\ Start(1) = 0
  <2>1. Len(frames) + 1 \in 1..Len(frames)+1
    BY <1>2
  <2>2. QED
    BY <1>2, <2>1, StartFacts
<1>4. SeekMax \in Nat
  BY InspectAssumption, LengthAssumption DEF I64Max
<1>5. len \in Nat /\ len <= Start(Len(frames) + 1) /\ len <= SeekMax
  <2>1. CASE Start(Len(frames) + 1) < SeekMax
    <3>1. len \in 0..Start(Len(frames) + 1)
      BY <2>1 DEF Init
    <3>2. QED
      BY <3>1, <2>1, <1>3, <1>4
  <2>2. CASE ~(Start(Len(frames) + 1) < SeekMax)
    <3>1. len \in 0..SeekMax
      BY <2>2 DEF Init
    <3>2. QED
      BY <3>1, <2>2, <1>3, <1>4
  <2>3. QED
    BY <2>1, <2>2
<1>6. pc = "decode" /\ pos = 0 /\ filled = 0 /\ prev = 0 /\ k = 0 /\ left = 0 /\ result = "none" /\ dump \in BOOLEAN
  BY DEF Init
<1>7. k \in 0..Len(frames) /\ k + 1 = 1
  BY <1>2, <1>6
<1>8. OwnType
  BY <1>2, <1>5, <1>6, <1>7 DEF OwnType
<1>9. Between
  BY <1>3, <1>5, <1>6, <1>7 DEF Between
<1>10. Inside /\ Told
  BY <1>6 DEF Inside, Told, Verdict
<1>11. QED
  BY <1>8, <1>9, <1>10 DEF WInv

-----------------------------------------------------------------------------
(* The file stays as it is.                                                *)
LEMMA FileKept ==
  ASSUME UNCHANGED file
  PROVE  /\ frames' = frames /\ len' = len /\ dump' = dump /\ Truth' = Truth
         /\ \A i : Start(i)' = Start(i) /\ H(i)' = H(i)
<1>1. frames' = frames /\ len' = len /\ dump' = dump
  BY DEF file
<1>2. \A i : Start(i)' = Start(i) /\ H(i)' = H(i)
  BY <1>1 DEF Start, H
<1>3. Truth' = Truth
  BY <1>1 DEF Truth, Start
<1>4. QED
  BY <1>1, <1>2, <1>3

LEMMA DecodeNoneStep == WInv /\ DecodeNone => WInv'
<1> SUFFICES ASSUME WInv, DecodeNone PROVE WInv'
  OBVIOUS
<1>1. /\ pc = "decode" /\ pc' = "finish" /\ filled' = FillBuf /\ FillBuf = prev
      /\ pos' = pos /\ prev' = prev /\ k' = k /\ left' = left /\ result' = result /\ UNCHANGED file
  BY DEF DecodeNone, NoMore
<1>2. OwnType /\ Between /\ Told
  BY DEF WInv
<1>3. /\ pos \in Nat /\ filled \in Nat /\ len \in Nat /\ prev \in Nat /\ pos + filled <= len
      /\ pos = Start(k + 1)
  BY <1>1, <1>2 DEF OwnType, Between
<1>4. FillBuf \in Nat /\ pos + FillBuf <= len
  BY <1>3, FillFacts
<1>5. /\ frames' = frames /\ len' = len /\ dump' = dump /\ Start(k + 1)' = Start(k + 1)
      /\ Start(Len(frames) + 1)' = Start(Len(frames) + 1) /\ H(k + 1)' = H(k + 1)
  BY <1>1, FileKept DEF Start, H
<1>6. OwnType'
  BY <1>1, <1>2, <1>4, <1>5 DEF OwnType
<1>7. CASE prev = 0
  <2>1. filled' = 0 /\ pos = len
    BY <1>1, <1>2, <1>7, Exhausted
  <2>2. QED
    BY <1>1, <1>2, <1>3, <1>4, <1>5, <1>6, <2>1 DEF WInv, Between, Inside, Told, Verdict
<1>8. CASE prev = filled /\ Partial
  <2>1. filled' = filled
    BY <1>1, <1>8
  <2>2. Partial' /\ k + 1 \in 1..Len(frames)
    BY <1>1, <1>2, <1>5, <1>8, <2>1, FileFacts DEF Partial
  <2>3. dump \/ pos + filled = len
    <3>1. H(k + 1) \in Nat /\ H(k + 1) <= BufSize /\ filled < H(k + 1) /\ filled > 0 /\ BufSize \in Nat
      BY <1>2, <1>8, <2>2, FrameSpan, InspectAssumption DEF OwnType, Partial
    <3>2. dump \/ filled = Smaller(BufSize, len - pos)
      BY <1>1, <1>2, <3>1 DEF Between
    <3>3. QED
      BY <1>3, <3>1, <3>2 DEF Smaller
  <2>4. QED
    BY <1>1, <1>2, <1>3, <1>4, <1>5, <1>6, <2>1, <2>2, <2>3 DEF WInv, Between, Inside, Told, Verdict
<1>9. QED
  BY <1>1, <1>2, <1>7, <1>8 DEF Between

LEMMA DecodeMoreStep == WInv /\ DecodeMore => WInv'
<1> SUFFICES ASSUME WInv, DecodeMore PROVE WInv'
  OBVIOUS
<1>1. /\ pc = "decode" /\ pc' = pc /\ filled' = FillBuf /\ prev' = FillBuf /\ ~NoMore(FillBuf)
      /\ FillBuf < H(k + 1)
      /\ pos' = pos /\ k' = k /\ left' = left /\ result' = result /\ UNCHANGED file
  BY DEF DecodeMore, H
<1>2. OwnType /\ Between /\ Told
  BY DEF WInv
<1>3. /\ pos \in Nat /\ filled \in Nat /\ len \in Nat /\ pos + filled <= len /\ pos = Start(k + 1)
  BY <1>1, <1>2 DEF OwnType, Between
<1>4. /\ FillBuf \in Nat /\ pos + FillBuf <= len
      /\ filled > 0 => FillBuf = filled
      /\ filled = 0 => FillBuf = Smaller(BufSize, len - pos)
  BY <1>3, FillFacts
<1>5. /\ frames' = frames /\ len' = len /\ dump' = dump /\ Start(k + 1)' = Start(k + 1)
      /\ Start(Len(frames) + 1)' = Start(Len(frames) + 1) /\ H(k + 1)' = H(k + 1)
  BY <1>1, FileKept DEF Start, H
<1>6. OwnType'
  BY <1>1, <1>2, <1>4, <1>5 DEF OwnType
<1>7. Partial'
  BY <1>1, <1>2, <1>5, MoreToCome DEF Partial
<1>8. dump \/ filled' = Smaller(BufSize, len - pos)
  BY <1>1, <1>2, <1>3, <1>4 DEF Between
<1>9. Between'
  BY <1>1, <1>3, <1>4, <1>5, <1>7, <1>8 DEF Between
<1>10. Inside' /\ Told'
  BY <1>1, <1>2 DEF Inside, Told, Verdict
<1>11. QED
  BY <1>6, <1>9, <1>10 DEF WInv

LEMMA DecodeHeaderStep == WInv /\ DecodeHeader => WInv'
<1> SUFFICES ASSUME WInv, DecodeHeader PROVE WInv'
  OBVIOUS
<1>1. /\ pc = "decode" /\ pc' = (IF dump THEN "copy" ELSE "skip") /\ ~NoMore(FillBuf)
      /\ FillBuf >= H(k + 1) /\ pos' = pos + H(k + 1) /\ filled' = FillBuf - H(k + 1)
      /\ left' = frames[k+1].n /\ k' = k + 1 /\ prev' = 0 /\ result' = result /\ UNCHANGED file
  BY DEF DecodeHeader, H
<1>2. OwnType /\ Between /\ Told
  BY DEF WInv
<1>3. /\ pos \in Nat /\ filled \in Nat /\ len \in Nat /\ pos + filled <= len /\ pos = Start(k + 1)
  BY <1>1, <1>2 DEF OwnType, Between
<1>4. FillBuf \in Nat /\ pos + FillBuf <= len
  BY <1>3, FillFacts
<1>5. k < Len(frames) /\ k + 1 \in 1..Len(frames) /\ k \in Nat /\ Len(frames) \in Nat
  BY <1>1, <1>2, MoreToCome, FileFacts
<1>6. PICK j \in Nat : j = k + 1
  BY <1>5
<1>7. /\ H(j) \in Nat /\ H(j) >= 2 /\ frames[j].n \in Nat
      /\ Start(j + 1) = Start(j) + H(j) + frames[j].n
  BY <1>2, <1>5, <1>6, FrameSpan DEF OwnType
<1>8. /\ frames' = frames /\ len' = len /\ dump' = dump
      /\ Start(j)' = Start(j) /\ H(j)' = H(j) /\ Start(j + 1)' = Start(j + 1)
      /\ Start(Len(frames) + 1)' = Start(Len(frames) + 1)
  BY <1>1, FileKept DEF Start, H
<1>9. pos' \in Nat /\ filled' \in Nat /\ left' \in Nat /\ prev' \in Nat /\ k' \in 0..Len(frames)
  <2>1. H(k + 1) \in Nat /\ frames[k+1].n \in Nat
    BY <1>6, <1>7
  <2>2. pos' \in Nat /\ filled' \in Nat
    BY <1>1, <1>3, <1>4, <2>1
  <2>3. left' \in Nat /\ prev' \in Nat
    BY <1>1, <2>1
  <2>4. k' \in 0..Len(frames)
    BY <1>1, <1>5
  <2>5. QED
    BY <2>2, <2>3, <2>4
<1>10. OwnType'
  BY <1>2, <1>8, <1>9 DEF OwnType
<1>11. pos' + filled' <= len
  BY <1>1, <1>3, <1>4, <1>6, <1>7
<1>12. pos' = Start(j) + H(j) /\ pos' + left' = Start(j + 1)
  <2>1. pos' = Start(j) + H(j) /\ left' = frames[j].n
    BY <1>1, <1>3, <1>6
  <2>2. QED
    BY <2>1, <1>7
<1>13. k' = j /\ j >= 1 /\ prev' = 0 /\ Start(j) + H(j) <= pos'
  <2>1. k' = j /\ j >= 1 /\ prev' = 0
    BY <1>1, <1>5, <1>6
  <2>2. pos' <= pos'
    BY <1>9
  <2>3. QED
    BY <2>1, <2>2, <1>12
<1>14. Inside'
  <2>1. Start(k + 1)' = Start(j + 1) /\ Start(k)' = Start(j) /\ H(k)' = H(j)
    BY <1>8, <1>13 DEF Start, H
  <2>2. QED
    BY <1>1, <1>8, <1>11, <1>12, <1>13, <2>1 DEF Inside
<1>15. Between' /\ Told'
  BY <1>1, <1>2 DEF Between, Told, Verdict
<1>16. QED
  BY <1>10, <1>14, <1>15 DEF WInv

(* In the payload of frame k, of which left bytes are still to come.       *)
LEMMA InsideFacts ==
  ASSUME WInv, pc \in {"skip", "copy"}
  PROVE  /\ frames \in Seq(Frames) /\ k \in 1..Len(frames)
         /\ pos \in Nat /\ filled \in Nat /\ left \in Nat /\ len \in Nat
         /\ Start(k + 1) \in Nat /\ Start(k) \in Nat /\ H(k) \in Nat
         /\ prev = 0 /\ pos + filled <= len /\ pos <= len
         /\ pos + left = Start(k + 1) /\ Start(k) + H(k) <= pos
         /\ result = "none" /\ len <= SeekMax /\ SeekMax \in Nat
<1>1. OwnType /\ Inside /\ Told
  BY DEF WInv
<1>2. /\ pos \in Nat /\ filled \in Nat /\ left \in Nat /\ len \in Nat /\ len <= SeekMax
      /\ frames \in Seq(Frames)
  BY <1>1 DEF OwnType
<1>3. /\ k >= 1 /\ prev = 0 /\ pos + filled <= len
      /\ pos + left = Start(k + 1) /\ Start(k) + H(k) <= pos
  BY <1>1 DEF Inside
<1>4. k \in 1..Len(frames)
  BY <1>1, <1>3, FileFacts
<1>5. Start(k + 1) \in Nat /\ Start(k) \in Nat /\ H(k) \in Nat
  BY <1>2, <1>4, FrameSpan
<1>6. pos <= len
  BY <1>2, <1>3
<1>7. SeekMax \in Nat
  BY InspectAssumption, LengthAssumption DEF I64Max
<1>8. result = "none"
  BY <1>1 DEF Told
<1>9. QED
  BY <1>2, <1>3, <1>4, <1>5, <1>6, <1>7, <1>8

(* The step from the payload to the next header, or to the end.            *)
LEMMA ToNextFrame ==
  ASSUME WInv, pc \in {"skip", "copy"}, UNCHANGED <<file, prev, k>>, left' = 0,
         pc' = "decode", result' = result, pos' = Start(k + 1), filled' \in Nat, pos' + filled' <= len,
         dump \/ filled' = 0
  PROVE  WInv'
<1>1. /\ k \in 1..Len(frames) /\ prev = 0 /\ result = "none" /\ Start(k + 1) \in Nat
  BY InsideFacts
<1>2. /\ frames' = frames /\ len' = len /\ dump' = dump
      /\ Start(k + 1)' = Start(k + 1) /\ Start(Len(frames) + 1)' = Start(Len(frames) + 1)
  BY FileKept DEF Start
<1>3. OwnType'
  BY <1>1, <1>2 DEF WInv, OwnType
<1>4. Between'
  BY <1>1, <1>2 DEF Between
<1>5. Inside' /\ Told'
  BY <1>1 DEF Inside, Told, Verdict
<1>6. QED
  BY <1>3, <1>4, <1>5 DEF WInv

LEMMA ToTheEnd ==
  ASSUME WInv, pc \in {"skip", "copy"}, UNCHANGED <<file, prev, k>>, left' = 0,
         pc' = "done", result' = "incomplete", pos' \in Nat, filled' \in Nat, len < pos + left
  PROVE  WInv'
<1>1. /\ frames \in Seq(Frames) /\ len \in Nat /\ k \in 1..Len(frames) /\ pos <= len
      /\ pos + left = Start(k + 1) /\ Start(k) + H(k) <= pos /\ prev = 0
      /\ Start(k) \in Nat /\ H(k) \in Nat /\ pos \in Nat
  BY InsideFacts
<1>2. Start(k) + H(k) <= len /\ len < Start(k + 1)
  <2>1. \A a, b, p, l \in Nat : a + b <= p /\ p <= l => a + b <= l
    OBVIOUS
  <2>2. Start(k) + H(k) <= len
    BY <1>1, <2>1, Zenon
  <2>3. QED
    BY <1>1, <2>2, Zenon
<1>3. Truth = "incomplete"
  BY <1>1, <1>2, TruthIncomplete
<1>4. /\ frames' = frames /\ len' = len /\ dump' = dump /\ Truth' = Truth
      /\ Start(Len(frames) + 1)' = Start(Len(frames) + 1)
  BY FileKept DEF Start
<1>5. OwnType'
  BY <1>1, <1>4 DEF WInv, OwnType
<1>6. Between' /\ Inside'
  BY DEF Between, Inside
<1>7. Told'
  BY <1>3, <1>4 DEF Told, Verdict
<1>8. QED
  BY <1>5, <1>6, <1>7 DEF WInv

LEMMA SkipStep == WInv /\ Skip => WInv'
<1> SUFFICES ASSUME WInv, Skip PROVE WInv'
  OBVIOUS
<1>1. pc = "skip" /\ filled' = 0 /\ left' = 0 /\ UNCHANGED <<file, prev, k>>
  BY DEF Skip, Discarded
<1>2. /\ pos \in Nat /\ left \in Nat /\ len \in Nat /\ Start(k + 1) \in Nat /\ pos <= len
      /\ pos + left = Start(k + 1) /\ len <= SeekMax /\ SeekMax \in Nat
  BY <1>1, InsideFacts
<1>3. I64Max \in Nat
  BY LengthAssumption DEF I64Max
<1>4. CASE SeekFails
  <2>1. pos' = pos /\ Compare(len - pos, left)
    BY <1>4 DEF Skip
  <2>2. len < pos + left
    BY <1>2, <1>3, <1>4 DEF SeekFails, Smaller
  <2>3. len - pos # left
    BY <1>2, <2>2
  <2>4. pc' = "done" /\ result' = "incomplete"
    BY <2>1, <2>3 DEF Compare
  <2>5. QED
    BY <1>1, <1>2, <2>1, <2>2, <2>4, ToTheEnd
<1>5. CASE ~SeekFails
  <2>1. pos' = pos + left + filled' /\ Compare(Clamped(pos + left) - pos, left)
    BY <1>5 DEF Skip
  <2>2. pos' = pos + left
    BY <1>1, <1>2, <2>1
  <2>3. CASE len < pos + left
    <3>1. Clamped(pos + left) - pos # left
      BY <1>2, <2>3 DEF Clamped, Smaller
    <3>2. pc' = "done" /\ result' = "incomplete"
      BY <2>1, <3>1 DEF Compare
    <3>3. pos' \in Nat /\ filled' \in Nat
      BY <1>1, <1>2, <2>2
    <3>4. QED
      BY <1>1, <2>3, <3>2, <3>3, ToTheEnd
  <2>4. CASE pos + left <= len
    <3>1. Clamped(pos + left) - pos = left
      BY <1>2, <2>4 DEF Clamped, Smaller
    <3>2. pc' = "decode" /\ result' = result
      BY <2>1, <3>1 DEF Compare
    <3>3. pos' = Start(k + 1) /\ filled' \in Nat /\ pos' + filled' <= len
      BY <1>1, <1>2, <2>2, <2>4
    <3>4. QED
      BY <1>1, <3>2, <3>3, ToNextFrame
  <2>5. QED
    BY <1>2, <2>3, <2>4
<1>6. QED
  BY <1>4, <1>5

LEMMA CopyStep == WInv /\ (CopyBuffered \/ CopyDirect \/ CopyFill) => WInv'
<1> SUFFICES ASSUME WInv, CopyBuffered \/ CopyDirect \/ CopyFill PROVE WInv'
  OBVIOUS
<1>1. pc = "copy" /\ pc' = pc /\ UNCHANGED <<file, prev, k, result>>
  BY DEF CopyBuffered, CopyDirect, CopyFill
<1>2. /\ pos \in Nat /\ filled \in Nat /\ left \in Nat /\ len \in Nat
      /\ Start(k) \in Nat /\ H(k) \in Nat /\ Start(k + 1) \in Nat
      /\ pos + filled <= len /\ pos + left = Start(k + 1) /\ Start(k) + H(k) <= pos
      /\ prev = 0 /\ result = "none" /\ k \in 1..Len(frames)
  BY <1>1, InsideFacts
<1>3. /\ pos' \in Nat /\ filled' \in Nat /\ left' \in Nat
      /\ pos' + filled' <= len /\ pos' + left' = pos + left /\ pos <= pos'
  <2>1. CASE CopyBuffered
    <3> DEFINE n == Smaller(left, filled)
    <3>1. pos' = pos + n /\ filled' = filled - n /\ left' = left - n
      BY <2>1 DEF CopyBuffered
    <3>2. n \in Nat /\ n <= left /\ n <= filled
      BY <1>2 DEF Smaller
    <3> HIDE DEF n
    <3>3. QED
      BY <1>2, <3>1, <3>2
  <2>2. CASE CopyDirect
    <3> DEFINE n == Smaller(left, len - pos)
    <3>1. pos' = pos + n /\ filled' = filled /\ left' = left - n /\ filled = 0 /\ pos < len
      BY <2>2 DEF CopyDirect
    <3>2. n \in Nat /\ n <= left /\ n <= len - pos
      BY <1>2, <3>1 DEF Smaller
    <3> HIDE DEF n
    <3>3. QED
      BY <1>2, <3>1, <3>2
  <2>3. CASE CopyFill
    <3>1. pos' = pos /\ filled' = FillBuf /\ left' = left
      BY <2>3 DEF CopyFill
    <3>2. FillBuf \in Nat /\ pos + FillBuf <= len
      BY <1>2, FillFacts
    <3>3. QED
      BY <1>2, <3>1, <3>2
  <2>4. QED
    BY <2>1, <2>2, <2>3
<1>4. /\ frames' = frames /\ len' = len /\ dump' = dump /\ Start(k)' = Start(k) /\ H(k)' = H(k)
      /\ Start(k + 1)' = Start(k + 1) /\ Start(Len(frames) + 1)' = Start(Len(frames) + 1)
  BY <1>1, FileKept DEF Start, H
<1>5. OwnType'
  BY <1>1, <1>3, <1>4 DEF WInv, OwnType
<1>6. Start(k) + H(k) <= pos' /\ pos' + left' = Start(k + 1)
  <2>1. \A a, b, p, q \in Nat : a + b <= p /\ p <= q => a + b <= q
    OBVIOUS
  <2>2. Start(k) + H(k) <= pos'
    BY <1>2, <1>3, <2>1, Zenon
  <2>3. QED
    BY <1>2, <1>3, <2>2, Zenon
<1>7. dump
  BY <1>1 DEF WInv, Inside
<1>8. Inside'
  <2>1. Start(k + 1)' = Start(k + 1) /\ Start(k)' = Start(k) /\ H(k)' = H(k)
    BY <1>4
  <2>2. k' >= 1 /\ prev' = 0 /\ pos' + filled' <= len' /\ (dump' <=> pc' = "copy")
    <3>1. k' >= 1
      <4>1. k' = k /\ k \in 1..Len(frames)
        BY <1>1, <1>2
      <4>2. QED
        BY <4>1
    <3>2. prev' = 0 /\ (dump' <=> pc' = "copy")
      BY <1>1, <1>2, <1>4, <1>7, Zenon
    <3>3. pos' + filled' <= len'
      BY <1>3, <1>4, Zenon
    <3>4. QED
      BY <3>1, <3>2, <3>3
  <2>3. pos' + left' = Start(k + 1)' /\ Start(k)' + H(k)' <= pos'
    BY <1>6, <2>1, Zenon
  <2>4. QED
    BY <2>2, <2>3 DEF Inside
<1>9. Between' /\ Told'
  BY <1>1, <1>2 DEF Between, Told, Verdict
<1>10. QED
  BY <1>5, <1>8, <1>9 DEF WInv

LEMMA CopyEndStep == WInv /\ CopyEnd => WInv'
<1> SUFFICES ASSUME WInv, CopyEnd PROVE WInv'
  OBVIOUS
<1>1. /\ pc = "copy" /\ (left = 0 \/ (filled = 0 /\ pos = len)) /\ Compare(0, left)
      /\ left' = 0 /\ pos' = pos /\ filled' = filled /\ UNCHANGED <<file, prev, k>>
  BY DEF CopyEnd
<1>2. /\ pos \in Nat /\ filled \in Nat /\ left \in Nat /\ len \in Nat /\ pos + filled <= len
      /\ pos + left = Start(k + 1)
  BY <1>1, InsideFacts
<1>3. CASE left = 0
  <2>1. pc' = "decode" /\ result' = result
    BY <1>1, <1>3 DEF Compare
  <2>2. pos' = Start(k + 1) /\ pos' + filled' <= len /\ filled' \in Nat
    BY <1>1, <1>2, <1>3
  <2>3. dump
    BY <1>1 DEF WInv, Inside
  <2>4. QED
    BY <1>1, <2>1, <2>2, <2>3, ToNextFrame
<1>4. CASE left # 0
  <2>1. pc' = "done" /\ result' = "incomplete"
    BY <1>1, <1>4 DEF Compare
  <2>2. len < pos + left
    BY <1>1, <1>2, <1>4
  <2>3. QED
    BY <1>1, <1>2, <2>1, <2>2, ToTheEnd
<1>5. QED
  BY <1>3, <1>4

LEMMA FinishStep == WInv /\ Finish => WInv'
<1> SUFFICES ASSUME WInv, Finish PROVE WInv'
  OBVIOUS
<1>1. /\ pc = "finish" /\ pc' = "done" /\ filled' = FillBuf
      /\ result' = (IF filled' > 0 THEN "additional" ELSE "ok")
      /\ pos' = pos /\ prev' = prev /\ k' = k /\ left' = left /\ UNCHANGED file
  BY DEF Finish
<1>2. OwnType /\ Between
  BY DEF WInv
<1>3. /\ pos \in Nat /\ filled \in Nat /\ len \in Nat /\ pos + filled <= len /\ pos = Start(k + 1)
      /\ frames \in Seq(Frames)
  BY <1>1, <1>2 DEF OwnType, Between
<1>4. /\ FillBuf \in Nat
      /\ filled > 0 => FillBuf = filled
      /\ filled = 0 /\ pos = len => FillBuf = 0
  BY <1>3, FillFacts
<1>5. /\ frames' = frames /\ len' = len /\ dump' = dump /\ Truth' = Truth
      /\ Start(Len(frames) + 1)' = Start(Len(frames) + 1)
  BY <1>1, FileKept DEF Start
<1>6. OwnType'
  BY <1>1, <1>2, <1>4, <1>5 DEF OwnType
<1>7. Verdict'
  <2>1. CASE filled = 0 /\ pos = len
    <3>1. result' = "ok"
      BY <1>1, <1>4, <2>1
    <3>2. Truth = "ok"
      BY <1>2, <1>3, <2>1, FileFacts, TruthOk
    <3>3. QED
      BY <1>5, <3>1, <3>2 DEF Verdict
  <2>2. CASE Partial /\ (dump \/ pos + filled = len)
    <3>1. filled' = filled /\ filled > 0 /\ k < Len(frames) /\ filled < H(k + 1)
      BY <1>1, <1>4, <2>2 DEF Partial
    <3>2. result' = "additional"
      BY <1>1, <3>1
    <3>3. CASE dump
      BY <1>1, <1>5, <3>1, <3>2, <3>3 DEF Verdict, H
    <3>4. CASE pos + filled = len
      <4>1. k + 1 \in 1..Len(frames)
        BY <1>2, <3>1, FileFacts
      <4>2. H(k + 1) \in Nat /\ Start(k + 1) \in Nat
        BY <1>3, <4>1, FrameSpan
      <4>3. Start(k + 1) < len /\ len < Start(k + 1) + H(k + 1)
        BY <1>3, <3>1, <3>4, <4>2
      <4>4. Truth = "additional"
        BY <1>3, <4>1, <4>3, TruthAdditional
      <4>5. QED
        BY <1>5, <3>2, <4>4 DEF Verdict
    <3>5. QED
      BY <2>2, <3>3, <3>4
  <2>3. QED
    BY <1>1, <1>2, <2>1, <2>2 DEF Between
<1>8. QED
  BY <1>1, <1>6, <1>7 DEF WInv, Between, Inside, Told

LEMMA WInvStep == WInv /\ [Next]_vars => WInv'
<1>1. WInv /\ UNCHANGED vars => WInv'
  <2> SUFFICES ASSUME WInv, UNCHANGED vars PROVE WInv'
    OBVIOUS
  <2>1. /\ frames' = frames /\ len' = len /\ dump' = dump /\ Truth' = Truth
        /\ \A i : Start(i)' = Start(i) /\ H(i)' = H(i)
    BY FileKept DEF vars
  <2>2. UNCHANGED <<pos, filled, pc, prev, k, left, result>>
    BY DEF vars
  <2>3. /\ Start(k + 1)' = Start(k + 1) /\ Start(k)' = Start(k) /\ H(k)' = H(k)
        /\ H(k + 1)' = H(k + 1) /\ Start(Len(frames) + 1)' = Start(Len(frames) + 1)
    BY <2>1, <2>2 DEF Start, H
  <2>4. OwnType'
    BY <2>1, <2>2, <2>3 DEF WInv, OwnType
  <2>5. Between'
    BY <2>1, <2>2, <2>3 DEF WInv, Between, Partial
  <2>6. Inside'
    BY <2>1, <2>2, <2>3 DEF WInv, Inside
  <2>7. Told'
    BY <2>1, <2>2 DEF WInv, Told, Verdict
  <2>8. QED
    BY <2>4, <2>5, <2>6, <2>7 DEF WInv
<1>2. QED
  BY <1>1, DecodeNoneStep, DecodeMoreStep, DecodeHeaderStep, SkipStep, CopyStep, CopyEndStep,
     FinishStep
  DEF Next, Step, Terminated

(* The invariant holds of any file: the theorems below follow from it.     *)
THEOREM WInvHolds == Spec => []WInv
<1>1. QED
  BY WInvInit, WInvStep, PTL DEF Spec

(* Every header is read where a frame begins (wsinspect.rs:14-50, 87-100). *)
THEOREM AlignedHolds == Spec => []Aligned
<1>1. WInv => Aligned
  <2> SUFFICES ASSUME WInv, pc = "decode" PROVE pos = Start(k + 1) /\ k <= Len(frames)
    BY DEF Aligned
  <2>1. k <= Len(frames)
    BY FileFacts DEF WInv
  <2>2. QED
    BY <2>1 DEF WInv, Between
<1>2. QED
  BY <1>1, WInvHolds, PTL

(* What wsinspect says of a file is true of it, or it gave up at a header  *)
(* of which a part was in its buffer (wsinspect.rs:102-116).               *)
THEOREM VerdictHolds == Spec => []Verdict
<1>1. WInv => Verdict
  BY DEF WInv, Told
<1>2. QED
  BY <1>1, WInvHolds, PTL
=============================================================================
