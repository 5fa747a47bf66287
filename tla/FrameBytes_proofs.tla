------------------------- MODULE FrameBytes_proofs -------------------------
(***************************************************************************)
(* Proofs about the bytes of a frame.  HeaderCodec: headers with lengths   *)
(* of up to eight bytes, cut anywhere on the way, are decoded as they were *)
(* encoded, with no byte missing or left over.  Mask: payloads of any      *)
(* length, at any addresses, on a little-endian platform.                  *)
(***************************************************************************)
EXTENDS HeaderCodec, Mask, SequenceTheorems, TLAPS

(* The boundaries of the code: a length of each form fits the seven bits,  *)
(* two bytes and eight bytes it has (frame.rs:13-20).                      *)
TwoBytes == 256 * 256
EightBytes == 256 * (256 * (256 * (256 * (256 * (256 * TwoBytes)))))
CodeLengths == SmallMax <= 125 /\ MediumMax < TwoBytes /\ U64Max < EightBytes

-----------------------------------------------------------------------------
(* Numbers as bytes.                                                       *)
High(m) == m \div 256

(* Equations that the provers should not rewrite with have names.          *)
Digits(m, q, r) == m = 256 * q + r

(* A number is its last digit and the rest of it, to the base 256.         *)
LEMMA HighLow ==
  ASSUME NEW m \in Nat
  PROVE  Digits(m, High(m), m % 256) /\ High(m) \in Nat /\ m % 256 \in Byte
<1>1. PICK q, r : q = m \div 256 /\ r = m % 256
  OBVIOUS
<1>2. q \in Nat /\ r \in 0..255
  BY <1>1
<1>3. m = 256 * q + r
  BY <1>1, <1>2
<1>4. q = High(m)
  BY <1>1 DEF High
<1>5. Digits(m, q, r)
  BY <1>3 DEF Digits
<1>6. QED
  BY <1>1, <1>2, <1>4, <1>5, ZenonT(60) DEF Byte

(* Taking the last digit off divides the bound by 256.                     *)
LEMMA HighLess ==
  ASSUME NEW m \in Nat, NEW b \in Nat, m < 256 * b
  PROVE  High(m) \in Nat /\ High(m) < b
BY DEF High

(* Two bytes hold two digits to the base 256, and eight eight.             *)
LEMMA TwoDigits ==
  ASSUME NEW n \in Nat, n < TwoBytes
  PROVE  High(n) \in Nat /\ High(High(n)) = 0
<1>1. High(n) \in Nat /\ High(n) < 256
  BY HighLess DEF TwoBytes
<1>2. High(High(n)) \in Nat /\ High(High(n)) < 1
  BY <1>1, HighLess
<1>3. QED
  BY <1>1, <1>2

LEMMA EightDigits ==
  ASSUME NEW d0 \in Nat, d0 < EightBytes, NEW d1, NEW d2, NEW d3, NEW d4, NEW d5, NEW d6,
         NEW d7, NEW d8,
         d1 = High(d0), d2 = High(d1), d3 = High(d2), d4 = High(d3),
         d5 = High(d4), d6 = High(d5), d7 = High(d6), d8 = High(d7)
  PROVE  /\ d1 \in Nat /\ d2 \in Nat /\ d3 \in Nat /\ d4 \in Nat
         /\ d5 \in Nat /\ d6 \in Nat /\ d7 \in Nat /\ d8 = 0
<1> DEFINE b3 == 256 * TwoBytes
           b4 == 256 * b3
           b5 == 256 * b4
           b6 == 256 * b5
           b7 == 256 * b6
<1>1. TwoBytes \in Nat
  BY DEF TwoBytes
<1>2. d0 < 256 * b7
  BY DEF EightBytes
<1> HIDE DEF b3, b4, b5, b6, b7
<1>3. b3 \in Nat
  BY <1>1 DEF b3
<1>4. b4 \in Nat
  BY <1>3 DEF b4
<1>5. b5 \in Nat
  BY <1>4 DEF b5
<1>6. b6 \in Nat
  BY <1>5 DEF b6
<1>7. b7 \in Nat
  BY <1>6 DEF b7
<1>8. d1 \in Nat /\ d1 < b7
  BY <1>2, <1>7, HighLess
<1>9. d2 \in Nat /\ d2 < b6
  BY <1>8, <1>6, HighLess DEF b7
<1>10. d3 \in Nat /\ d3 < b5
  BY <1>9, <1>5, HighLess DEF b6
<1>11. d4 \in Nat /\ d4 < b4
  BY <1>10, <1>4, HighLess DEF b5
<1>12. d5 \in Nat /\ d5 < b3
  BY <1>11, <1>3, HighLess DEF b4
<1>13. d6 \in Nat /\ d6 < TwoBytes
  BY <1>12, <1>1, HighLess DEF b3
<1>14. d7 \in Nat /\ d8 = 0
  BY <1>13, TwoDigits
<1>15. QED
  BY <1>8, <1>9, <1>10, <1>11, <1>12, <1>13, <1>14

(* The functions that BigEndian and FromBigEndian choose.                  *)
Divides(rest, n, k) ==
  rest = [j \in 0..k |-> IF j = 0 THEN n ELSE rest[j-1] \div 256]
Reads(read, bytes) ==
  read = [j \in 0..Len(bytes) |-> IF j = 0 THEN 0 ELSE 256 * read[j-1] + bytes[j]]

(* The eight quotients of an eight-byte number.                            *)
LEMMA Quotients ==
  ASSUME NEW n \in Nat, NEW k \in {0, 2, 8}
  PROVE  \E rest : Divides(rest, n, k)
<1> DEFINE d1 == n \div 256
           d2 == d1 \div 256
           d3 == d2 \div 256
           d4 == d3 \div 256
           d5 == d4 \div 256
           d6 == d5 \div 256
           d7 == d6 \div 256
           d8 == d7 \div 256
           rest == [j \in 0..k |-> CASE j = 0 -> n  [] j = 1 -> d1 [] j = 2 -> d2
                                     [] j = 3 -> d3 [] j = 4 -> d4 [] j = 5 -> d5
                                     [] j = 6 -> d6 [] j = 7 -> d7 [] j = 8 -> d8]
<1>1. ASSUME NEW j \in 0..k
      PROVE  rest[j] = IF j = 0 THEN n ELSE rest[j-1] \div 256
  <2>1. j \in {0, 1, 2, 3, 4, 5, 6, 7, 8}
    OBVIOUS
  <2>2. j # 0 => j - 1 \in 0..k
    OBVIOUS
  <2> HIDE DEF d1, d2, d3, d4, d5, d6, d7, d8
  <2>3. CASE j = 0
    BY <2>3
  <2>4. CASE j = 1
    BY <2>4, <2>2 DEF d1
  <2>5. CASE j = 2
    BY <2>5, <2>2 DEF d2
  <2>6. CASE j = 3
    BY <2>6, <2>2 DEF d3
  <2>7. CASE j = 4
    BY <2>7, <2>2 DEF d4
  <2>8. CASE j = 5
    BY <2>8, <2>2 DEF d5
  <2>9. CASE j = 6
    BY <2>9, <2>2 DEF d6
  <2>10. CASE j = 7
    BY <2>10, <2>2 DEF d7
  <2>11. CASE j = 8
    BY <2>11, <2>2 DEF d8
  <2>12. QED
    BY <2>1, <2>3, <2>4, <2>5, <2>6, <2>7, <2>8, <2>9, <2>10, <2>11
<1>2. Divides(rest, n, k)
  <2>1. rest = [j \in 0..k |-> rest[j]]
    OBVIOUS
  <2> HIDE DEF rest
  <2>2. QED
    BY <1>1, <2>1, Zenon DEF Divides
<1>3. QED
  BY <1>2

(* BigEndian is what its recursive definition says: there is such a        *)
(* function, so the one chosen is one.                                     *)
LEMMA BigEndianDef ==
  ASSUME NEW n \in Nat, NEW k \in {0, 2, 8}
  PROVE  \E rest : /\ Divides(rest, n, k)
                   /\ BigEndian(n, k) = [j \in 1..k |-> rest[k-j] % 256]
<1>1. PICK rest : rest = CHOOSE r : Divides(r, n, k)
  OBVIOUS
<1>2. Divides(rest, n, k)
  BY <1>1, Quotients
<1>3. BigEndian(n, k) = [j \in 1..k |-> (CHOOSE r : Divides(r, n, k))[k-j] % 256]
  BY Zenon DEF BigEndian, Divides
<1>4. BigEndian(n, k) = [j \in 1..k |-> rest[k-j] % 256]
  BY <1>1, <1>3, Zenon
<1>5. QED
  BY <1>2, <1>4

(* write_u16 and write_u64 store two and eight bytes.                      *)
LEMMA BigEndianBytes ==
  ASSUME NEW n \in Nat, NEW k \in {0, 2, 8}
  PROVE  /\ BigEndian(n, k) \in Seq(Byte)
         /\ Len(BigEndian(n, k)) = k
<1>1. PICK rest : /\ Divides(rest, n, k)
                  /\ BigEndian(n, k) = [j \in 1..k |-> rest[k-j] % 256]
  BY BigEndianDef
<1>2. rest[0] = n /\ \A j \in 1..k : rest[j] = High(rest[j-1])
  <2>1. rest = [j \in 0..k |-> IF j = 0 THEN n ELSE rest[j-1] \div 256]
    BY <1>1 DEF Divides
  <2>2. QED
    BY <2>1 DEF High
<1>3. \A m \in Nat : High(m) \in Nat /\ m % 256 \in Byte
  BY HighLow
<1>4. \A j \in 0..k : rest[j] \in Nat
  <2>1. k = 0 => rest[0] \in Nat
    BY <1>2
  <2>2. k \in {2, 8} => rest[1] \in Nat /\ rest[2] \in Nat
    BY <1>2, <1>3
  <2>3. k = 8 => rest[3] \in Nat /\ rest[4] \in Nat
    BY <1>2, <1>3, <2>2
  <2>4. k = 8 => rest[5] \in Nat /\ rest[6] \in Nat
    BY <1>2, <1>3, <2>3
  <2>5. k = 8 => rest[7] \in Nat /\ rest[8] \in Nat
    BY <1>2, <1>3, <2>4
  <2>6. QED
    BY <1>2, <2>1, <2>2, <2>3, <2>4, <2>5
<1>5. \A j \in 1..k : rest[k-j] % 256 \in Byte
  <2>1. \A j \in 1..k : k - j \in 0..k
    OBVIOUS
  <2>2. QED
    BY <1>3, <1>4, <2>1
<1>6. QED
  BY <1>1, <1>5

(* Reading what was written gives the number back, if it fits.             *)
LEMMA ReadBack ==
  ASSUME NEW n \in Nat, NEW k \in {2, 8},
         n < IF k = 2 THEN TwoBytes ELSE EightBytes,
         NEW bytes, bytes \in Seq(Byte), Len(bytes) = k,
         \A j \in 1..k : bytes[j] = BigEndian(n, k)[j]
  PROVE  FromBigEndian(bytes) = n
<1>0. k \in {0, 2, 8}
  OBVIOUS
<1>1. PICK rest : /\ Divides(rest, n, k)
                  /\ BigEndian(n, k) = [j \in 1..k |-> rest[k-j] % 256]
  <2>1. \A m \in Nat : \A l \in {0, 2, 8} :
          \E rest : Divides(rest, m, l) /\ BigEndian(m, l) = [j \in 1..l |-> rest[l-j] % 256]
    BY BigEndianDef
  <2>2. QED
    BY <1>0, <2>1, ZenonT(60)
<1>2. rest[0] = n /\ \A j \in 1..k : rest[j] = High(rest[j-1])
  <2>1. rest = [j \in 0..k |-> IF j = 0 THEN n ELSE rest[j-1] \div 256]
    BY <1>1 DEF Divides
  <2>2. QED
    BY <2>1 DEF High
<1>4. rest[k] = 0 /\ \A j \in 0..k : rest[j] \in Nat
  <2>1. CASE k = 2
    <3>1. rest[1] = High(n) /\ rest[2] = High(rest[1])
      BY <1>2, <2>1
    <3>2. n < TwoBytes
      BY <2>1
    <3>3. rest[1] \in Nat /\ rest[2] = 0
      BY <3>1, <3>2, TwoDigits
    <3>4. \A j \in 0..k : j \in {0, 1, 2}
      BY <2>1
    <3>5. QED
      BY <1>2, <2>1, <3>3, <3>4
  <2>2. CASE k = 8
    <3>1. rest[1] = High(n) /\ rest[2] = High(rest[1])
          /\ rest[3] = High(rest[2]) /\ rest[4] = High(rest[3])
          /\ rest[5] = High(rest[4]) /\ rest[6] = High(rest[5])
          /\ rest[7] = High(rest[6]) /\ rest[8] = High(rest[7])
      BY <1>2, <2>2
    <3>2. n < EightBytes
      BY <2>2
    <3>3. /\ rest[1] \in Nat /\ rest[2] \in Nat /\ rest[3] \in Nat /\ rest[4] \in Nat
          /\ rest[5] \in Nat /\ rest[6] \in Nat /\ rest[7] \in Nat /\ rest[8] = 0
      BY <3>1, <3>2, EightDigits
    <3>4. rest[0] \in Nat /\ rest[8] \in Nat
      BY <1>2, <3>3
    <3>5. \A j \in 0..k : rest[j] \in Nat
      <4> TAKE j \in 0..k
      <4>1. j \in {0, 1, 2, 3, 4, 5, 6, 7, 8}
        BY <2>2
      <4>2. QED
        BY <3>3, <3>4, <4>1
    <3>6. QED
      BY <2>2, <3>3, <3>5
  <2>3. QED
    BY <2>1, <2>2
<1>5. \A j \in 1..k : rest[k-j] = 256 * rest[k-j+1] + bytes[j]
  <2> TAKE j \in 1..k
  <2>1. k - j \in 0..k /\ k - j + 1 \in 1..k /\ k - j + 1 - 1 = k - j
    OBVIOUS
  <2>2. rest[k-j+1] = High(rest[k-j])
    BY <1>2, <2>1
  <2>3. bytes[j] = rest[k-j] % 256
    BY <1>1
  <2>4. rest[k-j] \in Nat
    BY <1>4, <2>1
  <2>5. \A m \in Nat : Digits(m, High(m), m % 256)
    BY HighLow
  <2>6. Digits(rest[k-j], rest[k-j+1], bytes[j])
    BY <2>2, <2>3, <2>4, <2>5, ZenonT(60)
  <2>7. QED
    BY <2>6, Zenon DEF Digits
<1> DEFINE back == [j \in 0..k |-> rest[k-j]]
<1>6. Reads(back, bytes)
  <2>1. ASSUME NEW j \in 0..k
        PROVE  back[j] = IF j = 0 THEN 0 ELSE 256 * back[j-1] + bytes[j]
    <3>1. CASE j = 0
      BY <3>1, <1>4
    <3>2. CASE j # 0
      <4>1. j \in 1..k /\ j - 1 \in 0..k /\ k - (j - 1) = k - j + 1
        BY <3>2
      <4>2. back[j] = rest[k-j] /\ back[j-1] = rest[k-j+1]
        BY <4>1
      <4>3. QED
        BY <1>5, <3>2, <4>1, <4>2
    <3>3. QED
      BY <3>1, <3>2
  <2>2. back = [j \in 0..k |-> back[j]]
    OBVIOUS
  <2> HIDE DEF back
  <2>3. QED
    BY <2>1, <2>2, ZenonT(60) DEF Reads
<1>7. PICK read : read = CHOOSE r : Reads(r, bytes)
  OBVIOUS
<1>8. Reads(read, bytes)
  BY <1>6, <1>7
<1>9. FromBigEndian(bytes) = read[k]
  BY <1>7, Zenon DEF FromBigEndian, Reads
<1>10. read[0] = 0 /\ \A j \in 1..k : read[j] = 256 * read[j-1] + bytes[j]
  <2>1. read = [j \in 0..k |-> IF j = 0 THEN 0 ELSE 256 * read[j-1] + bytes[j]]
    BY <1>8 DEF Reads
  <2>2. QED
    BY <2>1
<1>11. \A j \in 1..k : read[j-1] = rest[k-j+1] => read[j] = rest[k-j]
  BY <1>5, <1>10
<1>12. read[k] = rest[0]
  <2>1. CASE k = 2
    <3>1. read[1] = rest[1]
      BY <1>4, <1>10, <1>11, <2>1
    <3>2. QED
      BY <1>11, <2>1, <3>1
  <2>2. CASE k = 8
    <3>1. read[1] = rest[7]
      BY <1>4, <1>10, <1>11, <2>2, SMTT(30)
    <3>2. read[2] = rest[6]
      BY <1>11, <2>2, <3>1
    <3>3. read[3] = rest[5]
      BY <1>11, <2>2, <3>2
    <3>4. read[4] = rest[4]
      BY <1>11, <2>2, <3>3
    <3>5. read[5] = rest[3]
      BY <1>11, <2>2, <3>4
    <3>6. read[6] = rest[2]
      BY <1>11, <2>2, <3>5
    <3>7. read[7] = rest[1]
      BY <1>11, <2>2, <3>6
    <3>8. QED
      BY <1>11, <2>2, <3>7
  <2>3. QED
    BY <2>1, <2>2
<1>13. QED
  BY <1>2, <1>9, <1>12
-----------------------------------------------------------------------------
(* What is stored of a header and what parse_slice makes of it.            *)
Ext(h) == ExtendedLen[h.form]
MaskLen(h) == IF h.mask = NoMask THEN 0 ELSE 4

(* The fields of a header that may be sent, and the bytes of its length.   *)
LEMMA FieldFacts ==
  ASSUME NEW h \in Headers, CodeLengths
  PROVE  /\ h.fin \in BOOLEAN /\ h.opcode \in 0..15
         /\ h.rsv \in {0, 16, 32, 48, 64, 80, 96, 112}
         /\ h.form \in {"Small", "Medium", "Large"} /\ h.n \in Nat
         /\ h.form = "Small" => h.n <= 125
         /\ h.form = "Medium" => h.n < TwoBytes
         /\ h.form = "Large" => h.n < EightBytes
<1>1. h \in HeaderType
  BY HeaderAssumption
<1>2. h \in [fin: BOOLEAN, rsv: {16 * r : r \in 0..7}, opcode: 0..15,
             mask: {NoMask} \cup [1..4 -> Byte], form: DOMAIN FormMax, n: Nat]
  BY <1>1, Zenon DEF HeaderType
<1>3. h.fin \in BOOLEAN /\ h.opcode \in 0..15 /\ h.n \in Nat /\ h.form \in DOMAIN FormMax
  BY <1>2
<1>4. h.rsv \in {16 * r : r \in 0..7}
  BY <1>2
<1>5. h.rsv \in {0, 16, 32, 48, 64, 80, 96, 112}
  <2>1. PICK r \in 0..7 : h.rsv = 16 * r
    BY <1>4
  <2>2. r \in {0, 1, 2, 3, 4, 5, 6, 7}
    OBVIOUS
  <2>3. QED
    BY <2>1, <2>2
<1>6. h.form \in {"Small", "Medium", "Large"}
  BY <1>3 DEF FormMax
<1>7. h.n <= FormMax[h.form]
  BY <1>1, Zenon DEF HeaderType
<1>8. /\ h.form = "Small" => h.n <= SmallMax
      /\ h.form = "Medium" => h.n <= MediumMax
      /\ h.form = "Large" => h.n <= U64Max
  BY <1>6, <1>7 DEF FormMax
<1>9. SmallMax \in Nat /\ MediumMax \in Nat /\ U64Max \in Nat
  BY LengthAssumption
<1>10. TwoBytes \in Nat /\ EightBytes \in Nat
  BY DEF TwoBytes, EightBytes
<1>11. /\ h.form = "Small" => h.n <= 125
       /\ h.form = "Medium" => h.n < TwoBytes
       /\ h.form = "Large" => h.n < EightBytes
  BY <1>3, <1>8, <1>9, <1>10 DEF CodeLengths
<1>12. QED
  BY <1>3, <1>5, <1>6, <1>11

Joins(u, s, t) ==
  /\ u \in Seq(Byte) /\ Len(u) = Len(s) + Len(t)
  /\ \A j \in 1..Len(s) : u[j] = s[j]
  /\ \A j \in 1..Len(t) : u[Len(s) + j] = t[j]

(* Joins says what concatenation does, without the operators that the      *)
(* provers would expand.                                                   *)
LEMMA Joined ==
  ASSUME NEW s \in Seq(Byte), NEW t \in Seq(Byte)
  PROVE  Joins(s \o t, s, t)
BY DEF Joins

(* Four bytes are a sequence of four.                                      *)
LEMMA FourLong ==
  ASSUME NEW S, NEW m \in [1..4 -> S]
  PROVE  m \in Seq(S) /\ Len(m) = 4
<1>1. \A n \in Nat : [1..n -> S] \subseteq Seq(S)
  BY SeqDef, Zenon
<1>2. m \in Seq(S)
  <2>1. 4 \in Nat
    OBVIOUS
  <2>2. QED
    BY <1>1, <2>1, Zenon
<1>3. DOMAIN m = 1..4 /\ DOMAIN m = 1..Len(m) /\ Len(m) \in Nat
  BY <1>2, LenProperties
<1>4. Len(m) = 4
  BY <1>3
<1>5. QED
  BY <1>2, <1>4

(* A mask takes four bytes, or none.                                       *)
LEMMA MaskFacts ==
  ASSUME NEW h \in Headers
  PROVE  h.mask \in Seq(Byte) /\ Len(h.mask) = MaskLen(h) /\ MaskLen(h) \in {0, 4}
<1>1. h \in HeaderType
  BY HeaderAssumption
<1>2. h.mask \in {NoMask} \cup [1..4 -> Byte]
  BY <1>1 DEF HeaderType
<1>3. CASE h.mask = NoMask
  BY <1>3 DEF NoMask, MaskLen
<1>4. CASE h.mask \in [1..4 -> Byte]
  <2>1. h.mask \in Seq(Byte) /\ Len(h.mask) = 4
    BY <1>4, FourLong
  <2>2. h.mask # NoMask
    <3>1. Len(<<>>) = 0 /\ 0 # 4
      BY EmptySeq
    <3>2. QED
      BY <2>1, <3>1, Zenon DEF NoMask
  <2>3. QED
    BY <2>1, <2>2 DEF MaskLen
<1>5. QED
  BY <1>2, <1>3, <1>4

(* header_len is the sum of the parts of a header.                         *)
LEMMA LenFacts ==
  ASSUME NEW h \in Headers, CodeLengths
  PROVE  /\ Ext(h) \in {0, 2, 8}
         /\ HeadLen(h) = 2 + Ext(h) + MaskLen(h)
         /\ HeadLen(h) \in Nat /\ HeadLen(h) >= 2
<1>1. Ext(h) \in {0, 2, 8}
  BY FieldFacts DEF Ext, ExtendedLen
<1>2. HeadLen(h) = 2 + ExtendedLen[h.form] + (IF h.mask # NoMask THEN 4 ELSE 0)
  BY Zenon DEF HeadLen, HeaderLen
<1>3. (IF h.mask # NoMask THEN 4 ELSE 0) = MaskLen(h)
  BY DEF MaskLen
<1>4. HeadLen(h) = 2 + Ext(h) + MaskLen(h)
  BY <1>2, <1>3, Zenon DEF Ext
<1>5. MaskLen(h) \in {0, 4}
  BY MaskFacts
<1>6. QED
  BY <1>1, <1>4, <1>5

(* The flags and the opcode share a byte, as do the mask bit and the       *)
(* length.                                                                 *)
LEMMA FirstBytes ==
  ASSUME NEW h \in Headers, CodeLengths
  PROVE  FirstByte(h) \in Byte /\ SecondByte(h) \in Byte
<1>1. FirstByte(h) \in Byte
  <2>1. (IF h.fin THEN 128 ELSE 0) \in {0, 128}
    OBVIOUS
  <2>2. QED
    BY <2>1, FieldFacts DEF FirstByte, Byte
<1>2. SecondByte(h) \in Byte
  <2>1. (IF h.mask # NoMask THEN 128 ELSE 0) \in {0, 128}
    OBVIOUS
  <2>2. QED
    BY <2>1, FieldFacts DEF SecondByte, Byte
<1>3. QED
  BY <1>1, <1>2

(* Where the parts of a header are in its bytes.                           *)
LEMMA StoredFacts ==
  ASSUME NEW h \in Headers, CodeLengths
  PROVE  /\ Stored(h) \in Seq(Byte) /\ Len(Stored(h)) = HeadLen(h)
         /\ Stored(h)[1] = FirstByte(h) /\ Stored(h)[2] = SecondByte(h)
         /\ \A j \in 1..Ext(h) : Stored(h)[2 + j] = BigEndian(h.n, Ext(h))[j]
         /\ \A j \in 1..MaskLen(h) : Stored(h)[2 + Ext(h) + j] = h.mask[j]
<1>1. PICK two, ext, key : two = <<FirstByte(h), SecondByte(h)>>
                            /\ ext = BigEndian(h.n, Ext(h)) /\ key = h.mask
  OBVIOUS
<1>2. two \in Seq(Byte) /\ Len(two) = 2 /\ two[1] = FirstByte(h) /\ two[2] = SecondByte(h)
  BY <1>1, FirstBytes
<1>3. ext \in Seq(Byte) /\ Len(ext) = Ext(h)
  BY <1>1, BigEndianBytes, FieldFacts, LenFacts
<1>4. key \in Seq(Byte) /\ Len(key) = MaskLen(h)
  BY <1>1, MaskFacts
<1>5. Stored(h) = (two \o ext) \o key
  BY <1>1, Zenon DEF Stored, MaskBytes, Ext
<1>6. PICK front : front = two \o ext
  OBVIOUS
<1>0. \A s, t \in Seq(Byte) : Joins(s \o t, s, t)
  BY Joined
<1>7. Joins(front, two, ext)
  BY <1>0, <1>2, <1>3, <1>6, Zenon
<1>8. front \in Seq(Byte) /\ Len(front) = 2 + Ext(h) /\ front[1] = two[1] /\ front[2] = two[2]
      /\ \A j \in 1..Ext(h) : front[2 + j] = ext[j]
  BY <1>2, <1>3, <1>7 DEF Joins
<1>9. PICK all : all = front \o key
  OBVIOUS
<1>10. /\ all \in Seq(Byte) /\ Len(all) = Len(front) + Len(key)
       /\ \A j \in 1..Len(front) : all[j] = front[j]
       /\ \A j \in 1..Len(key) : all[Len(front) + j] = key[j]
  <2>1. Joins(all, front, key)
    BY <1>0, <1>4, <1>8, <1>9, Zenon
  <2>2. QED
    BY <2>1 DEF Joins
<1>11. Len(all) = HeadLen(h)
  BY <1>4, <1>8, <1>10, LenFacts
<1>12. 1 \in 1..Len(front) /\ 2 \in 1..Len(front)
       /\ \A j \in 1..Ext(h) : 2 + j \in 1..Len(front)
  BY <1>8, LenFacts
<1>13. all[1] = two[1] /\ all[2] = two[2]
       /\ \A j \in 1..Ext(h) : all[2 + j] = ext[j]
  BY <1>8, <1>10, <1>12, Zenon
<1>14. \A j \in 1..MaskLen(h) : all[2 + Ext(h) + j] = key[j]
  BY <1>4, <1>8, <1>10, Zenon
<1>15. Stored(h) = all
  BY <1>5, <1>6, <1>9, Zenon
<1>16. QED
  BY <1>1, <1>2, <1>10, <1>11, <1>13, <1>14, <1>15, Zenon

(* All bytes that set_len exposes are stored.                              *)
LEMMA WrittenFacts ==
  ASSUME NEW h \in Headers, CodeLengths
  PROVE  Written(h) = Stored(h)
<1>1. Stored(h) \in Seq(Byte) /\ Len(Stored(h)) = HeadLen(h) /\ HeadLen(h) \in Nat
  BY StoredFacts, LenFacts
<1>2. Written(h) = [k \in 1..HeadLen(h) |-> Stored(h)[k]]
  BY <1>1 DEF Written
<1>3. QED
  BY <1>1, <1>2

(* parse_slice finds the form, the length and the mask bit in the second   *)
(* byte.                                                                   *)
LEMMA ParsedLenFacts ==
  ASSUME NEW h \in Headers, CodeLengths, NEW slice, slice[2] = SecondByte(h)
  PROVE  /\ Extended(slice) = Ext(h) /\ ParsedLen(slice) = HeadLen(h)
         /\ slice[2] >= 128 <=> h.mask # NoMask
         /\ h.form = "Small" => slice[2] % 128 = h.n
<1>1. PICK b, n : b = slice[2] /\ n = h.n
  OBVIOUS
<1>2. PICK m \in {0, 128} : m = IF h.mask # NoMask THEN 128 ELSE 0
  OBVIOUS
<1>3. /\ h.form = "Small" => n \in 0..125 /\ b = m + n
      /\ h.form = "Medium" => b = m + 126
      /\ h.form = "Large" => b = m + 127
  BY <1>1, <1>2, FieldFacts DEF SecondByte
<1>4. h.form \in {"Small", "Medium", "Large"}
  BY FieldFacts
<1>5. CASE h.form = "Small"
  <2>1. b % 128 = n /\ (b >= 128 <=> m = 128)
    BY <1>2, <1>3, <1>5
  <2>2. Extended(slice) = 0 /\ Ext(h) = 0
    BY <1>1, <1>3, <1>5, <2>1 DEF Extended, Ext, ExtendedLen
  <2>3. QED
    BY <1>1, <1>2, <2>1, <2>2, LenFacts DEF ParsedLen, MaskLen
<1>6. CASE h.form = "Medium"
  <2>1. b % 128 = 126 /\ (b >= 128 <=> m = 128)
    BY <1>2, <1>3, <1>6
  <2>2. Extended(slice) = 2 /\ Ext(h) = 2
    BY <1>1, <1>3, <1>6, <2>1 DEF Extended, Ext, ExtendedLen
  <2>3. QED
    BY <1>1, <1>2, <1>6, <2>1, <2>2, LenFacts DEF ParsedLen, MaskLen
<1>7. CASE h.form = "Large"
  <2>1. b % 128 = 127 /\ (b >= 128 <=> m = 128)
    BY <1>2, <1>3, <1>7
  <2>2. Extended(slice) = 8 /\ Ext(h) = 8
    BY <1>1, <1>3, <1>7, <2>1 DEF Extended, Ext, ExtendedLen
  <2>3. QED
    BY <1>1, <1>2, <1>7, <2>1, <2>2, LenFacts DEF ParsedLen, MaskLen
<1>8. QED
  BY <1>4, <1>5, <1>6, <1>7

(* It finds fin, rsv and the opcode in the first.                          *)
LEMMA FirstByteFacts ==
  ASSUME NEW h \in Headers, CodeLengths, NEW slice, slice[1] = FirstByte(h)
  PROVE  /\ slice[1] >= 128 <=> h.fin
         /\ Rsv(slice) = h.rsv /\ slice[1] % 16 = h.opcode
<1>1. PICK b, r, o : b = slice[1] /\ r = h.rsv /\ o = h.opcode
  OBVIOUS
<1>2. PICK f \in {0, 128} : f = IF h.fin THEN 128 ELSE 0
  OBVIOUS
<1>3. b = r + o + f /\ o \in 0..15 /\ r \in {0, 16, 32, 48, 64, 80, 96, 112}
  BY <1>1, <1>2, FieldFacts DEF FirstByte
<1>4. b >= 128 <=> f = 128
  BY <1>2, <1>3
<1>5. b % 16 = o /\ b % 128 = r + o
  BY <1>2, <1>3
<1>6. f = 128 <=> h.fin
  BY <1>2
<1>7. QED
  BY <1>1, <1>3, <1>4, <1>5, <1>6 DEF Rsv

Slices(u, s, m, n) ==
  /\ u \in Seq(Byte) /\ Len(u) = n
  /\ \A j \in 1..n : u[j] = s[m + j]

(* Slices says what SubSeq does, in the same way.                          *)
LEMMA Sliced ==
  ASSUME NEW s \in Seq(Byte), NEW m \in Nat, NEW n \in Nat, m + n <= Len(s)
  PROVE  Slices(SubSeq(s, m + 1, m + n), s, m, n)
<1>1. \A j \in m+1..m+n : s[j] \in Byte
  OBVIOUS
<1>2. /\ SubSeq(s, m+1, m+n) \in Seq(Byte)
      /\ Len(SubSeq(s, m+1, m+n)) = IF m+1 <= m+n THEN m+n-(m+1)+1 ELSE 0
      /\ \A j \in 1..m+n-(m+1)+1 : SubSeq(s, m+1, m+n)[j] = s[m+1+j-1]
  BY <1>1, SubSeqProperties
<1>3. m+n-(m+1)+1 = n /\ (m+1 <= m+n <=> 1 <= n)
  OBVIOUS
<1>4. \A j \in 1..n : m+1+j-1 = m+j
  OBVIOUS
<1>5. Len(SubSeq(s, m+1, m+n)) = n
  BY <1>2, <1>3
<1>6. QED
  BY <1>2, <1>3, <1>4, <1>5 DEF Slices

(* What is stored of a header is parsed as that header.                    *)
LEMMA ParsedIs ==
  ASSUME NEW h \in Headers, CodeLengths, NEW slice \in Seq(Byte), HeadLen(h) <= Len(slice),
         \A j \in 1..HeadLen(h) : slice[j] = Stored(h)[j]
  PROVE  Parsed(slice) = h
<1>1. slice[1] = FirstByte(h) /\ slice[2] = SecondByte(h)
  BY StoredFacts, LenFacts
<1>2. /\ slice[1] >= 128 <=> h.fin
      /\ Rsv(slice) = h.rsv /\ slice[1] % 16 = h.opcode
  BY <1>1, FirstByteFacts
<1>3. /\ Extended(slice) = Ext(h)
      /\ slice[2] >= 128 <=> h.mask # NoMask
      /\ h.form = "Small" => slice[2] % 128 = h.n
  BY <1>1, ParsedLenFacts
<1>4. PICK ext : ext = Ext(h)
  OBVIOUS
<1>5. ext \in {0, 2, 8} /\ HeadLen(h) = 2 + ext + MaskLen(h) /\ MaskLen(h) \in {0, 4}
  BY <1>4, LenFacts, MaskFacts
<1>6. (IF slice[2] >= 128 THEN SubSeq(slice, ext + 3, ext + 6) ELSE NoMask) = h.mask
  <2>1. CASE h.mask = NoMask
    BY <2>1, <1>3
  <2>2. CASE h.mask # NoMask
    <3>1. MaskLen(h) = 4 /\ h.mask \in Seq(Byte) /\ Len(h.mask) = 4
      BY <2>2, MaskFacts DEF MaskLen
    <3>2. PICK u : u = SubSeq(slice, ext + 3, ext + 6)
      OBVIOUS
    <3>3. u = SubSeq(slice, (2 + ext) + 1, (2 + ext) + 4)
      BY <3>2, <1>5
    <3>4. 2 + ext \in Nat /\ (2 + ext) + 4 <= Len(slice)
      BY <1>5, <3>1
    <3>5. Slices(u, slice, 2 + ext, 4)
      BY <3>3, <3>4, Sliced
    <3>6. \A j \in 1..4 : 2 + ext + j \in 1..HeadLen(h)
      BY <1>5, <3>1
    <3>7. \A j \in 1..4 : slice[2 + ext + j] = h.mask[j]
      BY <1>4, <3>1, <3>6, StoredFacts
    <3>8. u \in Seq(Byte) /\ Len(u) = 4 /\ \A j \in 1..4 : u[j] = h.mask[j]
      BY <3>5, <3>7 DEF Slices
    <3>9. u = h.mask
      BY <3>1, <3>8, SeqEqual, ZenonT(60)
    <3>10. QED
      BY <1>3, <2>2, <3>2, <3>9
  <2>3. QED
    BY <2>1, <2>2
<1>7. h.form \in {"Small", "Medium", "Large"}
  BY FieldFacts
<1>8. (IF ext = 0 THEN slice[2] % 128 ELSE FromBigEndian(SubSeq(slice, 3, ext + 2))) = h.n
  <2>1. CASE h.form = "Small"
    BY <2>1, <1>3, <1>4 DEF Ext, ExtendedLen
  <2>2. CASE h.form # "Small"
    <3>1. ext \in {2, 8} /\ (ext = 2 => h.n < TwoBytes) /\ (ext = 8 => h.n < EightBytes)
      BY <2>2, <1>4, <1>7, FieldFacts DEF Ext, ExtendedLen
    <3>2. PICK u : u = SubSeq(slice, 3, ext + 2)
      OBVIOUS
    <3>3. u = SubSeq(slice, 2 + 1, 2 + ext)
      BY <3>2, <3>1
    <3>4. 2 + ext <= Len(slice) /\ ext \in Nat
      BY <1>5, <3>1
    <3>5. Slices(u, slice, 2, ext)
      BY <3>3, <3>4, Sliced
    <3>6. \A j \in 1..ext : 2 + j \in 1..HeadLen(h)
      BY <1>5, <3>1
    <3>7. \A j \in 1..ext : slice[2 + j] = BigEndian(h.n, ext)[j]
      BY <1>4, <3>6, StoredFacts
    <3>8. u \in Seq(Byte) /\ Len(u) = ext /\ \A j \in 1..ext : u[j] = BigEndian(h.n, ext)[j]
      BY <3>5, <3>7 DEF Slices
    <3>9. h.n \in Nat /\ h.n < IF ext = 2 THEN TwoBytes ELSE EightBytes
      BY <3>1, FieldFacts
    <3>10. FromBigEndian(u) = h.n
      BY <3>1, <3>8, <3>9, ReadBack, ZenonT(60)
    <3>11. ext # 0
      BY <3>1
    <3>12. QED
      BY <3>2, <3>10, <3>11
  <2>3. QED
    BY <2>1, <2>2
<1>9. (CASE ext = 8 -> "Large" [] ext = 2 -> "Medium" [] ext = 0 -> "Small") = h.form
  BY <1>4, <1>7 DEF Ext, ExtendedLen
<1>10. (slice[1] >= 128) = h.fin
  BY <1>2, FieldFacts
<1>11. Parsed(slice) = [fin |-> h.fin, rsv |-> h.rsv, opcode |-> h.opcode, mask |-> h.mask,
                      form |-> h.form, n |-> h.n]
  BY <1>2, <1>3, <1>4, <1>6, <1>8, <1>9, <1>10, Zenon DEF Parsed
<1>12. h \in HeaderType
  BY HeaderAssumption
<1>13. h \in [fin: BOOLEAN, rsv: {16 * r : r \in 0..7}, opcode: 0..15,
              mask: {NoMask} \cup [1..4 -> Byte], form: DOMAIN FormMax, n: Nat]
  BY <1>12, Zenon DEF HeaderType
<1>14. h = [fin |-> h.fin, rsv |-> h.rsv, opcode |-> h.opcode, mask |-> h.mask,
            form |-> h.form, n |-> h.n]
  BY <1>13
<1>15. QED
  BY <1>11, <1>14, Zenon
-----------------------------------------------------------------------------
(* Headers that lie end to end in the bytes: header k of hs, for k > g,    *)
(* begins after byte at[k - 1].                                            *)
Laid(at, bytes, hs, g) ==
  /\ at \in [g..Len(hs) -> Nat] /\ at[g] = 0 /\ at[Len(hs)] = Len(bytes)
  /\ \A x, k \in g..Len(hs) : x <= k => at[x] <= at[k]
  /\ \A k \in g+1..Len(hs) : at[k] = at[k-1] + HeadLen(hs[k])
  /\ \A k \in g+1..Len(hs) : \A j \in 1..HeadLen(hs[k]) : bytes[at[k-1] + j] = Stored(hs[k])[j]

(* The first header that was not decoded is at the front of the bytes.     *)
LEMMA LaidFront ==
  ASSUME CodeLengths, NEW at, NEW bytes \in Seq(Byte), NEW hs \in Seq(Headers),
         NEW g \in Nat, g < Len(hs), Laid(at, bytes, hs, g)
  PROVE  /\ hs[g+1] \in Headers /\ at[g+1] = HeadLen(hs[g+1])
         /\ HeadLen(hs[g+1]) <= Len(bytes)
         /\ \A j \in 1..HeadLen(hs[g+1]) : bytes[j] = Stored(hs[g+1])[j]
<1>1. g + 1 \in g+1..Len(hs) /\ g + 1 \in g..Len(hs) /\ Len(hs) \in g..Len(hs)
      /\ g + 1 <= Len(hs) /\ g + 1 - 1 = g /\ g + 1 \in 1..Len(hs)
  OBVIOUS
<1>2. hs[g+1] \in Headers
  BY <1>1
<1>3. PICK n : n = HeadLen(hs[g+1])
  OBVIOUS
<1>4. n \in Nat
  BY <1>2, <1>3, LenFacts
<1>0. PICK k : k = g + 1
  OBVIOUS
<1>5. at[g] = 0 /\ at[k] = at[g] + n
  <2>1. k \in g+1..Len(hs) /\ k - 1 = g
    BY <1>0, <1>1
  <2>2. at[k] = at[k-1] + HeadLen(hs[k])
    BY <2>1, Zenon DEF Laid
  <2>3. at[g] = 0
    BY DEF Laid
  <2>4. QED
    BY <1>0, <1>3, <2>1, <2>2, <2>3, Zenon
<1>6. at[g+1] = n
  BY <1>0, <1>4, <1>5
<1>7. at[g+1] <= at[Len(hs)] /\ at[Len(hs)] = Len(bytes)
  BY <1>1, Zenon DEF Laid
<1>8. \A j \in 1..n : bytes[0 + j] = Stored(hs[g+1])[j]
  <2>1. k \in g+1..Len(hs) /\ k - 1 = g
    BY <1>0, <1>1
  <2>2. \A j \in 1..HeadLen(hs[k]) : bytes[at[k-1] + j] = Stored(hs[k])[j]
    BY <2>1, Zenon DEF Laid
  <2>3. at[g] = 0
    BY DEF Laid
  <2>4. QED
    BY <1>0, <1>3, <2>1, <2>2, <2>3, Zenon
<1>9. \A j \in 1..n : 0 + j = j
  BY <1>4
<1>10. \A j \in 1..n : bytes[j] = Stored(hs[g+1])[j]
  BY <1>8, <1>9, Zenon
<1>11. QED
  BY <1>2, <1>3, <1>6, <1>7, <1>10, Zenon

(* The first header is taken away.                                         *)
LEMMA LaidNext ==
  ASSUME CodeLengths, NEW at, NEW bytes \in Seq(Byte), NEW hs \in Seq(Headers),
         NEW g \in Nat, g < Len(hs), Laid(at, bytes, hs, g),
         NEW rest \in Seq(Byte), NEW n, n = HeadLen(hs[g+1]), Slices(rest, bytes, n, Len(bytes) - n)
  PROVE  \E more : Laid(more, rest, hs, g + 1)
<1>1. n \in Nat /\ at[g+1] = n /\ n <= Len(bytes)
  BY LaidFront, LenFacts, ZenonT(60)
<1> DEFINE more == [k \in g+1..Len(hs) |-> at[k] - n]
<1>2. at \in [g..Len(hs) -> Nat] /\ at[Len(hs)] = Len(bytes)
      /\ \A x, k \in g..Len(hs) : x <= k => at[x] <= at[k]
  BY DEF Laid
<1>3. g + 1 \in g..Len(hs) /\ Len(hs) \in g+1..Len(hs) /\ g + 1 \in g+1..Len(hs)
      /\ \A k \in g+1..Len(hs) : k \in g..Len(hs) /\ g + 1 <= k
  OBVIOUS
<1>4. \A k \in g+1..Len(hs) : at[k] \in Nat /\ n <= at[k]
  BY <1>1, <1>2, <1>3, Zenon
<1>5. more \in [g+1..Len(hs) -> Nat]
  BY <1>1, <1>4
<1>6. more[g+1] = 0 /\ more[Len(hs)] = Len(bytes) - n
  BY <1>1, <1>2, <1>3
<1>7. ASSUME NEW x \in g+1..Len(hs), NEW k \in g+1..Len(hs), x <= k
      PROVE  more[x] <= more[k]
  <2>1. at[x] <= at[k] /\ at[x] \in Nat /\ at[k] \in Nat
    BY <1>2, <1>3, <1>4, <1>7, Zenon
  <2>2. QED
    BY <1>1, <2>1, SMTT(30)
<1>8. ASSUME NEW k \in g+2..Len(hs)
      PROVE  /\ more[k] = more[k-1] + HeadLen(hs[k])
             /\ \A j \in 1..HeadLen(hs[k]) : rest[more[k-1] + j] = Stored(hs[k])[j]
  <2>1. k \in g+1..Len(hs) /\ k - 1 \in g+1..Len(hs) /\ k \in 1..Len(hs)
    OBVIOUS
  <2>2. PICK a, b, l : a = at[k-1] /\ b = at[k] /\ l = HeadLen(hs[k])
    OBVIOUS
  <2>3. hs[k] \in Headers
    BY <2>1
  <2>4. l \in Nat /\ a \in Nat /\ b \in Nat /\ n <= a
    BY <1>4, <2>1, <2>2, <2>3, LenFacts
  <2>5. b = a + l /\ \A j \in 1..l : bytes[a + j] = Stored(hs[k])[j]
    BY <2>1, <2>2, Zenon DEF Laid
  <2>6. more[k] = b - n /\ more[k-1] = a - n
    BY <2>1, <2>2
  <2>7. b <= Len(bytes)
    <3>1. k \in g..Len(hs) /\ Len(hs) \in g..Len(hs) /\ k <= Len(hs)
      OBVIOUS
    <3>2. QED
      BY <1>2, <2>2, <3>1, Zenon
  <2>8. \A j \in 1..l : rest[(a - n) + j] = bytes[a + j]
    <3> TAKE j \in 1..l
    <3>1. (a - n) + j \in 1..Len(bytes)-n /\ n + ((a - n) + j) = a + j
      BY <1>1, <2>4, <2>5, <2>7, SMTT(30)
    <3>2. rest[(a - n) + j] = bytes[n + ((a - n) + j)]
      BY <3>1 DEF Slices
    <3>3. QED
      BY <3>1, <3>2, Zenon
  <2>9. b - n = (a - n) + l
    BY <1>1, <2>4, <2>5
  <2>10. QED
    BY <2>2, <2>5, <2>6, <2>8, <2>9, Zenon
<1> HIDE DEF more
<1>9. Len(rest) = Len(bytes) - n
  BY DEF Slices
<1>10. g + 1 + 1 = g + 2
  OBVIOUS
<1>11. Laid(more, rest, hs, g + 1)
  BY <1>5, <1>6, <1>7, <1>8, <1>9, <1>10, ZenonT(60) DEF Laid
<1>12. QED
  BY <1>11

(* A header is added at the end.                                           *)
LEMMA LaidMore ==
  ASSUME CodeLengths, NEW at, NEW bytes \in Seq(Byte), NEW hs \in Seq(Headers),
         NEW g \in 0..Len(hs), Laid(at, bytes, hs, g), NEW h \in Headers,
         NEW longer \in Seq(Byte), Joins(longer, bytes, Stored(h)),
         NEW all \in Seq(Headers), Len(all) = Len(hs) + 1, all[Len(hs) + 1] = h,
         \A k \in 1..Len(hs) : all[k] = hs[k]
  PROVE  \E more : Laid(more, longer, all, g)
<1>1. PICK m \in Nat : m = Len(hs)
  OBVIOUS
<1>2. Len(all) = m + 1 /\ all[m+1] = h /\ \A k \in 1..m : all[k] = hs[k]
  BY <1>1
<1>3. PICK n : n = HeadLen(h)
  OBVIOUS
<1>4. n \in Nat /\ Len(Stored(h)) = n
  BY <1>3, LenFacts, StoredFacts
<1>5. /\ Len(longer) = Len(bytes) + n
      /\ \A j \in 1..Len(bytes) : longer[j] = bytes[j]
      /\ \A j \in 1..n : longer[Len(bytes) + j] = Stored(h)[j]
  BY <1>4 DEF Joins
<1> DEFINE more == [k \in g..m+1 |-> IF k = m+1 THEN Len(bytes) + n ELSE at[k]]
<1>6. /\ at \in [g..m -> Nat] /\ at[g] = 0 /\ at[m] = Len(bytes)
      /\ \A x, k \in g..m : x <= k => at[x] <= at[k]
  BY <1>1, Zenon DEF Laid
<1>7. g \in Nat /\ g <= m /\ m \in g..m /\ g \in g..m /\ g \in g..m+1 /\ m \in g..m+1
      /\ m + 1 \in g..m+1 /\ m # m + 1 /\ g # m + 1
  BY <1>1
<1>8. \A k \in g..m : more[k] = at[k] /\ at[k] \in Nat /\ at[k] <= Len(bytes)
  <2> TAKE k \in g..m
  <2>1. k \in g..m+1 /\ k # m+1 /\ k <= m
    BY <1>7
  <2>2. QED
    BY <1>6, <1>7, <2>1
<1>9. more[m+1] = Len(bytes) + n
  BY <1>7
<1>10. \A k \in g..m+1 : k \in g..m \/ k = m + 1
  BY <1>7
<1> HIDE DEF more
<1>11. more \in [g..m+1 -> Nat]
  <2>1. \A k \in g..m+1 : more[k] \in Nat
    <3>1. Len(bytes) + n \in Nat
      BY <1>4
    <3>2. QED
      BY <1>8, <1>9, <1>10, <3>1, Zenon
  <2>2. more = [k \in g..m+1 |-> more[k]]
    BY DEF more
  <2>3. QED
    BY <2>1, <2>2
<1>12. more[g] = 0 /\ more[m+1] = Len(longer)
  BY <1>5, <1>6, <1>7, <1>8, <1>9
<1>13. ASSUME NEW x \in g..m+1, NEW k \in g..m+1, x <= k
       PROVE  more[x] <= more[k]
  <2>1. CASE k \in g..m
    <3>1. x \in g..m
      BY <1>7, <1>13, <2>1
    <3>2. QED
      BY <1>6, <1>8, <1>13, <2>1, <3>1, Zenon
  <2>2. CASE k = m + 1
    <3>1. CASE x \in g..m
      <4>1. more[x] \in Nat /\ more[x] <= Len(bytes)
        BY <1>8, <3>1
      <4>2. QED
        BY <1>4, <1>9, <2>2, <4>1
    <3>2. CASE x = m + 1
      BY <1>4, <1>9, <2>2, <3>2
    <3>3. QED
      BY <1>10, <3>1, <3>2
  <2>3. QED
    BY <1>10, <2>1, <2>2
<1>14. ASSUME NEW k \in g+1..m+1
       PROVE  /\ more[k] = more[k-1] + HeadLen(all[k])
              /\ \A j \in 1..HeadLen(all[k]) : longer[more[k-1] + j] = Stored(all[k])[j]
  <2>1. CASE k = m + 1
    <3>1. k - 1 = m /\ m \in g..m
      BY <1>7, <2>1
    <3>2. more[k-1] = Len(bytes) /\ all[k] = h /\ more[k] = Len(bytes) + n
      BY <1>2, <1>6, <1>8, <1>9, <2>1, <3>1, Zenon
    <3>3. QED
      BY <1>3, <1>5, <3>2, Zenon
  <2>2. CASE k # m + 1
    <3>1. k \in g+1..m /\ k \in g..m /\ k - 1 \in g..m /\ k \in 1..m
      BY <1>7, <2>2
    <3>2. PICK a, b, l : a = at[k-1] /\ b = at[k] /\ l = HeadLen(hs[k])
      OBVIOUS
    <3>3. all[k] = hs[k] /\ more[k-1] = a /\ more[k] = b
      BY <1>2, <1>8, <3>1, <3>2, Zenon
    <3>4. hs[k] \in Headers
      BY <1>1, <3>1
    <3>5. l \in Nat /\ a \in Nat /\ b \in Nat /\ b <= Len(bytes)
      BY <1>8, <3>1, <3>2, <3>4, LenFacts
    <3>6. b = a + l /\ \A j \in 1..l : bytes[a + j] = Stored(hs[k])[j]
      BY <1>1, <3>1, <3>2, Zenon DEF Laid
    <3>7. \A j \in 1..l : a + j \in 1..Len(bytes)
      BY <3>5, <3>6, SMTT(30)
    <3>8. \A j \in 1..l : longer[a + j] = Stored(hs[k])[j]
      BY <1>5, <3>6, <3>7, Zenon
    <3>9. QED
      BY <3>2, <3>3, <3>6, <3>8, Zenon
  <2>3. QED
    BY <2>1, <2>2
<1>15. Laid(more, longer, all, g)
  BY <1>2, <1>11, <1>12, <1>13, <1>14, Zenon DEF Laid
<1>16. QED
  BY <1>15
-----------------------------------------------------------------------------
(* The invariant: what was decoded is the beginning of what was encoded,   *)
(* and the rest lies in the bytes still to be decoded.                     *)
CodecType ==
  /\ sent \in Seq(Headers) /\ got \in Seq(Headers)
  /\ dst \in Seq(Byte) /\ src \in Seq(Byte)

Under == \E at : Laid(at, src \o dst, sent, Len(got))

CInv == CodecType /\ RoundTrips /\ Under

(* Nothing is sent at first.                                               *)
LEMMA CInvInit == ASSUME CodeLengths PROVE Init => CInv
<1> SUFFICES ASSUME Init PROVE CInv
  OBVIOUS
<1>1. sent = <<>> /\ dst = <<>> /\ src = <<>> /\ got = <<>>
  BY DEF Init
<1>2. CodecType /\ RoundTrips
  BY <1>1 DEF CodecType, RoundTrips
<1>3. Laid([k \in 0..0 |-> 0], <<>>, <<>>, 0)
  BY DEF Laid
<1>4. src \o dst = <<>> /\ Len(got) = 0
  BY <1>1
<1>5. QED
  BY <1>1, <1>2, <1>3, <1>4, Zenon DEF CInv, Under

(* Cutting a sequence and putting the pieces together gives it back.       *)
LEMMA CutJoin ==
  ASSUME NEW s \in Seq(Byte), NEW k \in 0..Len(s)
  PROVE  /\ SubSeq(s, 1, k) \in Seq(Byte) /\ SubSeq(s, k + 1, Len(s)) \in Seq(Byte)
         /\ SubSeq(s, 1, k) \o SubSeq(s, k + 1, Len(s)) = s
<1>1. PICK a, b : a = SubSeq(s, 1, k) /\ b = SubSeq(s, k + 1, Len(s))
  OBVIOUS
<1>2. PICK n \in Nat : n = Len(s)
  OBVIOUS
<1>3. Slices(a, s, 0, k)
  <2>1. 0 + 1 = 1 /\ 0 + k = k /\ k \in Nat /\ k <= Len(s)
    BY <1>2
  <2>2. Slices(SubSeq(s, 0 + 1, 0 + k), s, 0, k)
    BY <2>1, Sliced
  <2>3. QED
    BY <1>1, <2>1, <2>2, Zenon
<1>4. Slices(b, s, k, n - k)
  <2>1. k \in Nat /\ n - k \in Nat /\ k + (n - k) = n /\ k + (n - k) <= Len(s)
    BY <1>2
  <2>2. Slices(SubSeq(s, k + 1, k + (n - k)), s, k, n - k)
    BY <2>1, Sliced
  <2>3. QED
    BY <1>1, <1>2, <2>1, <2>2, Zenon
<1>5. a \in Seq(Byte) /\ b \in Seq(Byte) /\ Len(a) = k /\ Len(b) = n - k
  BY <1>3, <1>4 DEF Slices
<1>6. PICK u : u = a \o b
  OBVIOUS
<1>7. Joins(u, a, b)
  BY <1>5, <1>6, Joined
<1>8. u \in Seq(Byte) /\ Len(u) = n
  BY <1>2, <1>5, <1>7 DEF Joins
<1>9. ASSUME NEW j \in 1..n PROVE u[j] = s[j]
  <2>1. CASE j <= k
    <3>1. j \in 1..k
      BY <2>1
    <3>2. u[j] = a[j] /\ a[j] = s[0 + j]
      BY <1>3, <1>5, <1>7, <3>1 DEF Joins, Slices
    <3>3. QED
      BY <3>2
  <2>2. CASE ~(j <= k)
    <3>1. j - k \in 1..n-k /\ k + (j - k) = j
      BY <2>2, <1>2
    <3>2. u[k + (j - k)] = b[j - k]
      BY <1>5, <1>7, <3>1 DEF Joins
    <3>3. b[j - k] = s[k + (j - k)]
      BY <1>4, <3>1 DEF Slices
    <3>4. QED
      BY <3>1, <3>2, <3>3, Zenon
  <2>3. QED
    BY <2>1, <2>2
<1>10. u = s
  BY <1>2, <1>8, <1>9, SeqEqual
<1>11. QED
  BY <1>1, <1>5, <1>6, <1>10, Zenon

(* The bytes of a header go behind those of the headers before it.         *)
LEMMA EncodeKeeps ==
  ASSUME CodeLengths, CInv, NEW h \in Headers, Encode(h)
  PROVE  CInv'
<1>1. sent' = Append(sent, h) /\ dst' = dst \o Written(h) /\ src' = src /\ got' = got
  BY DEF Encode
<1>2. PICK s : s = Stored(h)
  OBVIOUS
<1>3. s \in Seq(Byte) /\ Written(h) = s
  BY <1>2, StoredFacts, WrittenFacts
<1>4. sent \in Seq(Headers) /\ got \in Seq(Headers) /\ dst \in Seq(Byte) /\ src \in Seq(Byte)
  BY DEF CInv, CodecType
<1>5. sent' \in Seq(Headers) /\ dst' \in Seq(Byte) /\ CodecType'
  BY <1>1, <1>3, <1>4 DEF CodecType
<1>6. Len(got) <= Len(sent) /\ \A k \in 1..Len(got) : got[k] = sent[k]
  BY DEF CInv, RoundTrips
<1>7. RoundTrips'
  BY <1>1, <1>4, <1>6 DEF RoundTrips
<1>8. PICK bytes, longer : bytes = src \o dst /\ longer = bytes \o s
  OBVIOUS
<1>9. bytes \in Seq(Byte) /\ longer \in Seq(Byte)
  BY <1>3, <1>4, <1>8
<1>10. Joins(longer, bytes, s)
  BY <1>3, <1>8, <1>9, Joined
<1>11. src' \o dst' = longer
  <2>1. (src \o dst) \o s = src \o (dst \o s)
    BY <1>3, <1>4, ConcatAssociative, SMTT(30)
  <2>2. QED
    BY <1>1, <1>3, <1>8, <2>1, Zenon
<1>12. PICK at : Laid(at, bytes, sent, Len(got))
  BY <1>8, Zenon DEF CInv, Under
<1>13. Len(got) \in 0..Len(sent)
  BY <1>4, <1>6
<1>14. PICK hs, all, g : hs = sent /\ all = sent' /\ g = Len(got)
  OBVIOUS
<1>15. \E more : Laid(more, longer, all, g)
  <2>1. hs \in Seq(Headers) /\ all \in Seq(Headers) /\ g \in 0..Len(hs)
        /\ Laid(at, bytes, hs, g) /\ Joins(longer, bytes, Stored(h))
    BY <1>1, <1>2, <1>4, <1>5, <1>10, <1>12, <1>13, <1>14, Zenon
  <2>2. Len(all) = Len(hs) + 1 /\ all[Len(hs) + 1] = h /\ \A k \in 1..Len(hs) : all[k] = hs[k]
    BY <1>1, <1>4, <1>14
  <2>3. QED
    BY <1>9, <2>1, <2>2, LaidMore
<1>16. Under'
  BY <1>1, <1>11, <1>14, <1>15, Zenon DEF Under
<1>17. QED
  BY <1>5, <1>7, <1>16 DEF CInv

(* Bytes move from dst to the end of src: together they are the same.      *)
LEMMA ArriveKeeps == ASSUME CodeLengths, CInv, Arrive PROVE CInv'
<1>1. sent \in Seq(Headers) /\ got \in Seq(Headers) /\ dst \in Seq(Byte) /\ src \in Seq(Byte)
  BY DEF CInv, CodecType
<1>2. PICK k \in 1..Len(dst) : /\ src' = src \o SubSeq(dst, 1, k)
                              /\ dst' = SubSeq(dst, k + 1, Len(dst))
  BY DEF Arrive
<1>3. PICK a, b : a = SubSeq(dst, 1, k) /\ b = SubSeq(dst, k + 1, Len(dst))
  OBVIOUS
<1>4. k \in 0..Len(dst)
  BY <1>1
<1>5. a \in Seq(Byte) /\ b \in Seq(Byte) /\ a \o b = dst
  BY <1>1, <1>3, <1>4, CutJoin
<1>6. src' = src \o a /\ dst' = b /\ sent' = sent /\ got' = got
  BY <1>2, <1>3 DEF Arrive
<1>7. src' \in Seq(Byte) /\ CodecType'
  BY <1>1, <1>5, <1>6 DEF CodecType
<1>8. src' \o dst' = src \o dst
  <2>1. (src \o a) \o b = src \o (a \o b)
    <3>1. a \in Seq(Byte) /\ b \in Seq(Byte)
      BY <1>5
    <3>2. \A s, t, u \in Seq(Byte) : (s \o t) \o u = s \o (t \o u)
      BY ConcatAssociative, SMTT(30)
    <3>3. QED
      BY <1>1, <3>1, <3>2, Zenon
  <2>2. QED
    BY <1>5, <1>6, <2>1, Zenon
<1>9. RoundTrips' /\ Under'
  BY <1>6, <1>8, Zenon DEF CInv, RoundTrips, Under
<1>10. QED
  BY <1>7, <1>9 DEF CInv

(* While a header is to be decoded, its length is known from its first two *)
(* bytes; when none is, no byte is left.                                   *)
LEMMA AtFront ==
  ASSUME CodeLengths, CInv
  PROVE  /\ Len(got) < Len(sent) /\ 2 <= Len(src) =>
              /\ sent[Len(got)+1] \in Headers
              /\ ParsedLen(src) = HeadLen(sent[Len(got)+1])
         /\ Len(got) = Len(sent) => src = <<>> /\ dst = <<>>
<1>1. sent \in Seq(Headers) /\ got \in Seq(Headers) /\ dst \in Seq(Byte) /\ src \in Seq(Byte)
  BY DEF CInv, CodecType
<1>2. PICK bytes, g, hs : bytes = src \o dst /\ g = Len(got) /\ hs = sent
  OBVIOUS
<1>3. Joins(bytes, src, dst)
  BY <1>1, <1>2, Joined
<1>4. PICK at : Laid(at, bytes, hs, g)
  BY <1>2, Zenon DEF CInv, Under
<1>5. hs \in Seq(Headers) /\ g \in Nat /\ bytes \in Seq(Byte)
  BY <1>1, <1>2, <1>3 DEF Joins
<1>6. ASSUME g < Len(hs), 2 <= Len(src)
      PROVE  hs[g+1] \in Headers /\ ParsedLen(src) = HeadLen(hs[g+1])
  <2>1. PICK h : h = hs[g+1]
    OBVIOUS
  <2>2. h \in Headers /\ \A j \in 1..HeadLen(h) : bytes[j] = Stored(h)[j]
    BY <1>4, <1>5, <1>6, <2>1, LaidFront
  <2>3. HeadLen(h) \in Nat /\ HeadLen(h) >= 2
    BY <2>2, LenFacts
  <2>4. bytes[2] = SecondByte(h)
    BY <2>2, <2>3, StoredFacts
  <2>5. bytes[2] = src[2]
    BY <1>1, <1>3, <1>6 DEF Joins
  <2>6. ParsedLen(src) = HeadLen(h)
    BY <2>2, <2>4, <2>5, ParsedLenFacts
  <2>7. QED
    BY <2>1, <2>2, <2>6
<1>7. ASSUME g = Len(hs)
      PROVE  src = <<>> /\ dst = <<>>
  <2>1. at[g] = 0 /\ at[Len(hs)] = Len(bytes)
    BY <1>4, Zenon DEF Laid
  <2>2. Len(bytes) = 0
    BY <1>7, <2>1
  <2>3. Len(src) + Len(dst) = 0
    BY <1>3, <2>2 DEF Joins
  <2>4. QED
    BY <1>1, <2>3
<1>8. QED
  BY <1>2, <1>6, <1>7, Zenon

(* What is decoded is the header at the front, and just its bytes go.      *)
LEMMA DecodeKeeps == ASSUME CodeLengths, CInv, Decode PROVE CInv'
<1>1. sent \in Seq(Headers) /\ got \in Seq(Headers) /\ dst \in Seq(Byte) /\ src \in Seq(Byte)
  BY DEF CInv, CodecType
<1>2. Len(got) <= Len(sent) /\ \A k \in 1..Len(got) : got[k] = sent[k]
  BY DEF CInv, RoundTrips
<1>3. 2 <= Len(src) /\ ParsedLen(src) <= Len(src)
  BY <1>1 DEF Decode, IsSome
<1>4. PICK g \in Nat : g = Len(got)
  BY <1>1
<1>5. g < Len(sent)
  <2>1. src # <<>>
    BY <1>3
  <2>2. Len(got) # Len(sent)
    BY <2>1, AtFront
  <2>3. QED
    BY <1>1, <1>2, <1>4, <2>2
<1>6. PICK h, n, hs : h = sent[g+1] /\ n = HeadLen(h) /\ hs = sent
  OBVIOUS
<1>7. h \in Headers /\ ParsedLen(src) = n
  BY <1>3, <1>4, <1>5, <1>6, AtFront
<1>8. n \in Nat /\ n >= 2 /\ n <= Len(src)
  BY <1>3, <1>6, <1>7, LenFacts
<1>9. PICK bytes : bytes = src \o dst
  OBVIOUS
<1>10. Joins(bytes, src, dst) /\ bytes \in Seq(Byte)
  BY <1>1, <1>9, Joined
<1>11. PICK at : Laid(at, bytes, hs, g)
  BY <1>4, <1>6, <1>9, Zenon DEF CInv, Under
<1>12. hs \in Seq(Headers) /\ g < Len(hs) /\ h = hs[g+1]
  BY <1>1, <1>5, <1>6
<1>13. \A j \in 1..n : bytes[j] = Stored(h)[j]
  <2>1. \A j \in 1..HeadLen(hs[g+1]) : bytes[j] = Stored(hs[g+1])[j]
    BY <1>10, <1>11, <1>12, LaidFront, Zenon
  <2>2. QED
    BY <1>6, <1>12, <2>1, Zenon
<1>14. \A j \in 1..n : src[j] = Stored(h)[j]
  <2>1. \A j \in 1..n : j \in 1..Len(src)
    BY <1>1, <1>8
  <2>2. \A j \in 1..Len(src) : bytes[j] = src[j]
    BY <1>10 DEF Joins
  <2>3. QED
    BY <1>13, <2>1, <2>2, Zenon
<1>15. Parsed(src) = h
  BY <1>1, <1>6, <1>7, <1>8, <1>14, ParsedIs
<1>16. got' = Append(got, h) /\ src' = SubSeq(src, n + 1, Len(src)) /\ sent' = sent /\ dst' = dst
  BY <1>7, <1>15 DEF Decode
<1>17. PICK rest : rest = src'
  OBVIOUS
<1>18. Slices(rest, src, n, Len(src) - n)
  <2>1. Len(src) - n \in Nat /\ n + (Len(src) - n) = Len(src) /\ n + (Len(src) - n) <= Len(src)
    BY <1>1, <1>8
  <2>2. Slices(SubSeq(src, n + 1, n + (Len(src) - n)), src, n, Len(src) - n)
    BY <1>1, <1>8, <2>1, Sliced
  <2>3. QED
    BY <1>16, <1>17, <2>1, <2>2, Zenon
<1>19. rest \in Seq(Byte) /\ CodecType'
  BY <1>1, <1>7, <1>16, <1>17, <1>18 DEF CodecType, Slices
<1>20. RoundTrips'
  <2>1. Len(got') = g + 1 /\ got'[g+1] = h /\ \A k \in 1..g : got'[k] = got[k]
    BY <1>1, <1>4, <1>7, <1>16
  <2>2. \A k \in 1..g+1 : k \in 1..g \/ k = g + 1
    OBVIOUS
  <2>3. \A k \in 1..g+1 : got'[k] = sent'[k]
    BY <1>2, <1>4, <1>6, <1>16, <2>1, <2>2, Zenon
  <2>4. g + 1 <= Len(sent')
    BY <1>1, <1>5, <1>16
  <2>5. QED
    BY <2>1, <2>3, <2>4 DEF RoundTrips
<1>21. PICK left : left = rest \o dst
  OBVIOUS
<1>22. Joins(left, rest, dst)
  BY <1>1, <1>19, <1>21, Joined
<1>23. Slices(left, bytes, n, Len(bytes) - n)
  <2>1. PICK ls, ld : ls = Len(src) /\ ld = Len(dst)
    OBVIOUS
  <2>2. ls \in Nat /\ ld \in Nat /\ n <= ls /\ Len(rest) = ls - n /\ Len(bytes) = ls + ld
    BY <1>1, <1>8, <1>10, <1>18, <2>1 DEF Joins, Slices
  <2>3. left \in Seq(Byte) /\ Len(left) = (ls - n) + ld
    BY <1>22, <2>1, <2>2 DEF Joins
  <2>4. Len(left) = Len(bytes) - n
    BY <1>8, <2>2, <2>3
  <2>5. ASSUME NEW j \in 1..(ls - n) + ld PROVE left[j] = bytes[n + j]
    <3>1. CASE j <= ls - n
      <4>1. j \in 1..ls-n /\ n + j \in 1..ls
        BY <1>8, <2>2, <3>1
      <4>2. left[j] = rest[j]
        BY <1>22, <2>2, <4>1 DEF Joins
      <4>3. rest[j] = src[n + j]
        BY <1>18, <2>1, <4>1 DEF Slices
      <4>4. bytes[n + j] = src[n + j]
        BY <1>10, <2>1, <4>1 DEF Joins
      <4>5. QED
        BY <4>2, <4>3, <4>4, Zenon
    <3>2. CASE ~(j <= ls - n)
      <4>1. PICK x : x = j - (ls - n)
        OBVIOUS
      <4>2. x \in 1..ld /\ j = (ls - n) + x /\ n + j = ls + x
        BY <1>8, <2>2, <3>2, <4>1
      <4>3. left[(ls - n) + x] = dst[x]
        BY <1>22, <2>1, <2>2, <4>2 DEF Joins
      <4>4. bytes[ls + x] = dst[x]
        BY <1>10, <2>1, <4>2 DEF Joins
      <4>5. QED
        BY <4>2, <4>3, <4>4, Zenon
    <3>3. QED
      BY <3>1, <3>2
  <2>6. QED
    BY <2>3, <2>4, <2>5 DEF Slices
<1>24. \E more : Laid(more, left, hs, g + 1)
  <2>1. left \in Seq(Byte)
    BY <1>22 DEF Joins
  <2>2. n = HeadLen(hs[g+1])
    BY <1>6
  <2>3. QED
    BY <1>10, <1>11, <1>12, <1>23, <2>1, <2>2, LaidNext
<1>25. Len(got') = g + 1
  BY <1>1, <1>4, <1>7, <1>16
<1>26. Under'
  BY <1>6, <1>16, <1>17, <1>21, <1>24, <1>25, Zenon DEF Under
<1>27. QED
  BY <1>19, <1>20, <1>26 DEF CInv

(* No step falsifies the invariant.                                        *)
LEMMA CInvStep == ASSUME CodeLengths PROVE CInv /\ [Next]_vars => CInv'
<1> SUFFICES ASSUME CInv, [Next]_vars PROVE CInv'
  OBVIOUS
<1>1. CASE \E h \in Headers : Encode(h)
  BY <1>1, EncodeKeeps
<1>2. CASE Arrive
  BY <1>2, ArriveKeeps
<1>3. CASE Decode
  BY <1>3, DecodeKeeps
<1>4. CASE UNCHANGED vars
  BY <1>4, Zenon DEF vars, CInv, CodecType, RoundTrips, Under
<1>5. QED
  BY <1>1, <1>2, <1>3, <1>4 DEF Next

(* The invariant holds whatever headers are sent and however their bytes   *)
(* are cut, if a length fits the bytes its form has.                       *)
THEOREM CInvHolds == ASSUME CodeLengths PROVE Spec => []CInv
<1>1. QED
  BY CInvInit, CInvStep, PTL DEF Spec

(* FrameHeaderCodec decodes the headers it encoded, in order, with lengths *)
(* of any of the three forms and with or without a mask (RoundTrips).      *)
THEOREM RoundTripsHolds == ASSUME CodeLengths PROVE Spec => []RoundTrips
<1>1. CInv => RoundTrips
  BY DEF CInv
<1>2. QED
  BY <1>1, CInvHolds, PTL

(* write_to_slice stores into every byte that set_len exposed, so that no  *)
(* memory that nothing was stored in is ever sent (Initialised).           *)
THEOREM InitialisedHolds == ASSUME CodeLengths PROVE Spec => []Initialised
<1>1. CInv => Initialised
  <2>1. Uninitialised \notin Byte
    BY DEF Uninitialised, Byte
  <2>2. \A s \in Seq(Byte) : \A k \in 1..Len(s) : s[k] \in Byte
    BY ElementOfSeq
  <2>3. QED
    BY <2>1, <2>2, Zenon DEF CInv, CodecType, Initialised
<1>2. QED
  BY <1>1, CInvHolds, PTL

(* Once every byte arrived and parse_slice asks for more, every header has *)
(* been decoded and no byte is left over (AllDecoded).                     *)
THEOREM AllDecodedHolds == ASSUME CodeLengths PROVE Spec => []AllDecoded
<1>1. ASSUME CInv PROVE AllDecoded
  <2> SUFFICES ASSUME dst = <<>>, ~IsSome(src) PROVE got = sent /\ src = <<>>
    BY DEF AllDecoded
  <2>1. sent \in Seq(Headers) /\ got \in Seq(Headers) /\ src \in Seq(Byte) /\ dst \in Seq(Byte)
    BY <1>1 DEF CInv, CodecType
  <2>2. Len(got) <= Len(sent) /\ \A k \in 1..Len(got) : got[k] = sent[k]
    BY <1>1 DEF CInv, RoundTrips
  <2>3. CASE Len(got) = Len(sent)
    <3>1. got = sent
      BY <2>1, <2>2, <2>3, SeqEqual
    <3>2. QED
      BY <1>1, <2>3, <3>1, AtFront
  <2>4. CASE Len(got) # Len(sent)
    <3>1. PICK bytes, g, hs : bytes = src \o dst /\ g = Len(got) /\ hs = sent
      OBVIOUS
    <3>2. bytes = src /\ bytes \in Seq(Byte)
      BY <2>1, <3>1
    <3>3. hs \in Seq(Headers) /\ g \in Nat /\ g < Len(hs)
      BY <2>1, <2>2, <2>4, <3>1
    <3>4. PICK at : Laid(at, bytes, hs, g)
      BY <1>1, <3>1, Zenon DEF CInv, Under
    <3>5. PICK h : h = hs[g+1]
      OBVIOUS
    <3>6. h \in Headers /\ HeadLen(h) <= Len(bytes)
      BY <3>2, <3>3, <3>4, <3>5, LaidFront
    <3>7. HeadLen(h) \in Nat /\ 2 <= HeadLen(h) /\ Len(src) \in Nat
      BY <2>1, <3>6, LenFacts
    <3>8. 2 <= Len(src) /\ HeadLen(h) <= Len(src)
      BY <3>2, <3>6, <3>7
    <3>9. ParsedLen(src) = HeadLen(h)
      BY <1>1, <3>1, <3>3, <3>5, <3>8, AtFront
    <3>10. IsSome(src)
      BY <3>7, <3>8, <3>9 DEF IsSome
    <3>11. QED
      BY <3>10
  <2>5. QED
    BY <2>3, <2>4
<1>2. QED
  BY <1>1, CInvHolds, PTL

-----------------------------------------------------------------------------
(* Masking.  How a slice of n bytes at any address is divided.             *)
LEMMA SplitFacts ==
  ASSUME NEW at \in 0..3, NEW n \in Nat
  PROVE  /\ Prefix(at, n) \in 0..3 /\ Prefix(at, n) <= n
         /\ Words(at, n) \in Nat
         /\ Prefix(at, n) + 4 * Words(at, n) <= n
         /\ n - (Prefix(at, n) + 4 * Words(at, n)) \in 0..3
<1>1. Prefix(at, n) \in 0..3 /\ Prefix(at, n) <= n
  BY DEF Prefix
<1>2. PICK p \in 0..3 : p = Prefix(at, n) /\ p <= n
  BY <1>1
<1>3. (n - p) \div 4 \in Nat /\ p + 4 * ((n - p) \div 4) <= n
      /\ n - (p + 4 * ((n - p) \div 4)) \in 0..3
  BY <1>2
<1>4. QED
  BY <1>2, <1>3 DEF Words

(* Where the call is in its three loops: the words begin after the prefix  *)
(* and are never left in the middle of one.                                *)
Position ==
  \/ i <= Prefix(bufAddr, len)
  \/ \E q \in 0..Words(bufAddr, len) : i = Prefix(bufAddr, len) + 4 * q
  \/ i >= WordsEnd

(* The local mask has been turned by the bytes done: by whole words it     *)
(* would be turned back to where it was.                                   *)
Turned == mask = [s \in 0..3 |-> (s + i) % 4]

(* What is in each byte, during and after the two calls.                   *)
Contents ==
  \A k \in 0..len-1 :
    buf[k] = CASE call = "copy"     -> IF k < i THEN {k % 4} ELSE Untouched
               [] call = "in_place" -> IF k < i THEN {} ELSE {k % 4}
               [] call = "returned" -> {}

MInv == TypeOK /\ Contents /\ (call # "returned" => Turned /\ Position)

(* The slices of a state, divided.                                         *)
LEMMA SplitState ==
  ASSUME TypeOK
  PROVE  /\ Prefix(bufAddr, len) \in 0..3 /\ Prefix(bufAddr, len) <= len
         /\ Words(bufAddr, len) \in Nat
         /\ WordsEnd = Prefix(bufAddr, len) + 4 * Words(bufAddr, len) /\ WordsEnd <= len
         /\ len - WordsEnd \in 0..3
<1>1. bufAddr \in 0..3 /\ len \in Nat
  BY MaskAssumption DEF TypeOK
<1>2. QED
  BY <1>1, SplitFacts DEF WordsEnd

(* No byte is masked at first.                                             *)
LEMMA MInvInit == ASSUME LittleEndian PROVE MaskInit => MInv
<1> SUFFICES ASSUME MaskInit PROVE MInv
  OBVIOUS
<1> USE DEF MaskInit
<1>1. len \in 0..MaxLen /\ len \in Nat /\ i = 0 /\ bufAddr \in 0..3 /\ call = "copy"
  BY MaskAssumption
<1>2. Prefix(bufAddr, len) >= 0
  <2>1. Prefix(bufAddr, len) \in 0..3
    BY <1>1, SplitFacts
  <2>2. QED
    BY <2>1
<1>3. TypeOK
  BY <1>1 DEF TypeOK, Register, Untouched
<1>4. Turned
  BY <1>1 DEF Turned, Register
<1>5. Contents
  BY <1>1 DEF Contents
<1>6. QED
  BY <1>1, <1>2, <1>3, <1>4, <1>5 DEF MInv, Position

(* XOR puts a byte of the mask in or takes it out.                         *)
LEMMA XorFacts ==
  ASSUME NEW m \in 0..3
  PROVE  Xor({}, m) = {m} /\ Xor({m}, m) = {}
BY DEF Xor

(* What a call reads at a byte that it has not done.                       *)
LEMMA ReadFacts ==
  ASSUME MInv, call # "returned", NEW k \in 0..len-1, k >= i
  PROVE  Read(k) = IF call = "copy" THEN {} ELSE {k % 4}
<1>1. i \in Nat /\ call \in {"copy", "in_place"}
  BY DEF MInv, TypeOK
<1>2. QED
  <2>1. ~(k < i)
    BY <1>1
  <2>2. buf[k] = CASE call = "copy"     -> IF k < i THEN {k % 4} ELSE Untouched
                   [] call = "in_place" -> IF k < i THEN {} ELSE {k % 4}
                   [] call = "returned" -> {}
    BY DEF MInv, Contents
  <2>3. call = "in_place" => buf[k] = {k % 4}
    BY <2>1, <2>2
  <2>4. QED
    BY <1>1, <2>3 DEF Read

(* One byte, and the local mask turned with it.                            *)
LEMMA ByteStep == ASSUME LittleEndian, MInv, MaskByte PROVE MInv'
<1>1. TypeOK /\ Contents /\ Turned /\ Position /\ call \in {"copy", "in_place"}
  BY DEF MInv, MaskByte, TypeOK
<1>2. PICK n \in Nat : n = len
  BY <1>1, MaskAssumption DEF TypeOK
<1>3. PICK c \in Nat : c = i
  BY <1>1, MaskAssumption DEF TypeOK
<1>4. PICK m \in 0..3 : m = c % 4
  BY <1>3
<1>5. mask[0] = m
  BY <1>1, <1>3, <1>4 DEF Turned
<1>6. c < n /\ i' = c + 1 /\ UNCHANGED <<len, bufAddr, dataAddr, call>>
  BY <1>2, <1>3 DEF MaskByte
<1>7. buf' = [buf EXCEPT ![c] = Xor(Read(c), m)]
  BY <1>3, <1>5 DEF MaskByte
<1>8. PICK x \in SUBSET (-1..3) : x = Xor(Read(c), m) /\ x = IF call = "copy" THEN {m} ELSE {}
  <2>1. c \in 0..len-1 /\ c >= i
    BY <1>2, <1>3, <1>6
  <2>2. Read(c) = IF call = "copy" THEN {} ELSE {m}
    BY <1>1, <1>4, <2>1, ReadFacts
  <2>3. Xor(Read(c), m) = IF call = "copy" THEN {m} ELSE {}
    BY <2>2, XorFacts
  <2>4. QED
    BY <2>3, <1>4
<1>9. Turned'
  <2>1. mask' = [s \in 0..3 |-> mask[(s + 1) % 4]]
    BY DEF MaskByte, Rotate
  <2>2. ASSUME NEW s \in 0..3 PROVE mask[(s + 1) % 4] = (s + (c + 1)) % 4
    <3>1. (s + 1) % 4 \in 0..3
      OBVIOUS
    <3>2. mask[(s + 1) % 4] = (((s + 1) % 4) + c) % 4
      BY <3>1, <1>1, <1>3 DEF Turned
    <3>3. (((s + 1) % 4) + c) % 4 = (s + (c + 1)) % 4
      BY <1>3
    <3>4. QED
      BY <3>2, <3>3
  <2>3. QED
    BY <2>1, <2>2, <1>6 DEF Turned
<1>10. buf \in [0..n-1 -> SUBSET (-1..3)]
  BY <1>1, <1>2 DEF TypeOK
<1>11. buf' \in [0..n-1 -> SUBSET (-1..3)]
  BY <1>4, <1>7, <1>8, <1>10
<1>12. mask' \in [0..3 -> 0..3]
  BY <1>9, <1>6 DEF Turned
<1>13. TypeOK'
  <2>1. c + 1 \in 0..n
    BY <1>2, <1>3, <1>6
  <2>2. QED
    BY <2>1, <1>1, <1>2, <1>6, <1>11, <1>12 DEF TypeOK
<1>14. Contents'
  <2>1. ASSUME NEW k \in 0..n-1
        PROVE  buf'[k] = IF call = "copy" THEN IF k < c + 1 THEN {k % 4} ELSE Untouched
                                          ELSE IF k < c + 1 THEN {} ELSE {k % 4}
    <3>1. buf[k] = IF call = "copy" THEN IF k < c THEN {k % 4} ELSE Untouched
                                    ELSE IF k < c THEN {} ELSE {k % 4}
      BY <1>1, <1>2, <1>3 DEF Contents
    <3>2. buf'[k] = IF k = c THEN x ELSE buf[k]
      BY <1>7, <1>8, <1>10
    <3>3. CASE k = c
      <4>1. k < c + 1 /\ k % 4 = m
        BY <3>3, <1>3, <1>4
      <4>2. buf'[k] = IF call = "copy" THEN {m} ELSE {}
        BY <3>2, <3>3, <1>8
      <4>3. QED
        BY <4>1, <4>2
    <3>4. CASE k # c
      <4>1. k < c + 1 <=> k < c
        BY <3>4, <1>3
      <4>2. QED
        BY <3>1, <3>2, <3>4, <4>1
    <3>5. QED
      BY <3>3, <3>4
  <2>2. QED
    BY <2>1, <1>1, <1>2, <1>6 DEF Contents
<1>15. Position'
  <2>1. i < Prefix(bufAddr, len) \/ WordsEnd <= i
    BY DEF MaskByte
  <2>2. Prefix(bufAddr, len) \in Nat /\ WordsEnd \in Nat
    BY <1>1, SplitState DEF WordsEnd
  <2>3. c + 1 <= Prefix(bufAddr, len) \/ c + 1 >= WordsEnd
    BY <2>1, <2>2, <1>3
  <2>4. QED
    BY <2>3, <1>6 DEF Position, WordsEnd
<1>16. QED
  BY <1>9, <1>13, <1>14, <1>15 DEF MInv

(* Four bytes, for which the mask need not be turned.                      *)
LEMMA WordStep == ASSUME LittleEndian, MInv, MaskWord PROVE MInv'
<1>1. TypeOK /\ Contents /\ Turned /\ Position /\ call \in {"copy", "in_place"}
  BY DEF MInv, MaskWord, TypeOK
<1>2. PICK n \in Nat : n = len
  BY <1>1, MaskAssumption DEF TypeOK
<1>3. PICK c \in Nat : c = i
  BY <1>1, MaskAssumption DEF TypeOK
<1>4. PICK p \in 0..3, w \in Nat :
        /\ p = Prefix(bufAddr, len) /\ w = Words(bufAddr, len)
        /\ WordsEnd = p + 4 * w /\ p + 4 * w <= n
  BY <1>1, <1>2, SplitState
<1>5. p <= c /\ c < p + 4 * w
  BY <1>3, <1>4 DEF MaskWord
<1>6. PICK q \in 0..w : c = p + 4 * q
  <2>1. c <= p => c = p + 4 * 0 /\ 0 \in 0..w
    BY <1>5
  <2>2. QED
    BY <2>1, <1>1, <1>3, <1>4, <1>5 DEF Position
<1>7. q + 1 \in 0..w /\ c + 4 = p + 4 * (q + 1) /\ c + 4 <= n
  BY <1>4, <1>5, <1>6
<1>8. i' = c + 4 /\ UNCHANGED <<len, bufAddr, dataAddr, call, mask>>
  BY <1>3 DEF MaskWord
<1>9. Turned'
  <2>1. \A s \in 0..3 : (s + c) % 4 = (s + (c + 4)) % 4
    OBVIOUS
  <2>2. QED
    BY <2>1, <1>1, <1>3, <1>8 DEF Turned
<1>10. Position'
  BY <1>4, <1>7, <1>8 DEF Position
<1>11. ASSUME NEW k \in 0..n-1
       PROVE  /\ k \notin c..c+3 => buf'[k] = buf[k]
              /\ k \in c..c+3 => buf'[k] = IF call = "copy" THEN {k % 4} ELSE {}
  <2>1. k \notin c..c+3 => buf'[k] = buf[k]
    BY <1>2, <1>3 DEF MaskWord
  <2>2. CASE k \in c..c+3
    <3>1. PICK j \in 0..3 : j = k - c
      BY <2>2
    <3>2. PICK m \in 0..3 : m = k % 4
      OBVIOUS
    <3>3. buf'[k] = Xor(Read(k), InWord(k - c))
      BY <2>2, <1>2, <1>3 DEF MaskWord
    <3>4. InWord(j) = (j + c) % 4
      BY <1>1, <1>3 DEF InWord, Turned
    <3>5. j + c = k
      BY <3>1
    <3>6. buf'[k] = Xor(Read(k), m)
      BY <3>1, <3>2, <3>3, <3>4, <3>5
    <3>7. k \in 0..len-1 /\ k >= i
      BY <2>2, <1>2, <1>3
    <3>8. Read(k) = IF call = "copy" THEN {} ELSE {m}
      BY <1>1, <3>2, <3>7, ReadFacts
    <3>9. Xor(Read(k), m) = IF call = "copy" THEN {m} ELSE {}
      BY <3>8, XorFacts
    <3>10. QED
      BY <2>2, <3>2, <3>6, <3>9
  <2>3. QED
    BY <2>1, <2>2
<1>12. Contents'
  <2>1. ASSUME NEW k \in 0..n-1
        PROVE  buf'[k] = IF call = "copy" THEN IF k < c + 4 THEN {k % 4} ELSE Untouched
                                          ELSE IF k < c + 4 THEN {} ELSE {k % 4}
    <3>1. buf[k] = IF call = "copy" THEN IF k < c THEN {k % 4} ELSE Untouched
                                    ELSE IF k < c THEN {} ELSE {k % 4}
      BY <1>1, <1>2, <1>3 DEF Contents
    <3>2. CASE k \in c..c+3
      <4>1. k < c + 4
        BY <3>2
      <4>2. QED
        BY <3>2, <4>1, <1>11
    <3>3. CASE k \notin c..c+3
      <4>1. k < c + 4 <=> k < c
        BY <3>3
      <4>2. QED
        BY <3>1, <3>3, <4>1, <1>11
    <3>4. QED
      BY <3>2, <3>3
  <2>2. QED
    BY <2>1, <1>1, <1>2, <1>8 DEF Contents
<1>13. TypeOK'
  <2>1. ASSUME NEW k \in 0..n-1 PROVE buf'[k] \in SUBSET (-1..3)
    <3>1. buf[k] \in SUBSET (-1..3)
      BY <1>1, <1>2 DEF TypeOK
    <3>2. PICK m \in 0..3 : m = k % 4
      OBVIOUS
    <3>3. {m} \in SUBSET (-1..3) /\ {} \in SUBSET (-1..3)
      OBVIOUS
    <3>4. buf'[k] = buf[k] \/ buf'[k] = {m} \/ buf'[k] = {}
      BY <3>2, <1>11
    <3>5. QED
      BY <3>1, <3>3, <3>4
  <2>2. buf' = [k \in 0..n-1 |-> buf'[k]]
    BY <1>2 DEF MaskWord
  <2>3. buf' \in [0..n-1 -> SUBSET (-1..3)]
    BY <2>1, <2>2
  <2>4. c + 4 \in 0..n
    BY <1>7
  <2>5. QED
    BY <2>3, <2>4, <1>1, <1>2, <1>8 DEF TypeOK
<1>14. QED
  BY <1>9, <1>10, <1>12, <1>13 DEF MInv

(* A call ends only when all bytes are done.                               *)
LEMMA CallsStep == ASSUME LittleEndian, MInv, Transfer \/ Return PROVE MInv'
<1>1. TypeOK /\ Contents /\ call \in {"copy", "in_place"} /\ i = len /\ len \in Nat
  BY MaskAssumption DEF MInv, Transfer, Return, TypeOK
<1>2. CASE Transfer
  <2>1. call = "copy" /\ call' = "in_place" /\ bufAddr' \in 0..3 /\ dataAddr' \in 0..3 /\ i' = 0
        /\ mask' = Register /\ len' = len /\ buf' = buf
    BY <1>2 DEF Transfer
  <2>2. Turned'
    BY <2>1 DEF Turned, Register
  <2>3. Position'
    <3>1. Prefix(bufAddr', len) \in 0..3
      BY <2>1, <1>1, SplitFacts
    <3>2. QED
      BY <3>1, <2>1 DEF Position
  <2>4. Contents'
    BY <1>1, <2>1 DEF Contents
  <2>5. TypeOK'
    BY <1>1, <2>1, <2>2 DEF TypeOK, Turned, Register
  <2>6. QED
    BY <2>2, <2>3, <2>4, <2>5 DEF MInv
<1>3. CASE Return
  <2>1. call = "in_place" /\ call' = "returned" /\ UNCHANGED <<len, bufAddr, dataAddr, i, mask, buf>>
    BY <1>3 DEF Return
  <2>2. QED
    BY <1>1, <2>1 DEF MInv, TypeOK, Contents
<1>4. QED
  BY <1>2, <1>3

(* No step falsifies the invariant.                                        *)
LEMMA MInvStep == ASSUME LittleEndian PROVE MInv /\ [MaskNext]_maskVars => MInv'
<1>1. MInv /\ UNCHANGED maskVars => MInv'
  BY DEF maskVars, MInv, TypeOK, Contents, Turned, Position, WordsEnd
<1>2. QED
  BY <1>1, ByteStep, WordStep, CallsStep DEF MaskNext, Terminated

(* The invariant of masking, from which the theorems follow.               *)
LEMMA MInvHolds == ASSUME LittleEndian PROVE MaskSpec => []MInv
BY MInvInit, MInvStep, PTL DEF MaskSpec

(* Where bytes are in little-endian order, masking from and to any         *)
(* addresses is masking byte k with byte k % 4 (MaskedInOrder).            *)
THEOREM MaskedInOrderHolds == ASSUME LittleEndian PROVE MaskSpec => []MaskedInOrder
<1>1. MInv => MaskedInOrder
  BY DEF MInv, Contents, MaskedInOrder
<1>2. QED
  BY <1>1, MInvHolds, PTL

(* What was masked at one address is restored at any other (Restored).     *)
THEOREM RestoredHolds == ASSUME LittleEndian PROVE MaskSpec => []Restored
<1>1. MInv => Restored
  BY DEF MInv, Contents, Restored
<1>2. QED
  BY <1>1, MInvHolds, PTL

(* The assertions on the pieces of the slices never fail (AssertsHold).    *)
THEOREM NoAssertFails == ASSUME LittleEndian PROVE MaskSpec => []AssertsHold
<1>1. MInv => AssertsHold
  <2> SUFFICES ASSUME MInv PROVE AssertsHold
    OBVIOUS
  <2>1. /\ Prefix(bufAddr, len) \in 0..3 /\ Prefix(bufAddr, len) <= len
        /\ len - WordsEnd \in 0..3
    BY SplitState DEF MInv
  <2>2. ASSUME call = "copy", Aligned PROVE Words(DataAt, DataLen) = Words(bufAddr, len)
    <3>1. DataLen = len - Prefix(bufAddr, len) /\ Prefix(DataAt, DataLen) = 0
      BY <2>2 DEF Aligned, DataLen
    <3>2. DataLen \in Nat
      BY <3>1, <2>1, MaskAssumption DEF MInv, TypeOK
    <3>3. DataLen - 0 = DataLen
      BY <3>2
    <3>4. Words(DataAt, DataLen) = DataLen \div 4
      BY <3>1, <3>3 DEF Words
    <3>5. QED
      BY <3>1, <3>4 DEF Words
  <2>3. QED
    BY <2>1, <2>2 DEF AssertsHold
<1>2. QED
  BY <1>1, MInvHolds, PTL
=============================================================================
