------------------------------ MODULE WsInspect ------------------------------
(***************************************************************************)
(* wsinspect: reading the frame headers of a file through a BufReader and  *)
(* either copying each payload to stdout (--dump-data) or seeking past it, *)
(* and what it says of the file at the end.                                *)
(*                                                                         *)
(* The file is the first len bytes of frames written one after the other.  *)
(* pos is the logical position of the BufReader; the bytes up to           *)
(* pos + filled are in its buffer.  A definition named for what goes wrong *)
(* (CheckedForEnd, BufferKept, NotClamped) is a faulty variant of the one  *)
(* after it.                                                               *)
(***************************************************************************)
EXTENDS Frame

CONSTANTS
  Frames,        (* the frames of a file                                    *)
  MaxFrames,     (* bound on their number                                   *)
  BufSize,       (* 8192: the capacity of a BufReader, and of io::copy      *)
  SeekMax        (* the largest offset the file system lets a file have     *)

I64Max == LargeLimit - 1

ASSUME InspectAssumption ==
  /\ Frames \subseteq FrameType
  /\ MaxFrames \in Nat /\ SeekMax \in 0..I64Max
  /\ BufSize \in Nat /\ \A f \in Frames : HeaderLen(f) <= BufSize

VARIABLES
  frames, len,   (* the file                                                *)
  dump,          (* --dump-data                                             *)
  pos, filled,   (* the BufReader                                           *)
  pc,            (* where inspect is                                        *)
  prev,          (* prev_buf_len in decode_stream                           *)
  k,             (* the headers decoded so far                              *)
  left,          (* the bytes of the payload still to be copied             *)
  result         (* what inspect returned                                   *)

file == <<frames, len, dump>>
vars == <<file, pos, filled, pc, prev, k, left, result>>

Start(i) == Sums([j \in DOMAIN frames |-> FrameLen(frames[j])])[i - 1]

Init ==
  /\ frames \in UNION {[1..n -> Frames] : n \in 0..MaxFrames}
  /\ len \in 0 .. IF Start(Len(frames) + 1) < SeekMax THEN Start(Len(frames) + 1) ELSE SeekMax
  /\ dump \in BOOLEAN
  /\ pos = 0 /\ filled = 0
  /\ pc = "decode" /\ prev = 0
  /\ k = 0 /\ left = 0
  /\ result = "none"

-----------------------------------------------------------------------------
(* fill_buf: reads only when nothing is buffered.                          *)
Smaller(a, b) == IF a < b THEN a ELSE b
Rest == IF pos < len THEN len - pos ELSE 0
FillBuf == IF filled = 0 THEN Smaller(BufSize, Rest) ELSE filled

(* A turn of decode_stream that gets no more bytes than the last one.      *)
CheckedForEnd(buf) == buf = 0
NoMore(buf) == buf = prev

DecodeNone ==
  /\ pc = "decode" /\ NoMore(FillBuf)
  /\ pc' = "finish"
  /\ filled' = FillBuf
  /\ UNCHANGED <<file, pos, prev, k, left, result>>

DecodeMore ==
  /\ pc = "decode" /\ ~NoMore(FillBuf)
  /\ FillBuf < HeaderLen(frames[k+1])
  /\ filled' = FillBuf /\ prev' = FillBuf
  /\ UNCHANGED <<file, pos, pc, k, left, result>>

DecodeHeader ==
  /\ pc = "decode" /\ ~NoMore(FillBuf)
  /\ LET f == frames[k+1] IN
     /\ FillBuf >= HeaderLen(f)
     /\ pos' = pos + HeaderLen(f)
     /\ filled' = FillBuf - HeaderLen(f)
     /\ left' = f.n
  /\ k' = k + 1
  /\ prev' = 0
  /\ pc' = IF dump THEN "copy" ELSE "skip"
  /\ UNCHANGED <<file, result>>

(* inspect compares what there was of the payload with what was announced. *)
Compare(actual, announced) ==
  IF actual = announced THEN pc' = "decode" /\ UNCHANGED result
                        ELSE pc' = "done" /\ result' = "incomplete"

-----------------------------------------------------------------------------
(* seek(Current(0)) drops the buffer, and seek_forward fails past the      *)
(* largest offset: then the rest of the file is what there is.  Beyond     *)
(* i64::MAX it seeks by that first, which always fails after a header.     *)
BufferKept == filled
Discarded == 0
SeekFails == pos + Smaller(left, I64Max) > SeekMax
NotClamped(at) == at
Clamped(at) == Smaller(at, len)

Skip ==
  /\ pc = "skip"
  /\ filled' = Discarded
  /\ IF SeekFails THEN UNCHANGED pos /\ Compare(len - pos, left)
                  ELSE pos' = pos + left + filled' /\ Compare(Clamped(pos + left) - pos, left)
  /\ left' = 0
  /\ UNCHANGED <<file, prev, k>>

(* io::copy: what is buffered first, and then either straight from the     *)
(* file or, for less than a buffer, through the BufReader.                 *)
CopyBuffered ==
  /\ pc = "copy" /\ left > 0 /\ filled > 0
  /\ LET n == Smaller(left, filled) IN
       pos' = pos + n /\ filled' = filled - n /\ left' = left - n
  /\ UNCHANGED <<file, pc, prev, k, result>>

CopyDirect ==
  /\ pc = "copy" /\ left > 0 /\ filled = 0 /\ pos < len
  /\ LET n == Smaller(left, len - pos) IN pos' = pos + n /\ left' = left - n
  /\ UNCHANGED <<file, filled, pc, prev, k, result>>

CopyFill ==
  /\ pc = "copy" /\ left > 0 /\ left < BufSize /\ filled = 0 /\ pos < len
  /\ filled' = FillBuf
  /\ UNCHANGED <<file, pos, pc, prev, k, left, result>>

CopyEnd ==
  /\ pc = "copy" /\ (left = 0 \/ (filled = 0 /\ pos = len))
  /\ Compare(0, left)
  /\ left' = 0
  /\ UNCHANGED <<file, pos, filled, prev, k>>

Finish ==
  /\ pc = "finish"
  /\ filled' = FillBuf
  /\ result' = IF filled' > 0 THEN "additional" ELSE "ok"
  /\ pc' = "done"
  /\ UNCHANGED <<file, pos, prev, k, left>>

Terminated == pc = "done" /\ UNCHANGED vars

Step ==
  \/ DecodeNone \/ DecodeMore \/ DecodeHeader
  \/ Skip \/ CopyBuffered \/ CopyDirect \/ CopyFill \/ CopyEnd \/ Finish

Next == Step \/ Terminated

(* One thread, nothing to wait for.                                        *)
Spec == Init /\ [][Next]_vars /\ WF_vars(Step)

-----------------------------------------------------------------------------
(* Every header is read at the first byte of a frame, and no payload byte  *)
(* is taken for one, however the buffer and the seeks fall                 *)
(* (wsinspect.rs:14-50, 87-100).                                           *)
Aligned == pc = "decode" => pos = Start(k + 1) /\ k <= Len(frames)

(* What is true of the file: it ends between two frames, in a header, or   *)
(* in a payload.                                                           *)
Truth ==
  IF \E i \in 1..Len(frames)+1 : len = Start(i) THEN "ok"
  ELSE IF \E i \in 1..Len(frames) :
            Start(i) < len /\ len < Start(i) + HeaderLen(frames[i]) THEN "additional"
  ELSE "incomplete"

(* wsinspect says of a file what is true of it (wsinspect.rs:102-116), but *)
(* that with --dump-data it may give up at a header that is only partly in *)
(* the buffer, and then calls the bytes it has additional.                 *)
Verdict ==
  \/ result \in {"none", Truth}
  \/ dump /\ result = "additional" /\ k < Len(frames) /\ filled < HeaderLen(frames[k+1])

(* What the message "additional {} data bytes at end of stream" says       *)
(* (wsinspect.rs:113).                                                     *)
AdditionalAtEnd == result = "additional" => pos + filled = len

(* inspect returns: decode_stream does not ask again for bytes that do not *)
(* come (wsinspect.rs:15-22).                                              *)
Terminates == <>(pc = "done")
=============================================================================
