-------------------------- MODULE MCMessageStream --------------------------
(***************************************************************************)
(* The frames of the runs of MessageStream.  SmallMax is 3, MediumMax 5,   *)
(* ControlLimit 4 and LargeLimit 8: the code's 125, 65535, 126 and 2^63    *)
(* brought close together.                                                 *)
(***************************************************************************)
EXTENDS MessageStream

Plain(fin, opcode, n, text) ==
  [fin |-> fin, rsv |-> 0, opcode |-> opcode, mask |-> FALSE,
   form |-> FormOf(n), n |-> n, text |-> text]

(* Whole messages, the pieces of longer ones, and control frames.          *)
DataFrames ==
  {Plain(TRUE, Text, 1, "whole"), Plain(FALSE, Text, 1, "head"), Plain(TRUE, Text, 1, "bad"),
   Plain(FALSE, Text, 0, "whole"), Plain(FALSE, Binary, 1, "bad"),
   Plain(FALSE, Continuation, 1, "middle"), Plain(TRUE, Continuation, 1, "tail")}
ControlFrames ==
  {Plain(TRUE, Ping, 3, "whole"), Plain(TRUE, Close, 0, "whole"), Plain(TRUE, Close, 1, "whole"),
   Plain(TRUE, Close, 3, "bad")}

(* Frames the decoder refuses whatever came before: a fragmented and a     *)
(* long control frame, a reserved bit, an opcode with no meaning, a padded *)
(* length and one that is too large.                                       *)
BadFrames ==
  {Plain(FALSE, Ping, 0, "whole"), Plain(TRUE, Ping, 4, "whole"),
   [Plain(TRUE, Binary, 1, "bad") EXCEPT !.rsv = 1], Plain(TRUE, 3, 1, "bad"),
   [Plain(TRUE, Binary, 1, "bad") EXCEPT !.form = "Medium"], Plain(TRUE, Binary, 8, "bad")}

MCFrames == DataFrames \cup ControlFrames \cup BadFrames
=============================================================================
