------------------------------- MODULE MCEcho -------------------------------
(***************************************************************************)
(* The frames of the run of Echo.   SmallMax is 1, MediumMax 2 and         *)
(* ControlLimit 2: the code's 125, 65535 and 126 brought close together.   *)
(***************************************************************************)
EXTENDS Echo

Plain(fin, opcode, n, text) ==
  [fin |-> fin, rsv |-> 0, opcode |-> opcode, mask |-> FALSE,
   form |-> FormOf(n), n |-> n, text |-> text]

(* A message in one frame and one in two whose answer is longer than both, *)
(* the control messages, a long control frame, text that is none.          *)
MCFrames ==
  {Plain(TRUE, Binary, 0, "whole"),
   Plain(FALSE, Text, 1, "head"), Plain(TRUE, Continuation, 1, "tail"),
   Plain(TRUE, Ping, 1, "bad"), Plain(TRUE, Pong, 0, "whole"), Plain(TRUE, Close, 0, "whole"),
   Plain(TRUE, Ping, 2, "whole"), Plain(TRUE, Text, 1, "bad")}

AllPrograms == AsyncPrograms \cup SyncPrograms
=============================================================================
