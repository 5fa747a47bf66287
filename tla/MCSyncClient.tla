---------------------------- MODULE MCSyncClient ----------------------------
(***************************************************************************)
(* The frames of the runs of SyncClient.  SmallMax is 1, MediumMax 2,      *)
(* ControlLimit 2, LargeLimit 11 and UsizeMax 23: the code's 125, 65535,   *)
(* 126, 2^63 and a narrow usize::MAX brought close together.               *)
(***************************************************************************)
EXTENDS SyncClient

Plain(fin, opcode, n, text) ==
  [fin |-> fin, rsv |-> 0, opcode |-> opcode, mask |-> FALSE,
   form |-> FormOf(n), n |-> n, text |-> text]
Masked(f) == [f EXCEPT !.mask = TRUE]

(* A message in one frame and one in pieces, one piece masked and one with *)
(* a longer header; control frames well-formed or not; a continuation that *)
(* is not text; an unknown opcode; a length that is padded; a frame that   *)
(* is given up once more than half of a usize is there, and one whose      *)
(* length wraps around.                                                    *)
MCFrames ==
  {Plain(TRUE, Text, 1, "whole"),
   Masked(Plain(FALSE, Text, 1, "whole")),
   Plain(FALSE, Continuation, 2, "whole"), Plain(TRUE, Continuation, 0, "whole"),
   Plain(TRUE, Continuation, 1, "bad"),
   Plain(TRUE, Ping, 0, "whole"), Plain(TRUE, Close, 1, "whole"),
   Plain(FALSE, Ping, 0, "whole"), Plain(TRUE, 3, 1, "bad"),
   [Plain(TRUE, Binary, 1, "bad") EXCEPT !.form = "Medium"],
   Plain(TRUE, Binary, 3, "bad"),
   Masked(Plain(TRUE, Binary, 10, "bad"))}

(* A message in pieces, and a frame whose length wraps around.             *)
NarrowFrames ==
  {Plain(FALSE, Text, 1, "whole"), Plain(TRUE, Continuation, 0, "whole"),
   Masked(Plain(TRUE, Binary, 10, "bad"))}
=============================================================================
