---------------------------- MODULE MCAsyncClient ----------------------------
(***************************************************************************)
(* The frames of the run of AsyncClient, where UsizeMax is 23: a message   *)
(* in two pieces, a control frame, a frame that is given up once more than *)
(* half of a usize is there, one whose length wraps around, and one whose  *)
(* length is padded.                                                       *)
(***************************************************************************)
EXTENDS AsyncClient

Plain(fin, opcode, n, text) ==
  [fin |-> fin, rsv |-> 0, opcode |-> opcode, mask |-> FALSE,
   form |-> FormOf(n), n |-> n, text |-> text]
Masked(f) == [f EXCEPT !.mask = TRUE]

MCFrames ==
  {Plain(FALSE, Text, 1, "whole"), Plain(TRUE, Continuation, 0, "whole"),
   Plain(TRUE, Ping, 0, "whole"), Plain(TRUE, Binary, 3, "bad"),
   Masked(Plain(TRUE, Binary, 10, "bad")),
   [Plain(TRUE, Binary, 1, "bad") EXCEPT !.form = "Medium"]}
=============================================================================
