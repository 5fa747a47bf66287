--------------------------- MODULE MCHeaderCodec ---------------------------
(***************************************************************************)
(* The headers of the runs of HeaderCodec: the boundaries of each form of  *)
(* the length and padded lengths, with every bit of the first byte on and  *)
(* off, and a mask or none.  The lengths are the code's, but 2^31-1 stands *)
(* for every longer one.                                                   *)
(***************************************************************************)
EXTENDS HeaderCodec

HeaderOf(fin, rsv, opcode, mask, form, n) ==
  [fin |-> fin, rsv |-> rsv, opcode |-> opcode, mask |-> mask, form |-> form, n |-> n]

MCHeaders ==
  {HeaderOf(TRUE, 0, Text, NoMask, "Small", 0),
   HeaderOf(FALSE, 16, Continuation, <<1, 2, 3, 255>>, "Small", 125),
   HeaderOf(TRUE, 112, 15, NoMask, "Medium", 126),
   HeaderOf(FALSE, 64, Pong, <<0, 128, 127, 126>>, "Medium", 65535),
   HeaderOf(TRUE, 32, Ping, NoMask, "Medium", 5),
   HeaderOf(FALSE, 0, Binary, NoMask, "Large", 65536),
   HeaderOf(TRUE, 0, Binary, <<128, 0, 0, 1>>, "Large", 2147483647),
   HeaderOf(TRUE, 0, Close, <<255, 255, 255, 255>>, "Large", 7)}
=============================================================================
