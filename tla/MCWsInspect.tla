---------------------------- MODULE MCWsInspect ----------------------------
(***************************************************************************)
(* The files of the runs of WsInspect.  A BufReader holds 14 bytes, the    *)
(* longest header; an i64 goes up to 59, a file up to 40 bytes.            *)
(***************************************************************************)
EXTENDS WsInspect

Header(form, mask, n) ==
  [fin |-> TRUE, rsv |-> 0, opcode |-> Binary, mask |-> mask, form |-> form,
   n |-> n, text |-> "bad"]

(* Headers of 2, 4, 10 and 14 bytes; payloads that are empty, fit into the *)
(* buffer, are larger, cannot be sought past, or only in two steps.        *)
MCFrames ==
  {Header("Small", FALSE, 0), Header("Small", FALSE, 3), Header("Medium", FALSE, 16),
   Header("Large", TRUE, 1), Header("Large", FALSE, 58), Header("Large", FALSE, 63)}
=============================================================================
