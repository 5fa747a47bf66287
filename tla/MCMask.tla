------------------------------- MODULE MCMask -------------------------------
(***************************************************************************)
(* The runs of Mask: MaxLen 13 is the shortest length with two words and a *)
(* prefix and a suffix of any length, from any address.                    *)
(***************************************************************************)
EXTENDS Mask
=============================================================================
