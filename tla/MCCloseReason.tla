--------------------------- MODULE MCCloseReason ---------------------------
(***************************************************************************)
(* The codes and reasons of the run of CloseReason.  MaxReason is 5 and    *)
(* ControlLimit 8: the code's 123 and 126 brought down to a few characters.*)
(***************************************************************************)
EXTENDS CloseReason

(* Each named code, and both sides of each boundary between the variants.  *)
MCCodes ==
  {0, 255, 256, 999, 2999, 3000, 3999, 4000, 4999, 5000, 65535} \cup 1000..1016

(* Every string of up to eight bytes, its characters one to four bytes long.*)
MCReasons ==
  UNION {{[n |-> n, bounds |-> b \cup {0, n}] :
            b \in {c \in SUBSET (1..n-1) : \A i \in c \cup {0} : \E w \in 1..4 : i + w \in c \cup {n}}} :
         n \in 1..8} \cup {[n |-> 0, bounds |-> {0}]}
=============================================================================
