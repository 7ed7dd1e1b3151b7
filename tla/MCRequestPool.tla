--------------------------- MODULE MCRequestPool ---------------------------
(* Instances of RequestPool for TLC. *)
EXTENDS RequestPool

CONSTANTS r1, r2, r3, k1, k2
=============================================================================
