--------------------------- MODULE MCIdempotency ---------------------------
(* Instances of Idempotency for TLC. *)
EXTENDS Idempotency, TLC

CONSTANTS r1, r2, r3, k1, k2, p1, p2, x1

\* Two commands on one row.
SharedRow == p1 :> x1 @@ p2 :> x1
=============================================================================
