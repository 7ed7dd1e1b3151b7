---------------------------- MODULE MCAccessControl ----------------------------
(* Instances of AccessControl for TLC: two users and two transactions about    *)
(* two campaigns of a timeline, or about one that people leave and rejoin.     *)
EXTENDS AccessControl, TLC

CONSTANTS t1, t2, u1, u2, c1, c2, i1, i2

Symmetry == Permutations({t1, t2}) \cup Permutations({u1, u2})
  \cup Permutations({c1, c2}) \cup Permutations({i1, i2})
=============================================================================
