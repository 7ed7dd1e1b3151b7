------------------------------ MODULE MCProposals ------------------------------
(* Instances of Proposals for TLC: an objective, an item the NPC may give away *)
(* and one it may not without approval, and two transactions.                  *)
EXTENDS Proposals, TLC

CONSTANTS t1, t2, o1, rumour, secret, p1

Transactions == Permutations({t1, t2})
=============================================================================
