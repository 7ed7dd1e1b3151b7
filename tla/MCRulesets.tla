------------------------------ MODULE MCRulesets ------------------------------
(* An instance of Rulesets for TLC: one row, an item instance.                 *)
EXTENDS Rulesets, TLC

CONSTANTS t1, t2, s1, s2, item

MCKindOf == item :> "item instance"
=============================================================================
