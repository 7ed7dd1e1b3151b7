--------------------------- MODULE MCCombatSync ---------------------------
(* Instances of CombatSync for TLC. *)
EXTENDS CombatSync, TLC

CONSTANTS c1, c2, o1, o2, p1, p2, t1, e1, k1, k2, s1, s2, s3, s4

\* Two operations with a lock each; p1 and p2 differ in everything but the
\* turn they describe.
DistinctKeys == o1 :> k1 @@ o2 :> k2
SharedSlot == p1 :> t1 @@ p2 :> t1

\* One operation, sent again.
SingleKey == o1 :> k1
SinglePayload == p1 :> t1

SingleEncounter == t1 :> e1

CallersAndSessions == Permutations({c1, c2}) \cup Permutations({s1, s2, s3})
=============================================================================
