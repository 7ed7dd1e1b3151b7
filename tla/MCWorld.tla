------------------------------- MODULE MCWorld -------------------------------
(* An instance of World for TLC: what the triggers of the database keep       *)
(* true of the map of a world and of the rulesets it allows.  The two share no *)
(* state, and each behaviour is one of them.  Two locations may be dungeons or *)
(* areas and two are plain; of the rows that use a ruleset one is a default,   *)
(* one a build, and one an item instance.                                      *)
EXTENDS World, TLC

CONSTANTS t1, t2, d1, d2, l1, l2

MCTypesOf == [l \in {d1, d2} |-> {"dungeon", "dungeon_area"}]
               @@ [l \in {l1, l2} |-> {"location"}]

CONSTANTS s1, s2, default, build, item

MCKindOf == default :> "world default" @@ build :> "build" @@ item :> "item instance"

VARIABLE what  \* which of the two

WorldInit ==
  /\ what \in {"locations", "rulesets"}
  /\ Init /\ AllowList!Init
  /\ what # "locations" => \A d \in {d1, d2} : type[d] = "dungeon"
WorldNext ==
  \/ what = "locations" /\ Next /\ UNCHANGED <<rulesets, what>>
  \/ what = "rulesets" /\ AllowList!Next /\ UNCHANGED <<vars, what>>
WorldSpec == WorldInit /\ [][WorldNext]_<<vars, rulesets, what>>

Symmetry == Permutations({t1, t2}) \cup Permutations({d1, d2}) \cup Permutations({l1, l2})
=============================================================================
