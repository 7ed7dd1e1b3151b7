----------------------------- MODULE MCComponents -----------------------------
(* An instance of Components for TLC.  Each behaviour is one of the components, *)
(* and what the others start from does not matter to it.  One campaign has two  *)
(* members: the one has a role of a template, the other a role of its own.      *)
EXTENDS Components, TLC

CONSTANTS t1, t2, t3, k1, k2, g1, campaign, m1, m2, b1, b2, template, own

MCCampaignOf == [m \in {m1, m2} |-> campaign]
MCMemberOf == b1 :> m1 @@ b2 :> m2
MCRoleOf == b1 :> template @@ b2 :> own
MCScopeOf == template :> None @@ own :> campaign
MCSwitched == {campaign, b1, m2, <<template, "is_active">>, Capability}

ASSUME ComponentsAreFit ==
  /\ Moving!MovementAssumption /\ Signing!CacheAssumption /\ Recovery!RecoveryAssumption
  /\ Lookups!LookupsAssumption /\ \A c \in Campaigns : Lookups!HasManager(Lookups!Rows, c)

VARIABLE what  \* which of the six

ComponentInit ==
  /\ what \in {"condition", "move", "item", "key", "recovery", "lookup"}
  /\ Init /\ Moving!Init /\ Handling!Init /\ Signing!Init /\ Recovery!Init /\ Lookups!Init
  /\ what # "key" => published = Keys
  /\ what # "recovery" => db = g1
ComponentNext ==
  \/ what = "condition" /\ Next /\ UNCHANGED <<movement, items, signing, recovery, lookups, what>>
  \/ what = "move" /\ Moving!Next /\ UNCHANGED <<vars, items, signing, recovery, lookups, what>>
  \/ what = "item" /\ Handling!Next /\ UNCHANGED <<vars, movement, signing, recovery, lookups, what>>
  \/ what = "key" /\ Signing!Next /\ UNCHANGED <<vars, movement, items, recovery, lookups, what>>
  \/ what = "recovery" /\ Recovery!Next /\ UNCHANGED <<vars, movement, items, signing, lookups, what>>
  \/ what = "lookup" /\ Lookups!Next /\ UNCHANGED <<vars, movement, items, signing, recovery, what>>
ComponentSpec ==
  ComponentInit /\ [][ComponentNext]_<<vars, movement, items, signing, recovery, lookups, what>>

Symmetry == Permutations({t1, t2, t3}) \cup Permutations({k1, k2})
=============================================================================
