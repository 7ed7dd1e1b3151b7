---------------------------- MODULE MCInteractions ----------------------------
(* Instances of Interactions for TLC.  An attempt to disarm and an attempt to  *)
(* trigger meet at one trap; one interaction pulls a lever that another one    *)
(* merely looks at, so that both may discover it.                              *)
EXTENDS Interactions, TLC

CONSTANTS t1, t2, disarm, trip, pull, r1, r2, r3, r4, hazard, lever, p

MCInteractionOf == r1 :> disarm @@ r2 :> disarm @@ r3 :> trip @@ r4 :> pull
MCTargetOf == r1 :> hazard @@ r2 :> lever @@ r3 :> hazard @@ r4 :> lever
MCTypeOf == disarm :> "disarm_trap" @@ trip :> "trigger_trap" @@ pull :> "activate_mechanism"
MCKindOf == hazard :> "hazard" @@ lever :> "interactable"
=============================================================================
