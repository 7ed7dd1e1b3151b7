--------------------------- MODULE MCCharacterState ---------------------------
(* An instance of EncounterCommands for TLC.  Each behaviour is one of the     *)
(* commands of an encounter or one of the revision.                            *)
EXTENDS EncounterCommands, TLC

CONSTANTS t1, t2, e1, e2, s1, s2, c1, c2, hp, ki

TwoAndOne == hp :> 2 @@ ki :> 1

Turn(e, c, s, h, x, n) ==
  [kind |-> "turn", encounter |-> e, campaign |-> c, slot |-> s, hit |-> h, row |-> x, amount |-> n]
End(e, c) == [kind |-> "end", encounter |-> e, campaign |-> c]
Adjust(x, n) == [kind |-> "adjust", row |-> x, amount |-> n]

\* Turns of two encounters on one target, one of them lethal, a miss, turns
\* without damage or target, both kinds of campaign assertion.
OneTarget ==
  {Turn(e1, None, s1, "hit", hp, 1), Turn(e1, c1, s2, "unreported", hp, 3),
   Turn(e1, c1, s1, "miss", hp, 1), Turn(e2, None, s1, "hit", None, 1),
   Turn(e2, None, s2, "hit", hp, 1),
   End(e1, c1), End(e2, None), Adjust(hp, -1), Adjust(hp, 2), Adjust(ki, -1), Adjust(ki, 1)}

CONSTANTS session, T1, T2

MCScopes ==
  { [timeline |-> T1, campaign |-> None, session |-> None],
    [timeline |-> T2, campaign |-> None, session |-> None],
    [timeline |-> T1, campaign |-> c1, session |-> session],
    [timeline |-> T1, campaign |-> c2, session |-> session],
    [timeline |-> T2, campaign |-> c1, session |-> None] }

\* Two campaigns share a timeline, and one of them has a session.
MCTimelineOf == c1 :> T1 @@ c2 :> T1
MCCampaignOf == session :> c1

ASSUME RevisionIsFit == Revision081!ScopesAssumption

VARIABLE what  \* which of the two

EncounterInit == what \in {"commands", "revision"} /\ Init /\ Revision081!Init
EncounterNext ==
  \/ what = "commands" /\ Next /\ UNCHANGED <<revision, what>>
  \/ what = "revision" /\ Revision081!Next /\ UNCHANGED <<vars, what>>
EncounterSpec ==
  EncounterInit /\ [][EncounterNext]_<<vars, revision, what>> /\ Fairness
=============================================================================
