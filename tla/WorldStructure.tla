---------------------------- MODULE WorldStructure ----------------------------
(***************************************************************************)
(* The hierarchy of the locations of a world and the rows that make some   *)
(* of them dungeons and areas of dungeons, kept by the triggers of the     *)
(* revisions 039, 044, 048, 049, 053, 054 and 056                          *)
(* (src/database/migrations/versions).                                     *)
(*                                                                         *)
(* A trigger sees what others have committed and nothing of what they are  *)
(* about to.  Two statements that are each allowed may together make a     *)
(* location its own ancestor, or leave an area outside every dungeon; the  *)
(* triggers therefore take advisory locks before they read.  Triggers of   *)
(* one kind fire in the order of their names, BEFORE triggers ahead of     *)
(* AFTER triggers, and their locks are kept until the transaction ends.    *)
(* A transaction is one statement here.                                    *)
(***************************************************************************)
EXTENDS Naturals, FiniteSets

CONSTANTS
  Txs,
  Locations,
  TypesOf,    \* the types that the authors give to a location
  MaxDepth,   \* how many ancestors a trigger walks at most
  None

ASSUME StructureAssumption ==
  /\ TypesOf \in [Locations -> (SUBSET {"location", "dungeon", "dungeon_area"}) \ {{}}]
  /\ MaxDepth \in Nat \ {0}
  /\ IsFiniteSet(Txs)
  /\ None \notin Locations \cup Txs

VARIABLES
  type,      \* core.entities.entity_type_id
  parent,    \* world.locations.parent_location_id
  dungeons,  \* world.dungeons
  areas,     \* world.dungeon_areas
  held,      \* the locks of a transaction
  pc, job

rows == <<type, parent, dungeons, areas>>
vars == <<rows, held, pc, job>>

Kinds == {"row", "entity", "area row", "dungeon row", "child", "subtype", "world"}
Statements ==
  [kind : {"move"}, of : Locations, to : Locations \cup {None}]
    \cup [kind : {"add area", "add dungeon"}, of : Locations]
    \cup [kind : {"retype"}, of : Locations, to : {"location", "dungeon", "dungeon_area"}]

TypeOK ==
  /\ type \in [Locations -> {"location", "dungeon", "dungeon_area"}]
  /\ parent \in [Locations -> Locations \cup {None}]
  /\ dungeons \subseteq Locations /\ areas \subseteq Locations
  /\ held \in [Txs -> SUBSET (Kinds \X (Locations \cup {None}))]
  /\ pc \in [Txs -> {"idle", "row", "child", "parent", "world", "self", "commit"}]
  /\ job \in [Txs -> Statements \cup {None}]

Init ==
  /\ type \in {f \in [Locations -> {"location", "dungeon", "dungeon_area"}] :
                 \A l \in Locations : f[l] \in TypesOf[l]}
  /\ parent = [l \in Locations |-> None]
  /\ dungeons = {} /\ areas = {}
  /\ held = [t \in Txs |-> {}]
  /\ pc = [t \in Txs |-> "idle"]
  /\ job = [t \in Txs |-> None]
-----------------------------------------------------------------------------
Kind(t) == job[t].kind
Of(t) == job[t].of
\* Where the location lies, or will: the parent that its trigger looks at.
Above(t) == IF Kind(t) = "move" THEN job[t].to ELSE parent[Of(t)]

KeepsType(t) == Kind(t) = "retype" /\ job[t].to = type[Of(t)]

\* The lock that the next step of t takes.  An UPDATE locks its row, an INSERT
\* its key; one that leaves a type as it is returns before it takes a lock.
Wanted(t) ==
  CASE pc[t] = "row" ->
         {<<CASE Kind(t) = "move" -> "row" [] Kind(t) = "retype" -> "entity"
              [] Kind(t) = "add area" -> "area row" [] OTHER -> "dungeon row", Of(t)>>}
    [] pc[t] = "child" -> {<<"child", Of(t)>>}
    [] pc[t] = "parent" -> {<<"subtype", Above(t)>>}
    [] pc[t] = "world" /\ Above(t) # None -> {<<"world", None>>}
    [] pc[t] = "self" /\ ~KeepsType(t) -> {<<"subtype", Of(t)>>}
    [] OTHER -> {}

Open == {t \in Txs : pc[t] # "idle"}
WaitsFor(t) == {u \in Txs \ {t} : Wanted(t) \cap held[u] # {}}

Take(t) ==
  /\ WaitsFor(t) = {}
  /\ held' = [held EXCEPT ![t] = @ \cup Wanted(t)]

Goto(t, to) ==
  /\ pc' = [pc EXCEPT ![t] = to]
  /\ UNCHANGED <<rows, job>>

\* Mutant of End: locks of the session instead of the transaction.
EndKeepingLocks(t) ==
  /\ pc' = [pc EXCEPT ![t] = "idle"]
  /\ job' = [job EXCEPT ![t] = None]
  /\ UNCHANGED held

End(t) ==
  /\ pc' = [pc EXCEPT ![t] = "idle"]
  /\ job' = [job EXCEPT ![t] = None]
  /\ held' = [held EXCEPT ![t] = {}]

\* The walk from p gets to the root before MaxDepth and does not meet l.
ProvesAcyclic(l, p) ==
  \E n \in 1 .. MaxDepth - 1 : \E walk \in [1 .. n -> Locations \ {l}] :
    /\ walk[1] = p
    /\ \A i \in 1 .. n - 1 : parent[walk[i]] = walk[i + 1]
    /\ parent[walk[n]] = None

AreasIn(l) == {a \in areas : parent[a] = l}

IsDungeon(p) == p # None /\ type[p] = "dungeon"
-----------------------------------------------------------------------------
\* UPDATE locations SET parent_location_id, INSERT INTO dungeon_areas or
\* dungeons, UPDATE entities SET entity_type_id.
Begin(t, s) ==
  /\ pc[t] = "idle"
  /\ s.kind = "move" => s.to # s.of
  /\ s.kind = "retype" => s.to \in TypesOf[s.of]
  /\ pc' = [pc EXCEPT ![t] = "row"]
  /\ job' = [job EXCEPT ![t] = s]
  /\ UNCHANGED <<rows, held>>

\* DELETE FROM dungeon_areas or dungeons is stopped by no trigger.
DeleteArea(l) ==
  /\ l \in areas
  /\ areas' = areas \ {l}
  /\ UNCHANGED <<type, parent, dungeons, held, pc, job>>

DeleteDungeon(l) ==
  /\ l \in dungeons
  /\ dungeons' = dungeons \ {l}
  /\ UNCHANGED <<type, parent, areas, held, pc, job>>

LockRow(t) ==
  /\ pc[t] = "row"
  /\ Take(t)
  /\ Kind(t) = "add area" => Of(t) \notin areas
  /\ Kind(t) = "add dungeon" => Of(t) \notin dungeons
  /\ Goto(t, IF Kind(t) \in {"move", "add area"} THEN "child" ELSE "self")

\* Mutant of LockChild: the functions as they were before revision 056.
ReadChild(t) ==
  /\ pc[t] = "child"
  /\ Kind(t) = "add area" \/ Of(t) \in areas => Above(t) # None
  /\ Goto(t, IF Kind(t) = "add area" \/ Of(t) \in areas THEN "parent" ELSE "world")
  /\ UNCHANGED held

\* An area must lie somewhere; whether a location is an area is looked up
\* under a lock that the INSERT into dungeon_areas takes too.
LockChild(t) ==
  /\ pc[t] = "child"
  /\ Take(t)
  /\ Kind(t) = "add area" \/ Of(t) \in areas => Above(t) # None
  /\ Goto(t, IF Kind(t) = "add area" \/ Of(t) \in areas THEN "parent" ELSE "world")

\* It must lie in a dungeon, whose type is looked up under its lock.
LockParent(t) ==
  /\ pc[t] = "parent"
  /\ Take(t)
  /\ IsDungeon(Above(t))
  /\ Goto(t, IF Kind(t) = "move" THEN "world" ELSE "self")

\* Mutant of LockWorld: the function as it was before revision 049.
ReadWorld(t) ==
  /\ pc[t] = "world"
  /\ Above(t) # None => ProvesAcyclic(Of(t), Above(t))
  /\ Goto(t, "self")
  /\ UNCHANGED held

\* No location becomes its own ancestor; moves in one world wait for each other.
LockWorld(t) ==
  /\ pc[t] = "world"
  /\ Take(t)
  /\ Above(t) # None => ProvesAcyclic(Of(t), Above(t))
  /\ Goto(t, "self")

\* A row needs an entity of its type, and an entity with rows keeps its type.
FitsSubtypes(t) ==
  LET l == Of(t)
      kind == Kind(t)
  IN /\ kind = "add area" => type[l] = "dungeon_area"
     /\ kind = "add dungeon" => type[l] = "dungeon"
     /\ kind = "retype" /\ job[t].to # type[l] =>
          /\ type[l] = "dungeon" => AreasIn(l) = {}
          /\ l \notin areas \cup dungeons

LockSelf(t) ==
  /\ pc[t] = "self"
  /\ Take(t)
  /\ FitsSubtypes(t)
  /\ Goto(t, "commit")

\* A trigger raises an exception; so does the second INSERT of a key.
Refuse(t) ==
  /\ WaitsFor(t) = {}
  /\ \/ pc[t] = "row" /\ Kind(t) = "add area" /\ Of(t) \in areas
     \/ pc[t] = "row" /\ Kind(t) = "add dungeon" /\ Of(t) \in dungeons
     \/ /\ pc[t] = "child" /\ Above(t) = None
        /\ Kind(t) = "add area" \/ Of(t) \in areas
     \/ pc[t] = "parent" /\ ~IsDungeon(Above(t))
     \/ pc[t] = "world" /\ Above(t) # None /\ ~ProvesAcyclic(Of(t), Above(t))
     \/ pc[t] = "self" /\ ~FitsSubtypes(t)
  /\ End(t)
  /\ UNCHANGED rows

Commit(t) ==
  /\ pc[t] = "commit"
  /\ parent' = IF Kind(t) = "move" THEN [parent EXCEPT ![Of(t)] = job[t].to] ELSE parent
  /\ type' = IF Kind(t) = "retype" THEN [type EXCEPT ![Of(t)] = job[t].to] ELSE type
  /\ areas' = IF Kind(t) = "add area" THEN areas \cup {Of(t)} ELSE areas
  /\ dungeons' = IF Kind(t) = "add dungeon" THEN dungeons \cup {Of(t)} ELSE dungeons
  /\ End(t)

\* The client gives up, or the server chose the transaction to end a deadlock.
Rollback(t) ==
  /\ pc[t] # "idle"
  /\ End(t)
  /\ UNCHANGED rows

Progress(t) ==
  \/ LockRow(t) \/ LockChild(t) \/ LockParent(t) \/ LockWorld(t) \/ LockSelf(t)
  \/ Refuse(t)
  \/ Commit(t)

Next ==
  \/ \E t \in Txs, s \in Statements : Begin(t, s)
  \/ \E l \in Locations : DeleteArea(l) \/ DeleteDungeon(l)
  \/ \E t \in Txs : Progress(t) \/ Rollback(t)

Spec == Init /\ [][Next]_vars
-----------------------------------------------------------------------------
\* No location lies in itself, however many moves are under way at once.
Contained ==
  \A s \in (SUBSET Locations) \ {{}} : \E l \in s : parent[l] \notin s

\* A row of dungeons or dungeon_areas belongs to an entity of that type, and an
\* area lies in a dungeon, although either end of these relations is changed by
\* statements that cannot see each other.
SubtypesFit ==
  /\ \A l \in dungeons : type[l] = "dungeon"
  /\ \A l \in areas :
       /\ type[l] = "dungeon_area"
       /\ IsDungeon(parent[l])

\* Statements wait for each other in a circle only when one of them moves an
\* area into a dungeon and waits for another that moves a dungeon: the former
\* locks the dungeon ahead of the world, the latter the world ahead of the
\* dungeon.  No lock outlives its transaction.
DeadlockNeedsMovingDungeon ==
  \A S \in (SUBSET Open) \ {{}} :
    \/ \E t \in S : WaitsFor(t) \subseteq Open \ S
    \/ \E t, u \in S :
         /\ u \in WaitsFor(t)
         /\ pc[t] = "world" /\ <<"subtype", Above(t)>> \in held[t]
         /\ pc[u] = "self" /\ Kind(u) = "move" /\ IsDungeon(Of(u))
-----------------------------------------------------------------------------
(* What is still so when a transaction commits, because of its locks.  *)

JobFitsStep ==
  \A t \in Txs : pc[t] # "idle" =>
    /\ job[t] \in Statements
    /\ pc[t] \in {"child", "parent"} => Kind(t) \in {"move", "add area"}
    /\ pc[t] = "world" => Kind(t) = "move"

Exclusive == \A t, u \in Txs : t # u => held[t] \cap held[u] = {}

HoldsOwn ==
  \A t \in Txs :
    /\ pc[t] \in {"self", "commit"} /\ Kind(t) = "retype" =>
         <<"entity", Of(t)>> \in held[t]
    /\ pc[t] \in {"parent", "world", "self", "commit"} /\ Kind(t) \in {"move", "add area"} =>
         <<"child", Of(t)>> \in held[t]

\* An area, or what becomes one, lies in a dungeon that stays a dungeon.
HoldsDungeon ==
  \A t \in Txs :
    pc[t] \in {"world", "self", "commit"} =>
      (Kind(t) = "add area" \/ (Kind(t) = "move" /\ Of(t) \in areas) =>
         IsDungeon(Above(t)) /\ <<"subtype", Above(t)>> \in held[t])

StillFits ==
  \A t \in Txs : pc[t] = "commit" =>
    /\ FitsSubtypes(t)
    /\ \/ Kind(t) = "retype" /\ job[t].to = type[Of(t)]
       \/ <<"subtype", Of(t)>> \in held[t]

\* The ancestors of a move's destination, among which the location is not.
MoveIsClear ==
  \A t \in Txs :
    pc[t] \in {"self", "commit"} /\ Kind(t) = "move" /\ job[t].to # None =>
      /\ <<"world", None>> \in held[t]
      /\ \E above \in SUBSET Locations :
           /\ job[t].to \in above /\ Of(t) \notin above
           /\ \A l \in above : parent[l] \in above \cup {None}

IInv ==
  /\ TypeOK /\ JobFitsStep /\ Exclusive /\ HoldsOwn /\ HoldsDungeon /\ StillFits
  /\ MoveIsClear
  /\ Contained /\ SubtypesFit

\* Where a transaction is once it has a lock, and that a dungeon whose lock it
\* has for an area stays a dungeon.
HeldFits(t) ==
  \A l \in Locations \cup {None} :
    /\ \A k \in {"row", "entity", "area row", "dungeon row"} :
         <<k, l>> \in held[t] => pc[t] \notin {"idle", "row"}
    /\ <<"child", l>> \in held[t] =>
         pc[t] \in {"parent", "world", "self", "commit"} /\ l = Of(t)
    /\ <<"subtype", l>> \in held[t] =>
         \/ /\ pc[t] \in {"world", "self", "commit"} /\ Kind(t) \in {"move", "add area"}
            /\ l = Above(t) /\ IsDungeon(l)
         \/ pc[t] = "commit"
    /\ <<"world", l>> \in held[t] => pc[t] \in {"self", "commit"} /\ Kind(t) = "move"

LocksFit == \A t \in Txs : HeldFits(t)
=============================================================================
