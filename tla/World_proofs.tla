----------------------------- MODULE World_proofs -----------------------------
(***************************************************************************)
(* Theorems about World: what the triggers of the database keep true of    *)
(* the locations of a world and of the rulesets it allows.                 *)
(***************************************************************************)
EXTENDS World, FiniteSetTheorems, TLAPS
-----------------------------------------------------------------------------
(* Locations, dungeons and areas.                                          *)

LEMMA StatementFields ==
  ASSUME NEW s \in Statements
  PROVE  /\ s.of \in Locations
         /\ s.kind \in {"move", "add area", "add dungeon", "retype"}
         /\ s.kind = "move" => s.to \in Locations \cup {None}
         /\ s.kind = "retype" => s.to \in {"location", "dungeon", "dungeon_area"}
  BY DEF Statements

LEMMA WalkClosed ==
  ASSUME NEW l \in Locations, NEW p \in Locations, ProvesAcyclic(l, p)
  PROVE  \E above \in SUBSET Locations :
           /\ p \in above /\ l \notin above
           /\ \A m \in above : parent[m] \in above \cup {None}
<1>1. PICK n \in 1 .. MaxDepth - 1 : \E walk \in [1 .. n -> Locations \ {l}] :
        /\ walk[1] = p
        /\ \A i \in 1 .. n - 1 : parent[walk[i]] = walk[i + 1]
        /\ parent[walk[n]] = None
  BY DEF ProvesAcyclic
<1>2. PICK walk \in [1 .. n -> Locations \ {l}] :
        /\ walk[1] = p
        /\ \A i \in 1 .. n - 1 : parent[walk[i]] = walk[i + 1]
        /\ parent[walk[n]] = None
  BY <1>1
<1> DEFINE above == {walk[i] : i \in 1 .. n}
<1>3. n \in Nat /\ n >= 1
  BY StructureAssumption
<1>4. above \in SUBSET Locations /\ l \notin above
  OBVIOUS
<1>5. p \in above
  BY <1>2, <1>3
<1>6. \A m \in above : parent[m] \in above \cup {None}
  <2> SUFFICES ASSUME NEW i \in 1 .. n
               PROVE  parent[walk[i]] \in above \cup {None}
    OBVIOUS
  <2>1. CASE i = n
    BY <2>1, <1>2
  <2>2. CASE i # n
    <3>1. i \in 1 .. n - 1 /\ i + 1 \in 1 .. n
      BY <2>2, <1>3
    <3> QED
      BY <3>1, <1>2
  <2> QED
    BY <2>1, <2>2
<1> QED
  BY <1>4, <1>5, <1>6

LEMMA TakeTyped ==
  ASSUME TypeOK, NEW t \in Txs, NEW k \in Kinds, NEW l \in Locations \cup {None},
         Wanted(t) \subseteq {<<k, l>>}, Take(t)
  PROVE  held' \in [Txs -> SUBSET (Kinds \X (Locations \cup {None}))]
<1>1. Wanted(t) \subseteq Kinds \X (Locations \cup {None})
  OBVIOUS
<1> HIDE DEF Kinds
<1> QED
  BY <1>1 DEF Take, TypeOK

\* The lock that each step takes.
LEMMA WantedLocks ==
  ASSUME NEW t \in Txs
  PROVE  /\ pc[t] = "row" =>
              \E k \in {"row", "entity", "area row", "dungeon row"} :
                /\ Wanted(t) = {<<k, Of(t)>>}
                /\ Kind(t) = "retype" => k = "entity"
         /\ pc[t] = "child" => Wanted(t) = {<<"child", Of(t)>>}
         /\ pc[t] = "parent" => Wanted(t) = {<<"subtype", Above(t)>>}
         /\ pc[t] = "world" => Wanted(t) = IF Above(t) = None THEN {} ELSE {<<"world", None>>}
         /\ pc[t] = "self" => Wanted(t) = IF KeepsType(t) THEN {} ELSE {<<"subtype", Of(t)>>}
         /\ pc[t] \in {"idle", "commit"} => Wanted(t) = {}
  BY DEF Wanted

LEMMA TypeInductive ==
  ASSUME TypeOK, JobFitsStep, [Next]_vars
  PROVE  TypeOK'
<1> USE DEF TypeOK
<1>1. CASE UNCHANGED vars
  BY <1>1 DEF vars, rows
<1>2. ASSUME NEW t \in Txs, NEW s \in Statements, Begin(t, s)
      PROVE  TypeOK'
  BY <1>2 DEF Begin, rows
<1>3. ASSUME NEW l \in Locations, DeleteArea(l) \/ DeleteDungeon(l)
      PROVE  TypeOK'
  BY <1>3 DEF DeleteArea, DeleteDungeon
<1>4. ASSUME NEW t \in Txs, Progress(t) \/ Rollback(t)
      PROVE  TypeOK'
  <2>1. pc[t] # "idle" => job[t] \in Statements /\ Of(t) \in Locations
    BY StatementFields DEF JobFitsStep, Of
  <2>2. pc[t] # "idle" => Above(t) \in Locations \cup {None}
    BY <2>1, StatementFields DEF Above, Kind, Of
  <2>3. CASE LockRow(t)
    <3>1. PICK k \in Kinds : Wanted(t) = {<<k, Of(t)>>}
      BY <2>3, WantedLocks DEF LockRow, Kinds
    <3>2. held' \in [Txs -> SUBSET (Kinds \X (Locations \cup {None}))]
      BY <2>1, <2>3, <3>1, TakeTyped DEF LockRow
    <3> QED
      BY <2>3, <3>2 DEF LockRow, Goto, rows
  <2>4. CASE LockChild(t)
    <3>1. held' \in [Txs -> SUBSET (Kinds \X (Locations \cup {None}))]
      BY <2>1, <2>2, <2>4, WantedLocks, TakeTyped DEF LockChild, Kinds
    <3> QED
      BY <2>4, <3>1 DEF LockChild, Goto, rows
  <2>5. CASE LockParent(t)
    <3>1. held' \in [Txs -> SUBSET (Kinds \X (Locations \cup {None}))]
      BY <2>1, <2>2, <2>5, WantedLocks, TakeTyped DEF LockParent, Kinds
    <3> QED
      BY <2>5, <3>1 DEF LockParent, Goto, rows
  <2>6. CASE LockWorld(t)
    <3>1. held' \in [Txs -> SUBSET (Kinds \X (Locations \cup {None}))]
      BY <2>1, <2>2, <2>6, WantedLocks, TakeTyped DEF LockWorld, Kinds
    <3> QED
      BY <2>6, <3>1 DEF LockWorld, Goto, rows
  <2>7. CASE LockSelf(t)
    <3>1. held' \in [Txs -> SUBSET (Kinds \X (Locations \cup {None}))]
      BY <2>1, <2>2, <2>7, WantedLocks, TakeTyped DEF LockSelf, Kinds
    <3> QED
      BY <2>7, <3>1 DEF LockSelf, Goto, rows
  <2>8. CASE Refuse(t) \/ Rollback(t)
    <3>1. End(t) /\ UNCHANGED rows
      BY <2>8 DEF Refuse, Rollback
    <3> QED
      BY <3>1 DEF End, rows
  <2>9. CASE Commit(t)
    <3>1. /\ Kind(t) = "move" => job[t].to \in Locations \cup {None}
          /\ Kind(t) = "retype" => job[t].to \in {"location", "dungeon", "dungeon_area"}
      BY <2>1, <2>9, StatementFields DEF Commit, Kind
    <3>2. /\ parent' \in [Locations -> Locations \cup {None}]
          /\ type' \in [Locations -> {"location", "dungeon", "dungeon_area"}]
          /\ areas' \subseteq Locations /\ dungeons' \subseteq Locations
      BY <2>1, <2>9, <3>1 DEF Commit
    <3> QED
      BY <2>9, <3>2 DEF Commit, End
  <2> QED
    BY <1>4, <2>3, <2>4, <2>5, <2>6, <2>7, <2>8, <2>9 DEF Progress
<1> QED
  BY <1>1, <1>2, <1>3, <1>4 DEF Next

(* A lock that t holds stays, unless t ends, and goes to nobody else.  *)
LEMMA LocksInductive ==
  ASSUME TypeOK, JobFitsStep, Exclusive, [Next]_vars
  PROVE  /\ Exclusive'
         /\ \A t \in Txs :
              \/ pc'[t] = "idle"
              \/ held[t] \subseteq held'[t]
<1> USE DEF TypeOK, Exclusive
<1>1. CASE UNCHANGED vars
  BY <1>1 DEF vars
<1>2. ASSUME NEW t \in Txs, NEW s \in Statements, Begin(t, s)
      PROVE  UNCHANGED held
  BY <1>2 DEF Begin
<1>3. ASSUME NEW l \in Locations, DeleteArea(l) \/ DeleteDungeon(l)
      PROVE  UNCHANGED held
  BY <1>3 DEF DeleteArea, DeleteDungeon
<1>4. ASSUME NEW t \in Txs, Take(t)
      PROVE  Exclusive' /\ \A u \in Txs : held[u] \subseteq held'[u]
  <2>1. /\ held'[t] = held[t] \cup Wanted(t)
        /\ \A u \in Txs \ {t} : held'[u] = held[u] /\ Wanted(t) \cap held[u] = {}
    BY <1>4 DEF Take, WaitsFor
  <2> QED
    BY <2>1
<1>5. ASSUME NEW t \in Txs, Progress(t) \/ Rollback(t)
      PROVE  \/ UNCHANGED held
             \/ Take(t)
             \/ End(t)
  BY <1>5
  DEF Progress, LockRow, LockChild, LockParent, LockWorld, LockSelf, Refuse, Commit, Rollback
<1>6. ASSUME NEW t \in Txs, End(t)
      PROVE  /\ Exclusive'
             /\ \A u \in Txs : pc'[u] = "idle" \/ held[u] \subseteq held'[u]
  BY <1>6 DEF End
<1>7. CASE UNCHANGED held
  BY <1>7
<1> QED
  BY <1>1, <1>2, <1>3, <1>4, <1>5, <1>6, <1>7 DEF Next

(* What a step of t does to others: their program counters and statements stay. *)
LEMMA OthersStay ==
  ASSUME TypeOK, NEW t \in Txs, Progress(t) \/ Rollback(t) \/ (\E s \in Statements : Begin(t, s))
  PROVE  \A u \in Txs \ {t} : pc'[u] = pc[u] /\ job'[u] = job[u]
BY DEF TypeOK, Progress, LockRow, LockChild, LockParent, LockWorld, LockSelf, Refuse, Commit,
       Rollback, Goto, End, Begin

LEMMA JobInductive ==
  ASSUME TypeOK, JobFitsStep, [Next]_vars
  PROVE  JobFitsStep'
<1> USE DEF TypeOK, JobFitsStep
<1>1. CASE UNCHANGED vars
  BY <1>1 DEF vars, Kind
<1>2. ASSUME NEW t \in Txs, NEW s \in Statements, Begin(t, s)
      PROVE  JobFitsStep'
  BY <1>2 DEF Begin, Kind
<1>3. ASSUME NEW l \in Locations, DeleteArea(l) \/ DeleteDungeon(l)
      PROVE  JobFitsStep'
  BY <1>3 DEF DeleteArea, DeleteDungeon, Kind
<1>4. ASSUME NEW t \in Txs, Progress(t) \/ Rollback(t)
      PROVE  JobFitsStep'
  <2>1. \A u \in Txs \ {t} : pc'[u] = pc[u] /\ job'[u] = job[u]
    BY <1>4, OthersStay
  <2>2. \/ pc'[t] = "idle"
        \/ /\ pc[t] # "idle" /\ job'[t] = job[t]
           /\ pc'[t] \in {"child", "parent"} => Kind(t) \in {"move", "add area"}
           /\ pc'[t] = "world" => Kind(t) = "move"
    <3>1. CASE LockRow(t)
      BY <3>1 DEF LockRow, Goto
    <3>2. CASE LockChild(t)
      BY <3>2 DEF LockChild, Goto
    <3>3. CASE LockParent(t)
      BY <3>3 DEF LockParent, Goto
    <3>4. CASE LockWorld(t)
      BY <3>4 DEF LockWorld, Goto
    <3>5. CASE LockSelf(t)
      BY <3>5 DEF LockSelf, Goto
    <3>6. CASE Refuse(t) \/ Commit(t) \/ Rollback(t)
      BY <3>6 DEF Refuse, Commit, Rollback, End
    <3> QED
      BY <1>4, <3>1, <3>2, <3>3, <3>4, <3>5, <3>6 DEF Progress
  <2> QED
    BY <2>1, <2>2 DEF Kind
<1> QED
  BY <1>1, <1>2, <1>3, <1>4 DEF Next

LEMMA HoldsOwnInductive ==
  ASSUME TypeOK, JobFitsStep, Exclusive, HoldsOwn, [Next]_vars
  PROVE  HoldsOwn'
<1> USE DEF HoldsOwn
<1>0. \A t \in Txs : pc'[t] = "idle" \/ held[t] \subseteq held'[t]
  BY LocksInductive
<1>1. CASE UNCHANGED vars
  BY <1>1 DEF vars, Kind, Of
<1>2. ASSUME NEW t \in Txs, NEW s \in Statements, Begin(t, s)
      PROVE  HoldsOwn'
  BY <1>2 DEF Begin, Kind, Of, TypeOK
<1>3. ASSUME NEW l \in Locations, DeleteArea(l) \/ DeleteDungeon(l)
      PROVE  HoldsOwn'
  BY <1>3 DEF DeleteArea, DeleteDungeon, Kind, Of
<1>4. ASSUME NEW t \in Txs, Progress(t) \/ Rollback(t)
      PROVE  HoldsOwn'
  <2>1. \A u \in Txs \ {t} : pc'[u] = pc[u] /\ job'[u] = job[u]
    BY <1>4, OthersStay
  <2>2. \A u \in Txs \ {t} :
          /\ pc'[u] \in {"self", "commit"} /\ Kind(u)' = "retype" =>
               <<"entity", Of(u)'>> \in held'[u]
          /\ pc'[u] \in {"parent", "world", "self", "commit"} /\ Kind(u)' \in {"move", "add area"} =>
               <<"child", Of(u)'>> \in held'[u]
    BY <2>1, <1>0 DEF Kind, Of
  <2>3. \/ pc'[t] = "idle"
        \/ /\ job'[t] = job[t]
           /\ pc'[t] \in {"self", "commit"} /\ Kind(t) = "retype" =>
                <<"entity", Of(t)>> \in held'[t]
           /\ pc'[t] \in {"parent", "world", "self", "commit"} /\ Kind(t) \in {"move", "add area"} =>
                <<"child", Of(t)>> \in held'[t]
    <3>0. held[t] \subseteq held'[t] \/ pc'[t] = "idle"
      BY <1>0
    <3>1. CASE LockRow(t)
      BY <3>1, WantedLocks DEF LockRow, Goto, Take, TypeOK
    <3>2. CASE LockChild(t)
      BY <3>2, WantedLocks DEF LockChild, Goto, Take, TypeOK, JobFitsStep
    <3>3. CASE LockParent(t)
      BY <3>0, <3>3 DEF LockParent, Goto, TypeOK, JobFitsStep
    <3>4. CASE LockWorld(t)
      BY <3>0, <3>4 DEF LockWorld, Goto, TypeOK, JobFitsStep
    <3>5. CASE LockSelf(t)
      BY <3>0, <3>5 DEF LockSelf, Goto, TypeOK
    <3>6. CASE Refuse(t) \/ Commit(t) \/ Rollback(t)
      BY <3>6 DEF Refuse, Commit, Rollback, End, TypeOK
    <3> QED
      BY <1>4, <3>1, <3>2, <3>3, <3>4, <3>5, <3>6 DEF Progress
  <2> QED
    BY <2>2, <2>3 DEF Kind, Of
<1> QED
  BY <1>1, <1>2, <1>3, <1>4 DEF Next

(* A commit changes nothing of what another transaction holds a lock on.  *)
LEMMA CommitSpares ==
  ASSUME TypeOK, JobFitsStep, Exclusive, HoldsOwn, HoldsDungeon, StillFits, MoveIsClear,
         NEW t \in Txs, NEW u \in Txs, t # u, Commit(t)
  PROVE  /\ \A l \in Locations : <<"child", l>> \in held[u] =>
              parent'[l] = parent[l] /\ (l \in areas' => l \in areas)
         /\ \A l \in Locations : <<"subtype", l>> \in held[u] =>
              /\ type'[l] = type[l]
              /\ l \in areas' => l \in areas
              /\ l \in dungeons' => l \in dungeons
              /\ {a \in areas' : parent'[a] = l} \subseteq AreasIn(l)
         /\ \A l \in Locations : <<"entity", l>> \in held[u] => type'[l] = type[l]
         /\ <<"world", None>> \in held[u] =>
              \A l \in Locations : parent'[l] \in {parent[l], None}
<1> USE DEF Exclusive, Commit
<1>1. /\ job[t] \in Statements /\ Of(t) \in Locations
      /\ Kind(t) \in {"move", "add area", "add dungeon", "retype"}
      /\ Kind(t) = "move" => job[t].to \in Locations \cup {None}
  BY StatementFields DEF JobFitsStep, Kind, Of
<1>2. \A name : ~(name \in held[t] /\ name \in held[u])
  OBVIOUS
<1>3. CASE Kind(t) = "move"
  <2>1. /\ <<"child", Of(t)>> \in held[t]
        /\ job[t].to # None => <<"world", None>> \in held[t]
        /\ Of(t) \in areas => <<"subtype", job[t].to>> \in held[t]
    BY <1>3 DEF HoldsOwn, MoveIsClear, HoldsDungeon, Above
  <2>2. /\ UNCHANGED <<type, areas, dungeons>>
        /\ parent' = [parent EXCEPT ![Of(t)] = job[t].to]
    BY <1>3
  <2> QED
    BY <1>1, <1>2, <2>1, <2>2 DEF TypeOK, AreasIn
<1>4. CASE Kind(t) = "add area"
  <2>1. /\ <<"child", Of(t)>> \in held[t] /\ <<"subtype", Of(t)>> \in held[t]
        /\ <<"subtype", parent[Of(t)]>> \in held[t]
    BY <1>4 DEF HoldsOwn, StillFits, HoldsDungeon, Above
  <2>2. UNCHANGED <<type, parent, dungeons>> /\ areas' = areas \cup {Of(t)}
    BY <1>4
  <2> QED
    BY <1>1, <1>2, <2>1, <2>2 DEF TypeOK, AreasIn
<1>5. CASE Kind(t) = "add dungeon"
  <2>1. <<"subtype", Of(t)>> \in held[t]
    BY <1>5 DEF StillFits
  <2>2. UNCHANGED <<type, parent, areas>> /\ dungeons' = dungeons \cup {Of(t)}
    BY <1>5
  <2> QED
    BY <1>1, <1>2, <2>1, <2>2 DEF TypeOK, AreasIn
<1>6. CASE Kind(t) = "retype"
  <2>1. /\ <<"entity", Of(t)>> \in held[t]
        /\ job[t].to = type[Of(t)] \/ <<"subtype", Of(t)>> \in held[t]
    BY <1>6 DEF HoldsOwn, StillFits
  <2>2. UNCHANGED <<parent, areas, dungeons>> /\ type' = [type EXCEPT ![Of(t)] = job[t].to]
    BY <1>6
  <2> QED
    BY <1>1, <1>2, <2>1, <2>2 DEF TypeOK, AreasIn
<1> QED
  BY <1>1, <1>3, <1>4, <1>5, <1>6

(* Steps that are not commits leave the rows alone, but for deletions.  *)
LEMMA RowsStay ==
  ASSUME NEW t \in Txs, Progress(t) \/ Rollback(t), ~Commit(t)
  PROVE  UNCHANGED rows
BY DEF Progress, LockRow, LockChild, LockParent, LockWorld, LockSelf, Refuse, Rollback, Goto

LEMMA FieldsAre ==
  ASSUME JobFitsStep, NEW t \in Txs, pc[t] # "idle"
  PROVE  /\ Of(t) \in Locations
         /\ Kind(t) \in {"move", "add area", "add dungeon", "retype"}
         /\ Kind(t) = "move" => job[t].to \in Locations \cup {None}
         /\ Kind(t) = "retype" => job[t].to \in {"location", "dungeon", "dungeon_area"}
BY StatementFields DEF JobFitsStep, Kind, Of

LEMMA HoldsDungeonInductive ==
  ASSUME TypeOK, JobFitsStep, Exclusive, HoldsOwn, HoldsDungeon, StillFits, MoveIsClear,
         [Next]_vars
  PROVE  HoldsDungeon'
<1>0. \A t \in Txs : pc'[t] = "idle" \/ held[t] \subseteq held'[t]
  BY LocksInductive
<1> USE DEF HoldsDungeon
<1>1. CASE UNCHANGED vars
  BY <1>1 DEF vars, rows, Kind, Of, Above, IsDungeon
<1>2. ASSUME NEW t \in Txs, NEW s \in Statements, Begin(t, s)
      PROVE  HoldsDungeon'
  BY <1>2 DEF Begin, rows, Kind, Of, Above, IsDungeon, TypeOK
<1>3. ASSUME NEW l \in Locations, DeleteArea(l) \/ DeleteDungeon(l)
      PROVE  HoldsDungeon'
  BY <1>3 DEF DeleteArea, DeleteDungeon, Kind, Of, Above, IsDungeon
<1>4. ASSUME NEW t \in Txs, Progress(t) \/ Rollback(t), ~Commit(t)
      PROVE  HoldsDungeon'
  <2>1. \A u \in Txs \ {t} : pc'[u] = pc[u] /\ job'[u] = job[u]
    BY <1>4, OthersStay
  <2>2. UNCHANGED rows
    BY <1>4, RowsStay
  <2>3. \/ pc'[t] = "idle"
        \/ /\ job'[t] = job[t]
           /\ pc'[t] \in {"world", "self", "commit"} =>
                (Kind(t) = "add area" \/ (Kind(t) = "move" /\ Of(t) \in areas) =>
                   IsDungeon(Above(t)) /\ <<"subtype", Above(t)>> \in held'[t])
    <3>1. CASE LockRow(t)
      BY <3>1 DEF LockRow, Goto, TypeOK
    <3>2. CASE LockChild(t)
      BY <3>2 DEF LockChild, Goto, TypeOK
    <3>3. CASE LockParent(t)
      BY <3>3, WantedLocks DEF LockParent, Goto, Take, TypeOK
    <3>4. CASE LockWorld(t)
      BY <1>0, <3>4 DEF LockWorld, Goto, TypeOK
    <3>5. CASE LockSelf(t)
      BY <1>0, <3>5 DEF LockSelf, Goto, TypeOK
    <3>6. CASE Refuse(t) \/ Rollback(t)
      BY <3>6 DEF Refuse, Rollback, End, TypeOK
    <3> QED
      BY <1>4, <3>1, <3>2, <3>3, <3>4, <3>5, <3>6 DEF Progress
  <2>4. ASSUME NEW u \in Txs, job'[u] = job[u]
        PROVE  /\ Kind(u)' = Kind(u) /\ Of(u)' = Of(u) /\ Above(u)' = Above(u)
               /\ (IsDungeon(Above(u))' <=> IsDungeon(Above(u))) /\ areas' = areas
    BY <2>2, <2>4 DEF rows, Kind, Of, Above, IsDungeon
  <2>5. \A u \in Txs \ {t} : pc'[u] \in {"world", "self", "commit"} => held[u] \subseteq held'[u]
    BY <1>0
  <2>6. ASSUME NEW u \in Txs, pc'[u] \in {"world", "self", "commit"},
               Kind(u)' = "add area" \/ (Kind(u)' = "move" /\ Of(u)' \in areas')
        PROVE  IsDungeon(Above(u))' /\ <<"subtype", Above(u)'>> \in held'[u]
    <3>1. CASE u = t
      <4>1. /\ job'[u] = job[u]
            /\ Kind(u) = "add area" \/ (Kind(u) = "move" /\ Of(u) \in areas) =>
                 IsDungeon(Above(u)) /\ <<"subtype", Above(u)>> \in held'[u]
        BY <2>3, <2>6, <3>1
      <4>2. /\ Kind(u)' = Kind(u) /\ Of(u)' = Of(u) /\ Above(u)' = Above(u) /\ areas' = areas
            /\ IsDungeon(Above(u))' <=> IsDungeon(Above(u))
        BY <2>4, <4>1
      <4>3. IsDungeon(Above(u)) /\ <<"subtype", Above(u)>> \in held'[u]
        BY <2>6, <4>1, <4>2
      <4> QED
        BY <4>2, <4>3
    <3>2. CASE u # t
      BY <2>1, <2>4, <2>5, <2>6, <3>2
    <3> QED
      BY <3>1, <3>2
  <2> QED
    BY <2>6
<1>5. ASSUME NEW t \in Txs, Commit(t)
      PROVE  HoldsDungeon'
  <2>1. \A u \in Txs \ {t} : pc'[u] = pc[u] /\ job'[u] = job[u]
    BY <1>5, OthersStay DEF Progress
  <2>2. pc'[t] = "idle"
    BY <1>5 DEF Commit, End, TypeOK
  <2>3. ASSUME NEW u \in Txs \ {t}, pc[u] \in {"world", "self", "commit"},
               Kind(u) = "add area" \/ (Kind(u) = "move" /\ Of(u) \in areas')
        PROVE  IsDungeon(Above(u))' /\ (<<"subtype", Above(u)>> \in held[u])'
    <3>1. Of(u) \in Locations /\ (Kind(u) = "move" => job[u].to \in Locations \cup {None})
      BY <2>3, FieldsAre
    <3>2. <<"child", Of(u)>> \in held[u]
      BY <2>3 DEF HoldsOwn
    <3>3. parent'[Of(u)] = parent[Of(u)] /\ (Of(u) \in areas' => Of(u) \in areas)
      BY <1>5, <3>1, <3>2, CommitSpares
    <3>4. IsDungeon(Above(u)) /\ <<"subtype", Above(u)>> \in held[u] /\ Above(u)' = Above(u)
      BY <2>1, <2>3, <3>3 DEF Above, Kind, Of
    <3>5. Above(u) \in Locations
      BY <3>1, <3>4 DEF Above, IsDungeon, TypeOK
    <3>6. type'[Above(u)] = type[Above(u)]
      BY <1>5, <3>4, <3>5, CommitSpares
    <3> QED
      BY <1>0, <2>1, <2>3, <3>4, <3>6 DEF IsDungeon
  <2> QED
    BY <2>1, <2>2, <2>3 DEF Kind, Of
<1> QED
  BY <1>1, <1>2, <1>3, <1>4, <1>5 DEF Next

LEMMA StillFitsInductive ==
  ASSUME TypeOK, JobFitsStep, Exclusive, HoldsOwn, HoldsDungeon, StillFits, MoveIsClear,
         [Next]_vars
  PROVE  StillFits'
<1>0. \A t \in Txs : pc'[t] = "idle" \/ held[t] \subseteq held'[t]
  BY LocksInductive
<1> USE DEF StillFits
<1>1. CASE UNCHANGED vars
  BY <1>1 DEF vars, rows, Kind, Of, FitsSubtypes, AreasIn
<1>2. ASSUME NEW t \in Txs, NEW s \in Statements, Begin(t, s)
      PROVE  StillFits'
  BY <1>2 DEF Begin, rows, Kind, Of, FitsSubtypes, AreasIn, TypeOK
<1>3. ASSUME NEW l \in Locations, DeleteArea(l) \/ DeleteDungeon(l)
      PROVE  StillFits'
  BY <1>3 DEF DeleteArea, DeleteDungeon, Kind, Of, FitsSubtypes, AreasIn
<1>4. ASSUME NEW t \in Txs, Progress(t) \/ Rollback(t), ~Commit(t)
      PROVE  StillFits'
  <2>1. \A u \in Txs \ {t} : pc'[u] = pc[u] /\ job'[u] = job[u]
    BY <1>4, OthersStay
  <2>2. UNCHANGED rows
    BY <1>4, RowsStay
  <2>3. \/ pc'[t] # "commit"
        \/ /\ job'[t] = job[t]
           /\ FitsSubtypes(t)
           /\ \/ Kind(t) = "retype" /\ job[t].to = type[Of(t)]
              \/ <<"subtype", Of(t)>> \in held'[t]
    <3>1. CASE LockRow(t)
      BY <3>1 DEF LockRow, Goto, TypeOK
    <3>2. CASE LockChild(t)
      BY <3>2 DEF LockChild, Goto, TypeOK
    <3>3. CASE LockParent(t)
      BY <3>3, WantedLocks DEF LockParent, Goto, Take, TypeOK
    <3>4. CASE LockWorld(t)
      BY <3>4 DEF LockWorld, Goto, TypeOK
    <3>5. CASE LockSelf(t)
      BY <3>5, WantedLocks DEF LockSelf, Goto, Take, KeepsType, TypeOK
    <3>6. CASE Refuse(t) \/ Rollback(t)
      BY <3>6 DEF Refuse, Rollback, End, TypeOK
    <3> QED
      BY <1>4, <3>1, <3>2, <3>3, <3>4, <3>5, <3>6 DEF Progress
  <2>4. ASSUME NEW u \in Txs, job'[u] = job[u]
        PROVE  /\ Kind(u)' = Kind(u) /\ Of(u)' = Of(u) /\ type' = type
               /\ FitsSubtypes(u)' = FitsSubtypes(u)
    BY <2>2, <2>4 DEF rows, Kind, Of, FitsSubtypes, AreasIn
  <2>5. ASSUME NEW u \in Txs, pc'[u] = "commit"
        PROVE  /\ FitsSubtypes(u)'
               /\ \/ Kind(u)' = "retype" /\ job'[u].to = type'[Of(u)']
                  \/ <<"subtype", Of(u)'>> \in held'[u]
    <3>1. CASE u = t
      BY <2>3, <2>4, <2>5, <3>1
    <3>2. CASE u # t
      BY <1>0, <2>1, <2>4, <2>5, <3>2
    <3> QED
      BY <3>1, <3>2
  <2> QED
    BY <2>5
<1>5. ASSUME NEW t \in Txs, Commit(t)
      PROVE  StillFits'
  <2>1. \A u \in Txs \ {t} : pc'[u] = pc[u] /\ job'[u] = job[u]
    BY <1>5, OthersStay DEF Progress
  <2>2. pc'[t] = "idle"
    BY <1>5 DEF Commit, End, TypeOK
  <2>3. ASSUME NEW u \in Txs \ {t}, pc[u] = "commit"
        PROVE  /\ FitsSubtypes(u)'
               /\ \/ Kind(u) = "retype" /\ job[u].to = type'[Of(u)]
                  \/ <<"subtype", Of(u)>> \in held'[u]
    <3>1. Of(u) \in Locations
      BY <2>3, FieldsAre
    <3>2. Kind(u) = "retype" => type'[Of(u)] = type[Of(u)]
      BY <1>5, <2>3, <3>1, CommitSpares DEF HoldsOwn
    <3>3. <<"subtype", Of(u)>> \in held[u] =>
            /\ type'[Of(u)] = type[Of(u)]
            /\ Of(u) \in areas' => Of(u) \in areas
            /\ Of(u) \in dungeons' => Of(u) \in dungeons
            /\ {a \in areas' : parent'[a] = Of(u)} \subseteq AreasIn(Of(u))
      BY <1>5, <3>1, CommitSpares
    <3>4. FitsSubtypes(u)'
      <4>1. Kind(u)' = Kind(u) /\ Of(u)' = Of(u) /\ job'[u] = job[u] /\ FitsSubtypes(u)
        BY <2>1, <2>3 DEF Kind, Of
      <4>2. CASE Kind(u) = "retype" /\ job[u].to = type[Of(u)]
        BY <3>2, <4>1, <4>2 DEF FitsSubtypes
      <4>3. CASE <<"subtype", Of(u)>> \in held[u]
        BY <3>3, <4>1, <4>3 DEF FitsSubtypes, AreasIn
      <4> QED
        BY <2>3, <4>2, <4>3
    <3> QED
      BY <1>0, <2>1, <2>3, <3>2, <3>4
  <2> QED
    BY <2>1, <2>2, <2>3 DEF Kind, Of
<1> QED
  BY <1>1, <1>2, <1>3, <1>4, <1>5 DEF Next

LEMMA MoveIsClearInductive ==
  ASSUME TypeOK, JobFitsStep, Exclusive, HoldsOwn, HoldsDungeon, StillFits, MoveIsClear,
         [Next]_vars
  PROVE  MoveIsClear'
<1>0. \A t \in Txs : pc'[t] = "idle" \/ held[t] \subseteq held'[t]
  BY LocksInductive
<1> DEFINE
  Clear(of, to, up) == \E above \in SUBSET Locations :
                         /\ to \in above /\ of \notin above
                         /\ \A l \in above : up[l] \in above \cup {None}
<1>1. ASSUME NEW u \in Txs, pc'[u] \in {"self", "commit"}, pc[u] \in {"self", "commit"},
             job'[u] = job[u], Kind(u) = "move", job[u].to # None,
             \/ parent' = parent
             \/ \E t \in Txs \ {u} : Commit(t)
      PROVE  <<"world", None>> \in held'[u] /\ Clear(Of(u), job[u].to, parent')
  <2>1. <<"world", None>> \in held[u] /\ <<"world", None>> \in held'[u]
    BY <1>0, <1>1 DEF MoveIsClear
  <2>2. Clear(Of(u), job[u].to, parent)
    BY <1>1 DEF MoveIsClear
  <2>3. \A l \in Locations : parent'[l] \in {parent[l], None}
    BY <1>1, <2>1, CommitSpares
  <2> QED
    BY <2>1, <2>2, <2>3
<1>2. ASSUME NEW t \in Txs, LockWorld(t), job[t].to # None
      PROVE  <<"world", None>> \in held'[t] /\ Clear(Of(t), job[t].to, parent)
  <2>1. Kind(t) = "move" /\ Of(t) \in Locations /\ job[t].to \in Locations
    BY <1>2, FieldsAre DEF LockWorld, JobFitsStep
  <2>2. <<"world", None>> \in held'[t] /\ ProvesAcyclic(Of(t), job[t].to)
    BY <1>2, <2>1, WantedLocks DEF LockWorld, Above, Take, TypeOK
  <2> QED
    BY <2>1, <2>2, WalkClosed
<1>3. ASSUME NEW u \in Txs, pc'[u] \in {"self", "commit"}, job'[u].kind = "move",
             job'[u].to # None
      PROVE  <<"world", None>> \in held'[u] /\ Clear(job'[u].of, job'[u].to, parent')
  <2>1. CASE UNCHANGED vars
    BY <1>1, <1>3, <2>1 DEF vars, rows, Kind, Of
  <2>2. ASSUME NEW t \in Txs, NEW s \in Statements, Begin(t, s)
        PROVE  <<"world", None>> \in held'[u] /\ Clear(job'[u].of, job'[u].to, parent')
    <3>1. u # t /\ pc'[u] = pc[u] /\ job'[u] = job[u] /\ parent' = parent
      BY <1>3, <2>2 DEF Begin, rows, TypeOK
    <3> QED
      BY <1>1, <1>3, <3>1 DEF Kind, Of
  <2>3. ASSUME NEW l \in Locations, DeleteArea(l) \/ DeleteDungeon(l)
        PROVE  <<"world", None>> \in held'[u] /\ Clear(job'[u].of, job'[u].to, parent')
    <3>1. pc'[u] = pc[u] /\ job'[u] = job[u] /\ parent' = parent
      BY <2>3 DEF DeleteArea, DeleteDungeon
    <3> QED
      BY <1>1, <1>3, <3>1 DEF Kind, Of
  <2>4. ASSUME NEW t \in Txs, Progress(t) \/ Rollback(t)
        PROVE  <<"world", None>> \in held'[u] /\ Clear(job'[u].of, job'[u].to, parent')
    <3>1. CASE u # t
      <4>1. pc'[u] = pc[u] /\ job'[u] = job[u]
        BY <2>4, <3>1, OthersStay
      <4>2. parent' = parent \/ Commit(t)
        BY <2>4, RowsStay DEF rows
      <4> QED
        BY <1>1, <1>3, <3>1, <4>1, <4>2 DEF Kind, Of
    <3>2. CASE u = t
      <4>1. LockRow(t) => Kind(t) \notin {"move", "add area"} /\ job'[t] = job[t]
        BY <1>3, <3>2 DEF LockRow, Goto, TypeOK
      <4>2. LockChild(t) => FALSE
        BY <1>3, <3>2 DEF LockChild, Goto, TypeOK
      <4>3. LockParent(t) => Kind(t) # "move" /\ job'[t] = job[t]
        BY <1>3, <3>2 DEF LockParent, Goto, TypeOK
      <4>4. LockWorld(t) => job'[t] = job[t] /\ parent' = parent
        BY DEF LockWorld, Goto, rows
      <4>5. LockSelf(t) => pc[t] = "self" /\ job'[t] = job[t] /\ parent' = parent
        BY DEF LockSelf, Goto, rows
      <4>6. Refuse(t) \/ Commit(t) \/ Rollback(t) => FALSE
        BY <1>3, <3>2 DEF Refuse, Commit, Rollback, End, TypeOK
      <4>7. CASE LockWorld(t)
        BY <1>2, <1>3, <3>2, <4>4, <4>7 DEF Of
      <4>8. CASE LockSelf(t)
        BY <1>1, <1>3, <3>2, <4>5, <4>8 DEF Kind, Of
      <4> QED
        BY <1>3, <2>4, <3>2, <4>1, <4>2, <4>3, <4>6, <4>7, <4>8 DEF Progress, Kind
    <3> QED
      BY <3>1, <3>2
  <2> QED
    BY <2>1, <2>2, <2>3, <2>4 DEF Next
<1> QED
  BY <1>3 DEF MoveIsClear, Kind, Of

LEMMA ContainedInductive ==
  ASSUME TypeOK, JobFitsStep, MoveIsClear, Contained, [Next]_vars
  PROVE  Contained'
<1>1. CASE UNCHANGED parent
  BY <1>1 DEF Contained
<1>2. ASSUME NEW t \in Txs, Commit(t), Kind(t) = "move"
      PROVE  Contained'
  <2> DEFINE l == Of(t)
             to == job[t].to
  <2>1. /\ l \in Locations /\ to \in Locations \cup {None}
        /\ parent' = [parent EXCEPT ![l] = to]
    BY <1>2, FieldsAre DEF Commit
  <2> SUFFICES ASSUME NEW s \in (SUBSET Locations) \ {{}}, \A m \in s : parent'[m] \in s
               PROVE  FALSE
    BY DEF Contained
  <2>2. CASE l \notin s
    BY <2>1, <2>2 DEF Contained, TypeOK
  <2>3. CASE l \in s
    <3>1. to \in s /\ to # None
      BY <2>1, <2>3, StructureAssumption DEF TypeOK
    <3>2. PICK above \in SUBSET Locations :
            /\ to \in above /\ l \notin above
            /\ \A m \in above : parent[m] \in above \cup {None}
      BY <1>2, <3>1 DEF MoveIsClear, Commit
    <3>3. \A m \in s \cap above : parent[m] \in s \cap above
      BY <2>1, <3>2, StructureAssumption DEF TypeOK
    <3>4. s \cap above \in (SUBSET Locations) \ {{}}
      BY <3>1, <3>2
    <3> QED
      BY <3>3, <3>4 DEF Contained
  <2> QED
    BY <2>2, <2>3
<1>3. ASSUME NEW t \in Txs, NEW s \in Statements, Begin(t, s)
      PROVE  UNCHANGED parent
  BY <1>3 DEF Begin, rows
<1>4. ASSUME NEW l \in Locations, DeleteArea(l) \/ DeleteDungeon(l)
      PROVE  UNCHANGED parent
  BY <1>4 DEF DeleteArea, DeleteDungeon
<1>5. ASSUME NEW t \in Txs, Progress(t) \/ Rollback(t), ~(Commit(t) /\ Kind(t) = "move")
      PROVE  UNCHANGED parent
  BY <1>5, RowsStay DEF rows, Commit
<1> QED
  BY <1>1, <1>2, <1>3, <1>4, <1>5 DEF Next, vars, rows

LEMMA SubtypesFitInductive ==
  ASSUME IInv, [Next]_vars
  PROVE  SubtypesFit'
<1> USE DEF SubtypesFit, IsDungeon
<1>1. CASE UNCHANGED rows
  BY <1>1 DEF IInv, rows
<1>2. ASSUME NEW l \in Locations, DeleteArea(l) \/ DeleteDungeon(l)
      PROVE  SubtypesFit'
  BY <1>2 DEF IInv, DeleteArea, DeleteDungeon
<1>3. ASSUME NEW t \in Txs, Commit(t)
      PROVE  SubtypesFit'
  <2> USE DEF IInv
  <2>1. /\ Of(t) \in Locations
        /\ Kind(t) \in {"move", "add area", "add dungeon", "retype"}
        /\ FitsSubtypes(t)
    BY <1>3, FieldsAre DEF Commit, StillFits
  <2>2. CASE Kind(t) = "move"
    <3>1. Of(t) \in areas => job[t].to # None /\ type[job[t].to] = "dungeon"
      BY <1>3, <2>2 DEF Commit, HoldsDungeon, Above
    <3> QED
      BY <1>3, <2>1, <2>2, <3>1 DEF Commit, TypeOK
  <2>3. CASE Kind(t) = "add area"
    <3>1. parent[Of(t)] # None /\ type[parent[Of(t)]] = "dungeon"
      BY <1>3, <2>3 DEF Commit, HoldsDungeon, Above
    <3> QED
      BY <1>3, <2>1, <2>3, <3>1 DEF Commit, TypeOK, FitsSubtypes
  <2>4. CASE Kind(t) = "add dungeon"
    BY <1>3, <2>1, <2>4 DEF Commit, TypeOK, FitsSubtypes
  <2>5. CASE Kind(t) = "retype"
    <3>1. type' = [type EXCEPT ![Of(t)] = job[t].to] /\ UNCHANGED <<parent, areas, dungeons>>
      BY <1>3, <2>5 DEF Commit
    <3>2. CASE job[t].to = type[Of(t)]
      <4>1. \A l \in Locations : type'[l] = type[l]
        BY <3>1, <3>2 DEF TypeOK
      <4>2. \A a \in areas : parent[a] \in Locations
        BY DEF TypeOK
      <4> QED
        BY <3>1, <4>1, <4>2 DEF TypeOK
    <3>3. CASE job[t].to # type[Of(t)]
      <4>1. /\ type[Of(t)] = "dungeon" => \A a \in areas : parent[a] # Of(t)
            /\ Of(t) \notin areas \cup dungeons
        BY <2>1, <2>5, <3>3 DEF FitsSubtypes, AreasIn
      <4>2. \A l \in Locations \ {Of(t)} : type'[l] = type[l]
        BY <3>1 DEF TypeOK
      <4>3. \A a \in areas : parent[a] \in Locations \ {Of(t)}
        <5>1. \A a \in areas : parent[a] \in Locations /\ type[parent[a]] = "dungeon"
          BY DEF TypeOK
        <5> QED
          BY <4>1, <5>1
      <4> QED
        BY <3>1, <4>1, <4>2, <4>3 DEF TypeOK
    <3> QED
      BY <3>2, <3>3
  <2> QED
    BY <2>1, <2>2, <2>3, <2>4, <2>5
<1>4. ASSUME NEW t \in Txs, NEW s \in Statements, Begin(t, s)
      PROVE  UNCHANGED rows
  BY <1>4 DEF Begin
<1> QED
  BY <1>1, <1>2, <1>3, <1>4, RowsStay DEF Next, vars

LEMMA InitIInv == Init => IInv
<1> SUFFICES ASSUME Init PROVE IInv
  OBVIOUS
<1>1. TypeOK
  BY DEF Init, TypeOK
<1>2. JobFitsStep /\ Exclusive /\ HoldsOwn /\ HoldsDungeon /\ StillFits /\ MoveIsClear
  BY DEF Init, JobFitsStep, Exclusive, HoldsOwn, HoldsDungeon, StillFits, MoveIsClear
<1>3. Contained
  <2> SUFFICES ASSUME NEW s \in (SUBSET Locations) \ {{}}
               PROVE  \E l \in s : parent[l] \notin s
    BY DEF Contained
  <2>0. s \subseteq Locations /\ s # {}
    OBVIOUS
  <2>1. PICK l \in s : l \in Locations
    BY <2>0
  <2>2. parent[l] = None /\ None \notin s
    BY <2>1, StructureAssumption DEF Init
  <2> QED
    BY <2>2
<1>4. SubtypesFit
  BY DEF Init, SubtypesFit
<1> QED
  BY <1>1, <1>2, <1>3, <1>4 DEF IInv

LEMMA NextIInv == IInv /\ [Next]_vars => IInv'
<1> SUFFICES ASSUME IInv, [Next]_vars PROVE IInv'
  OBVIOUS
<1>1. TypeOK' /\ JobFitsStep' /\ Exclusive'
  BY TypeInductive, JobInductive, LocksInductive DEF IInv
<1>2. HoldsOwn' /\ HoldsDungeon' /\ StillFits' /\ MoveIsClear'
  BY HoldsOwnInductive, HoldsDungeonInductive, StillFitsInductive, MoveIsClearInductive DEF IInv
<1>3. Contained' /\ SubtypesFit'
  BY ContainedInductive, SubtypesFitInductive DEF IInv
<1> QED
  BY <1>1, <1>2, <1>3 DEF IInv

(* The rows and locks of a world have their types in every reachable state. *)
THEOREM TypeCorrect == Spec => []TypeOK
BY InitIInv, NextIInv, PTL DEF Spec, IInv

(* No location lies in itself, however many moves are under way: the walk of  *)
(* enforce_location_no_cycle shows a set of ancestors that is still one when  *)
(* the move commits, because moves in one world wait for each other.          *)
THEOREM LocationsContained == Spec => []Contained
BY InitIInv, NextIInv, PTL DEF Spec, IInv

(* Rows of dungeons and dungeon_areas belong to entities of their type, and   *)
(* an area lies in a dungeon (revisions 039, 044, 048, 053 and 056).          *)
THEOREM SubtypesKept == Spec => []SubtypesFit
BY InitIInv, NextIInv, PTL DEF Spec, IInv

\* What a transaction holds tells where it is: nobody takes the locks of
\* another, nor the rows that they protect.
LEMMA OthersHeldFit ==
  ASSUME IInv, NEW t \in Txs, NEW u \in Txs, t # u, HeldFits(u),
         pc'[u] = pc[u], job'[u] = job[u], held'[u] = held[u],
         UNCHANGED <<type, parent>> \/ Commit(t)
  PROVE  HeldFits(u)'
<1>1. Kind(u)' = Kind(u) /\ Of(u)' = Of(u)
  BY DEF Kind, Of
<1>2. ASSUME NEW l \in Locations \cup {None}, <<"subtype", l>> \in held[u], pc[u] # "commit"
      PROVE  l = Above(u)' /\ IsDungeon(l)'
  <2>1. /\ pc[u] \in {"world", "self"} /\ Kind(u) \in {"move", "add area"}
        /\ l = Above(u) /\ IsDungeon(l)
    BY <1>2 DEF HeldFits
  <2>2. l \in Locations
    BY <2>1 DEF IsDungeon
  <2>3. <<"child", Of(u)>> \in held[u] /\ Of(u) \in Locations
    BY <2>1, FieldsAre DEF IInv, HoldsOwn
  <2>4. type'[l] = type[l] /\ parent'[Of(u)] = parent[Of(u)]
    BY <1>2, <2>2, <2>3, CommitSpares DEF IInv
  <2> QED
    BY <1>1, <2>1, <2>4 DEF Above, IsDungeon
<1> QED
  BY <1>1, <1>2 DEF HeldFits

\* What a step adds to the locks fits where it leads.
LEMMA OwnHeldFit ==
  ASSUME IInv, NEW t \in Txs, HeldFits(t),
         LockRow(t) \/ LockChild(t) \/ LockParent(t) \/ LockWorld(t) \/ LockSelf(t)
  PROVE  HeldFits(t)'
<1>1. /\ Take(t) /\ job'[t] = job[t] /\ UNCHANGED <<type, parent>>
      /\ pc[t] \in {"row", "child", "parent", "world", "self"}
  BY DEF LockRow, LockChild, LockParent, LockWorld, LockSelf, Goto, rows
<1>2. /\ Kind(t)' = Kind(t) /\ Of(t)' = Of(t) /\ Above(t)' = Above(t)
      /\ \A l : IsDungeon(l)' = IsDungeon(l)
  BY <1>1 DEF Kind, Of, Above, IsDungeon
<1>3. held'[t] = held[t] \cup Wanted(t) /\ TypeOK /\ JobFitsStep
  BY <1>1 DEF IInv, TypeOK, Take
<1>4. CASE LockRow(t)
  <2>1. pc[t] = "row" /\ pc'[t] \in {"child", "self"}
    BY <1>3, <1>4 DEF LockRow, Goto, TypeOK
  <2>2. PICK k \in {"row", "entity", "area row", "dungeon row"} : Wanted(t) = {<<k, Of(t)>>}
    BY <2>1, WantedLocks
  <2> QED
    BY <1>2, <1>3, <2>1, <2>2 DEF HeldFits
<1>5. CASE LockChild(t)
  <2>1. pc[t] = "child" /\ pc'[t] \in {"parent", "world"} /\ Wanted(t) = {<<"child", Of(t)>>}
    BY <1>3, <1>5, WantedLocks DEF LockChild, Goto, TypeOK
  <2> QED
    BY <1>2, <1>3, <2>1 DEF HeldFits
<1>6. CASE LockParent(t)
  <2>1. /\ pc[t] = "parent" /\ pc'[t] \in {"world", "self"} /\ Wanted(t) = {<<"subtype", Above(t)>>}
        /\ IsDungeon(Above(t)) /\ Kind(t) \in {"move", "add area"}
    BY <1>3, <1>6, WantedLocks DEF LockParent, Goto, TypeOK, JobFitsStep
  <2> QED
    BY <1>2, <1>3, <2>1 DEF HeldFits
<1>7. CASE LockWorld(t)
  <2>1. /\ pc[t] = "world" /\ pc'[t] = "self" /\ Wanted(t) \subseteq {<<"world", None>>}
        /\ Kind(t) = "move"
    BY <1>3, <1>7, WantedLocks DEF LockWorld, Goto, TypeOK, JobFitsStep
  <2> QED
    BY <1>2, <1>3, <2>1 DEF HeldFits
<1>8. CASE LockSelf(t)
  <2>1. /\ pc[t] = "self" /\ pc'[t] = "commit" /\ Wanted(t) \subseteq {<<"subtype", Of(t)>>}
    BY <1>3, <1>8, WantedLocks DEF LockSelf, Goto, TypeOK
  <2> QED
    BY <1>2, <1>3, <2>1 DEF HeldFits
<1> QED
  BY <1>4, <1>5, <1>6, <1>7, <1>8

LEMMA LocksFitInit == Init => LocksFit
  BY DEF Init, LocksFit, HeldFits

LEMMA LocksFitInductive == IInv /\ LocksFit /\ [Next]_vars => LocksFit'
<1> SUFFICES ASSUME IInv, LocksFit, [Next]_vars PROVE LocksFit'
  OBVIOUS
<1> SUFFICES ASSUME NEW u \in Txs PROVE HeldFits(u)'
  BY DEF LocksFit
<1>1. HeldFits(u) /\ TypeOK
  BY DEF LocksFit, IInv
<1>2. CASE UNCHANGED <<type, parent, held, pc, job>>
  BY <1>1, <1>2 DEF HeldFits, Kind, Of, Above, IsDungeon
<1>3. ASSUME NEW t \in Txs, NEW s \in Statements, Begin(t, s) PROVE HeldFits(u)'
  <2>1. UNCHANGED <<type, parent, held>> /\ pc[t] = "idle" /\ pc'[t] = "row"
        /\ (u # t => pc'[u] = pc[u] /\ job'[u] = job[u])
    BY <1>1, <1>3 DEF Begin, rows, TypeOK
  <2>2. CASE u # t
    BY <1>1, <2>1, <2>2, OthersHeldFit
  <2>3. CASE u = t
    BY <1>1, <2>1, <2>3 DEF HeldFits
  <2> QED
    BY <2>2, <2>3
<1>4. ASSUME NEW t \in Txs, Progress(t) \/ Rollback(t) PROVE HeldFits(u)'
  <2>1. UNCHANGED <<type, parent>> \/ Commit(t)
    BY <1>4, RowsStay DEF rows
  <2>2. CASE u # t
    <3>1. pc'[u] = pc[u] /\ job'[u] = job[u]
      BY <1>1, <1>4, <2>2, OthersStay
    <3>2. held'[u] = held[u]
      BY <1>1, <1>4, <2>2
      DEF Progress, LockRow, LockChild, LockParent, LockWorld, LockSelf, Refuse, Commit, Rollback,
          Take, End, TypeOK
    <3> QED
      BY <1>1, <2>1, <2>2, <3>1, <3>2, OthersHeldFit
  <2>3. CASE End(t) /\ u = t
    <3>1. held'[t] = {}
      BY <1>1, <2>3 DEF End, TypeOK
    <3> QED
      BY <2>3, <3>1 DEF HeldFits
  <2> QED
    BY <1>1, <1>4, <2>2, <2>3, OwnHeldFit DEF Progress, Refuse, Commit, Rollback
<1>5. CASE (\E l \in Locations : DeleteArea(l) \/ DeleteDungeon(l)) \/ UNCHANGED vars
  BY <1>2, <1>5 DEF DeleteArea, DeleteDungeon, vars, rows
<1> QED
  BY <1>3, <1>4, <1>5 DEF Next

\* Whoever is waited for is past the lock that it is waited for.
LEMMA WaitsForOneAhead ==
  ASSUME IInv, LocksFit, NEW t \in Txs, NEW u \in Txs, u \in WaitsFor(t)
  PROVE  /\ u # t
         /\ \/ pc[t] = "row" /\ pc[u] \notin {"idle", "row"}
            \/ pc[t] = "child" /\ pc[u] \in {"parent", "world", "self", "commit"}
            \/ pc[t] = "parent" /\ pc[u] \in {"world", "self", "commit"}
            \/ pc[t] = "world" /\ pc[u] \in {"self", "commit"} /\ Kind(u) = "move"
            \/ pc[t] = "self" /\ pc[u] = "commit"
            \/ /\ pc[t] = "self" /\ pc[u] \in {"world", "self"}
               /\ Kind(u) \in {"move", "add area"}
               /\ Above(u) = Of(t) /\ IsDungeon(Of(t)) /\ <<"subtype", Of(t)>> \in held[u]
<1>1. PICK name \in Wanted(t) : u # t /\ name \in held[u]
  BY DEF WaitsFor
<1>2. HeldFits(u) /\ TypeOK
  BY DEF LocksFit, IInv
<1>3. pc[t] \notin {"idle", "commit"}
  BY <1>1, WantedLocks
<1>4. Of(t) \in Locations /\ Above(t) \in Locations \cup {None}
  BY <1>2, <1>3, FieldsAre DEF IInv, TypeOK, Above
<1>5. CASE pc[t] = "row"
  <2>1. PICK k \in {"row", "entity", "area row", "dungeon row"} : Wanted(t) = {<<k, Of(t)>>}
    BY <1>5, WantedLocks
  <2>2. <<k, Of(t)>> \in held[u]
    BY <1>1, <2>1
  <2> QED
    BY <1>1, <1>2, <1>4, <1>5, <2>2 DEF HeldFits
<1>6. CASE pc[t] = "child"
  <2>1. <<"child", Of(t)>> \in held[u]
    BY <1>1, <1>6, WantedLocks
  <2> QED
    BY <1>1, <1>2, <1>4, <1>6, <2>1 DEF HeldFits
<1>7. CASE pc[t] = "parent"
  BY <1>1, <1>2, <1>4, <1>7, WantedLocks DEF HeldFits
<1>8. CASE pc[t] = "world"
  <2>1. <<"world", None>> \in held[u]
    BY <1>1, <1>8, WantedLocks
  <2> QED
    BY <1>1, <1>2, <1>8, <2>1 DEF HeldFits
<1>9. CASE pc[t] = "self"
  BY <1>1, <1>2, <1>4, <1>9, WantedLocks DEF HeldFits
<1> QED
  BY <1>2, <1>3, <1>5, <1>6, <1>7, <1>8, <1>9 DEF TypeOK

\* No two of W have the same place.
Distinct(W, place) == \A t, u \in W : place[t] = place[u] => t = u

\* Every place of one of W is what lies over one of W.
AmongThe(W, place, over) == \A t \in W : \E u \in W : over[u] = place[t]

\* Among finitely many with different places: when every place lies over one of
\* them, what lies over each of them is a place of theirs.
LEMMA EachIsAbove ==
  ASSUME NEW W, IsFiniteSet(W), NEW X, NEW Y, NEW place \in [W -> X], NEW over \in [W -> Y],
         Distinct(W, place), AmongThe(W, place, over)
  PROVE  AmongThe(W, over, place)
<1> USE DEF Distinct, AmongThe
<1> DEFINE Places == {place[t] : t \in W}
           Aboves == {over[t] : t \in W}
<1>1. over \in Surjection(W, Aboves)
  BY DEF Surjection
<1>2. ExistsBijection(W, Places)
  <2>1. place \in Bijection(W, Places)
    BY DEF Bijection, Injection, Surjection, IsInjective
  <2> QED
    BY <2>1 DEF ExistsBijection
<1> HIDE DEF Places, Aboves
<1>3. IsFiniteSet(Aboves) /\ Cardinality(Aboves) <= Cardinality(W)
  BY <1>1, FS_Surjection
<1>4. IsFiniteSet(Places) /\ Cardinality(Places) = Cardinality(W)
  BY <1>2, FS_Bijection
<1>5. Places \subseteq Aboves
  BY DEF Places, Aboves
<1>6. Cardinality(Places) <= Cardinality(Aboves) /\ (Cardinality(Places) = Cardinality(Aboves) => Places = Aboves)
  BY <1>3, <1>5, FS_Subset
<1>7. Places = Aboves
  BY <1>3, <1>4, <1>6, FS_CardinalityType
<1> SUFFICES ASSUME NEW u \in W PROVE \E t \in W : over[u] = place[t]
  OBVIOUS
<1>8. over[u] \in Places
  BY <1>7 DEF Aboves
<1> QED
  BY <1>8 DEF Places

\* Transactions that all hold the lock of the location above their own, for a row
\* of an area, do not wait for each other in a circle: the locations would lie
\* in each other, or a move would put one into itself.
LEMMA NoCircleOfMovers ==
  ASSUME IInv, NEW W \in SUBSET Txs, W # {},
         \A u \in W : pc[u] = "self" /\ Kind(u) \in {"move", "add area"}
  PROVE  ~(\A t \in W : \E u \in W : Above(u) = Of(t))
<1> SUFFICES ASSUME \A t \in W : \E u \in W : Above(u) = Of(t) PROVE FALSE
  OBVIOUS
<1>1. IsFiniteSet(W)
  BY FS_Subset, StructureAssumption
<1>2. \A t \in W : Of(t) \in Locations /\ <<"child", Of(t)>> \in held[t]
  BY FieldsAre DEF IInv, HoldsOwn
<1>3. \A t, u \in W : Of(t) = Of(u) => t = u
  BY <1>2 DEF IInv, Exclusive
<1>4. \A u \in W : \E t \in W : Above(u) = Of(t)
  <2> DEFINE lower == [t \in W |-> Of(t)]
             upper == [t \in W |-> Above(t)]
  <2>1. /\ lower \in [W -> {Of(t) : t \in W}]
        /\ \A t \in W : lower[t] = Of(t)
    OBVIOUS
  <2>2. /\ upper \in [W -> {Above(t) : t \in W}]
        /\ \A t \in W : upper[t] = Above(t)
    OBVIOUS
  <2> HIDE DEF lower, upper
  <2>3. Distinct(W, lower)
    <3> SUFFICES ASSUME NEW t \in W, NEW u \in W, lower[t] = lower[u] PROVE t = u
      BY DEF Distinct
    <3>1. lower[t] = Of(t) /\ lower[u] = Of(u)
      BY <2>1
    <3>2. Of(t) = Of(u)
      BY <3>1
    <3> QED
      BY <1>3, <3>2
  <2>4. AmongThe(W, lower, upper)
    <3> SUFFICES ASSUME NEW t \in W PROVE \E u \in W : upper[u] = lower[t]
      BY DEF AmongThe
    <3>1. PICK u \in W : Above(u) = Of(t)
      OBVIOUS
    <3> QED
      BY <2>1, <2>2, <3>1
  <2>5. AmongThe(W, upper, lower)
    <3>1. PICK X : lower \in [W -> X]
      BY <2>1
    <3>2. PICK Y : upper \in [W -> Y]
      BY <2>2
    <3> QED
      BY <1>1, <2>3, <2>4, <3>1, <3>2, EachIsAbove
  <2> SUFFICES ASSUME NEW u \in W PROVE \E t \in W : Above(u) = Of(t)
    OBVIOUS
  <2>6. PICK t \in W : upper[u] = lower[t]
    BY <2>5 DEF AmongThe
  <2>7. Above(u) = upper[u] /\ Of(t) = lower[t]
    BY <2>1, <2>2
  <2> QED
    BY <2>6, <2>7
<1> DEFINE Places == {Of(t) : t \in W}
<1>5. Places \subseteq Locations /\ Places # {} /\ \A u \in W : Above(u) \in Places
  <2>1. \A u \in W : Above(u) \in Places
    BY <1>4, Zenon
  <2>2. Places \subseteq Locations
    BY <1>2
  <2> QED
    BY <2>1, <2>2
<1>6. CASE \A u \in W : Kind(u) # "move"
  <2>1. \A u \in W : parent[Of(u)] \in Places
    BY <1>5, <1>6 DEF Above
  <2> QED
    BY <1>5, <2>1 DEF IInv, Contained
<1>7. ASSUME NEW m \in W, Kind(m) = "move" PROVE FALSE
  <2>1. job[m].to = Above(m) /\ Above(m) \in Places /\ Above(m) # None
    BY <1>5, <1>7, StructureAssumption DEF Above
  <2>2. /\ <<"world", None>> \in held[m]
        /\ \E above \in SUBSET Locations :
             /\ job[m].to \in above /\ Of(m) \notin above
             /\ \A l \in above : parent[l] \in above \cup {None}
    BY <1>7, <2>1 DEF IInv, MoveIsClear
  <2>3. PICK above \in SUBSET Locations :
          /\ Above(m) \in above /\ Of(m) \notin above
          /\ \A l \in above : parent[l] \in above \cup {None}
    BY <2>1, <2>2
  <2>4. \A u \in W : u # m => Kind(u) = "add area"
    <3> SUFFICES ASSUME NEW u \in W, u # m, Kind(u) = "move" PROVE FALSE
      OBVIOUS
    <3>1. job[u].to = Above(u) /\ Above(u) # None
      BY <1>5, StructureAssumption DEF Above
    <3>2. <<"world", None>> \in held[u]
      BY <3>1 DEF IInv, MoveIsClear
    <3> QED
      BY <2>2, <3>2 DEF IInv, Exclusive
  <2>5. ASSUME NEW l \in Places \cap above PROVE parent[l] \in Places \cap above
    <3>1. PICK u \in W : l = Of(u) /\ u # m
      BY <2>3
    <3>2. parent[l] = Above(u)
      BY <2>4, <3>1 DEF Above
    <3>3. parent[l] \in Places /\ parent[l] # None
      BY <1>5, <3>2, StructureAssumption
    <3> QED
      BY <2>3, <3>3
  <2>6. Places \cap above # {} /\ Places \cap above \subseteq Locations
    BY <1>5, <2>1, <2>3
  <2> QED
    BY <2>5, <2>6 DEF IInv, Contained
<1> QED
  BY <1>6, <1>7

LEMMA DeadlockShape == IInv /\ LocksFit => DeadlockNeedsMovingDungeon
<1> SUFFICES ASSUME IInv, LocksFit, NEW S \in SUBSET Open, S # {},
                    \A t \in S : ~(WaitsFor(t) \subseteq Open \ S)
             PROVE  \E t, u \in S :
                      /\ u \in WaitsFor(t)
                      /\ pc[t] = "world" /\ <<"subtype", Above(t)>> \in held[t]
                      /\ pc[u] = "self" /\ Kind(u) = "move" /\ IsDungeon(Of(u))
  BY DEF DeadlockNeedsMovingDungeon
<1>1. S \subseteq Txs /\ \A t \in S : WaitsFor(t) \subseteq Open
  BY WaitsForOneAhead DEF Open, WaitsFor
<1>2. \A t \in S : \E u \in S : u \in WaitsFor(t)
  BY <1>1
<1> HIDE DEF Open
<1> DEFINE AtSelf == {t \in S : pc[t] = "self"}
<1>3. \A t \in S : pc[t] \in {"row", "child", "parent", "world", "self"}
  BY <1>1, <1>2, WaitsForOneAhead
<1>4. AtSelf # {}
  <2>1. SUFFICES ASSUME \A t \in S : pc[t] # "self" PROVE FALSE
    OBVIOUS
  <2>2. \A t \in S : pc[t] # "world"
    BY <1>1, <1>2, <1>3, <2>1, WaitsForOneAhead
  <2>3. \A t \in S : pc[t] # "parent"
    BY <1>1, <1>2, <1>3, <2>1, <2>2, WaitsForOneAhead
  <2>4. \A t \in S : pc[t] # "child"
    BY <1>1, <1>2, <1>3, <2>1, <2>2, <2>3, WaitsForOneAhead
  <2>5. \A t \in S : pc[t] # "row"
    <3>1. \A t \in S : pc[t] = "row"
      BY <1>3, <2>1, <2>2, <2>3, <2>4
    <3>2. PICK t \in S, u \in S : u \in WaitsFor(t)
      BY <1>2
    <3> QED
      BY <1>1, <3>1, <3>2, WaitsForOneAhead
  <2> QED
    BY <1>3, <2>1, <2>2, <2>3, <2>4, <2>5
<1>5. CASE \E t \in S : pc[t] = "world" /\ <<"subtype", Above(t)>> \in held[t]
  <2>1. PICK t \in S : pc[t] = "world" /\ <<"subtype", Above(t)>> \in held[t]
    BY <1>5
  <2>2. PICK u \in S : u \in WaitsFor(t)
    BY <1>2
  <2>3. pc[u] = "self" /\ Kind(u) = "move"
    BY <1>1, <1>3, <2>1, <2>2, WaitsForOneAhead
  <2>4. IsDungeon(Of(u))
    BY <1>1, <1>2, <1>3, <2>3, WaitsForOneAhead
  <2> QED
    BY <2>1, <2>2, <2>3, <2>4
<1>6. CASE ~\E t \in S : pc[t] = "world" /\ <<"subtype", Above(t)>> \in held[t]
  <2> DEFINE W == {u \in AtSelf : Kind(u) \in {"move", "add area"}}
  <2>1. ASSUME NEW t \in AtSelf PROVE \E u \in W : Above(u) = Of(t)
    <3>1. PICK u \in S : u \in WaitsFor(t)
      BY <1>2
    <3>2. /\ pc[u] \in {"world", "self"} /\ Kind(u) \in {"move", "add area"}
          /\ Above(u) = Of(t) /\ <<"subtype", Of(t)>> \in held[u]
      BY <1>1, <1>3, <3>1, WaitsForOneAhead
    <3>3. u \in W
      BY <1>6, <3>2
    <3> QED
      BY <3>2, <3>3
  <2>2. W # {} /\ W \in SUBSET Txs
    BY <1>1, <1>4, <2>1
  <2> QED
    BY <2>1, <2>2, NoCircleOfMovers
<1> QED
  BY <1>5, <1>6

(* Statements wait for each other in a circle only if one of them moves an    *)
(* area into a dungeon while another moves a dungeon (revisions 049 and 056). *)
THEOREM DeadlocksMoveDungeons == Spec => []DeadlockNeedsMovingDungeon
BY InitIInv, NextIInv, LocksFitInit, LocksFitInductive, DeadlockShape, PTL DEF Spec
-----------------------------------------------------------------------------
(* The rulesets of a world.                                                *)

LEMMA RulesetTypes ==
  ASSUME AllowList!TypeOK, [AllowList!Next]_(AllowList!rulesetVars)
  PROVE  AllowList!TypeOK'
<1> USE DEF AllowList!TypeOK
<1>1. CASE UNCHANGED AllowList!rulesetVars
  BY <1>1 DEF AllowList!rulesetVars
<1>2. ASSUME NEW t \in Txs, NEW s \in Rulesets, AllowList!Allow(t, s) \/ AllowList!Disallow(t, s)
      PROVE  AllowList!TypeOK'
  BY <1>2 DEF AllowList!Allow, AllowList!Disallow
<1>3. ASSUME NEW t \in Txs, NEW s \in Rulesets, NEW new \in Rulesets, AllowList!Repoint(t, s, new)
      PROVE  AllowList!TypeOK'
  BY <1>3 DEF AllowList!Repoint
<1>4. ASSUME NEW t \in Txs, NEW r \in Rows, NEW s \in Rulesets, AllowList!Use(t, r, s)
      PROVE  AllowList!TypeOK'
  BY <1>4 DEF AllowList!Use, AllowList!WriteRow
<1>5. ASSUME NEW t \in Txs, NEW r \in Rows, AllowList!Release(t, r)
      PROVE  AllowList!TypeOK'
  BY <1>5 DEF AllowList!Release, AllowList!WriteRow
<1>6. ASSUME NEW t \in Txs, AllowList!Commit(t) \/ AllowList!Rollback(t)
      PROVE  AllowList!TypeOK'
  BY <1>6 DEF AllowList!Commit, AllowList!Rollback, AllowList!EndLocks, AllowList!SeesAllowed,
              AllowList!SeesUse
<1> QED
  BY <1>1, <1>2, <1>3, <1>4, <1>5, <1>6 DEF AllowList!Next

LEMMA RulesetInductive ==
  ASSUME None \notin Txs \cup Rulesets, AllowList!IInv,
         [AllowList!Next]_(AllowList!rulesetVars)
  PROVE  AllowList!IInv'
<1>0. AllowList!TypeOK'
  BY RulesetTypes DEF AllowList!IInv
<1> USE DEF AllowList!IInv, AllowList!TypeOK, AllowList!Accounted, AllowList!SharedOrWritten,
            AllowList!UseIsHeld, AllowList!DisallowedIsUnused, AllowList!UsedIsAllowed,
            AllowList!StillInUse, AllowList!SeesAllowed, AllowList!SeesUse
<1>1. CASE UNCHANGED AllowList!rulesetVars
  BY <1>1 DEF AllowList!rulesetVars
<1>2. ASSUME NEW t \in Txs, NEW s \in Rulesets, AllowList!Allow(t, s)
      PROVE  AllowList!IInv'
  BY <1>0, <1>2 DEF AllowList!Allow, AllowList!MayWrite
<1>3. ASSUME NEW t \in Txs, NEW s \in Rulesets, AllowList!Disallow(t, s)
      PROVE  AllowList!IInv'
  BY <1>0, <1>3 DEF AllowList!Disallow, AllowList!MayWrite
<1>4. ASSUME NEW t \in Txs, NEW s \in Rulesets, NEW new \in Rulesets, AllowList!Repoint(t, s, new)
      PROVE  AllowList!IInv'
  BY <1>0, <1>4 DEF AllowList!Repoint, AllowList!MayWrite
<1>5. ASSUME NEW t \in Txs, NEW r \in Rows, NEW s \in Rulesets, AllowList!Use(t, r, s)
      PROVE  AllowList!IInv'
  BY <1>0, <1>5 DEF AllowList!Use, AllowList!WriteRow
<1>6. ASSUME NEW t \in Txs, NEW r \in Rows, AllowList!Release(t, r)
      PROVE  AllowList!IInv'
  BY <1>0, <1>6 DEF AllowList!Release, AllowList!WriteRow
<1>7. ASSUME NEW t \in Txs, AllowList!Commit(t)
      PROVE  AllowList!IInv'
  BY <1>0, <1>7 DEF AllowList!Commit, AllowList!EndLocks
<1>8. ASSUME NEW t \in Txs, AllowList!Rollback(t)
      PROVE  AllowList!IInv'
  BY <1>0, <1>8 DEF AllowList!Rollback, AllowList!EndLocks
<1> QED
  BY <1>1, <1>2, <1>3, <1>4, <1>5, <1>6, <1>7, <1>8 DEF AllowList!Next

LEMMA RulesetInit == AllowList!Init => AllowList!IInv
BY StructureAssumption DEF AllowList!Init, AllowList!IInv, AllowList!TypeOK, AllowList!Accounted,
       AllowList!SharedOrWritten, AllowList!UseIsHeld, AllowList!DisallowedIsUnused,
       AllowList!UsedIsAllowed

(* What a row uses is allowed for its world, although the row and the         *)
(* association are written by different transactions: the one takes a shared  *)
(* lock on what the other must lock exclusively (revision 035).               *)
THEOREM RulesetsAllowed ==
  ASSUME None \notin Rulesets
  PROVE  AllowList!Spec => []UsedIsAllowed
<1>1. None \notin Txs \cup Rulesets
  BY StructureAssumption
<1>2. AllowList!IInv /\ [AllowList!Next]_(AllowList!rulesetVars) => AllowList!IInv'
  BY <1>1, RulesetInductive
<1> QED
  BY RulesetInit, <1>2, PTL DEF AllowList!Spec, AllowList!IInv, UsedIsAllowed
=============================================================================
