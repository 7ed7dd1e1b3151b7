------------------------- MODULE Components_proofs -------------------------
(***************************************************************************)
(* Proofs about the components that MCComponents checks: character         *)
(* conditions, items, movement, the commands of database recovery, the     *)
(* lookups of who manages a campaign, and the cache of signing keys.  They *)
(* share no state: each section proves an inductive invariant of its       *)
(* component, and ends with what follows from it.                          *)
(***************************************************************************)
EXTENDS Components, SequenceTheorems, TLAPS

-----------------------------------------------------------------------------
(* CharacterConditions: the recorded changes of a condition alternate and    *)
(* explain whether the character has it, for any number of transactions.     *)

\* The initial state satisfies the inductive invariant.
LEMMA InitIInv == Init => IInv
<1> SUFFICES ASSUME Init PROVE IInv
  OBVIOUS
<1>1. TypeOK
  BY NoneAssumption DEF Init, TypeOK, Steps
<1>2. TxInv
  BY DEF Init, TxInv
<1>3. \A k \in Keys : changes[k] = <<>> /\ present[k] = FALSE
  BY DEF Init
<1>4. ChangesAlternate
  <2>1. \A k \in Keys : Len(changes[k]) = 0
    BY <1>3
  <2>2. \A k \in Keys : \A i \in 1 .. Len(changes[k]) :
          changes[k][i] # IF i = 1 THEN "removed" ELSE changes[k][i - 1]
    BY <2>1
  <2>3. \A k \in Keys :
          present[k] = (changes[k] # <<>> /\ changes[k][Len(changes[k])] = "applied")
    BY <1>3, Zenon
  <2> QED
    BY <2>2, <2>3, Zenon DEF ChangesAlternate
<1> QED
  BY <1>1, <1>2, <1>4 DEF IInv

\* Every step keeps the state well typed.
LEMMA TypeStep ==
  ASSUME TypeOK, TxInv, [Next]_vars
  PROVE  TypeOK'
<1> USE DEF TypeOK, Steps
<1>1. CASE UNCHANGED vars
  BY <1>1 DEF vars
<1>2. ASSUME NEW t \in Txs, NEW what \in {"apply", "remove"}, NEW k \in Keys, Call(t, what, k)
      PROVE  TypeOK'
  BY <1>2 DEF Call, Goto
<1>3. ASSUME NEW t \in Txs,
             SelectFinds(t) \/ SelectFindsNothing(t) \/ SelectWaits(t) \/ Insert(t) \/ Delete(t)
      PROVE  TypeOK'
  <2>1. CASE SelectFinds(t)
    BY <2>1 DEF SelectFinds
  <2>2. CASE SelectFindsNothing(t) \/ SelectWaits(t) \/ Delete(t)
    BY <2>2 DEF SelectFindsNothing, SelectWaits, Delete, Goto
  <2>3. CASE Insert(t)
    BY <2>3 DEF Insert, Goto
  <2> QED
    BY <1>3, <2>1, <2>2, <2>3
<1>4. ASSUME NEW t \in Txs, InsertConflicts(t) \/ CommitNothing(t) \/ Rollback(t)
      PROVE  TypeOK'
  BY <1>4 DEF InsertConflicts, CommitNothing, Rollback, Goto, Unlock
<1>5. ASSUME NEW t \in Txs, pc[t] # "idle", NEW c \in {"applied", "removed"},
             changes' = [changes EXCEPT ![key[t]] = Append(@, c)]
      PROVE  changes' \in [Keys -> Seq({"applied", "removed"})]
  BY <1>5 DEF TxInv
<1>6. ASSUME NEW t \in Txs, CommitApply(t) PROVE TypeOK'
  BY <1>5, <1>6 DEF CommitApply, Goto, Unlock
<1>7. ASSUME NEW t \in Txs, CommitRemove(t) PROVE TypeOK'
  BY <1>5, <1>7 DEF CommitRemove, Unlock
<1> QED
  BY <1>1, <1>2, <1>3, <1>4, <1>6, <1>7 DEF Next, Progress

\* A transaction keeps the row it has found and the key it is inserting until
\* it ends, whatever the others do.
LEMMA TxStep ==
  ASSUME TypeOK, TxInv, [Next]_vars
  PROVE  TxInv'
<1> USE NoneAssumption DEF TypeOK, TxInv
<1>1. CASE UNCHANGED vars
  BY <1>1 DEF vars
<1>2. ASSUME NEW t \in Txs, NEW what \in {"apply", "remove"}, NEW k \in Keys, Call(t, what, k)
      PROVE  TxInv'
  BY <1>2 DEF Call, Goto
<1>3. ASSUME NEW t \in Txs, SelectFinds(t) PROVE TxInv'
  BY <1>3 DEF SelectFinds
<1>4. ASSUME NEW t \in Txs, SelectFindsNothing(t) \/ SelectWaits(t) \/ Delete(t)
      PROVE  TxInv'
  BY <1>4 DEF SelectFindsNothing, SelectWaits, Delete, Goto
<1>5. ASSUME NEW t \in Txs, Insert(t) PROVE TxInv'
  BY <1>5 DEF Insert, Goto
<1>6. ASSUME NEW t \in Txs, InsertConflicts(t) \/ CommitNothing(t) \/ Rollback(t)
      PROVE  TxInv'
  <2>1. pc' = [pc EXCEPT ![t] = "idle"] /\ Unlock(t) /\ UNCHANGED <<present, changes>>
    BY <1>6 DEF InsertConflicts, CommitNothing, Rollback, Goto
  <2> QED
    BY <2>1 DEF Unlock
<1>7. ASSUME NEW t \in Txs, CommitApply(t) PROVE TxInv'
  BY <1>7 DEF CommitApply, Goto, Unlock
<1>8. ASSUME NEW t \in Txs, CommitRemove(t) PROVE TxInv'
  BY <1>8 DEF CommitRemove, Unlock
<1> QED
  BY <1>1, <1>2, <1>3, <1>4, <1>5, <1>6, <1>7, <1>8 DEF Next, Progress

\* Appending the change that was not the last one keeps the changes alternating.
LEMMA AppendAlternates ==
  ASSUME TypeOK, ChangesAlternate, NEW k \in Keys, NEW b \in BOOLEAN, present[k] = ~b,
         present' = [present EXCEPT ![k] = b],
         changes' = [changes EXCEPT ![k] = Append(@, IF b THEN "applied" ELSE "removed")]
  PROVE  ChangesAlternate'
<1> DEFINE c == IF b THEN "applied" ELSE "removed"
           h == changes[k]
<1>1. h \in Seq({"applied", "removed"}) /\ Len(h) \in Nat
  BY DEF TypeOK
<1>2. changes'[k] = Append(h, c) /\ present'[k] = b
  BY DEF TypeOK
<1>3. /\ Len(changes'[k]) = Len(h) + 1
      /\ changes'[k][Len(h) + 1] = c
      /\ \A i \in 1 .. Len(h) : changes'[k][i] = h[i]
      /\ changes'[k] # <<>>
  BY <1>1, <1>2
<1>4. c # IF Len(h) = 0 THEN "removed" ELSE h[Len(h)]
  <2>1. CASE Len(h) = 0
    BY <1>1, <2>1 DEF ChangesAlternate
  <2>2. CASE Len(h) # 0
    <3>1. h # <<>> /\ h[Len(h)] \in {"applied", "removed"}
      BY <1>1, <2>2
    <3> QED
      BY <2>2, <3>1 DEF ChangesAlternate
  <2> QED
    BY <2>1, <2>2
<1>5. ASSUME NEW i \in 1 .. Len(changes'[k])
      PROVE  changes'[k][i] # IF i = 1 THEN "removed" ELSE changes'[k][i - 1]
  <2>1. i = Len(h) + 1 \/ i \in 1 .. Len(h)
    BY <1>1, <1>3
  <2>2. CASE i = Len(h) + 1
    <3>1. Len(h) = 0 \/ (i # 1 /\ i - 1 = Len(h) /\ Len(h) \in 1 .. Len(h))
      BY <1>1, <2>2
    <3> QED
      BY <1>3, <1>4, <2>2, <3>1
  <2>3. CASE i \in 1 .. Len(h)
    <3>1. h[i] # IF i = 1 THEN "removed" ELSE h[i - 1]
      BY <2>3 DEF ChangesAlternate
    <3>2. i # 1 => i - 1 \in 1 .. Len(h)
      BY <1>1, <2>3
    <3> QED
      BY <1>3, <2>3, <3>1, <3>2
  <2> QED
    BY <2>1, <2>2, <2>3
<1>6. present'[k] = (changes'[k] # <<>> /\ changes'[k][Len(changes'[k])] = "applied")
  BY <1>2, <1>3
<1>7. \A y \in Keys : y # k => changes'[y] = changes[y] /\ present'[y] = present[y]
  BY DEF TypeOK
<1> QED
  BY <1>5, <1>6, <1>7 DEF ChangesAlternate

\* The inductive invariant is preserved by every step.
LEMMA IInvStep == IInv /\ [Next]_vars => IInv'
<1> SUFFICES ASSUME IInv, [Next]_vars PROVE IInv'
  OBVIOUS
<1>1. TypeOK /\ TxInv /\ ChangesAlternate
  BY DEF IInv
<1>2. TypeOK' /\ TxInv'
  BY <1>1, TypeStep, TxStep
<1>3. ASSUME UNCHANGED <<present, changes>> PROVE ChangesAlternate'
  BY <1>1, <1>3 DEF ChangesAlternate
<1>4. ASSUME NEW t \in Txs, CommitApply(t) PROVE ChangesAlternate'
  <2>1. PICK k \in Keys : k = key[t]
    BY <1>1, <1>4 DEF CommitApply, Goto, TxInv
  <2>2. present[k] = ~TRUE
    BY <1>1, <1>4, <2>1 DEF CommitApply, Goto, TxInv, TypeOK
  <2> QED
    BY <1>1, <1>4, <2>1, <2>2, AppendAlternates DEF CommitApply
<1>5. ASSUME NEW t \in Txs, CommitRemove(t) PROVE ChangesAlternate'
  <2>1. PICK k \in Keys : k = key[t]
    BY <1>1, <1>5 DEF CommitRemove, TxInv
  <2>2. present[k] = ~FALSE
    BY <1>1, <1>5, <2>1 DEF CommitRemove, TxInv, TypeOK
  <2> QED
    BY <1>1, <1>5, <2>1, <2>2, AppendAlternates DEF CommitRemove
<1>6. ASSUME NEW t \in Txs, Progress(t) \/ Rollback(t), ~CommitApply(t), ~CommitRemove(t)
      PROVE  UNCHANGED <<present, changes>>
  BY <1>6 DEF Progress, Rollback, SelectFinds, SelectFindsNothing, SelectWaits, Insert,
     InsertConflicts, Delete, CommitNothing
<1>7. ASSUME NEW t \in Txs, NEW what \in {"apply", "remove"}, NEW k \in Keys, Call(t, what, k)
      PROVE  UNCHANGED <<present, changes>>
  BY <1>7 DEF Call
<1>8. UNCHANGED vars => UNCHANGED <<present, changes>>
  BY DEF vars
<1>9. ChangesAlternate'
  BY <1>3, <1>4, <1>5, <1>6, <1>7, <1>8 DEF Next
<1> QED
  BY <1>2, <1>9 DEF IInv

\* The inductive invariant always holds.
THEOREM Invariance == Spec => []IInv
  BY InitIInv, IInvStep, PTL DEF Spec

\* Every reachable state is well typed.
THEOREM TypeCorrect == Spec => []TypeOK
<1>1. IInv => TypeOK
  BY DEF IInv
<1> QED
  BY <1>1, Invariance, PTL

\* The history of a condition alternates, and it explains the row.
THEOREM HistoryAlternates == Spec => []ChangesAlternate
<1>1. IInv => ChangesAlternate
  BY DEF IInv
<1> QED
  BY <1>1, Invariance, PTL

\* An apply that reports the condition as already applied is right.
THEOREM AlreadyApplied == Spec => []AlreadyAppliedIsTrue
<1>1. IInv => AlreadyAppliedIsTrue
  BY DEF IInv, TxInv, AlreadyAppliedIsTrue
<1> QED
  BY <1>1, Invariance, PTL

-----------------------------------------------------------------------------
(* Items: what a command read of an item is still true when it writes.       *)

ItemCalls == [of : Things, aspect : Aspects, to : Values]

\* Every step of an item command but the two that end a transaction.
LEMMA ItemStep ==
  ASSUME None \notin Txs, Handling!IInv, NEW t \in Txs,
         \/ \E c \in ItemCalls : Handling!Call(t, c)
         \/ Handling!LockItem(t) \/ Handling!ReadRow(t) \/ Handling!Write(t)
  PROVE  Handling!IInv'
<1> USE DEF Handling!IInv, Handling!TypeOK, Handling!HoldsItem, Handling!PreviousStillHolds,
            Handling!Advance, Handling!Row, ItemCalls
<1>1. ASSUME NEW c \in ItemCalls, Handling!Call(t, c) PROVE Handling!IInv'
  BY <1>1 DEF Handling!Call
<1>2. CASE Handling!LockItem(t)
  BY <1>2 DEF Handling!LockItem
<1>3. CASE Handling!ReadRow(t)
  BY <1>3 DEF Handling!ReadRow
<1>4. CASE Handling!Write(t)
  BY <1>4 DEF Handling!Write
<1> QED
  BY <1>1, <1>2, <1>3, <1>4

\* A transaction that ends frees the locks it holds and leaves those of others.
LEMMA ItemEnd ==
  ASSUME None \notin Txs, Handling!IInv, NEW t \in Txs, Handling!End(t),
         stage' = [stage EXCEPT ![t] = "idle"]
  PROVE  /\ itemLock' \in [Things -> Txs \cup {None}]
         /\ stage' \in [Txs -> {"idle", "lock", "read", "write", "commit"}]
         /\ call' \in [Txs -> ItemCalls \cup {None}]
         /\ previous' \in [Txs -> Values \cup {None}]
         /\ Handling!HoldsItem'
         /\ \A u \in Txs : stage'[u] # "idle" =>
              u # t /\ stage'[u] = stage[u] /\ call'[u] = call[u] /\ previous'[u] = previous[u]
<1> USE DEF Handling!IInv, Handling!TypeOK, Handling!HoldsItem, Handling!End, ItemCalls
<1>1. itemLock' \in [Things -> Txs \cup {None}]
  OBVIOUS
<1>2. \A i \in Things : itemLock[i] # t => itemLock'[i] = itemLock[i]
  OBVIOUS
<1>3. \A u \in Txs : stage'[u] # "idle" =>
        u # t /\ stage'[u] = stage[u] /\ call'[u] = call[u] /\ previous'[u] = previous[u]
  OBVIOUS
<1>4. Handling!HoldsItem'
  BY <1>2, <1>3
<1> QED
  BY <1>1, <1>3, <1>4

\* The effect of an item's event tells the value before it: two commands on one
\* item are never between reading and writing at the same time.
THEOREM WhatWasReadStillHolds ==
  ASSUME None \notin Txs
  PROVE  Handling!Spec => []PreviousStillHolds
<1>1. Handling!Init => Handling!IInv
  BY DEF Handling!Init, Handling!IInv, Handling!TypeOK, Handling!HoldsItem,
         Handling!PreviousStillHolds
<1>2. Handling!IInv /\ [Handling!Next]_(Handling!itemVars) => Handling!IInv'
  <2> SUFFICES ASSUME Handling!IInv, [Handling!Next]_(Handling!itemVars)
               PROVE  Handling!IInv'
    OBVIOUS
  <2>1. CASE UNCHANGED Handling!itemVars
    BY <2>1 DEF Handling!itemVars, Handling!IInv, Handling!TypeOK, Handling!HoldsItem,
                Handling!PreviousStillHolds, Handling!Row
  <2>2. ASSUME NEW t \in Txs, Handling!Commit(t) PROVE Handling!IInv'
    <3>1. Handling!End(t) /\ stage[t] = "commit" /\ stage' = [stage EXCEPT ![t] = "idle"]
      BY <2>2 DEF Handling!Commit, Handling!Advance
    <3>2. call[t] \in ItemCalls /\ itemLock[call[t].of] = t
      BY <3>1 DEF Handling!IInv, Handling!HoldsItem, ItemCalls
    <3>3. value' = [value EXCEPT ![Handling!Row(t)] = call[t].to]
      BY <2>2 DEF Handling!Commit
    <3>4. value' \in [Things \X Aspects -> Values \cup {None}]
      BY <3>2, <3>3 DEF Handling!IInv, Handling!TypeOK, ItemCalls
    <3>5. ASSUME NEW u \in Txs, u # t, stage[u] \in {"write", "commit"}
          PROVE  value'[Handling!Row(u)] = value[Handling!Row(u)]
      <4>1. call[u] \in ItemCalls /\ itemLock[call[u].of] = u
        BY <3>5 DEF Handling!IInv, Handling!HoldsItem, ItemCalls
      <4>2. Handling!Row(u) # Handling!Row(t)
        BY <3>2, <3>5, <4>1 DEF Handling!Row
      <4> QED
        BY <3>2, <3>3, <4>1, <4>2
        DEF Handling!IInv, Handling!TypeOK, Handling!Row, ItemCalls
    <3>6. ASSUME NEW u \in Txs, stage'[u] \in {"write", "commit"}
          PROVE  previous'[u] = value'[Handling!Row(u)']
      <4>1. u # t /\ stage[u] \in {"write", "commit"} /\ call'[u] = call[u]
            /\ previous'[u] = previous[u]
        BY <3>1, <3>6, ItemEnd
      <4>2. Handling!Row(u)' = Handling!Row(u)
        BY <4>1 DEF Handling!Row
      <4>3. previous[u] = value[Handling!Row(u)]
        BY <4>1 DEF Handling!IInv, Handling!PreviousStillHolds
      <4> QED
        BY <3>5, <4>1, <4>2, <4>3
    <3>7. Handling!PreviousStillHolds'
      BY <3>6 DEF Handling!PreviousStillHolds
    <3> QED
      BY <3>1, <3>4, <3>7, ItemEnd DEF Handling!IInv, Handling!TypeOK, ItemCalls
  <2>3. ASSUME NEW t \in Txs, Handling!Rollback(t) PROVE Handling!IInv'
    <3>1. Handling!End(t) /\ stage' = [stage EXCEPT ![t] = "idle"] /\ UNCHANGED value
      BY <2>3 DEF Handling!Rollback
    <3> QED
      BY <3>1, ItemEnd
      DEF Handling!IInv, Handling!TypeOK, Handling!PreviousStillHolds, Handling!Row, ItemCalls
  <2> QED
    BY <2>1, <2>2, <2>3, ItemStep DEF Handling!Next, ItemCalls
<1>3. Handling!IInv => Handling!PreviousStillHolds
  BY DEF Handling!IInv
<1> QED
  BY <1>1, <1>2, <1>3, PTL DEF Handling!Spec, PreviousStillHolds

-----------------------------------------------------------------------------
(* Movement: the effects and the rows of a character's moves are one path.   *)

\* Of the invariant, everything but the path.
Placed ==
  Moving!TypeOK /\ Moving!CallFits /\ Moving!HoldsRow /\ Moving!LockFits /\ Moving!OneArrives

Stations == [at : Locations, from : Moving!Times, to : Moving!Times \cup {None}]

\* The open row of a character that has been somewhere is a row.
LEMMA OpenIsRow ==
  ASSUME Moving!TypeOK, NEW c \in Characters, periods[c] # <<>>
  PROVE  /\ Len(periods[c]) \in Nat \ {0}
         /\ Moving!Open(c) \in Stations
<1>1. periods[c] \in Seq(Stations)
  BY DEF Moving!TypeOK, Stations
<1>2. Len(periods[c]) \in Nat \ {0}
  BY <1>1, EmptySeq
<1> QED
  BY <1>1, <1>2, ElementOfSeq DEF Moving!Open

\* The steps of a move until it ends change no row.
LEMMA MoveTypeStep ==
  ASSUME Moving!MovementAssumption, Moving!IInv, NEW t \in Txs,
         \/ \E m \in Moving!Moves : Moving!Call(t, m)
         \/ Moving!SelectFinds(t) \/ Moving!SelectFindsNothing(t) \/ Moving!SelectWaits(t)
         \/ Moving!Close(t) \/ Moving!Insert(t) \/ Moving!CheckPasses(t)
  PROVE  Moving!TypeOK' /\ Moving!CallFits' /\ Moving!PathIsWhole'
<1> USE DEF Moving!MovementAssumption, Moving!IInv, Moving!Goto, Moving!Who
<1>1. UNCHANGED <<periods, trail>>
  BY DEF Moving!Call, Moving!SelectFinds, Moving!SelectFindsNothing, Moving!SelectWaits,
         Moving!Close, Moving!Insert, Moving!CheckPasses
<1>2. Moving!PathIsWhole'
  BY <1>1 DEF Moving!PathIsWhole
<1>3. ASSUME NEW m \in Moving!Moves, Moving!Call(t, m) PROVE Moving!TypeOK' /\ Moving!CallFits'
  <2>1. moves' \in 0 .. MaxMoves
    BY <1>3 DEF Moving!Call, Moving!TypeOK
  <2> QED
    BY <1>1, <1>3, <2>1
    DEF Moving!Call, Moving!TypeOK, Moving!CallFits, Moving!Moves, Moving!Steps
<1>4. CASE Moving!SelectFinds(t)
  <2>1. move[t] \in Moving!Moves
    BY <1>4 DEF Moving!SelectFinds, Moving!CallFits
  <2>2. Moving!Open(Moving!Who(t)).at \in Locations
    BY <1>4, <2>1, OpenIsRow DEF Moving!SelectFinds, Moving!Moves, Stations
  <2>3. step' \in [Txs -> Moving!Steps] /\ openLock' \in [Characters -> Txs \cup {None}]
        /\ here' \in [Txs -> Locations \cup {None}]
    BY <1>4, <2>1, <2>2
    DEF Moving!SelectFinds, Moving!TypeOK, Moving!Moves, Moving!Steps
  <2>4. Moving!CallFits'
    BY <1>4, <2>1 DEF Moving!SelectFinds, Moving!TypeOK, Moving!CallFits
  <2> QED
    BY <1>1, <1>2, <1>4, <2>3, <2>4
    DEF Moving!SelectFinds, Moving!TypeOK, Moving!Times, Moving!Steps
<1>5. CASE Moving!SelectFindsNothing(t) \/ Moving!SelectWaits(t) \/ Moving!Close(t)
           \/ Moving!Insert(t) \/ Moving!CheckPasses(t)
  <2>1. UNCHANGED <<openLock, move, here, moves>> /\ step[t] # "idle"
    BY <1>5 DEF Moving!SelectFindsNothing, Moving!SelectWaits, Moving!Close, Moving!Insert,
                Moving!CheckPasses
  <2>2. step' \in [Txs -> Moving!Steps] /\ \A u \in Txs : u # t => step'[u] = step[u]
    BY <1>5 DEF Moving!SelectFindsNothing, Moving!SelectWaits, Moving!Close, Moving!Insert,
                Moving!CheckPasses, Moving!TypeOK, Moving!Steps
  <2> QED
    BY <1>1, <1>2, <2>1, <2>2
    DEF Moving!TypeOK, Moving!CallFits, Moving!Moves, Moving!Times, Moving!Steps
<1> QED
  BY <1>2, <1>3, <1>4, <1>5

\* Until a move ends it holds no more than the row it found.
LEMMA MoveLockStep ==
  ASSUME Moving!MovementAssumption, Moving!IInv, NEW t \in Txs,
         \/ \E m \in Moving!Moves : Moving!Call(t, m)
         \/ Moving!SelectFinds(t) \/ Moving!SelectFindsNothing(t) \/ Moving!SelectWaits(t)
         \/ Moving!Close(t) \/ Moving!Insert(t) \/ Moving!CheckPasses(t)
  PROVE  Moving!HoldsRow' /\ Moving!LockFits' /\ Moving!OneArrives'
<1> USE DEF Moving!MovementAssumption, Moving!IInv, Moving!Goto, Moving!Who
<1>1. Moving!TypeOK
  OBVIOUS
<1>2. ASSUME NEW m \in Moving!Moves, Moving!Call(t, m)
      PROVE  Moving!HoldsRow' /\ Moving!LockFits' /\ Moving!OneArrives'
  <2>1. here[t] = None
    BY <1>2 DEF Moving!Call, Moving!HoldsRow, Moving!LockFits, Moving!Moves
  <2>4. Moving!HoldsRow'
    BY <1>1, <1>2, <2>1 DEF Moving!Call, Moving!TypeOK, Moving!HoldsRow, Moving!Moves
  <2>2. Moving!LockFits'
    BY <1>1, <1>2 DEF Moving!Call, Moving!TypeOK, Moving!LockFits, Moving!Moves, Moving!Open
  <2>3. Moving!OneArrives'
    BY <1>1, <1>2 DEF Moving!Call, Moving!TypeOK, Moving!OneArrives, Moving!Moves, Moving!CallFits
  <2> QED
    BY <2>2, <2>3, <2>4
<1>3. CASE Moving!SelectFinds(t)
  <2>1. move[t] \in Moving!Moves /\ periods[move[t].who] # <<>> /\ openLock[move[t].who] = None
    BY <1>3 DEF Moving!SelectFinds, Moving!CallFits
  <2>2. Moving!HoldsRow'
    BY <1>1, <1>3, <2>1
    DEF Moving!SelectFinds, Moving!TypeOK, Moving!HoldsRow, Moving!Moves
  <2>3. Moving!LockFits'
    BY <1>1, <1>3, <2>1
    DEF Moving!SelectFinds, Moving!TypeOK, Moving!LockFits, Moving!Moves, Moving!Open
  <2>4. Moving!OneArrives'
    BY <1>1, <1>3, <2>1
    DEF Moving!SelectFinds, Moving!TypeOK, Moving!OneArrives, Moving!CallFits, Moving!Moves
  <2> QED
    BY <2>2, <2>3, <2>4
<1>4. CASE Moving!SelectFindsNothing(t) \/ Moving!SelectWaits(t) \/ Moving!Close(t)
           \/ Moving!Insert(t)
  <2>1. Moving!HoldsRow'
    BY <1>1, <1>4
    DEF Moving!SelectFindsNothing, Moving!SelectWaits, Moving!Close, Moving!Insert,
        Moving!HoldsRow
  <2>2. Moving!LockFits'
    <3>1. CASE Moving!SelectFindsNothing(t)
      BY <1>1, <3>1 DEF Moving!SelectFindsNothing, Moving!TypeOK, Moving!LockFits, Moving!Open
    <3>4. CASE Moving!SelectWaits(t)
      <4>1. /\ UNCHANGED <<periods, openLock, here, move>> /\ step[t] = "select"
            /\ \A u \in Txs \ {t} : step'[u] = step[u]
        BY <1>1, <3>4 DEF Moving!SelectWaits, Moving!TypeOK
      <4>2. ASSUME NEW c \in Characters, openLock[c] # None
            PROVE  openLock[c] \in Txs \ {t}
        <5>1. openLock[c] \in Txs
          BY <1>1, <4>2 DEF Moving!TypeOK
        <5>2. step[openLock[c]] \in {"close", "insert", "check", "stay", "commit"}
          BY <4>2 DEF Moving!LockFits
        <5> QED
          BY <4>1, <5>1, <5>2
      <4> QED
        BY <4>1, <4>2 DEF Moving!LockFits, Moving!Open
    <3>2. CASE Moving!Close(t)
      BY <1>1, <3>2 DEF Moving!Close, Moving!TypeOK, Moving!LockFits, Moving!Open
    <3>3. CASE Moving!Insert(t)
      BY <1>1, <3>3 DEF Moving!Insert, Moving!TypeOK, Moving!LockFits, Moving!Open
    <3> QED
      BY <1>4, <3>1, <3>2, <3>3, <3>4
  <2>3. Moving!OneArrives'
    BY <1>1, <1>4
    DEF Moving!SelectFindsNothing, Moving!SelectWaits, Moving!Close, Moving!Insert,
        Moving!TypeOK, Moving!OneArrives
  <2> QED
    BY <2>1, <2>2, <2>3
<1>5. CASE Moving!CheckPasses(t)
  <2>1. Moving!HoldsRow' /\ Moving!LockFits'
    BY <1>1, <1>5
    DEF Moving!CheckPasses, Moving!TypeOK, Moving!HoldsRow, Moving!LockFits, Moving!Open
  <2>2. move[t] \in Moving!Moves
    BY <1>5 DEF Moving!CheckPasses, Moving!CallFits
  <2>3. openLock[move[t].who] = t \/ periods[move[t].who] = <<>>
    <3> SUFFICES ASSUME periods[move[t].who] # <<>> PROVE openLock[move[t].who] = t
      OBVIOUS
    <3> DEFINE c == move[t].who
               n == Len(periods[c])
    <3>1. c \in Characters /\ n \in Nat \ {0} /\ n \in DOMAIN periods[c]
      BY <1>1, <2>2, OpenIsRow DEF Moving!Moves, Moving!TypeOK
    <3>2. n \in DOMAIN trail[c]
      BY <1>1, <3>1 DEF Moving!PathIsWhole, Moving!TypeOK
    <3>3. periods[c][n].to = None
      BY <3>1, <3>2 DEF Moving!PathIsWhole
    <3> QED
      BY <1>5, <3>1, <3>3 DEF Moving!CheckPasses, Moving!Overlaps
  <2>4. \A u \in Txs \ {t} : step[u] = "commit" => move[u].who # move[t].who
    <3> SUFFICES ASSUME NEW u \in Txs \ {t}, step[u] = "commit", move[u].who = move[t].who
                 PROVE  FALSE
      OBVIOUS
    <3>1. move[u] = None
      BY <1>5 DEF Moving!CheckPasses, Moving!Blockers
    <3>2. move[u] \in Moving!Moves
      BY DEF Moving!CallFits
    <3> QED
      BY <3>1, <3>2
  <2>5. Moving!OneArrives'
    BY <1>1, <1>5, <2>3, <2>4 DEF Moving!CheckPasses, Moving!TypeOK, Moving!OneArrives
  <2> QED
    BY <2>1, <2>5
<1> QED
  BY <1>2, <1>3, <1>4, <1>5

\* PathIsWhole of one character: the effects r and the rows s.
Whole(s, r) ==
  /\ Len(r) = Len(s)
  /\ \A i \in DOMAIN r :
       /\ r[i] = <<IF i = 1 THEN None ELSE s[i - 1].at, s[i].at>>
       /\ s[i].to = IF i = Len(s) THEN None ELSE s[i + 1].from
       /\ s[i].to # None => s[i].from < s[i].to

Effects == (Locations \cup {None}) \X Locations

\* The path of every character is whole when each of them is.
LEMMA PathOfCharacters ==
  Moving!PathIsWhole <=> \A c \in Characters : Whole(periods[c], trail[c])
BY DEF Moving!PathIsWhole, Whole

\* The first row and the first effect of a character are a path.
LEMMA FirstRow ==
  ASSUME NEW r \in Seq(Effects), Whole(<<>>, r), NEW a \in Stations, a.to = None
  PROVE  /\ Append(<<>>, a) \in Seq(Stations)
         /\ Append(r, <<None, a.at>>) \in Seq(Effects)
         /\ Whole(Append(<<>>, a), Append(r, <<None, a.at>>))
<1>1. Len(r) = 0
  BY EmptySeq DEF Whole
<1>2. <<None, a.at>> \in Effects /\ <<>> \in Seq(Stations)
  BY DEF Effects, Stations
<1>3. /\ Append(<<>>, a) \in Seq(Stations) /\ Append(r, <<None, a.at>>) \in Seq(Effects)
      /\ Len(Append(<<>>, a)) = 1 /\ Append(<<>>, a)[1] = a
      /\ Len(Append(r, <<None, a.at>>)) = 1 /\ Append(r, <<None, a.at>>)[1] = <<None, a.at>>
  BY <1>1, <1>2, EmptySeq, AppendProperties
<1>4. DOMAIN Append(r, <<None, a.at>>) = {1}
  BY <1>3, LenProperties
<1> QED
  BY <1>3, <1>4 DEF Whole

\* So is a path with its last row closed and a later one after it.
LEMMA NextRow ==
  ASSUME NEW s \in Seq(Stations), NEW r \in Seq(Effects), Whole(s, r), s # <<>>,
         NEW a \in Stations, a.to = None, s[Len(s)].from < a.from
  PROVE  LET s2 == Append([s EXCEPT ![Len(s)].to = a.from], a)
             r2 == Append(r, <<s[Len(s)].at, a.at>>)
         IN s2 \in Seq(Stations) /\ r2 \in Seq(Effects) /\ Whole(s2, r2)
<1> DEFINE n == Len(s)
           m == [s[n] EXCEPT !.to = a.from]
           s1 == [s EXCEPT ![n] = m]
           e == <<s[n].at, a.at>>
           s2 == Append(s1, a)
           r2 == Append(r, e)
<1>1. n \in Nat \ {0} /\ n \in 1 .. Len(s) /\ Len(r) = n
  BY EmptySeq DEF Whole
<1>2. s[n] \in Stations
  BY <1>1, ElementOfSeq
<1>3. /\ m \in Stations /\ m.at = s[n].at /\ m.from = s[n].from /\ m.to = a.from
      /\ e \in Effects
  BY <1>2 DEF Stations, Effects
<1>4. s1 \in Seq(Stations) /\ Len(s1) = n /\ \A j \in 1 .. n : s1[j] = IF j = n THEN m ELSE s[j]
  <2> HIDE DEF m
  <2> QED
    BY <1>1, <1>3, ExceptSeq
<1> HIDE DEF s1, m, e
<1>5. /\ s2 \in Seq(Stations) /\ Len(s2) = n + 1 /\ s2[n + 1] = a
      /\ \A i \in 1 .. n : s2[i] = s1[i]
  BY <1>4, AppendProperties
<1>6. /\ r2 \in Seq(Effects) /\ Len(r2) = n + 1 /\ r2[n + 1] = e
      /\ \A i \in 1 .. n : r2[i] = r[i]
  BY <1>1, <1>3, AppendProperties
<1>7. DOMAIN r = 1 .. n /\ DOMAIN r2 = 1 .. n + 1
  BY <1>1, <1>6, LenProperties
<1> HIDE DEF s2, r2, n
<1>8. ASSUME NEW i \in 1 .. n + 1
      PROVE  /\ r2[i] = <<IF i = 1 THEN None ELSE s2[i - 1].at, s2[i].at>>
             /\ s2[i].to = IF i = Len(s2) THEN None ELSE s2[i + 1].from
             /\ s2[i].to # None => s2[i].from < s2[i].to
  <2>1. \A j \in 1 .. n : s2[j].at = s[j].at /\ s2[j].from = s[j].from
    BY <1>3, <1>4, <1>5
  <2>2. \A j \in 1 .. n : r[j] = <<IF j = 1 THEN None ELSE s[j - 1].at, s[j].at>>
    BY <1>7 DEF Whole
  <2>3. \A j \in 1 .. n : j # n =>
          s[j].to = s[j + 1].from /\ (s[j].to # None => s[j].from < s[j].to)
    BY <1>7 DEF Whole, n
  <2>4. CASE i = n + 1
    <3>1. r2[i] = <<s[n].at, a.at>> /\ s2[i] = a /\ s2[n].at = s[n].at /\ i - 1 = n /\ i # 1
      BY <1>1, <1>5, <1>6, <2>1, <2>4 DEF e, n
    <3> QED
      BY <1>5, <2>4, <3>1
  <2>5. CASE i \in 1 .. n
    <3>1. r2[i] = <<IF i = 1 THEN None ELSE s2[i - 1].at, s2[i].at>>
      <4>1. r2[i] = r[i]
        BY <1>6, <2>5
      <4>2. i # 1 => i - 1 \in 1 .. n
        BY <1>1, <2>5
      <4> QED
        BY <2>1, <2>2, <2>5, <4>1, <4>2
    <3>2. i + 1 \in 1 .. n + 1 /\ i # Len(s2)
      BY <1>1, <1>5, <2>5
    <3>3. CASE i = n
      BY <1>1, <1>3, <1>4, <1>5, <3>1, <3>2, <3>3 DEF n
    <3>4. CASE i # n
      <4>1. i \in 1 .. n /\ i + 1 \in 1 .. n /\ s2[i].to = s[i].to
        BY <1>1, <1>4, <1>5, <2>5, <3>4
      <4> QED
        BY <2>1, <2>3, <3>1, <3>2, <3>4, <4>1
    <3> QED
      BY <3>3, <3>4
  <2> QED
    BY <1>1, <2>4, <2>5
<1> QED
  BY <1>5, <1>6, <1>7, <1>8 DEF Whole, s2, r2, s1, m, e, n

\* LockFits for the character c and the transaction u that holds its row.
LockFitsAt(c, u) ==
  /\ step[u] \in {"close", "insert", "check", "stay", "commit"} /\ Moving!Who(u) = c
  /\ periods[c] # <<>> /\ here[u] = Moving!Open(c).at
  /\ step[u] \in {"insert", "check", "commit"} => move[u].time > Moving!Open(c).from

\* A transaction that ends frees the row it holds and leaves those of others;
\* whoever waited for a row that is closed goes on without one.
LEMMA MoveEnd ==
  ASSUME Moving!MovementAssumption, Moving!IInv, NEW t \in Txs, Moving!End(t),
         step' \in [Txs -> Moving!Steps], step'[t] = "idle",
         \A u \in Txs \ {t} :
           step'[u] = step[u] \/ (step[u] = "waiting" /\ step'[u] = "insert")
  PROVE  /\ openLock' \in [Characters -> Txs \cup {None}]
         /\ move' \in [Txs -> Moving!Moves \cup {None}]
         /\ here' \in [Txs -> Locations \cup {None}]
         /\ moves' \in 0 .. MaxMoves
         /\ Moving!CallFits' /\ Moving!HoldsRow'
         /\ \A u \in Txs \ {t} : move'[u] = move[u] /\ here'[u] = here[u]
         /\ \A c \in Characters : IF openLock[c] = t THEN openLock'[c] = None
                                                     ELSE openLock'[c] = openLock[c]
<1> USE DEF Moving!MovementAssumption
<1>1. Moving!TypeOK
  BY DEF Moving!IInv
<1>2. /\ openLock' \in [Characters -> Txs \cup {None}]
      /\ move' \in [Txs -> Moving!Moves \cup {None}]
      /\ here' \in [Txs -> Locations \cup {None}]
      /\ moves' \in 0 .. MaxMoves
  BY <1>1 DEF Moving!End, Moving!TypeOK, Moving!Moves
<1>3. /\ \A u \in Txs \ {t} : move'[u] = move[u] /\ here'[u] = here[u]
      /\ \A c \in Characters : IF openLock[c] = t THEN openLock'[c] = None
                                                  ELSE openLock'[c] = openLock[c]
      /\ here'[t] = None
  BY <1>1 DEF Moving!End, Moving!TypeOK
<1>4. Moving!CallFits'
  BY <1>3 DEF Moving!IInv, Moving!CallFits, Moving!Moves, Moving!Times
<1>5. Moving!HoldsRow'
  <2> SUFFICES ASSUME NEW u \in Txs, here'[u] # None
               PROVE  (move[u] \in Moving!Moves)' /\ openLock'[Moving!Who(u)'] = u
    BY DEF Moving!HoldsRow
  <2>1. u # t /\ here[u] # None /\ move'[u] = move[u]
    BY <1>3
  <2>2. move[u] \in Moving!Moves /\ openLock[move[u].who] = u
    BY <2>1 DEF Moving!IInv, Moving!HoldsRow, Moving!Who
  <2>3. openLock'[move[u].who] = u
    BY <1>3, <2>1, <2>2 DEF Moving!Moves
  <2> QED
    BY <2>1, <2>2, <2>3 DEF Moving!Who, Moving!Moves, Moving!Times
<1> QED
  BY <1>2, <1>3, <1>4, <1>5

\* A move that changes nothing, or is refused, leaves the path alone.
LEMMA NoMove ==
  ASSUME Moving!MovementAssumption, Moving!IInv, NEW t \in Txs,
         Moving!Stay(t) \/ Moving!Rollback(t)
  PROVE  Moving!IInv'
<1>1. /\ Moving!End(t) /\ UNCHANGED <<periods, trail>>
      /\ step' \in [Txs -> Moving!Steps] /\ step'[t] = "idle"
      /\ \A u \in Txs \ {t} : step'[u] = step[u]
  BY DEF Moving!Stay, Moving!Rollback, Moving!Goto, Moving!IInv, Moving!TypeOK, Moving!Steps
<1>2. Moving!TypeOK' /\ Moving!CallFits' /\ Moving!HoldsRow'
  BY <1>1, MoveEnd
  DEF Moving!IInv, Moving!TypeOK, Moving!Steps, Moving!Moves, Moving!Times
<1>3. Moving!LockFits'
  <2> SUFFICES ASSUME NEW c \in Characters, openLock'[c] # None
               PROVE  (LockFitsAt(c, openLock[c]))'
    BY DEF Moving!LockFits, LockFitsAt
  <2>1. IF openLock[c] = t THEN openLock'[c] = None ELSE openLock'[c] = openLock[c]
    BY <1>1, MoveEnd
  <2>2. openLock'[c] = openLock[c] /\ openLock[c] \in Txs \ {t}
    BY <2>1 DEF Moving!IInv, Moving!TypeOK
  <2> DEFINE u == openLock[c]
  <2>3. LockFitsAt(c, u)
    BY <2>2 DEF Moving!IInv, Moving!LockFits, LockFitsAt
  <2>4. step'[u] = step[u] /\ move'[u] = move[u] /\ here'[u] = here[u]
    BY <1>1, <2>2, MoveEnd
  <2>5. Moving!Open(c)' = Moving!Open(c)
    BY <1>1 DEF Moving!Open
  <2> HIDE DEF u
  <2>6. openLock'[c] = u
    BY <2>2 DEF u
  <2> QED
    BY <1>1, <2>3, <2>4, <2>5, <2>6 DEF LockFitsAt, Moving!Who
<1>4. Moving!OneArrives'
  <2> SUFFICES ASSUME NEW u \in Txs, step'[u] = "commit"
               PROVE  /\ openLock'[Moving!Who(u)'] = u \/ periods'[Moving!Who(u)'] = <<>>
                      /\ \A v \in Txs \ {u} : step'[v] = "commit" => Moving!Who(v)' # Moving!Who(u)'
    BY DEF Moving!OneArrives
  <2>1. u # t /\ step[u] = "commit" /\ move'[u] = move[u] /\ move[u] \in Moving!Moves
    BY <1>1, MoveEnd DEF Moving!IInv, Moving!CallFits
  <2>2. openLock'[move[u].who] = u \/ periods'[move[u].who] = <<>>
    BY <1>1, <2>1, MoveEnd DEF Moving!IInv, Moving!OneArrives, Moving!Who, Moving!Moves
  <2>3. \A v \in Txs \ {u} : step'[v] = "commit" => Moving!Who(v)' # Moving!Who(u)'
    BY <1>1, <2>1, MoveEnd DEF Moving!IInv, Moving!OneArrives, Moving!Who
  <2> QED
    BY <2>1, <2>2, <2>3 DEF Moving!Who
<1>5. Moving!PathIsWhole'
  BY <1>1 DEF Moving!IInv, Moving!PathIsWhole
<1> QED
  BY <1>2, <1>3, <1>4, <1>5 DEF Moving!IInv

\* What a committing move finds: a row of its own to close, or none at all.
LEMMA ArrivalFits ==
  ASSUME Moving!MovementAssumption, Moving!IInv, NEW t \in Txs, step[t] = "commit"
  PROVE  /\ move[t] \in Moving!Moves /\ Moving!Who(t) \in Characters
         /\ \/ /\ periods[Moving!Who(t)] = <<>> /\ here[t] = None
               /\ openLock[Moving!Who(t)] = None
            \/ /\ periods[Moving!Who(t)] # <<>> /\ here[t] # None
               /\ openLock[Moving!Who(t)] = t
               /\ here[t] = Moving!Open(Moving!Who(t)).at
               /\ move[t].time > Moving!Open(Moving!Who(t)).from
<1> DEFINE c == Moving!Who(t)
<1> USE DEF Moving!MovementAssumption
<1>1. move[t] \in Moving!Moves /\ c \in Characters
  BY DEF Moving!IInv, Moving!CallFits, Moving!Who, Moving!Moves
<1>2. openLock[c] = t \/ periods[c] = <<>>
  BY DEF Moving!IInv, Moving!OneArrives
<1>3. openLock[c] # None => LockFitsAt(c, openLock[c])
  BY <1>1 DEF Moving!IInv, Moving!LockFits, LockFitsAt
<1>4. here[t] # None => openLock[c] = t
  BY DEF Moving!IInv, Moving!HoldsRow
<1>5. periods[c] # <<>> => Moving!Open(c).at \in Locations
  BY <1>1, OpenIsRow DEF Moving!IInv, Stations
<1> HIDE DEF c
<1>6. CASE openLock[c] = t
  <2>1. /\ periods[c] # <<>> /\ here[t] = Moving!Open(c).at
        /\ move[t].time > Moving!Open(c).from
    BY <1>3, <1>6 DEF LockFitsAt
  <2> QED
    BY <1>1, <1>5, <1>6, <2>1 DEF c
<1>7. CASE openLock[c] # t
  <2>1. periods[c] = <<>> /\ here[t] = None
    BY <1>2, <1>4, <1>7
  <2>2. openLock[c] = None
    BY <1>3, <2>1 DEF LockFitsAt
  <2> QED
    BY <1>1, <2>1, <2>2 DEF c
<1> QED
  BY <1>6, <1>7

\* A move that commits prolongs the path of its character, and no other's.
LEMMA MoveCommits ==
  ASSUME Moving!MovementAssumption, Moving!IInv, NEW t \in Txs, Moving!Commit(t)
  PROVE  Moving!IInv'
<1> DEFINE c == Moving!Who(t)
           a == [at |-> move[t].at, from |-> move[t].time, to |-> None]
<1> USE DEF Moving!MovementAssumption
<1>1. /\ move[t] \in Moving!Moves /\ c \in Characters
      /\ \/ periods[c] = <<>> /\ here[t] = None /\ openLock[c] = None
         \/ /\ periods[c] # <<>> /\ here[t] # None /\ openLock[c] = t
            /\ here[t] = Moving!Open(c).at /\ move[t].time > Moving!Open(c).from
  BY ArrivalFits DEF Moving!Commit
<1>2. a \in Stations /\ a.to = None /\ a.at = move[t].at /\ a.from = move[t].time
  BY <1>1 DEF Stations, Moving!Moves
<1>3. /\ periods' = [periods EXCEPT ![c] =
                       Append(IF here[t] = None THEN @
                              ELSE [@ EXCEPT ![Len(periods[c])].to = move[t].time], a)]
      /\ trail' = [trail EXCEPT ![c] = Append(@, <<here[t], move[t].at>>)]
      /\ step' = [u \in Txs |-> IF u = t THEN "idle"
                                ELSE IF step[u] = "waiting" /\ Moving!Who(u) = c THEN "insert"
                                ELSE step[u]]
      /\ step[t] = "commit" /\ Moving!End(t)
  BY DEF Moving!Commit
<1>4. /\ periods \in [Characters -> Seq(Stations)] /\ trail \in [Characters -> Seq(Effects)]
      /\ \A d \in Characters : Whole(periods[d], trail[d])
  BY PathOfCharacters DEF Moving!IInv, Moving!TypeOK, Stations, Effects
<1> HIDE DEF c, a
<1>5. /\ \A d \in Characters \ {c} : periods'[d] = periods[d] /\ trail'[d] = trail[d]
      /\ trail'[c] = Append(trail[c], <<here[t], move[t].at>>)
      /\ periods'[c] = Append(IF here[t] = None THEN periods[c]
                              ELSE [periods[c] EXCEPT ![Len(periods[c])].to = move[t].time], a)
  BY <1>1, <1>3, <1>4
<1>6. /\ periods'[c] \in Seq(Stations) /\ trail'[c] \in Seq(Effects)
      /\ Whole(periods'[c], trail'[c])
  <2>1. periods[c] \in Seq(Stations) /\ trail[c] \in Seq(Effects) /\ Whole(periods[c], trail[c])
    BY <1>1, <1>4
  <2>2. CASE here[t] = None
    <3>1. periods[c] = <<>>
      BY <1>1, <2>2
    <3>2. periods'[c] = Append(<<>>, a) /\ trail'[c] = Append(trail[c], <<None, a.at>>)
      BY <1>2, <1>5, <2>2, <3>1
    <3> QED
      BY <1>2, <2>1, <3>1, <3>2, FirstRow
  <2>3. CASE here[t] # None
    <3>1. periods[c] # <<>> /\ periods[c][Len(periods[c])].from < a.from
          /\ here[t] = periods[c][Len(periods[c])].at
      BY <1>1, <1>2, <2>1, <2>3, EmptySeq, ElementOfSeq DEF Moving!Open, Stations
    <3>2. /\ periods'[c] = Append([periods[c] EXCEPT ![Len(periods[c])].to = a.from], a)
          /\ trail'[c] = Append(trail[c], <<periods[c][Len(periods[c])].at, a.at>>)
      BY <1>2, <1>5, <2>3, <3>1
    <3> QED
      BY <1>2, <2>1, <3>1, <3>2, NextRow
  <2> QED
    BY <2>2, <2>3
<1>7. /\ periods' \in [Characters -> Seq(Stations)] /\ trail' \in [Characters -> Seq(Effects)]
      /\ \A d \in Characters : Whole(periods'[d], trail'[d])
  BY <1>1, <1>3, <1>4, <1>5, <1>6
<1>8. Moving!PathIsWhole'
  BY <1>7, PathOfCharacters DEF Moving!PathIsWhole, Whole
<1>9. /\ step' \in [Txs -> Moving!Steps] /\ step'[t] = "idle"
      /\ \A u \in Txs \ {t} :
           step'[u] = step[u] \/ (step[u] = "waiting" /\ step'[u] = "insert")
  BY <1>3 DEF Moving!IInv, Moving!TypeOK, Moving!Steps
<1>10. Moving!TypeOK' /\ Moving!CallFits' /\ Moving!HoldsRow'
  <2>1. /\ openLock' \in [Characters -> Txs \cup {None}]
        /\ move' \in [Txs -> Moving!Moves \cup {None}]
        /\ here' \in [Txs -> Locations \cup {None}]
        /\ moves' \in 0 .. MaxMoves
        /\ Moving!CallFits' /\ Moving!HoldsRow'
    BY <1>3, <1>9, MoveEnd
  <2> QED
    BY <1>7, <1>9, <2>1
    DEF Moving!TypeOK, Moving!Steps, Moving!Moves, Moving!Times, Stations, Effects
<1>11. /\ \A u \in Txs \ {t} : move'[u] = move[u] /\ here'[u] = here[u]
       /\ \A d \in Characters : IF openLock[d] = t THEN openLock'[d] = None
                                                   ELSE openLock'[d] = openLock[d]
  BY <1>3, <1>9, MoveEnd
<1>12. Moving!LockFits'
  <2> SUFFICES ASSUME NEW d \in Characters, openLock'[d] # None
               PROVE  (LockFitsAt(d, openLock[d]))'
    BY DEF Moving!LockFits, LockFitsAt
  <2> DEFINE u == openLock[d]
  <2>1. d # c /\ openLock'[d] = u /\ u \in Txs \ {t}
    BY <1>1, <1>11 DEF Moving!IInv, Moving!TypeOK
  <2>2. LockFitsAt(d, u)
    BY <2>1 DEF Moving!IInv, Moving!LockFits, LockFitsAt
  <2>3. step'[u] = step[u] /\ move'[u] = move[u] /\ here'[u] = here[u]
    BY <1>9, <1>11, <2>1, <2>2 DEF LockFitsAt
  <2>4. periods'[d] = periods[d] /\ Moving!Open(d)' = Moving!Open(d)
    BY <1>5, <2>1 DEF Moving!Open
  <2> HIDE DEF u
  <2> QED
    BY <2>1, <2>2, <2>3, <2>4 DEF LockFitsAt, Moving!Who
<1>13. Moving!OneArrives'
  <2> SUFFICES ASSUME NEW u \in Txs, step'[u] = "commit"
               PROVE  /\ openLock'[Moving!Who(u)'] = u \/ periods'[Moving!Who(u)'] = <<>>
                      /\ \A v \in Txs \ {u} : step'[v] = "commit" => Moving!Who(v)' # Moving!Who(u)'
    BY DEF Moving!OneArrives
  <2>1. u # t /\ step[u] = "commit" /\ move'[u] = move[u] /\ move[u] \in Moving!Moves
    BY <1>9, <1>11 DEF Moving!IInv, Moving!CallFits
  <2>2. move[u].who \in Characters \ {c}
    BY <1>3, <2>1 DEF Moving!IInv, Moving!OneArrives, Moving!Who, Moving!Moves, c
  <2>3. openLock[move[u].who] = u \/ periods[move[u].who] = <<>>
    BY <2>1 DEF Moving!IInv, Moving!OneArrives, Moving!Who
  <2>4. openLock'[move[u].who] = u \/ periods'[move[u].who] = <<>>
    BY <1>5, <1>11, <2>1, <2>2, <2>3
  <2>5. \A v \in Txs \ {u} : step'[v] = "commit" => move'[v].who # move'[u].who
    BY <1>9, <1>11, <2>1 DEF Moving!IInv, Moving!OneArrives, Moving!Who
  <2> QED
    BY <2>1, <2>4, <2>5 DEF Moving!Who
<1> QED
  BY <1>8, <1>10, <1>12, <1>13 DEF Moving!IInv

\* However moves race, a character's rows and effects are one path.
THEOREM OnePath ==
  ASSUME Moving!MovementAssumption
  PROVE  Moving!Spec => []PathIsWhole
<1>1. Moving!Init => Moving!IInv
  <2> SUFFICES ASSUME Moving!Init PROVE Moving!IInv
    OBVIOUS
  <2>1. \A c \in Characters : periods[c] = <<>> /\ trail[c] = <<>>
    BY DEF Moving!Init
  <2>2. Moving!TypeOK
    BY EmptySeq DEF Moving!Init, Moving!TypeOK, Moving!Steps, Moving!MovementAssumption
  <2>3. Moving!CallFits /\ Moving!HoldsRow /\ Moving!LockFits /\ Moving!OneArrives
    BY DEF Moving!Init, Moving!CallFits, Moving!HoldsRow, Moving!LockFits, Moving!OneArrives
  <2>4. \A c \in Characters : Len(trail[c]) = 0 /\ DOMAIN trail[c] = {}
    BY <2>1
  <2>5. Moving!PathIsWhole
    BY <2>1, <2>4 DEF Moving!PathIsWhole
  <2> QED
    BY <2>2, <2>3, <2>5 DEF Moving!IInv
<1>2. Moving!IInv /\ [Moving!Next]_(Moving!movementVars) => Moving!IInv'
  <2> SUFFICES ASSUME Moving!IInv, [Moving!Next]_(Moving!movementVars) PROVE Moving!IInv'
    OBVIOUS
  <2>1. CASE UNCHANGED Moving!movementVars
    <3> USE <2>1 DEF Moving!movementVars
    <3>1. Moving!TypeOK'
      BY DEF Moving!IInv, Moving!TypeOK, Moving!Steps, Moving!Times
    <3>2. Moving!CallFits' /\ Moving!HoldsRow'
      BY DEF Moving!IInv, Moving!CallFits, Moving!HoldsRow, Moving!Who, Moving!Moves, Moving!Times
    <3>3. Moving!LockFits'
      BY DEF Moving!IInv, Moving!LockFits, Moving!Who, Moving!Open
    <3>4. Moving!OneArrives'
      BY DEF Moving!IInv, Moving!OneArrives, Moving!Who
    <3>5. Moving!PathIsWhole'
      BY DEF Moving!IInv, Moving!PathIsWhole
    <3> QED
      BY <3>1, <3>2, <3>3, <3>4, <3>5 DEF Moving!IInv
  <2>2. CASE Moving!Next
    BY <2>2, MoveTypeStep, MoveLockStep, NoMove, MoveCommits
    DEF Moving!Next, Moving!IInv, Moving!Moves
  <2> QED
    BY <2>1, <2>2
<1>3. Moving!IInv => Moving!PathIsWhole
  BY DEF Moving!IInv
<1> QED
  BY <1>1, <1>2, <1>3, PTL DEF Moving!Spec, PathIsWhole

-----------------------------------------------------------------------------
(* DatabaseRecovery: a whole copy survives, and a restore ends well.         *)

\* What happens around the commands.
LEMMA SurroundingsStep ==
  ASSUME Recovery!RecoveryAssumption, Recovery!IInv,
         \/ Recovery!Edit \/ Recovery!Damage \/ Recovery!LoseCluster
         \/ Recovery!DropTempByHand \/ Recovery!RemoveByHand \/ UNCHANGED Recovery!vars
  PROVE  Recovery!IInv'
<1> USE DEF Recovery!RecoveryAssumption, Recovery!IInv, Recovery!GiveUp, Recovery!End, Recovery!cluster,
            Recovery!command, Recovery!Restoring, Recovery!Replacing, Recovery!CommandFits,
            Recovery!CopyFits, Recovery!TargetFits, Recovery!ArchiveKept,
            Recovery!SomeCopySurvives, Recovery!CompleteMeansRestored, Recovery!Idle
<1>1. CASE Recovery!Edit
  BY <1>1 DEF Recovery!Edit
<1>2. CASE Recovery!Damage
  BY <1>2 DEF Recovery!Damage
<1>3. CASE Recovery!LoseCluster
  BY <1>3 DEF Recovery!LoseCluster
<1>4. CASE Recovery!DropTempByHand
  BY <1>4 DEF Recovery!DropTempByHand
<1>5. CASE Recovery!RemoveByHand
  <2> USE <1>5 DEF Recovery!RemoveByHand
  <2>1. Recovery!CommandFits' /\ Recovery!CopyFits' /\ Recovery!TargetFits'
    OBVIOUS
  <2>2. Recovery!ArchiveKept' /\ Recovery!CompleteMeansRestored'
    OBVIOUS
  <2>3. Recovery!SomeCopySurvives'
    OBVIOUS
  <2> QED
    BY <2>1, <2>2, <2>3
<1>6. CASE UNCHANGED Recovery!vars
  BY <1>6 DEF Recovery!vars
<1> QED
  BY <1>1, <1>2, <1>3, <1>4, <1>5, <1>6

\* backup and bootstrap-roles, and the end of any command.
LEMMA BackupStep ==
  ASSUME Recovery!RecoveryAssumption, Recovery!IInv,
         \/ \E overwrite \in BOOLEAN : Recovery!CallBackup(overwrite)
         \/ Recovery!Dump \/ Recovery!CopyOut \/ Recovery!CopiedOut
         \/ \E url \in {"db", "temp"} : Recovery!CallBootstrap(url)
         \/ Recovery!CreateTemp \/ Recovery!VerifyTarget \/ Recovery!DropTemp
         \/ Recovery!Remove \/ Recovery!Stop
  PROVE  Recovery!IInv'
<1> USE DEF Recovery!RecoveryAssumption, Recovery!IInv, Recovery!GiveUp, Recovery!End, Recovery!cluster,
            Recovery!command, Recovery!Restoring, Recovery!Replacing, Recovery!CommandFits,
            Recovery!CopyFits, Recovery!TargetFits, Recovery!ArchiveKept, Recovery!Call,
            Recovery!SomeCopySurvives, Recovery!CompleteMeansRestored, Recovery!Idle, Recovery!Go
<1>1. ASSUME NEW overwrite \in BOOLEAN, Recovery!CallBackup(overwrite) PROVE Recovery!IInv'
  BY <1>1 DEF Recovery!CallBackup
<1>2. CASE Recovery!Dump
  BY <1>2 DEF Recovery!Dump
<1>3. CASE Recovery!CopyOut
  BY <1>3 DEF Recovery!CopyOut
<1>4. CASE Recovery!CopiedOut
  BY <1>4 DEF Recovery!CopiedOut
<1>5. ASSUME NEW url \in {"db", "temp"}, Recovery!CallBootstrap(url) PROVE Recovery!IInv'
  BY <1>5 DEF Recovery!CallBootstrap
<1>6. CASE Recovery!CreateTemp
  BY <1>6 DEF Recovery!CreateTemp
<1>7. CASE Recovery!VerifyTarget
  BY <1>7 DEF Recovery!VerifyTarget
<1>8. CASE Recovery!DropTemp
  BY <1>8 DEF Recovery!DropTemp
<1>9. CASE Recovery!Remove
  BY <1>9 DEF Recovery!Remove
<1>10. CASE Recovery!Stop
  BY <1>10 DEF Recovery!Stop
<1> QED
  BY <1>1, <1>2, <1>3, <1>4, <1>5, <1>6, <1>7, <1>8, <1>9, <1>10

\* restore, and the migrations it shares with bootstrap-roles.
LEMMA RestoreStep ==
  ASSUME Recovery!RecoveryAssumption, Recovery!IInv,
         \/ \E mode \in {"existing", "fresh"}, file \in {"dump", "other"}, url \in {"db", "temp"} :
              Recovery!CallRestore(mode, file, url)
         \/ Recovery!Drop \/ Recovery!Create \/ Recovery!Grant \/ Recovery!CopyIn
         \/ Recovery!Load \/ Recovery!Loaded \/ Recovery!Migrate \/ Recovery!CheckRoles
  PROVE  Recovery!IInv'
<1> USE DEF Recovery!RecoveryAssumption, Recovery!IInv, Recovery!GiveUp, Recovery!cluster,
            Recovery!command, Recovery!Restoring, Recovery!Replacing, Recovery!CommandFits,
            Recovery!CopyFits, Recovery!TargetFits, Recovery!ArchiveKept, Recovery!Call,
            Recovery!SomeCopySurvives, Recovery!CompleteMeansRestored, Recovery!Idle, Recovery!Go
<1>1. ASSUME NEW mode \in {"existing", "fresh"}, NEW file \in {"dump", "other"},
             NEW url \in {"db", "temp"}, Recovery!CallRestore(mode, file, url)
      PROVE  Recovery!IInv'
  BY <1>1 DEF Recovery!CallRestore, Recovery!ArchiveAccepted, Recovery!TargetAccepted
<1>2. CASE Recovery!Drop
  BY <1>2 DEF Recovery!Drop
<1>3. CASE Recovery!Create
  BY <1>3 DEF Recovery!Create
<1>4. CASE Recovery!Grant
  BY <1>4 DEF Recovery!Grant
<1>5. CASE Recovery!CopyIn
  BY <1>5 DEF Recovery!CopyIn
<1>6. CASE Recovery!Load
  BY <1>6 DEF Recovery!Load
<1>7. CASE Recovery!Loaded
  BY <1>7 DEF Recovery!Loaded
<1>8. CASE Recovery!Migrate
  BY <1>8 DEF Recovery!Migrate
<1>9. CASE Recovery!CheckRoles
  BY <1>9 DEF Recovery!CheckRoles
<1> QED
  BY <1>1, <1>2, <1>3, <1>4, <1>5, <1>6, <1>7, <1>8, <1>9

\* The inductive invariant of the commands always holds.
LEMMA RecoveryInvariance ==
  ASSUME Recovery!RecoveryAssumption
  PROVE  Recovery!Spec => []Recovery!IInv
<1>1. Recovery!Init => Recovery!IInv
  BY DEF Recovery!RecoveryAssumption, Recovery!Init, Recovery!IInv, Recovery!CommandFits,
         Recovery!CopyFits, Recovery!TargetFits, Recovery!ArchiveKept, Recovery!Restoring,
         Recovery!Replacing, Recovery!SomeCopySurvives, Recovery!CompleteMeansRestored,
         Recovery!Idle
<1>2. Recovery!IInv /\ [Recovery!Next]_(Recovery!vars) => Recovery!IInv'
  BY SurroundingsStep, BackupStep, RestoreStep DEF Recovery!Next
<1> QED
  BY <1>1, <1>2, PTL DEF Recovery!Spec

\* Wherever a command stops, the data is whole somewhere, unless somebody gave
\* up the last whole copy.
THEOREM ACopySurvives ==
  ASSUME Recovery!RecoveryAssumption
  PROVE  Recovery!Spec => []SomeCopySurvives
<1>1. Recovery!IInv => Recovery!SomeCopySurvives
  BY DEF Recovery!IInv
<1> QED
  BY <1>1, RecoveryInvariance, PTL DEF SomeCopySurvives

\* However a restore ends, another can begin, or the migrations can go on.
THEOREM RestoresEndWell ==
  ASSUME Recovery!RecoveryAssumption
  PROVE  Recovery!Spec => []RestoreEndsWell
<1>1. Recovery!IInv => Recovery!RestoreEndsWell
  BY DEF Recovery!IInv, Recovery!TargetFits, Recovery!RestoreEndsWell,
         Recovery!RestoreCanBeRepeated
<1> QED
  BY <1>1, RecoveryInvariance, PTL DEF RestoreEndsWell

\* bootstrap-roles never writes the application's database.
THEOREM BootstrapSpares ==
  ASSUME Recovery!RecoveryAssumption
  PROVE  Recovery!Spec => BootstrapSparesTheData
<1> DEFINE Spared == cmd.op = "bootstrap" =>
                       \/ UNCHANGED <<db, granted>>
                       \/ Recovery!Edit \/ Recovery!Damage \/ Recovery!LoseCluster
<1>1. Recovery!IInv /\ [Recovery!Next]_(Recovery!vars) => [Spared]_(Recovery!vars)
  <2> SUFFICES ASSUME Recovery!IInv, Recovery!Next, cmd.op = "bootstrap",
                      ~Recovery!Edit, ~Recovery!Damage, ~Recovery!LoseCluster
               PROVE  UNCHANGED <<db, granted>>
    OBVIOUS
  <2> USE DEF Recovery!IInv, Recovery!CommandFits, Recovery!Restoring, Recovery!Replacing,
              Recovery!cluster, Recovery!command, Recovery!Go, Recovery!Call, Recovery!Idle
  <2>1. CASE Recovery!DropTempByHand \/ Recovery!RemoveByHand
    BY <2>1 DEF Recovery!DropTempByHand, Recovery!RemoveByHand
  <2>2. CASE (\E overwrite \in BOOLEAN : Recovery!CallBackup(overwrite))
             \/ Recovery!Dump \/ Recovery!CopyOut \/ Recovery!CopiedOut
             \/ (\E url \in {"db", "temp"} : Recovery!CallBootstrap(url))
             \/ Recovery!CreateTemp \/ Recovery!VerifyTarget \/ Recovery!DropTemp
             \/ Recovery!Remove \/ Recovery!Stop
    BY <2>2 DEF Recovery!CallBackup, Recovery!Dump, Recovery!CopyOut, Recovery!CopiedOut,
                Recovery!CallBootstrap, Recovery!CreateTemp, Recovery!VerifyTarget,
                Recovery!DropTemp, Recovery!Remove, Recovery!Stop
  <2>3. CASE (\E mode \in {"existing", "fresh"}, file \in {"dump", "other"}, url \in {"db", "temp"} :
                Recovery!CallRestore(mode, file, url))
             \/ Recovery!Drop \/ Recovery!Create \/ Recovery!Grant \/ Recovery!CopyIn
             \/ Recovery!Load \/ Recovery!Loaded \/ Recovery!CheckRoles
    BY <2>3 DEF Recovery!CallRestore, Recovery!Drop, Recovery!Create, Recovery!Grant,
                Recovery!CopyIn, Recovery!Load, Recovery!Loaded, Recovery!CheckRoles
  <2>4. CASE Recovery!Migrate
    BY <2>4 DEF Recovery!Migrate
  <2> QED
    BY <2>1, <2>2, <2>3, <2>4 DEF Recovery!Next
<1> QED
  BY <1>1, RecoveryInvariance, PTL
  DEF Recovery!Spec, Recovery!BootstrapSparesTheData, BootstrapSparesTheData

-----------------------------------------------------------------------------
(* AccessLookups: an active campaign has a manager, but for what a loop      *)
(* could not see.                                                            *)

\* The rows that make the member of a grant a manager.
ManagerRows(g) ==
  {g, MemberOf[g]} \cup ({RoleOf[g]} \X {"is_active", "access.manage"}) \cup Lookups!Codes

\* A campaign has a manager when some grant has all the rows that make its
\* member one.
LEMMA ManagerByRows ==
  ASSUME NEW R, NEW c
  PROVE  Lookups!HasManager(R, c) <=>
           \E g \in Grants : Lookups!GrantCampaign(g) = c /\ ManagerRows(g) \subseteq R
BY DEF Lookups!HasManager, ManagerRows

\* Who sees more rows, sees more campaigns that a lookup concerns; they are
\* campaigns.
LEMMA ConcernedGrows ==
  ASSUME NEW R, NEW S, R \subseteq S, NEW l
  PROVE  Lookups!Concerned(l, R) \subseteq Lookups!Concerned(l, S)
BY DEF Lookups!Concerned

LEMMA ConcernedAreCampaigns ==
  ASSUME Lookups!LookupsAssumption, NEW R, NEW l
  PROVE  Lookups!Concerned(l, R) \subseteq Campaigns
BY DEF Lookups!LookupsAssumption, Lookups!Concerned, Lookups!GrantCampaign

\* The campaign of a row whose trigger needs no loop is a campaign.
LEMMA OwnCampaigns ==
  ASSUME Lookups!LookupsAssumption, Lookups!IInv, NEW t \in Administrators, NEW r \in Lookups!Triggering(t),
         ~Lookups!IsTemplateRow(r)
  PROVE  Lookups!OwnCampaign(r) \in Campaigns
<1>1. r \in Lookups!Rows
  BY DEF Lookups!Triggering, Lookups!SwitchedOn, Lookups!SwitchedOff, Lookups!IInv,
         Lookups!TypeOK, Lookups!LookupsAssumption
<1>2. CASE r \in Members \cup Grants \cup Campaigns
  BY <1>2 DEF Lookups!OwnCampaign, Lookups!GrantCampaign, Lookups!LookupsAssumption
<1>3. CASE r \in Lookups!RoleRows /\ r \notin Members \cup Grants \cup Campaigns
  BY <1>3
  DEF Lookups!OwnCampaign, Lookups!LookupsAssumption, Lookups!IsTemplateRow, Lookups!RoleRows
<1>4. r \notin Lookups!Codes
  BY DEF Lookups!IsTemplateRow
<1> QED
  BY <1>1, <1>2, <1>3, <1>4 DEF Lookups!Rows

\* A row that a committing transaction switches off under a manager is one for
\* which it looks at the campaign, or does not know better.
LEMMA OffIsCovered ==
  ASSUME Lookups!LookupsAssumption, Lookups!IInv, NEW t \in Administrators, progress[t] = "commit",
         loops[t] = {}, NEW g \in Grants,
         ManagerRows(g) \subseteq Lookups!Visible(t) \cup Lookups!SwitchedOff(t),
         NEW r \in ManagerRows(g) \cap Lookups!SwitchedOff(t)
  PROVE  Lookups!Covers(t, Lookups!GrantCampaign(g))
<1> DEFINE Off == Lookups!SwitchedOff(t)
           m == MemberOf[g]
           c == Lookups!GrantCampaign(g)
           role(k) == <<RoleOf[g], k>>
<1> USE DEF Lookups!TablesAreApart
<1>1. /\ m \in Members /\ RoleOf[g] \in RoleIds /\ c = CampaignOf[m] /\ c \in Campaigns
      /\ ScopeOf[RoleOf[g]] \in {None, c} /\ None # c
      /\ Lookups!TablesAreApart /\ Capability # ActiveStatus
  BY DEF Lookups!LookupsAssumption, Lookups!GrantCampaign
<1>2. \A k \in {"is_active", "access.manage"} : role(k) \in Lookups!RoleRows
  BY <1>1 DEF Lookups!RoleRows
<1>3. \A x \in Off : x \notin Campaigns => x \in Lookups!Triggering(t)
  BY DEF Lookups!Triggering
<1>4. \A x \in Lookups!Triggering(t) :
        IF Lookups!IsTemplateRow(x) THEN x \in looped[t]
                                    ELSE Lookups!Covers(t, Lookups!OwnCampaign(x))
  BY DEF Lookups!IInv, Lookups!TriggersCover
<1>5. \A l \in looped[t] : \A d \in Lookups!Concerned(l, Lookups!Visible(t)) : Lookups!Covers(t, d)
  BY DEF Lookups!IInv, Lookups!LoopsCover
<1> HIDE DEF Off
<1>6. CASE g \in Off
  <2>1. g \notin Campaigns /\ ~Lookups!IsTemplateRow(g) /\ Lookups!OwnCampaign(g) = c
    BY <1>1 DEF Lookups!IsTemplateRow, Lookups!OwnCampaign
  <2> QED
    BY <1>3, <1>4, <1>6, <2>1
<1>7. CASE m \in Off
  <2>1. m \notin Campaigns /\ ~Lookups!IsTemplateRow(m) /\ Lookups!OwnCampaign(m) = c
    BY <1>1 DEF Lookups!IsTemplateRow, Lookups!OwnCampaign
  <2> QED
    BY <1>3, <1>4, <1>7, <2>1
<1>8. CASE g \notin Off /\ m \notin Off
  <2>1. g \in Grants \cap Lookups!Visible(t) /\ m \in Members \cap Lookups!Visible(t)
    BY <1>1, <1>8 DEF ManagerRows, Off
  <2>2. ASSUME NEW k \in {"is_active", "access.manage"}, role(k) \in Off
        PROVE  Lookups!Covers(t, c)
    <3>1. role(k) \notin Campaigns /\ role(k) \in Lookups!Triggering(t)
      BY <1>1, <1>2, <1>3, <2>2
    <3>2. CASE ScopeOf[RoleOf[g]] = None
      <4>1. role(k) \in looped[t]
        BY <1>2, <1>4, <3>1, <3>2 DEF Lookups!IsTemplateRow
      <4>2. role(k) # ActiveStatus /\ role(k) # Capability
        BY <1>1, <1>2 DEF Lookups!Codes
      <4>3. c \in Lookups!Concerned(role(k), Lookups!Visible(t))
        BY <2>1, <4>2 DEF Lookups!Concerned
      <4> QED
        BY <1>5, <4>1, <4>3
    <3>3. CASE ScopeOf[RoleOf[g]] = c
      <4>1. ~Lookups!IsTemplateRow(role(k))
        BY <1>1, <1>2, <3>3 DEF Lookups!IsTemplateRow
      <4>2. Lookups!OwnCampaign(role(k)) = c
        BY <1>1, <1>2, <3>3 DEF Lookups!OwnCampaign
      <4> QED
        BY <1>4, <3>1, <4>1, <4>2
    <3> QED
      BY <1>1, <3>2, <3>3
  <2>3. CASE \A k \in {"is_active", "access.manage"} : role(k) \notin Off
    <3>1. role("access.manage") \in Lookups!Visible(t)
      BY <2>3 DEF ManagerRows, Off
    <3>2. r \in Lookups!Codes /\ r \in Off
      BY <1>8, <2>3 DEF ManagerRows, Off
    <3>3. r \in looped[t]
      BY <1>1, <1>3, <1>4, <3>2 DEF Lookups!IsTemplateRow
    <3>4. c \in Lookups!Concerned(r, Lookups!Visible(t))
      BY <1>1, <2>1, <3>1, <3>2 DEF Lookups!Concerned, Lookups!Codes
    <3> QED
      BY <1>5, <3>3, <3>4
  <2> QED
    BY <2>2, <2>3
<1> QED
  BY <1>6, <1>7, <1>8

\* What a transaction has switched, sees and has to look at is its own affair.
LEMMA OwnView ==
  ASSUME Lookups!IInv, NEW u \in Administrators, wrote'[u] = wrote[u],
         \A x \in wrote[u] : x \in on' <=> x \in on
  PROVE  /\ Lookups!SwitchedOn(u)' = Lookups!SwitchedOn(u)
         /\ Lookups!SwitchedOff(u)' = Lookups!SwitchedOff(u)
         /\ Lookups!Triggering(u)' = Lookups!Triggering(u)
<1>1. /\ Lookups!SwitchedOn(u)' = Lookups!SwitchedOn(u)
      /\ Lookups!SwitchedOff(u)' = Lookups!SwitchedOff(u)
  BY DEF Lookups!SwitchedOn, Lookups!SwitchedOff
<1> QED
  BY <1>1 DEF Lookups!Triggering

\* A transaction switches a row: other loops may have run past it.
LEMMA SwitchStep ==
  ASSUME Lookups!LookupsAssumption, Lookups!IInv, NEW t \in Administrators, NEW r \in Switched,
         Lookups!Switch(t, r)
  PROVE  Lookups!IInv'
<1> USE DEF Lookups!IInv
<1>1. /\ progress[t] \in {"idle", "open"} /\ progress' = [progress EXCEPT ![t] = "open"]
      /\ \A u \in Administrators : r \notin wrote[u]
      /\ r \in Campaigns => campaignLocks[r] \in {t, None}
      /\ wrote' = [wrote EXCEPT ![t] = @ \cup {r}]
      /\ campaignLocks' = IF r \in Campaigns THEN [campaignLocks EXCEPT ![r] = t]
                                             ELSE campaignLocks
      /\ UNCHANGED <<on, loops, looped, toSee>>
  BY DEF Lookups!Switch
<1>2. missed' = missed \cup
        UNION { UNION { Lookups!Unseen(l, u)' : l \in looped[u] } : u \in Administrators \ {t} }
  BY DEF Lookups!Switch
<1>3. /\ Lookups!TypeOK /\ wrote'[t] = wrote[t] \cup {r} /\ progress'[t] = "open"
      /\ \A u \in Administrators \ {t} : wrote'[u] = wrote[u] /\ progress'[u] = progress[u]
      /\ \A c \in Campaigns : campaignLocks'[c] = IF c = r THEN t ELSE campaignLocks[c]
  BY <1>1 DEF Lookups!TypeOK
<1>4. missed \subseteq missed' /\ missed' \subseteq Campaigns
  <2>1. ASSUME NEW u \in Administrators, NEW l PROVE Lookups!Unseen(l, u)' \subseteq Campaigns
    BY ConcernedAreCampaigns DEF Lookups!Unseen
  <2> QED
    BY <1>2, <1>3, <2>1 DEF Lookups!TypeOK
<1>5. Lookups!TypeOK'
  <2>1. wrote' \in [Administrators -> SUBSET Switched] /\ progress' \in [Administrators -> Lookups!Stages]
        /\ campaignLocks' \in [Campaigns -> Administrators \cup {None}]
    BY <1>1 DEF Lookups!TypeOK, Lookups!Stages
  <2> QED
    BY <1>1, <1>4, <2>1
    DEF Lookups!TypeOK, Lookups!Stages, Lookups!Rows, Lookups!RoleRows, Lookups!Codes
<1>6. \A u \in Administrators, c \in Campaigns :
        /\ campaignLocks[c] = u => campaignLocks'[c] = u
        /\ u # t /\ campaignLocks'[c] = u => campaignLocks[c] = u
  BY <1>1, <1>3 DEF Lookups!LookupsAssumption
<1>7. Lookups!StageFits' /\ Lookups!WritesAlone'
  <2>1. Lookups!StageFits'
    BY <1>1, <1>3, <1>6 DEF Lookups!StageFits, Lookups!TypeOK
  <2>2. Lookups!WritesAlone'
    BY <1>1, <1>3, <1>6 DEF Lookups!WritesAlone
  <2> QED
    BY <2>1, <2>2
<1>8. \A u \in Administrators, c \in Campaigns : Lookups!Covers(u, c) => Lookups!Covers(u, c)'
  BY <1>1, <1>4, <1>6 DEF Lookups!Covers
<1> DEFINE Own(u) == /\ Lookups!Triggering(u)' = Lookups!Triggering(u)
                     /\ Lookups!Sees(u)' = Lookups!Sees(u)
<1>9. \A u \in Administrators \ {t} : Own(u)
  BY <1>1, <1>3, OwnView DEF Lookups!Sees
<1> HIDE DEF Own
<1>10. Lookups!TriggersCover'
  <2> SUFFICES ASSUME NEW u \in Administrators, progress'[u] = "commit", NEW x \in Lookups!Triggering(u)'
               PROVE  IF Lookups!IsTemplateRow(x) THEN x \in loops'[u] \cup looped'[u]
                      ELSE Lookups!Covers(u, Lookups!OwnCampaign(x))'
    BY DEF Lookups!TriggersCover
  <2>1. u # t /\ progress[u] = "commit" /\ x \in Lookups!Triggering(u)
    BY <1>3, <1>9 DEF Own
  <2>2. IF Lookups!IsTemplateRow(x) THEN x \in loops[u] \cup looped[u]
        ELSE Lookups!Covers(u, Lookups!OwnCampaign(x))
    BY <2>1 DEF Lookups!TriggersCover
  <2>3. ~Lookups!IsTemplateRow(x) => Lookups!OwnCampaign(x) \in Campaigns
    BY <2>1, OwnCampaigns
  <2> QED
    BY <1>1, <1>8, <2>2, <2>3
<1>11. Lookups!LoopsCover'
  <2> SUFFICES ASSUME NEW u \in Administrators, NEW l \in looped[u],
                      NEW c \in Lookups!Concerned(l, Lookups!Visible(u)')
               PROVE  Lookups!Covers(u, c)'
    BY <1>1 DEF Lookups!LoopsCover
  <2>1. u # t /\ c \in Campaigns
    BY <1>1, ConcernedAreCampaigns DEF Lookups!StageFits
  <2>2. CASE c \in Lookups!Concerned(l, Lookups!Sees(u)')
    <3>1. c \in Lookups!Concerned(l, Lookups!Visible(u))
      BY <1>9, <2>1, <2>2, ConcernedGrows DEF Lookups!Visible, Own
    <3> QED
      BY <1>8, <2>1, <3>1 DEF Lookups!LoopsCover
  <2>3. CASE c \notin Lookups!Concerned(l, Lookups!Sees(u)')
    <3>1. c \in Lookups!Unseen(l, u)'
      BY <2>3 DEF Lookups!Unseen
    <3>2. c \in missed'
      BY <1>2, <2>1, <3>1
    <3> QED
      BY <3>2 DEF Lookups!Covers
  <2> QED
    BY <2>2, <2>3
<1>12. Lookups!LookStands'
  <2> SUFFICES ASSUME NEW u \in Administrators, NEW c \in Campaigns, progress'[u] = "commit",
                      campaignLocks'[c] = u, c \notin toSee'[u], c \notin missed'
               PROVE  Lookups!Satisfied(u, c)'
    BY DEF Lookups!LookStands
  <2>1. u # t /\ progress[u] = "commit" /\ campaignLocks[c] = u /\ c \notin toSee[u]
        /\ c \notin missed
    BY <1>1, <1>3, <1>4, <1>6
  <2>2. Lookups!Satisfied(u, c)
    BY <2>1 DEF Lookups!LookStands
  <2> QED
    BY <1>9, <2>1, <2>2 DEF Lookups!Satisfied, Own
<1>13. Lookups!ManagedUnlessMissed'
  BY <1>1, <1>4 DEF Lookups!ManagedUnlessMissed
<1> QED
  BY <1>5, <1>7, <1>10, <1>11, <1>12, <1>13

\* The steps of a commit change no row, and nobody else's view.
LEMMA CommitBegins ==
  ASSUME Lookups!LookupsAssumption, Lookups!IInv, NEW t \in Administrators, Lookups!StartCommit(t)
  PROVE  Lookups!IInv'
<1> USE DEF Lookups!IInv
<1>1. /\ progress[t] = "open" /\ progress' = [progress EXCEPT ![t] = "commit"]
      /\ loops' = [loops EXCEPT ![t] = { l \in Lookups!Triggering(t) : Lookups!IsTemplateRow(l) }]
      /\ toSee' = [toSee EXCEPT ![t] =
                     { Lookups!OwnCampaign(r) : r \in Lookups!Triggering(t) \ loops'[t] }]
      /\ UNCHANGED <<on, wrote, campaignLocks, looped, missed>>
  BY DEF Lookups!StartCommit
<1>2. /\ progress'[t] = "commit" /\ looped[t] = {}
      /\ loops'[t] = { l \in Lookups!Triggering(t) : Lookups!IsTemplateRow(l) }
      /\ toSee'[t] = { Lookups!OwnCampaign(r) : r \in Lookups!Triggering(t) \ loops'[t] }
      /\ \A u \in Administrators \ {t} : progress'[u] = progress[u] /\ loops'[u] = loops[u] /\ toSee'[u] = toSee[u]
  BY <1>1 DEF Lookups!TypeOK, Lookups!StageFits
<1>3. /\ \A u \in Administrators : Lookups!Triggering(u)' = Lookups!Triggering(u)
      /\ \A u \in Administrators : Lookups!Sees(u)' = Lookups!Sees(u)
      /\ \A u \in Administrators : Lookups!Visible(u)' = Lookups!Visible(u)
  BY <1>1
  DEF Lookups!Triggering, Lookups!Sees, Lookups!Visible, Lookups!SwitchedOn, Lookups!SwitchedOff
<1>4. Lookups!TypeOK'
  <2>1. loops'[t] \subseteq Lookups!RoleRows \cup Lookups!Codes
    BY <1>2 DEF Lookups!IsTemplateRow
  <2>2. toSee'[t] \subseteq Campaigns
    BY <1>2, OwnCampaigns
  <2>3. progress' \in [Administrators -> Lookups!Stages]
    BY <1>1 DEF Lookups!TypeOK, Lookups!Stages
  <2>4. loops' \in [Administrators -> SUBSET (Lookups!RoleRows \cup Lookups!Codes)]
    BY <1>1, <1>2, <2>1 DEF Lookups!TypeOK
  <2>5. toSee' \in [Administrators -> SUBSET Campaigns]
    BY <1>1, <1>2, <2>2 DEF Lookups!TypeOK
  <2> QED
    BY <1>1, <2>3, <2>4, <2>5
    DEF Lookups!TypeOK, Lookups!Stages, Lookups!Rows, Lookups!RoleRows, Lookups!Codes
<1>5. Lookups!StageFits'
  BY <1>1, <1>2 DEF Lookups!StageFits
<1>6. Lookups!WritesAlone' /\ Lookups!ManagedUnlessMissed'
  BY <1>1 DEF Lookups!WritesAlone, Lookups!ManagedUnlessMissed
<1>7. \A u \in Administrators \ {t}, c \in Campaigns : Lookups!Covers(u, c) => Lookups!Covers(u, c)'
  BY <1>1, <1>2 DEF Lookups!Covers
<1>8. Lookups!TriggersCover'
  <2> SUFFICES ASSUME NEW u \in Administrators, progress'[u] = "commit", NEW x \in Lookups!Triggering(u)
               PROVE  IF Lookups!IsTemplateRow(x) THEN x \in loops'[u] \cup looped'[u]
                      ELSE Lookups!Covers(u, Lookups!OwnCampaign(x))'
    BY <1>3 DEF Lookups!TriggersCover
  <2>1. CASE u = t
    BY <1>1, <1>2, <2>1 DEF Lookups!Covers
  <2>2. CASE u # t
    <3>1. IF Lookups!IsTemplateRow(x) THEN x \in loops[u] \cup looped[u]
          ELSE Lookups!Covers(u, Lookups!OwnCampaign(x))
      BY <1>2, <2>2 DEF Lookups!TriggersCover
    <3>2. ~Lookups!IsTemplateRow(x) => Lookups!OwnCampaign(x) \in Campaigns
      BY OwnCampaigns
    <3> QED
      BY <1>1, <1>2, <1>7, <2>2, <3>1, <3>2
  <2> QED
    BY <2>1, <2>2
<1>9. Lookups!LoopsCover'
  <2> SUFFICES ASSUME NEW u \in Administrators, NEW l \in looped[u],
                      NEW c \in Lookups!Concerned(l, Lookups!Visible(u))
               PROVE  Lookups!Covers(u, c)'
    BY <1>1, <1>3 DEF Lookups!LoopsCover
  <2>1. u # t /\ c \in Campaigns
    BY <1>2, ConcernedAreCampaigns
  <2> QED
    BY <1>7, <2>1 DEF Lookups!LoopsCover
<1>10. Lookups!LookStands'
  <2> SUFFICES ASSUME NEW u \in Administrators, NEW c \in Campaigns, progress'[u] = "commit",
                      campaignLocks[c] = u, c \notin toSee'[u], c \notin missed
               PROVE  Lookups!Satisfied(u, c)'
    BY <1>1 DEF Lookups!LookStands
  <2>1. Lookups!Satisfied(u, c) => Lookups!Satisfied(u, c)'
    BY <1>3 DEF Lookups!Satisfied
  <2>2. CASE u # t
    BY <1>2, <2>1, <2>2 DEF Lookups!LookStands
  <2>3. CASE u = t
    <3>1. c \in wrote[t] /\ c \notin Lookups!Triggering(t) \ loops'[t]
      <4>1. c \in wrote[t]
        BY <1>1, <2>3 DEF Lookups!StageFits, Lookups!LookupsAssumption
      <4>2. Lookups!OwnCampaign(c) = c
        BY DEF Lookups!OwnCampaign, Lookups!LookupsAssumption, Lookups!TablesAreApart
      <4> QED
        BY <1>2, <2>3, <4>1, <4>2
    <3>2. ~Lookups!IsTemplateRow(c)
      BY DEF Lookups!IsTemplateRow, Lookups!LookupsAssumption, Lookups!TablesAreApart
    <3>3. c \notin Lookups!Sees(t)
      BY <1>2, <3>1, <3>2 DEF Lookups!Triggering, Lookups!SwitchedOn, Lookups!Sees
    <3> QED
      BY <2>1, <2>3, <3>3 DEF Lookups!Satisfied
  <2> QED
    BY <2>2, <2>3
<1> QED
  BY <1>4, <1>5, <1>6, <1>8, <1>9, <1>10

\* A committing transaction looks at one of the campaigns it has to, holding its
\* lock, and finds a manager or is refused.
LEMMA LookingStep ==
  ASSUME Lookups!LookupsAssumption, Lookups!IInv, NEW t \in Administrators,
         \/ \E l \in loops[t] : Lookups!Loop(t, l)
         \/ \E c \in toSee[t] : Lookups!Check(t, c)
  PROVE  Lookups!IInv'
<1> USE DEF Lookups!IInv
<1>1. /\ UNCHANGED <<on, wrote, progress>> /\ missed \subseteq missed'
      /\ \A u \in Administrators \ {t} : loops'[u] = loops[u] /\ looped'[u] = looped[u] /\ toSee'[u] = toSee[u]
      /\ progress[t] = "commit"
  BY DEF Lookups!Loop, Lookups!Check, Lookups!TypeOK, Lookups!StageFits
<1>2. /\ \A u \in Administrators : Lookups!Triggering(u)' = Lookups!Triggering(u)
      /\ \A u \in Administrators : Lookups!Sees(u)' = Lookups!Sees(u)
      /\ \A u \in Administrators : Lookups!Visible(u)' = Lookups!Visible(u)
  BY <1>1
  DEF Lookups!Triggering, Lookups!Sees, Lookups!Visible, Lookups!SwitchedOn, Lookups!SwitchedOff
<1>3. ASSUME NEW l \in loops[t], Lookups!Loop(t, l) PROVE Lookups!IInv'
  <2>1. /\ loops' = [loops EXCEPT ![t] = @ \ {l}] /\ looped' = [looped EXCEPT ![t] = @ \cup {l}]
        /\ toSee' = [toSee EXCEPT ![t] = @ \cup Lookups!Concerned(l, Lookups!Sees(t))]
        /\ missed' = missed \cup Lookups!Unseen(l, t)
        /\ UNCHANGED campaignLocks
    BY <1>3 DEF Lookups!Loop
  <2>2. /\ loops'[t] = loops[t] \ {l} /\ looped'[t] = looped[t] \cup {l}
        /\ toSee'[t] = toSee[t] \cup Lookups!Concerned(l, Lookups!Sees(t))
    BY <2>1 DEF Lookups!TypeOK
  <2>3. Lookups!TypeOK'
    <3>1. Lookups!Unseen(l, t) \subseteq Campaigns
          /\ Lookups!Concerned(l, Lookups!Sees(t)) \subseteq Campaigns
      BY ConcernedAreCampaigns DEF Lookups!Unseen
    <3>2. l \in Lookups!RoleRows \cup Lookups!Codes
      BY DEF Lookups!TypeOK
    <3> QED
      BY <1>1, <2>1, <3>1, <3>2
      DEF Lookups!TypeOK, Lookups!Stages, Lookups!Rows, Lookups!RoleRows, Lookups!Codes
  <2>4. Lookups!StageFits' /\ Lookups!WritesAlone' /\ Lookups!ManagedUnlessMissed'
    BY <1>1, <2>1 DEF Lookups!StageFits, Lookups!WritesAlone, Lookups!ManagedUnlessMissed
  <2>5. \A u \in Administrators : \A c : Lookups!Covers(u, c) => Lookups!Covers(u, c)'
    BY <1>1, <2>1, <2>2 DEF Lookups!Covers
  <2>6. Lookups!TriggersCover'
    BY <1>1, <1>2, <2>2, <2>5 DEF Lookups!TriggersCover
  <2>7. Lookups!LoopsCover'
    <3> SUFFICES ASSUME NEW u \in Administrators, NEW k \in looped'[u],
                        NEW c \in Lookups!Concerned(k, Lookups!Visible(u))
                 PROVE  Lookups!Covers(u, c)'
      BY <1>2 DEF Lookups!LoopsCover
    <3>1. CASE k \in looped[u]
      BY <2>5, <3>1 DEF Lookups!LoopsCover
    <3>2. CASE k \notin looped[u]
      <4>1. u = t /\ k = l
        BY <1>1, <2>2, <3>2
      <4>2. c \in toSee'[t] \/ c \in missed'
        BY <2>1, <2>2, <4>1 DEF Lookups!Unseen
      <4> QED
        BY <4>1, <4>2 DEF Lookups!Covers
    <3> QED
      BY <3>1, <3>2
  <2>8. Lookups!LookStands'
    BY <1>1, <1>2, <2>1, <2>2 DEF Lookups!LookStands, Lookups!Satisfied
  <2> QED
    BY <2>3, <2>4, <2>6, <2>7, <2>8
<1>4. ASSUME NEW d \in toSee[t], Lookups!Check(t, d) PROVE Lookups!IInv'
  <2>1. /\ campaignLocks[d] \in {t, None} /\ Lookups!Satisfied(t, d)
        /\ campaignLocks' = [campaignLocks EXCEPT ![d] = t]
        /\ toSee' = [toSee EXCEPT ![t] = @ \ {d}]
        /\ UNCHANGED <<loops, looped, missed>>
    BY <1>4 DEF Lookups!Check
  <2>2. /\ toSee'[t] = toSee[t] \ {d} /\ d \in Campaigns /\ campaignLocks'[d] = t
        /\ \A c \in Campaigns \ {d} : campaignLocks'[c] = campaignLocks[c]
    BY <2>1 DEF Lookups!TypeOK
  <2>3. Lookups!TypeOK'
    BY <1>1, <2>1, <2>2
    DEF Lookups!TypeOK, Lookups!Stages, Lookups!Rows, Lookups!RoleRows, Lookups!Codes
  <2>4. Lookups!StageFits' /\ Lookups!WritesAlone' /\ Lookups!ManagedUnlessMissed'
    <3>1. Lookups!StageFits'
      BY <1>1, <2>1, <2>2 DEF Lookups!StageFits
    <3>2. Lookups!WritesAlone'
      BY <1>1, <2>1, <2>2 DEF Lookups!WritesAlone, Lookups!LookupsAssumption
    <3> QED
      BY <1>1, <2>1, <3>1, <3>2 DEF Lookups!ManagedUnlessMissed
  <2>5. \A u \in Administrators, c \in Campaigns : Lookups!Covers(u, c) => Lookups!Covers(u, c)'
    BY <1>1, <2>1, <2>2 DEF Lookups!Covers, Lookups!LookupsAssumption
  <2>6. Lookups!TriggersCover'
    BY <1>1, <1>2, <2>1, <2>5, OwnCampaigns DEF Lookups!TriggersCover
  <2>7. Lookups!LoopsCover'
    BY <1>2, <2>1, <2>5, ConcernedAreCampaigns DEF Lookups!LoopsCover
  <2>8. Lookups!LookStands'
    BY <1>1, <1>2, <2>1, <2>2 DEF Lookups!LookStands, Lookups!Satisfied
  <2> QED
    BY <2>3, <2>4, <2>6, <2>7, <2>8
<1> QED
  BY <1>3, <1>4

\* What a transaction that ends leaves behind: the rows it had switched are, or
\* are not, what everybody sees now.
LEMMA LookEnds ==
  ASSUME Lookups!LookupsAssumption, Lookups!IInv, NEW t \in Administrators, Lookups!End(t),
         UNCHANGED missed, on' = on \/ on' = Lookups!Sees(t)
  PROVE  /\ Lookups!TypeOK' /\ Lookups!StageFits' /\ Lookups!WritesAlone'
         /\ Lookups!TriggersCover' /\ Lookups!LoopsCover'
         /\ \A u \in Administrators \ {t} : /\ wrote'[u] = wrote[u] /\ progress'[u] = progress[u]
                                 /\ toSee'[u] = toSee[u]
         /\ progress'[t] = "idle"
         /\ \A c \in Campaigns :
              campaignLocks'[c] = IF campaignLocks[c] = t THEN None ELSE campaignLocks[c]
<1> USE DEF Lookups!IInv
<1>1. /\ progress' = [progress EXCEPT ![t] = "idle"] /\ wrote' = [wrote EXCEPT ![t] = {}]
      /\ campaignLocks' = [c \in Campaigns |-> IF campaignLocks[c] = t THEN None
                                               ELSE campaignLocks[c]]
      /\ loops' = [loops EXCEPT ![t] = {}] /\ looped' = [looped EXCEPT ![t] = {}]
      /\ toSee' = [toSee EXCEPT ![t] = {}]
  BY DEF Lookups!End
<1>2. /\ \A u \in Administrators \ {t} : /\ wrote'[u] = wrote[u] /\ progress'[u] = progress[u]
                              /\ toSee'[u] = toSee[u] /\ loops'[u] = loops[u]
                              /\ looped'[u] = looped[u]
      /\ wrote'[t] = {} /\ progress'[t] = "idle" /\ loops'[t] = {} /\ looped'[t] = {}
      /\ toSee'[t] = {}
  BY <1>1 DEF Lookups!TypeOK
<1>3. \A c \in Campaigns :
        campaignLocks'[c] = IF campaignLocks[c] = t THEN None ELSE campaignLocks[c]
  BY <1>1
<1>4. Lookups!TypeOK'
  <2>1. on' \subseteq Lookups!Rows
    BY DEF Lookups!TypeOK, Lookups!Sees, Lookups!LookupsAssumption
  <2>2. /\ wrote' \in [Administrators -> SUBSET Switched] /\ progress' \in [Administrators -> Lookups!Stages]
        /\ campaignLocks' \in [Campaigns -> Administrators \cup {None}]
        /\ loops' \in [Administrators -> SUBSET (Lookups!RoleRows \cup Lookups!Codes)]
        /\ looped' \in [Administrators -> SUBSET (Lookups!RoleRows \cup Lookups!Codes)]
        /\ toSee' \in [Administrators -> SUBSET Campaigns]
    BY <1>1 DEF Lookups!TypeOK, Lookups!Stages
  <2> QED
    BY <2>1, <2>2
    DEF Lookups!TypeOK, Lookups!Stages, Lookups!Rows, Lookups!RoleRows, Lookups!Codes
<1>5. Lookups!StageFits'
  BY <1>2, <1>3 DEF Lookups!StageFits, Lookups!TypeOK
<1>6. Lookups!WritesAlone'
  <2>1. \A u, v \in Administrators : u # v => wrote'[u] \cap wrote'[v] = {}
    BY <1>2 DEF Lookups!WritesAlone
  <2>2. \A u \in Administrators : \A c \in Campaigns \cap wrote'[u] : campaignLocks'[c] = u
    BY <1>2, <1>3 DEF Lookups!WritesAlone
  <2> QED
    BY <2>1, <2>2 DEF Lookups!WritesAlone
<1>7. \A u \in Administrators \ {t} : \A x \in wrote[u] : x \in on' <=> x \in on
  BY DEF Lookups!Sees, Lookups!WritesAlone
<1>8. \A u \in Administrators \ {t} : /\ Lookups!SwitchedOn(u)' = Lookups!SwitchedOn(u)
                           /\ Lookups!Triggering(u)' = Lookups!Triggering(u)
  BY <1>2, <1>7, OwnView
<1>9. \A u \in Administrators \ {t} : Lookups!Visible(u)' \subseteq Lookups!Visible(u)
  <2> SUFFICES ASSUME NEW u \in Administrators \ {t}, NEW x \in Lookups!Visible(u)'
               PROVE  x \in Lookups!Visible(u)
    OBVIOUS
  <2>1. CASE x \in Lookups!Sees(u)'
    <3>1. x \in (on' \ wrote[u]) \cup (wrote[u] \ on')
      BY <1>2, <2>1 DEF Lookups!Sees
    <3>2. x \in Lookups!Sees(u) \/ x \in wrote[t] \ on
      BY <1>7, <3>1 DEF Lookups!Sees
    <3> QED
      BY <3>2 DEF Lookups!Visible, Lookups!SwitchedOn
  <2>2. CASE x \notin Lookups!Sees(u)'
    <3>1. PICK v \in Administrators \ {u} : x \in Lookups!SwitchedOn(v)'
      BY <2>2 DEF Lookups!Visible
    <3>2. v # t
      BY <1>2, <3>1 DEF Lookups!SwitchedOn
    <3> QED
      BY <1>8, <3>1, <3>2 DEF Lookups!Visible
  <2> QED
    BY <2>1, <2>2
<1>10. \A u \in Administrators \ {t}, c \in Campaigns : Lookups!Covers(u, c) => Lookups!Covers(u, c)'
  BY <1>2, <1>3 DEF Lookups!Covers
<1>11. Lookups!TriggersCover'
  <2> SUFFICES ASSUME NEW u \in Administrators, progress'[u] = "commit", NEW x \in Lookups!Triggering(u)'
               PROVE  IF Lookups!IsTemplateRow(x) THEN x \in loops'[u] \cup looped'[u]
                      ELSE Lookups!Covers(u, Lookups!OwnCampaign(x))'
    BY DEF Lookups!TriggersCover
  <2>1. u # t /\ progress[u] = "commit" /\ x \in Lookups!Triggering(u)
    BY <1>2, <1>8
  <2>2. IF Lookups!IsTemplateRow(x) THEN x \in loops[u] \cup looped[u]
        ELSE Lookups!Covers(u, Lookups!OwnCampaign(x))
    BY <2>1 DEF Lookups!TriggersCover
  <2>3. ~Lookups!IsTemplateRow(x) => Lookups!OwnCampaign(x) \in Campaigns
    BY <2>1, OwnCampaigns
  <2> QED
    BY <1>2, <1>10, <2>1, <2>2, <2>3
<1>12. Lookups!LoopsCover'
  <2> SUFFICES ASSUME NEW u \in Administrators, NEW l \in looped'[u],
                      NEW c \in Lookups!Concerned(l, Lookups!Visible(u)')
               PROVE  Lookups!Covers(u, c)'
    BY DEF Lookups!LoopsCover
  <2>1. u # t /\ l \in looped[u] /\ c \in Campaigns
    BY <1>2, ConcernedAreCampaigns
  <2>2. c \in Lookups!Concerned(l, Lookups!Visible(u))
    BY <1>9, <2>1, ConcernedGrows
  <2> QED
    BY <1>10, <2>1, <2>2 DEF Lookups!LoopsCover
<1> QED
  BY <1>2, <1>3, <1>4, <1>5, <1>6, <1>11, <1>12

\* Nobody who has looked at a campaign is disturbed by a commit: the transaction
\* that takes a manager away has to look at the campaign too.
LEMMA LookupsCommit ==
  ASSUME Lookups!LookupsAssumption, Lookups!IInv, NEW t \in Administrators, Lookups!Commit(t)
  PROVE  Lookups!IInv'
<1>1. /\ progress[t] = "commit" /\ loops[t] = {} /\ toSee[t] = {} /\ on' = Lookups!Sees(t)
      /\ Lookups!End(t) /\ UNCHANGED missed
  BY DEF Lookups!Commit
<1>2. /\ Lookups!TypeOK' /\ Lookups!StageFits' /\ Lookups!WritesAlone'
      /\ Lookups!TriggersCover' /\ Lookups!LoopsCover'
      /\ \A u \in Administrators \ {t} : /\ wrote'[u] = wrote[u] /\ progress'[u] = progress[u]
                              /\ toSee'[u] = toSee[u]
      /\ progress'[t] = "idle"
      /\ \A c \in Campaigns :
           campaignLocks'[c] = IF campaignLocks[c] = t THEN None ELSE campaignLocks[c]
  BY <1>1, LookEnds
<1>3. ASSUME NEW g \in Grants, Lookups!GrantCampaign(g) \notin missed,
             campaignLocks[Lookups!GrantCampaign(g)] # t,
             ManagerRows(g) \subseteq Lookups!Visible(t) \cup Lookups!SwitchedOff(t)
      PROVE  ManagerRows(g) \cap Lookups!SwitchedOff(t) = {}
  <2> SUFFICES ASSUME NEW r \in ManagerRows(g) \cap Lookups!SwitchedOff(t) PROVE FALSE
    OBVIOUS
  <2>1. Lookups!Covers(t, Lookups!GrantCampaign(g))
    BY <1>1, <1>3, OffIsCovered
  <2> QED
    BY <1>1, <1>3, <2>1 DEF Lookups!Covers
<1>4. Lookups!LookStands'
  <2> SUFFICES ASSUME NEW u \in Administrators, NEW c \in Campaigns, progress'[u] = "commit",
                      campaignLocks'[c] = u, c \notin toSee'[u], c \notin missed,
                      c \in Lookups!Sees(u)'
               PROVE  Lookups!HasManager(Lookups!Sees(u)', c)
    BY <1>1 DEF Lookups!LookStands, Lookups!Satisfied
  <2>1. /\ u # t /\ progress[u] = "commit" /\ campaignLocks[c] = u /\ c \notin toSee[u]
        /\ wrote'[u] = wrote[u]
    BY <1>2 DEF Lookups!LookupsAssumption
  <2>2. c \notin wrote[t] /\ wrote[t] \cap wrote[u] = {}
    BY <2>1 DEF Lookups!IInv, Lookups!WritesAlone
  <2>3. Lookups!Sees(u)' = (on' \ wrote[u]) \cup (wrote[u] \ on')
    BY <2>1 DEF Lookups!Sees
  <2>4. c \in Lookups!Sees(u)
    BY <1>1, <2>2, <2>3 DEF Lookups!Sees
  <2>5. PICK g \in Grants : /\ Lookups!GrantCampaign(g) = c
                            /\ ManagerRows(g) \subseteq Lookups!Sees(u)
    BY <2>1, <2>4, ManagerByRows DEF Lookups!IInv, Lookups!LookStands, Lookups!Satisfied
  <2>6. Lookups!Sees(u) \subseteq Lookups!Visible(t) \cup Lookups!SwitchedOff(t)
    BY <2>1 DEF Lookups!Sees, Lookups!Visible, Lookups!SwitchedOn, Lookups!SwitchedOff
  <2>7. ManagerRows(g) \cap Lookups!SwitchedOff(t) = {}
    BY <1>3, <2>1, <2>5, <2>6
  <2>8. ManagerRows(g) \subseteq Lookups!Sees(u)'
    BY <1>1, <2>2, <2>3, <2>5, <2>7 DEF Lookups!Sees, Lookups!SwitchedOff
  <2> QED
    BY <2>5, <2>8, ManagerByRows
<1>5. Lookups!ManagedUnlessMissed'
  <2> SUFFICES ASSUME NEW c \in Campaigns, c \in Lookups!Sees(t), c \notin missed
               PROVE  Lookups!HasManager(Lookups!Sees(t), c)
    BY <1>1 DEF Lookups!ManagedUnlessMissed
  <2>1. CASE campaignLocks[c] = t
    BY <1>1, <2>1 DEF Lookups!IInv, Lookups!LookStands, Lookups!Satisfied
  <2>2. CASE campaignLocks[c] # t
    <3>1. c \in on
      BY <2>2 DEF Lookups!IInv, Lookups!WritesAlone, Lookups!Sees
    <3>2. PICK g \in Grants : Lookups!GrantCampaign(g) = c /\ ManagerRows(g) \subseteq on
      BY <3>1, ManagerByRows DEF Lookups!IInv, Lookups!ManagedUnlessMissed
    <3>3. on \subseteq Lookups!Visible(t) \cup Lookups!SwitchedOff(t)
      BY DEF Lookups!Sees, Lookups!Visible, Lookups!SwitchedOff
    <3>4. ManagerRows(g) \cap Lookups!SwitchedOff(t) = {}
      BY <1>3, <2>2, <3>2, <3>3
    <3>5. ManagerRows(g) \subseteq Lookups!Sees(t)
      BY <3>2, <3>4 DEF Lookups!Sees, Lookups!SwitchedOff
    <3> QED
      BY <3>2, <3>5, ManagerByRows
  <2> QED
    BY <2>1, <2>2
<1> QED
  BY <1>2, <1>4, <1>5 DEF Lookups!IInv

\* A transaction that is rolled back leaves the rows as they were.
LEMMA LookupsRollback ==
  ASSUME Lookups!LookupsAssumption, Lookups!IInv, NEW t \in Administrators, Lookups!Rollback(t)
  PROVE  Lookups!IInv'
<1>1. Lookups!End(t) /\ UNCHANGED <<on, missed>>
  BY DEF Lookups!Rollback
<1>2. /\ Lookups!TypeOK' /\ Lookups!StageFits' /\ Lookups!WritesAlone'
      /\ Lookups!TriggersCover' /\ Lookups!LoopsCover'
      /\ \A u \in Administrators \ {t} : /\ wrote'[u] = wrote[u] /\ progress'[u] = progress[u]
                              /\ toSee'[u] = toSee[u]
      /\ progress'[t] = "idle"
      /\ \A c \in Campaigns :
           campaignLocks'[c] = IF campaignLocks[c] = t THEN None ELSE campaignLocks[c]
  BY <1>1, LookEnds
<1>3. \A u \in Administrators \ {t} : Lookups!Sees(u)' = Lookups!Sees(u)
  BY <1>1, <1>2 DEF Lookups!Sees
<1>4. Lookups!LookStands'
  <2> SUFFICES ASSUME NEW u \in Administrators, NEW c \in Campaigns, progress'[u] = "commit",
                      campaignLocks'[c] = u, c \notin toSee'[u], c \notin missed
               PROVE  Lookups!Satisfied(u, c)'
    BY <1>1 DEF Lookups!LookStands
  <2>1. u # t /\ progress[u] = "commit" /\ campaignLocks[c] = u /\ c \notin toSee[u]
    BY <1>2 DEF Lookups!LookupsAssumption
  <2>2. Lookups!Satisfied(u, c)
    BY <2>1 DEF Lookups!IInv, Lookups!LookStands
  <2> QED
    BY <1>3, <2>1, <2>2 DEF Lookups!Satisfied
<1>5. Lookups!ManagedUnlessMissed'
  BY <1>1 DEF Lookups!IInv, Lookups!ManagedUnlessMissed
<1> QED
  BY <1>2, <1>4, <1>5 DEF Lookups!IInv

\* An active campaign has a member who manages access, whatever rows are
\* switched, by how many, in what order: but for what a loop could not see.
THEOREM CampaignsStayManaged ==
  ASSUME Lookups!LookupsAssumption, \A c \in Campaigns : Lookups!HasManager(Lookups!Rows, c)
  PROVE  Lookups!Spec => []ManagedUnlessMissed
<1>1. Lookups!Init => Lookups!IInv
  <2> SUFFICES ASSUME Lookups!Init PROVE Lookups!IInv
    OBVIOUS
  <2> USE DEF Lookups!Init
  <2>1. Lookups!TypeOK /\ Lookups!StageFits /\ Lookups!WritesAlone
    BY DEF Lookups!TypeOK, Lookups!StageFits, Lookups!WritesAlone, Lookups!Stages
  <2>2. Lookups!TriggersCover /\ Lookups!LoopsCover /\ Lookups!LookStands
    BY DEF Lookups!TriggersCover, Lookups!LoopsCover, Lookups!LookStands
  <2>3. Lookups!ManagedUnlessMissed
    BY DEF Lookups!ManagedUnlessMissed
  <2> QED
    BY <2>1, <2>2, <2>3 DEF Lookups!IInv
<1>2. Lookups!IInv /\ [Lookups!Next]_(Lookups!lookupVars) => Lookups!IInv'
  <2> SUFFICES ASSUME Lookups!IInv, [Lookups!Next]_(Lookups!lookupVars) PROVE Lookups!IInv'
    OBVIOUS
  <2>1. CASE UNCHANGED Lookups!lookupVars
    <3> USE <2>1 DEF Lookups!lookupVars, Lookups!IInv
    <3>1. Lookups!TypeOK' /\ Lookups!StageFits' /\ Lookups!WritesAlone'
      BY DEF Lookups!TypeOK, Lookups!StageFits, Lookups!WritesAlone, Lookups!Stages,
             Lookups!Rows, Lookups!RoleRows, Lookups!Codes
    <3>2. \A u \in Administrators : /\ Lookups!Triggering(u)' = Lookups!Triggering(u)
                         /\ Lookups!Sees(u)' = Lookups!Sees(u)
                         /\ Lookups!Visible(u)' = Lookups!Visible(u)
      BY DEF Lookups!Triggering, Lookups!Sees, Lookups!Visible, Lookups!SwitchedOn,
             Lookups!SwitchedOff
    <3>3. Lookups!TriggersCover'
      BY <3>2 DEF Lookups!TriggersCover, Lookups!Covers
    <3>4. Lookups!LoopsCover'
      BY <3>2 DEF Lookups!LoopsCover, Lookups!Covers
    <3>5. Lookups!LookStands' /\ Lookups!ManagedUnlessMissed'
      BY <3>2 DEF Lookups!LookStands, Lookups!Satisfied, Lookups!ManagedUnlessMissed
    <3> QED
      BY <3>1, <3>3, <3>4, <3>5
  <2>2. CASE Lookups!Next
    BY <2>2, CommitBegins, LookupsCommit, LookupsRollback, SwitchStep, LookingStep
    DEF Lookups!Next
  <2> QED
    BY <2>1, <2>2
<1>3. Lookups!IInv => Lookups!ManagedUnlessMissed
  BY DEF Lookups!IInv
<1> QED
  BY <1>1, <1>2, <1>3, PTL DEF Lookups!Spec, ManagedUnlessMissed

-----------------------------------------------------------------------------
(* JwksCache: a withdrawn key is forgotten, and a published one is accepted. *)

\* Time passes.
LEMMA TickStep ==
  ASSUME Signing!CacheAssumption, Signing!IInv, Signing!Tick
  PROVE  Signing!IInv'
<1> USE DEF Signing!CacheAssumption, Signing!IInv, Signing!Older
<1>1. Signing!TypeOK'
  <2>1. fetch' \in [is : {"set", "none", "bad"}, keys : SUBSET Keys, why : Signing!Causes,
                    age : 0 .. Timeout]
    BY DEF Signing!Tick, Signing!TypeOK
  <2>2. stable' \in 0 .. Signing!Settling /\ sinceForced' \in 0 .. ForcedCooldown
        /\ sinceFailed' \in 0 .. RetryCooldown
    BY DEF Signing!Tick, Signing!TypeOK, Signing!Settling
  <2>3. withdrawn' \in [Keys -> 0 .. Signing!Memory + 1]
    BY DEF Signing!Tick, Signing!TypeOK, Signing!Memory
  <2>4. cache' \in [keys : SUBSET Keys, usable : BOOLEAN, age : 0 .. Lifespan + 1]
    BY DEF Signing!Tick, Signing!TypeOK, Signing!Aged, Signing!KeptOn, Signing!Empty
  <2> QED
    BY <2>1, <2>2, <2>3, <2>4
    DEF Signing!Tick, Signing!TypeOK, Signing!Causes, Signing!Settling, Signing!Memory
<1>2. Signing!LockFits'
  BY DEF Signing!Tick, Signing!LockFits, Signing!HoldsLock
<1>3. Signing!Forgets'
  BY DEF Signing!Tick, Signing!Forgets, Signing!TypeOK, Signing!Aged, Signing!KeptOn,
         Signing!Empty, Signing!Warm, Signing!Underway, Signing!Memory
<1>4. Signing!FetchFits'
  BY DEF Signing!Tick, Signing!FetchFits, Signing!TypeOK, Signing!Underway, Signing!Settling
<1>5. Signing!DueFits'
  BY DEF Signing!Tick, Signing!DueFits, Signing!TypeOK, Signing!Settling
<1>6. strayed \/ Signing!CooldownsFit'
  BY DEF Signing!Tick, Signing!CooldownsFit, Signing!TypeOK, Signing!Aged, Signing!KeptOn,
         Signing!Empty, Signing!Warm, Signing!Settling, Signing!MayRetry, Signing!MayForce
<1>7. Signing!MissFits'
  BY DEF Signing!Tick, Signing!MissFits, Signing!TypeOK, Signing!Aged, Signing!KeptOn,
         Signing!Empty, Signing!Warm, Signing!Has, Signing!Peeked
<1>8. Signing!WithdrawnKeyIsForgotten' /\ Signing!PublishedKeyIsAccepted'
  BY DEF Signing!Tick, Signing!WithdrawnKeyIsForgotten, Signing!PublishedKeyIsAccepted
<1> QED
  BY <1>1, <1>2, <1>3, <1>4, <1>5, <1>6, <1>7, <1>8 DEF Signing!Tick

\* The provider changes: nothing is due any more, and it has just begun to be as
\* it is.
LEMMA ProviderStep ==
  ASSUME Signing!CacheAssumption, Signing!IInv,
         \/ \E keys \in (SUBSET Keys) \ {{}} : Signing!Rotate(keys)
         \/ \E state \in {"up", "down", "bad"} : Signing!TurnTo(state)
  PROVE  Signing!IInv'
<1> USE DEF Signing!CacheAssumption, Signing!IInv
<1>1. /\ stable' = 0 /\ due' = [t \in Txs |-> FALSE]
      /\ UNCHANGED <<cache, sinceForced, sinceFailed, strayed, lock, at, kid, fetch>>
      /\ published' \in (SUBSET Keys) \ {{}} /\ health' \in {"up", "down", "bad"}
      /\ withdrawn' \in [Keys -> 0 .. Signing!Memory + 1]
      /\ \A k \in Keys : withdrawn'[k] <= withdrawn[k]
      /\ \A k \in published' : withdrawn'[k] = 0
  BY DEF Signing!Rotate, Signing!TurnTo, Signing!client, Signing!timestamps, Signing!TypeOK,
         Signing!Forgets, Signing!Memory
<1>2. Signing!TypeOK'
  BY <1>1 DEF Signing!TypeOK, Signing!Causes, Signing!Settling, Signing!Memory
<1>3. Signing!LockFits' /\ Signing!MissFits' /\ Signing!DueFits'
  BY <1>1 DEF Signing!LockFits, Signing!HoldsLock, Signing!MissFits, Signing!Has,
              Signing!Peeked, Signing!Warm, Signing!DueFits
<1>4. Signing!Forgets'
  BY <1>1 DEF Signing!Forgets, Signing!Warm, Signing!TypeOK, Signing!Memory
<1>5. Signing!FetchFits'
  BY <1>1 DEF Signing!FetchFits, Signing!TypeOK
<1>6. strayed \/ Signing!CooldownsFit'
  BY <1>1 DEF Signing!CooldownsFit, Signing!Warm, Signing!MayRetry, Signing!MayForce, Signing!TypeOK
<1>7. Signing!WithdrawnKeyIsForgotten'
  BY <1>1 DEF Signing!WithdrawnKeyIsForgotten, Signing!LockFits, Signing!TypeOK, Signing!Memory
<1>8. Signing!PublishedKeyIsAccepted'
  BY <1>1 DEF Signing!PublishedKeyIsAccepted
<1> QED
  BY <1>1, <1>2, <1>3, <1>4, <1>5, <1>6, <1>7, <1>8

\* A thread goes on without a change of the cache or of the fetch.
LEMMA AskStep ==
  ASSUME Signing!CacheAssumption, Signing!IInv, NEW t \in Txs,
         \/ \E k \in Keys : Signing!GetSigningKey(t, k)
         \/ Signing!Acquire(t) \/ Signing!End(t)
  PROVE  Signing!IInv'
<1> USE DEF Signing!CacheAssumption, Signing!IInv, Signing!Goto
<1>1. UNCHANGED <<published, health, stable, withdrawn, cache, sinceForced, sinceFailed,
                  strayed, fetch>>
  BY DEF Signing!GetSigningKey, Signing!Acquire, Signing!End, Signing!provider, Signing!client,
         Signing!timestamps
<1>2. Signing!TypeOK'
  <2>1. /\ at' \in [Txs -> {"idle", "lock", "again", "miss", "fetching", "returned",
                            "accepted", "refused"}]
        /\ kid' \in [Txs -> Keys \cup {None}] /\ due' \in [Txs -> BOOLEAN]
        /\ lock' \in Txs \cup {None}
    <3>1. ASSUME NEW k \in Keys, Signing!GetSigningKey(t, k)
          PROVE  /\ at' \in [Txs -> {"idle", "lock", "again", "miss", "fetching", "returned",
                                     "accepted", "refused"}]
                 /\ kid' \in [Txs -> Keys \cup {None}] /\ due' \in [Txs -> BOOLEAN]
                 /\ lock' \in Txs \cup {None}
      <4>1. (health = "up" /\ k \in published /\ stable = Signing!Settling) \in BOOLEAN
        OBVIOUS
      <4>2. due' \in [Txs -> BOOLEAN]
        BY <3>1, <4>1 DEF Signing!GetSigningKey, Signing!TypeOK
      <4> QED
        BY <3>1, <4>2 DEF Signing!GetSigningKey, Signing!TypeOK
    <3>2. CASE Signing!Acquire(t)
      BY <3>2 DEF Signing!Acquire, Signing!TypeOK
    <3>3. CASE Signing!End(t)
      BY <3>3 DEF Signing!End, Signing!TypeOK
    <3> QED
      BY <3>1, <3>2, <3>3
  <2> QED
    BY <1>1, <2>1 DEF Signing!TypeOK, Signing!Causes, Signing!Settling, Signing!Memory
<1>3. Signing!LockFits'
  BY DEF Signing!GetSigningKey, Signing!Acquire, Signing!End, Signing!TypeOK,
         Signing!LockFits, Signing!HoldsLock
<1>4. \A u \in Txs : (at'[u] = "returned" <=> at[u] = "returned") /\ (at'[u] = "miss" => at[u] = "miss" /\ kid'[u] = kid[u])
  BY DEF Signing!GetSigningKey, Signing!Acquire, Signing!End, Signing!TypeOK
<1>5. Signing!Forgets' /\ Signing!FetchFits'
  BY <1>1, <1>4 DEF Signing!Forgets, Signing!FetchFits, Signing!Warm
<1>6. Signing!DueFits'
  BY <1>1 DEF Signing!GetSigningKey, Signing!Acquire, Signing!End, Signing!TypeOK, Signing!DueFits,
              Signing!Settling
<1>7. Signing!MissFits'
  BY <1>1, <1>4 DEF Signing!MissFits, Signing!Has, Signing!Peeked, Signing!Warm
<1>8. strayed \/ Signing!CooldownsFit'
  BY <1>1 DEF Signing!CooldownsFit, Signing!Warm, Signing!MayRetry, Signing!MayForce
<1>9. Signing!WithdrawnKeyIsForgotten'
  <2>1. ASSUME NEW k \in Keys, Signing!GetSigningKey(t, k) PROVE Signing!WithdrawnKeyIsForgotten'
    BY <1>1, <2>1 DEF Signing!GetSigningKey, Signing!WithdrawnKeyIsForgotten, Signing!TypeOK,
         Signing!Has, Signing!Peeked, Signing!Warm, Signing!Forgets, Signing!Memory
  <2>2. CASE Signing!Acquire(t) \/ Signing!End(t)
    BY <1>1, <2>2 DEF Signing!Acquire, Signing!End, Signing!WithdrawnKeyIsForgotten, Signing!TypeOK,
         Signing!Memory
  <2> QED
    BY <2>1, <2>2
<1>10. Signing!PublishedKeyIsAccepted'
  BY <1>1 DEF Signing!GetSigningKey, Signing!Acquire, Signing!End, Signing!TypeOK,
         Signing!PublishedKeyIsAccepted
<1> QED
  BY <1>1, <1>2, <1>3, <1>5, <1>6, <1>7, <1>8, <1>9, <1>10

\* The thread that holds the lock looks at the cache, and may have to fetch.  It
\* gives up only for a key that is not due.
LEMMA ResolveStep ==
  ASSUME Signing!CacheAssumption, Signing!IInv, NEW t \in Txs, Signing!Resolve(t)
  PROVE  Signing!IInv'
<1> USE DEF Signing!CacheAssumption, Signing!IInv, Signing!Goto, Signing!Answer, Signing!Fetch,
            Signing!NoFetch, Signing!Empty
<1>1. /\ UNCHANGED <<published, health, stable, withdrawn, kid, due, sinceForced, strayed>>
      /\ at[t] = "again" /\ lock = t /\ kid[t] \in Keys
      /\ at' \in [Txs -> {"idle", "lock", "again", "miss", "fetching", "returned",
                          "accepted", "refused"}]
      /\ at'[t] \in {"accepted", "miss", "refused", "fetching"}
      /\ \A u \in Txs \ {t} : at'[u] = at[u] /\ ~Signing!HoldsLock(u)
  BY DEF Signing!Resolve, Signing!provider, Signing!client, Signing!timestamps, Signing!TypeOK,
         Signing!LockFits, Signing!HoldsLock
<1>2. /\ lock' = IF at'[t] \in {"accepted", "refused"} THEN None ELSE t
      /\ at'[t] = "accepted" => Signing!Has(kid[t])
      /\ at'[t] = "miss" => ~Signing!Has(kid[t])
      /\ at'[t] = "refused" => ~Signing!Peeked /\ (Signing!MayRetry => Signing!Warm)
      /\ fetch' = fetch \/ fetch' = [is |-> "none", keys |-> {}, why |-> "cold", age |-> 0]
      /\ \/ cache' = cache /\ sinceFailed' = sinceFailed
         \/ /\ cache' = [keys |-> {}, usable |-> FALSE, age |-> Lifespan + 1]
            /\ sinceFailed' = 0 /\ Signing!Warm /\ ~Signing!Peeked /\ at'[t] = "refused"
  BY <1>1 DEF Signing!Resolve, Signing!client, Signing!timestamps, Signing!TypeOK
<1>3. Signing!TypeOK'
  <2>1. /\ cache' \in [keys : SUBSET Keys, usable : BOOLEAN, age : 0 .. Lifespan + 1]
        /\ sinceFailed' \in 0 .. RetryCooldown
    <3>1. CASE cache' = cache /\ sinceFailed' = sinceFailed
      BY <3>1 DEF Signing!TypeOK
    <3>2. CASE cache' = [keys |-> {}, usable |-> FALSE, age |-> Lifespan + 1] /\ sinceFailed' = 0
      <4>1. 0 \in 0 .. RetryCooldown /\ Lifespan + 1 \in 0 .. Lifespan + 1
        OBVIOUS
      <4>2. [keys |-> {}, usable |-> FALSE, age |-> Lifespan + 1]
            \in [keys : SUBSET Keys, usable : BOOLEAN, age : 0 .. Lifespan + 1]
        BY <4>1
      <4> QED
        BY <3>2, <4>1, <4>2
    <3> QED
      BY <1>2, <3>1, <3>2
  <2>2. fetch' \in [is : {"set", "none", "bad"}, keys : SUBSET Keys, why : Signing!Causes,
                    age : 0 .. Timeout]
    BY <1>2 DEF Signing!TypeOK, Signing!Causes
  <2> QED
    BY <1>1, <1>2, <2>1, <2>2
    DEF Signing!TypeOK, Signing!Causes, Signing!Settling, Signing!Memory
<1>4. Signing!LockFits'
  BY <1>1, <1>2 DEF Signing!LockFits, Signing!HoldsLock
<1>5. Signing!Forgets' /\ Signing!FetchFits'
  BY <1>1, <1>2
  DEF Signing!Forgets, Signing!FetchFits, Signing!Warm, Signing!HoldsLock, Signing!TypeOK
<1>6. Signing!DueFits' /\ Signing!MissFits'
  BY <1>1, <1>2 DEF Signing!DueFits, Signing!MissFits, Signing!HoldsLock, Signing!Has,
                    Signing!Peeked, Signing!Warm, Signing!Settling
<1>7. strayed \/ Signing!CooldownsFit'
  BY <1>1, <1>2 DEF Signing!CooldownsFit, Signing!Warm, Signing!Peeked, Signing!MayRetry,
                    Signing!MayForce, Signing!TypeOK
<1>8. Signing!WithdrawnKeyIsForgotten'
  BY <1>1, <1>2 DEF Signing!WithdrawnKeyIsForgotten, Signing!Has, Signing!Peeked, Signing!Warm,
                    Signing!Forgets, Signing!Memory, Signing!TypeOK
<1>9. Signing!PublishedKeyIsAccepted'
  <2>1. at'[t] = "refused" /\ due[t] => strayed
    BY <1>2 DEF Signing!DueFits, Signing!CooldownsFit, Signing!Peeked, Signing!Warm,
                Signing!MayRetry, Signing!Settling, Signing!TypeOK
  <2> QED
    BY <1>1, <2>1 DEF Signing!PublishedKeyIsAccepted
<1> QED
  BY <1>1, <1>3, <1>4, <1>5, <1>6, <1>7, <1>8, <1>9

\* A key that the cached set lacks: a forced refresh, or a refusal while one of
\* the cooldowns runs, which is right unless a fetch has gone past the choke point.
LEMMA ForceStep ==
  ASSUME Signing!CacheAssumption, Signing!IInv, NEW t \in Txs, Signing!ForceRefresh(t)
  PROVE  Signing!IInv'
<1> USE DEF Signing!CacheAssumption, Signing!IInv, Signing!Goto, Signing!Answer, Signing!Fetch,
            Signing!NoFetch
<1>1. /\ UNCHANGED <<published, health, stable, withdrawn, kid, due, cache, sinceFailed>>
      /\ at[t] = "miss" /\ lock = t /\ kid[t] \in Keys /\ ~Signing!Has(kid[t])
      /\ at' \in [Txs -> {"idle", "lock", "again", "miss", "fetching", "returned",
                          "accepted", "refused"}]
      /\ at'[t] \in {"refused", "fetching"}
      /\ \A u \in Txs \ {t} : at'[u] = at[u] /\ ~Signing!HoldsLock(u)
  BY DEF Signing!ForceRefresh, Signing!provider, Signing!client, Signing!timestamps,
         Signing!TypeOK, Signing!LockFits, Signing!HoldsLock, Signing!MissFits
<1>2. /\ lock' = IF at'[t] = "refused" THEN None ELSE t
      /\ at'[t] = "refused" => IF Signing!MayForce THEN ~Signing!MayRetry ELSE Signing!Warm
      /\ \/ fetch' = fetch
         \/ fetch' = [is |-> "none", keys |-> {}, why |-> "forced", age |-> 0]
         \/ fetch' = [is |-> "none", keys |-> {}, why |-> "assumed", age |-> 0] /\ strayed'
      /\ sinceForced' = sinceForced \/ (sinceForced' = 0 /\ ~Signing!MayRetry)
  <2>1. at[t] = "miss" /\ at \in [Txs -> {"idle", "lock", "again", "miss", "fetching", "returned",
                          "accepted", "refused"}]
    BY <1>1 DEF Signing!TypeOK
  <2>2. /\ Signing!MayForce /\ Signing!MayRetry /\ at'[t] = "fetching" /\ lock' = lock
           /\ fetch' = [is |-> "none", keys |-> {}, why |-> "forced", age |-> 0]
           /\ sinceForced' = sinceForced
        \/ /\ Signing!MayForce /\ ~Signing!MayRetry /\ at'[t] = "refused" /\ lock' = None
           /\ fetch' = fetch /\ sinceForced' = 0
        \/ /\ ~Signing!MayForce /\ Signing!Warm /\ at'[t] = "refused" /\ lock' = None
           /\ fetch' = fetch /\ sinceForced' = sinceForced
        \/ /\ ~Signing!MayForce /\ ~Signing!Warm /\ at'[t] = "fetching" /\ lock' = lock
           /\ fetch' = [is |-> "none", keys |-> {}, why |-> "assumed", age |-> 0] /\ strayed' = TRUE
           /\ sinceForced' = sinceForced /\ strayed' = TRUE
    BY <2>1 DEF Signing!ForceRefresh, Signing!client, Signing!timestamps
  <2>3. lock' = IF at'[t] = "refused" THEN None ELSE t
    BY <1>1, <2>2
  <2>4. at'[t] = "refused" => IF Signing!MayForce THEN ~Signing!MayRetry ELSE Signing!Warm
    BY <2>2 DEF Signing!MayForce, Signing!MayRetry, Signing!Warm
  <2>5. \/ fetch' = fetch
        \/ fetch' = [is |-> "none", keys |-> {}, why |-> "forced", age |-> 0]
        \/ fetch' = [is |-> "none", keys |-> {}, why |-> "assumed", age |-> 0] /\ strayed'
    BY <2>2
  <2>6. sinceForced' = sinceForced \/ (sinceForced' = 0 /\ ~Signing!MayRetry)
    BY <2>2
  <2> QED
    BY <2>3, <2>4, <2>5, <2>6
<1>10. strayed' \in BOOLEAN /\ (strayed => strayed')
  BY DEF Signing!ForceRefresh, Signing!client, Signing!timestamps, Signing!TypeOK
<1>3. Signing!TypeOK'
  BY <1>1, <1>2, <1>10 DEF Signing!TypeOK, Signing!Causes, Signing!Settling, Signing!Memory
<1>4. Signing!LockFits'
  BY <1>1, <1>2, <1>10 DEF Signing!LockFits, Signing!HoldsLock
<1>5. Signing!Forgets' /\ Signing!FetchFits'
  BY <1>1, <1>2, <1>10
  DEF Signing!Forgets, Signing!FetchFits, Signing!Warm, Signing!HoldsLock, Signing!TypeOK
<1>6. Signing!DueFits' /\ Signing!MissFits'
  BY <1>1, <1>2, <1>10 DEF Signing!DueFits, Signing!MissFits, Signing!HoldsLock, Signing!Has,
                    Signing!Peeked, Signing!Warm, Signing!Settling
<1>7. strayed' \/ Signing!CooldownsFit'
  BY <1>1, <1>2, <1>10 DEF Signing!CooldownsFit, Signing!Warm, Signing!MayRetry,
                    Signing!MayForce, Signing!TypeOK
<1>8. Signing!WithdrawnKeyIsForgotten'
  BY <1>1, <1>2, <1>10 DEF Signing!WithdrawnKeyIsForgotten, Signing!Memory, Signing!TypeOK
<1>9. Signing!PublishedKeyIsAccepted'
  <2>1. at'[t] = "refused" /\ due[t] => strayed'
    BY <1>1, <1>2, <1>10 DEF Signing!DueFits, Signing!CooldownsFit, Signing!Peeked, Signing!Warm,
                Signing!Has, Signing!MayRetry, Signing!MayForce, Signing!Settling, Signing!TypeOK
  <2> QED
    BY <1>1, <1>2, <1>10, <2>1 DEF Signing!PublishedKeyIsAccepted
<1> QED
  BY <1>1, <1>3, <1>4, <1>5, <1>6, <1>7, <1>8, <1>9

\* The provider answers with what it serves now.
LEMMA RespondStep ==
  ASSUME Signing!CacheAssumption, Signing!IInv, NEW t \in Txs, Signing!Respond(t)
  PROVE  Signing!IInv'
<1> USE DEF Signing!CacheAssumption, Signing!IInv
<1>1. /\ UNCHANGED <<published, health, stable, withdrawn, kid, due, cache, sinceFailed,
                    sinceForced, strayed, lock>>
      /\ at[t] = "fetching" /\ at' = [at EXCEPT ![t] = "returned"] /\ lock = t
      /\ \A u \in Txs \ {t} : ~Signing!HoldsLock(u)
  BY DEF Signing!Respond, Signing!Goto, Signing!provider, Signing!client, Signing!timestamps,
         Signing!LockFits, Signing!HoldsLock
<1>2. fetch \in [is : {"set", "none", "bad"}, keys : SUBSET Keys, why : Signing!Causes,
                 age : 0 .. Timeout]
      /\ published \in SUBSET Keys
  BY DEF Signing!TypeOK
<1>3. /\ fetch' \in [is : {"set", "none", "bad"}, keys : SUBSET Keys, why : Signing!Causes,
                     age : 0 .. Timeout]
      /\ fetch'.why = fetch.why /\ fetch'.age = fetch.age
      /\ fetch'.keys = IF health = "up" THEN published ELSE {}
      /\ health = "up" <=> fetch'.is = "set"
  BY <1>2 DEF Signing!Respond
<1>4. Signing!TypeOK'
  BY <1>1, <1>3 DEF Signing!TypeOK, Signing!Causes, Signing!Settling, Signing!Memory
<1>5. \A u \in Txs : /\ Signing!HoldsLock(u)' <=> Signing!HoldsLock(u)
                     /\ at'[u] # at[u] => u = t /\ at'[u] = "returned"
                     /\ at'[u] = "returned" => u = t
  BY <1>1 DEF Signing!HoldsLock, Signing!TypeOK
<1>6. Signing!LockFits'
  BY <1>1, <1>5 DEF Signing!LockFits
<1>7. Signing!Forgets' /\ Signing!FetchFits'
  BY <1>1, <1>3, <1>5 DEF Signing!Forgets, Signing!FetchFits, Signing!Warm, Signing!TypeOK
<1>8. Signing!DueFits' /\ Signing!MissFits'
  BY <1>1, <1>5 DEF Signing!DueFits, Signing!MissFits, Signing!Has, Signing!Peeked,
                    Signing!Warm, Signing!Settling, Signing!TypeOK
<1>9. strayed \/ Signing!CooldownsFit'
  BY <1>1 DEF Signing!CooldownsFit, Signing!Warm, Signing!MayRetry, Signing!MayForce
<1>10. Signing!WithdrawnKeyIsForgotten' /\ Signing!PublishedKeyIsAccepted'
  BY <1>1, <1>5 DEF Signing!WithdrawnKeyIsForgotten, Signing!PublishedKeyIsAccepted, Signing!Memory
<1> QED
  BY <1>1, <1>4, <1>6, <1>7, <1>8, <1>9, <1>10

\* What was fetched goes into the cache.  A key is refused only if it is not in
\* the set, or there is none: then the provider has changed since it answered.
LEMMA ReturnStep ==
  ASSUME Signing!CacheAssumption, Signing!IInv, NEW t \in Txs, Signing!Return(t)
  PROVE  Signing!IInv'
<1> USE DEF Signing!CacheAssumption, Signing!IInv
<1>1. /\ UNCHANGED <<published, health, stable, withdrawn, kid, due, strayed>>
      /\ at[t] = "returned" /\ lock = t /\ kid[t] \in Keys
      /\ \A u \in Txs \ {t} : ~Signing!HoldsLock(u)
  BY DEF Signing!Return, Signing!provider, Signing!LockFits, Signing!HoldsLock
<1>2. /\ fetch.is \in {"set", "none", "bad"} /\ fetch.keys \in SUBSET Keys
      /\ fetch.why \in Signing!Causes /\ fetch.age \in 0 .. Timeout
  BY DEF Signing!TypeOK
<1>3. /\ \A k \in fetch.keys : withdrawn[k] <= fetch.age
      /\ fetch.is # "set" => fetch.keys = {}
      /\ health = "up" /\ stable > fetch.age => fetch.is = "set" /\ fetch.keys = published
      /\ strayed \/ fetch.why # "assumed"
  BY <1>1 DEF Signing!Forgets, Signing!FetchFits
<1>4. /\ at' = [at EXCEPT ![t] = at'[t]] /\ at'[t] \in {"miss", "accepted", "refused"}
      /\ at'[t] = "miss" => kid[t] \notin fetch.keys /\ fetch.is = "set" /\ fetch.why = "cold"
      /\ at'[t] = "accepted" => kid[t] \in fetch.keys
      /\ at'[t] = "refused" => kid[t] \notin fetch.keys
      /\ lock' = IF at'[t] = "miss" THEN t ELSE None
  BY <1>1 DEF Signing!Return, Signing!TypeOK
<1>5. \/ cache' = cache /\ fetch.is = "none"
      \/ /\ cache' = [keys |-> fetch.keys, usable |-> fetch.is = "set", age |-> 0]
         /\ fetch.is = "set" \/ (fetch.is = "bad" /\ fetch.why = "assumed")
      \/ /\ cache' = [keys |-> {}, usable |-> FALSE, age |-> Lifespan + 1]
         /\ fetch.is = "bad"
  BY <1>2 DEF Signing!Return, Signing!Cached, Signing!LeftInCache, Signing!Got, Signing!Guarded,
              Signing!Empty
<1>6. Signing!TypeOK'
  <2>1. cache' \in [keys : SUBSET Keys, usable : BOOLEAN, age : 0 .. Lifespan + 1]
    <3>1. 0 \in 0 .. Lifespan + 1 /\ Lifespan + 1 \in 0 .. Lifespan + 1
          /\ (fetch.is = "set") \in BOOLEAN
      OBVIOUS
    <3>2. [keys |-> fetch.keys, usable |-> fetch.is = "set", age |-> 0]
          \in [keys : SUBSET Keys, usable : BOOLEAN, age : 0 .. Lifespan + 1]
      BY <1>2, <3>1
    <3>3. [keys |-> {}, usable |-> FALSE, age |-> Lifespan + 1]
          \in [keys : SUBSET Keys, usable : BOOLEAN, age : 0 .. Lifespan + 1]
      BY <3>1
    <3> QED
      BY <1>5, <3>2, <3>3 DEF Signing!TypeOK
  <2>2. fetch' \in [is : {"set", "none", "bad"}, keys : SUBSET Keys, why : Signing!Causes,
                    age : 0 .. Timeout]
    BY DEF Signing!Return, Signing!NoFetch, Signing!Causes
  <2>3. sinceFailed' \in 0 .. RetryCooldown /\ sinceForced' \in 0 .. ForcedCooldown
    BY DEF Signing!Return, Signing!TypeOK
  <2>4. /\ lock' \in Txs \cup {None}
        /\ at' \in [Txs -> {"idle", "lock", "again", "miss", "fetching", "returned",
                            "accepted", "refused"}]
    BY <1>4 DEF Signing!TypeOK
  <2> QED
    BY <1>1, <2>1, <2>2, <2>3, <2>4
    DEF Signing!TypeOK, Signing!Causes, Signing!Settling, Signing!Memory
<1>7. \A u \in Txs : /\ u # t => at'[u] = at[u]
                     /\ at'[u] # "returned"
                     /\ at'[u] = "miss" => u = t
  BY <1>1, <1>4 DEF Signing!HoldsLock, Signing!TypeOK
<1>8. Signing!LockFits'
  BY <1>1, <1>4, <1>7 DEF Signing!LockFits, Signing!HoldsLock
<1>9. Signing!Forgets'
  <2>1. Signing!Warm' => \A k \in cache'.keys : withdrawn[k] <= cache'.age + Timeout
    BY <1>2, <1>3, <1>5 DEF Signing!Forgets, Signing!Warm, Signing!TypeOK, Signing!Memory
  <2> QED
    BY <1>1, <1>7, <2>1 DEF Signing!Forgets
<1>10. Signing!FetchFits'
  BY <1>7 DEF Signing!FetchFits, Signing!Return, Signing!NoFetch
<1>11. Signing!DueFits'
  BY <1>1, <1>4, <1>7 DEF Signing!DueFits, Signing!Settling
<1>12. Signing!MissFits'
  BY <1>1, <1>4, <1>5, <1>7 DEF Signing!MissFits, Signing!Has
<1>13. strayed \/ Signing!CooldownsFit'
  <2> SUFFICES ASSUME ~strayed
               PROVE  Signing!CooldownsFit'
    OBVIOUS
  <2>1. Signing!CooldownsFit /\ fetch.why # "assumed"
    BY <1>3
  <2>2. stable \in Nat /\ sinceForced \in Nat
    BY DEF Signing!TypeOK, Signing!Settling
  <2>3. health = "up" => stable <= Timeout \/ (fetch.is = "set" /\ fetch.keys = published)
    BY <1>2, <1>3, <2>2
  <2>4. /\ Signing!Warm' => cache'.usable
        /\ Signing!Warm' => Signing!Warm \/ fetch.is = "set"
        /\ fetch.is = "set" => cache'.keys = fetch.keys
        /\ fetch.is = "none" => cache' = cache
        /\ fetch.is = "bad" => ~Signing!Warm'
    <3>1. CASE cache' = cache /\ fetch.is = "none"
      BY <2>1, <3>1 DEF Signing!CooldownsFit, Signing!Warm
    <3>2. CASE /\ cache' = [keys |-> fetch.keys, usable |-> fetch.is = "set", age |-> 0]
               /\ fetch.is = "set"
      BY <3>2 DEF Signing!Warm
    <3>3. CASE /\ cache' = [keys |-> {}, usable |-> FALSE, age |-> Lifespan + 1]
               /\ fetch.is = "bad"
      BY <3>3 DEF Signing!Warm
    <3> QED
      BY <1>5, <2>1, <3>1, <3>2, <3>3
  <2>5. /\ sinceFailed' = IF fetch.is = "set" THEN RetryCooldown ELSE 0
        /\ sinceForced' = 0 \/ sinceForced' = sinceForced
    BY <2>1 DEF Signing!Return, Signing!Guarded
  <2>6. health = "up" /\ ~Signing!MayRetry' => stable <= sinceFailed' + Timeout
    BY <2>3, <2>5, <2>2 DEF Signing!MayRetry
  <2>7. health = "up" /\ ~Signing!MayForce' /\ Signing!Warm' =>
          stable <= sinceForced' + RetryCooldown + Timeout \/ cache'.keys = published
    BY <2>3, <2>4, <2>5, <2>2 DEF Signing!MayForce
  <2> QED
    BY <1>1, <2>4, <2>6, <2>7 DEF Signing!CooldownsFit
<1>14. Signing!WithdrawnKeyIsForgotten'
  <2>1. at'[t] = "accepted" => withdrawn[kid[t]] <= Signing!Memory
    BY <1>1, <1>2, <1>3, <1>4 DEF Signing!TypeOK, Signing!Memory
  <2> QED
    BY <1>1, <1>7, <2>1 DEF Signing!WithdrawnKeyIsForgotten, Signing!Memory
<1>15. Signing!PublishedKeyIsAccepted'
  <2>1. ~(at'[t] = "refused" /\ due[t])
    BY <1>2, <1>3, <1>4 DEF Signing!DueFits, Signing!Settling
  <2> QED
    BY <1>1, <1>7, <2>1 DEF Signing!PublishedKeyIsAccepted
<1> QED
  BY <1>1, <1>6, <1>8, <1>9, <1>10, <1>11, <1>12, <1>13, <1>14, <1>15

\* The inductive invariant of the cache always holds.
LEMMA SigningInvariance == ASSUME Signing!CacheAssumption PROVE Signing!Spec => []Signing!IInv
<1>1. Signing!Init => Signing!IInv
  <2> SUFFICES ASSUME Signing!Init PROVE Signing!IInv
    OBVIOUS
  <2> USE DEF Signing!CacheAssumption, Signing!Init
  <2>1. Signing!TypeOK
    <3>1. [keys |-> {}, usable |-> FALSE, age |-> Lifespan + 1]
          \in [keys : SUBSET Keys, usable : BOOLEAN, age : 0 .. Lifespan + 1]
      OBVIOUS
    <3>2. [is |-> "none", keys |-> {}, why |-> "cold", age |-> 0]
          \in [is : {"set", "none", "bad"}, keys : SUBSET Keys, why : Signing!Causes, age : 0 .. Timeout]
      BY DEF Signing!Causes
    <3>3. withdrawn \in [Keys -> 0 .. Signing!Memory + 1]
      BY DEF Signing!Memory
    <3>4. /\ cache \in [keys : SUBSET Keys, usable : BOOLEAN, age : 0 .. Lifespan + 1]
          /\ fetch \in [is : {"set", "none", "bad"}, keys : SUBSET Keys, why : Signing!Causes,
                        age : 0 .. Timeout]
      BY <3>1, <3>2 DEF Signing!Empty, Signing!NoFetch
    <3>5. /\ published \in (SUBSET Keys) \ {{}} /\ health \in {"up", "down", "bad"}
          /\ stable \in 0 .. Signing!Settling
          /\ sinceForced \in 0 .. ForcedCooldown /\ sinceFailed \in 0 .. RetryCooldown
      BY DEF Signing!Settling
    <3>6. lock \in Txs \cup {None} /\ strayed \in BOOLEAN
      OBVIOUS
    <3>7. /\ at \in [Txs -> {"idle", "lock", "again", "miss", "fetching", "returned",
                             "accepted", "refused"}]
          /\ kid \in [Txs -> Keys \cup {None}] /\ due \in [Txs -> BOOLEAN]
      OBVIOUS
    <3> QED
      BY <3>3, <3>4, <3>5, <3>6, <3>7 DEF Signing!TypeOK
  <2>2. Signing!LockFits /\ Signing!DueFits /\ Signing!MissFits
    BY DEF Signing!LockFits, Signing!HoldsLock, Signing!DueFits, Signing!MissFits
  <2>3. Signing!Forgets /\ Signing!FetchFits
    BY DEF Signing!Forgets, Signing!FetchFits, Signing!Warm, Signing!Empty, Signing!NoFetch
  <2>4. Signing!CooldownsFit
    BY DEF Signing!CooldownsFit, Signing!Warm, Signing!Empty, Signing!MayRetry, Signing!MayForce
  <2> QED
    BY <2>1, <2>2, <2>3, <2>4
    DEF Signing!IInv, Signing!WithdrawnKeyIsForgotten, Signing!PublishedKeyIsAccepted
<1>2. ASSUME Signing!IInv, [Signing!Next]_(Signing!vars)
      PROVE  Signing!IInv'
  <2>1. CASE Signing!Tick
    BY <1>2, <2>1, TickStep
  <2>2. CASE \/ \E keys \in (SUBSET Keys) \ {{}} : Signing!Rotate(keys)
             \/ \E state \in {"up", "down", "bad"} : Signing!TurnTo(state)
    BY <1>2, <2>2, ProviderStep
  <2>3. ASSUME NEW t \in Txs,
               \/ \E k \in Keys : Signing!GetSigningKey(t, k)
               \/ Signing!Acquire(t) \/ Signing!End(t)
        PROVE  Signing!IInv'
    BY <1>2, <2>3, AskStep
  <2>4. ASSUME NEW t \in Txs, Signing!Resolve(t)
        PROVE  Signing!IInv'
    BY <1>2, <2>4, ResolveStep
  <2>5. ASSUME NEW t \in Txs, Signing!ForceRefresh(t)
        PROVE  Signing!IInv'
    BY <1>2, <2>5, ForceStep
  <2>6. ASSUME NEW t \in Txs, Signing!Respond(t)
        PROVE  Signing!IInv'
    BY <1>2, <2>6, RespondStep
  <2>7. ASSUME NEW t \in Txs, Signing!Return(t)
        PROVE  Signing!IInv'
    BY <1>2, <2>7, ReturnStep
  <2>8. CASE UNCHANGED Signing!vars
    <3>1. UNCHANGED <<published, health, stable, withdrawn, cache, sinceForced, sinceFailed,
                      lock, at, kid, due, fetch, strayed>>
      BY <2>8 DEF Signing!vars, Signing!provider, Signing!client, Signing!timestamps,
                  Signing!threads
    <3>2. Signing!TypeOK'
      BY <1>2, <3>1 DEF Signing!IInv, Signing!TypeOK, Signing!Causes, Signing!Settling,
                        Signing!Memory
    <3>3. Signing!LockFits' /\ Signing!DueFits' /\ Signing!MissFits'
      BY <1>2, <3>1 DEF Signing!IInv, Signing!LockFits, Signing!HoldsLock, Signing!DueFits,
                        Signing!MissFits, Signing!Has, Signing!Peeked, Signing!Warm,
                        Signing!Settling
    <3>4. Signing!Forgets' /\ Signing!FetchFits'
      BY <1>2, <3>1 DEF Signing!IInv, Signing!Forgets, Signing!FetchFits, Signing!Warm
    <3>5. strayed \/ Signing!CooldownsFit'
      BY <1>2, <3>1 DEF Signing!IInv, Signing!CooldownsFit, Signing!Warm, Signing!MayRetry,
                        Signing!MayForce
    <3>6. Signing!WithdrawnKeyIsForgotten' /\ Signing!PublishedKeyIsAccepted'
      BY <1>2, <3>1 DEF Signing!IInv, Signing!WithdrawnKeyIsForgotten,
                        Signing!PublishedKeyIsAccepted, Signing!Memory
    <3> QED
      BY <3>1, <3>2, <3>3, <3>4, <3>5, <3>6 DEF Signing!IInv
  <2> QED
    BY <1>2, <2>1, <2>2, <2>3, <2>4, <2>5, <2>6, <2>7, <2>8 DEF Signing!Next
<1> QED
  BY <1>1, <1>2, PTL DEF Signing!Spec

\* However threads ask, wait and fetch, and whenever the provider answers: a key
\* that it has withdrawn is accepted no longer than the cache may keep it and a
\* fetch may take.
THEOREM WithdrawnKeysAreForgotten ==
  ASSUME Signing!CacheAssumption PROVE Signing!Spec => []WithdrawnKeyIsForgotten
BY SigningInvariance, PTL DEF Signing!IInv, WithdrawnKeyIsForgotten

\* A key that has been served for both cooldowns and a fetch is accepted, unless
\* a fetch has gone past the choke point.
THEOREM PublishedKeysAreAccepted ==
  ASSUME Signing!CacheAssumption PROVE Signing!Spec => []PublishedKeyIsAccepted
BY SigningInvariance, PTL DEF Signing!IInv, PublishedKeyIsAccepted
=============================================================================
