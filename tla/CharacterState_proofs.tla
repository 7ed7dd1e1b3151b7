------------------------- MODULE CharacterState_proofs -------------------------
(* The transactions on encounters, hit points and resources are serial, and *)
(* their history explains every value, for any number of them.              *)
EXTENDS EncounterCommands, TLAPS

\* A call the system may be given, by its kind.
LEMMA CallFields ==
  ASSUME NEW k \in Calls
  PROVE  /\ k.kind \in {"turn", "end", "adjust"}
         /\ k.kind \in {"turn", "end"} =>
              k.encounter \in Encounters /\ k.campaign \in Campaigns \cup {None}
         /\ k.kind = "turn" =>
              k.slot \in Slots /\ k.row \in HitPoints \cup {None} /\ k.amount \in Nat
         /\ k.kind = "adjust" => k.row \in Rows /\ k.amount \in Int
  BY CallsAssumption DEF AnyCall

\* The initial state satisfies the inductive invariant.
LEMMA InitIInv == Init => IInv
<1> SUFFICES ASSUME Init PROVE IInv
  OBVIOUS
<1> USE NoneAssumption, RowsAssumption DEF Init
<1>1. TypeOK
  BY DEF TypeOK, Steps
<1>2. CallInv /\ EncounterInv /\ RowInv
  BY DEF CallInv, EncounterInv, RowInv, HoldsEncounter
<1>3. WithinBounds /\ HistoryExplainsValue
  BY DEF WithinBounds, HistoryExplainsValue
<1> QED
  BY <1>1, <1>2, <1>3 DEF IInv

\* The state after a transaction has ended is well typed, as far as its locks
\* and its own variables go.
LEMMA ReleaseTypes ==
  ASSUME TypeOK, NEW t \in Txs, Release(t)
  PROVE  /\ encounterLock' \in [Encounters -> Txs \cup {None}]
         /\ rowLock' \in [Rows -> Txs \cup {None}]
         /\ pc' \in [Txs -> Steps]
         /\ call' \in [Txs -> Calls \cup {None}]
         /\ seen' \in [Txs -> Nat]
         /\ owner' \in [Txs -> Campaigns \cup {None}]
         /\ made' \in Nat
  BY DEF TypeOK, Release, Goto, Steps

\* The row a transaction reads or writes, and the number it computes for it.
LEMMA RowOfCall ==
  ASSUME TypeOK, CallInv, NEW t \in Txs, pc[t] \in {"row", "write"}
  PROVE  /\ call[t] \in Calls
         /\ call[t].row \in Rows
         /\ call[t].kind = "turn" => call[t].row \in HitPoints /\ call[t].amount \in Nat \ {0}
         /\ NewValue(call[t], seen[t]) \in Int
         /\ call[t].kind # "turn" /\ call[t].row \in HitPoints =>
              NewValue(call[t], seen[t]) \in 0 .. Maximum[call[t].row]
<1> USE DEF CallInv
<1>1. call[t] \in Calls /\ (call[t].kind = "adjust" \/ (call[t].kind = "turn" /\ Damaging(call[t])))
  OBVIOUS
<1>2. call[t].row \in Rows /\ call[t].amount \in Int
      /\ (call[t].kind = "turn" => call[t].row \in HitPoints /\ call[t].amount \in Nat \ {0})
  BY <1>1, CallFields DEF Damaging, Rows
<1>3. seen[t] \in Nat /\ Maximum[call[t].row] \in Nat
  BY <1>2, RowsAssumption DEF TypeOK
<1> QED
  BY <1>1, <1>2, <1>3 DEF NewValue, Clamp

\* What a change writes is a natural number within the bounds of its row.
LEMMA ChangeIsBounded ==
  ASSUME TypeOK, CallInv, RowInv, WithinBounds, NEW t \in Txs, pc[t] = "write", Change(t)
  PROVE  /\ call[t].row \in Rows /\ seen[t] = value[call[t].row]
         /\ NewValue(call[t], seen[t]) \in 0 .. Maximum[call[t].row]
<1>1. /\ call[t].row \in Rows
      /\ call[t].kind = "turn" => call[t].row \in HitPoints /\ call[t].amount \in Nat \ {0}
      /\ NewValue(call[t], seen[t]) \in Int
      /\ call[t].kind # "turn" /\ call[t].row \in HitPoints =>
           NewValue(call[t], seen[t]) \in 0 .. Maximum[call[t].row]
  BY RowOfCall
<1>2. seen[t] = value[call[t].row] /\ value[call[t].row] \in 0 .. Maximum[call[t].row]
  BY <1>1 DEF RowInv, WithinBounds
<1>3. Maximum[call[t].row] \in Nat /\ RowAccepts(call[t].row, NewValue(call[t], seen[t]))
  BY <1>1, RowsAssumption DEF Change
<1>4. CASE call[t].kind = "turn"
  <2>1. NewValue(call[t], seen[t]) = value[call[t].row] - call[t].amount
    BY <1>2, <1>4 DEF NewValue
  <2> QED
    BY <1>1, <1>2, <1>3, <1>4, <2>1 DEF RowAccepts
<1>5. CASE call[t].kind # "turn" /\ call[t].row \in HitPoints
  BY <1>1, <1>2, <1>5
<1>6. CASE call[t].row \in Resources
  BY <1>1, <1>2, <1>3, <1>6 DEF RowAccepts
<1> QED
  BY <1>1, <1>4, <1>5, <1>6 DEF Rows

\* Every step keeps the state well typed.
LEMMA TypeStep ==
  ASSUME IInv, [Next]_vars
  PROVE  TypeOK'
<1>0. TypeOK /\ CallInv /\ RowInv /\ WithinBounds
  BY DEF IInv
<1>1. CASE UNCHANGED vars
  BY <1>0, <1>1 DEF vars, tables, TypeOK
<1>2. ASSUME NEW t \in Txs, NEW k \in Calls, Begin(t, k) PROVE TypeOK'
  BY <1>0, <1>2 DEF Begin, Goto, tables, TypeOK, Steps
<1>3. ASSUME NEW t \in Txs, Rollback(t) \/ EncounterRefused(t) \/ TurnTaken(t) \/ RowRejects(t)
                             \/ AdjustNothing(t)
      PROVE  TypeOK'
  <2>1. Release(t) /\ UNCHANGED tables
    BY <1>3 DEF Rollback, EncounterRefused, TurnTaken, RowRejects, AdjustNothing
  <2> QED
    BY <1>0, <2>1, ReleaseTypes DEF tables, TypeOK
<1>4. ASSUME NEW t \in Txs, LockEncounter(t) \/ InsertTurn(t) PROVE TypeOK'
  <2>1. CASE LockEncounter(t)
    <3>1. call[t].encounter \in Encounters
      BY <1>0, <2>1, CallFields DEF LockEncounter, CallInv
    <3>2. pc' \in [Txs -> Steps]
      BY <1>0, <2>1 DEF LockEncounter, Goto, TypeOK, Steps
    <3> QED
      BY <1>0, <2>1, <3>1, <3>2 DEF LockEncounter, tables, TypeOK
  <2>2. CASE InsertTurn(t)
    <3>1. pc' \in [Txs -> Steps]
      BY <1>0, <2>2 DEF InsertTurn, Goto, TypeOK, Steps
    <3> QED
      BY <1>0, <2>2, <3>1 DEF InsertTurn, tables, TypeOK
  <2> QED
    BY <1>4, <2>1, <2>2
<1>5. ASSUME NEW t \in Txs, LockRow(t) PROVE TypeOK'
  <2>1. call[t].row \in Rows
    BY <1>0, <1>5, RowOfCall DEF LockRow
  <2> QED
    BY <1>0, <1>5, <2>1 DEF LockRow, Goto, tables, TypeOK, Steps
<1>6. ASSUME NEW t \in Txs, pc[t] = "write", Change(t)
      PROVE  value' \in [Rows -> Nat] /\ history' \in [Rows -> Seq([previous : Nat, new : Nat])]
  <2> DEFINE x == call[t].row
             new == NewValue(call[t], seen[t])
  <2>1. x \in Rows /\ new \in Nat /\ seen[t] \in Nat
    BY <1>0, <1>6, ChangeIsBounded, RowsAssumption DEF TypeOK
  <2>2. value' = [value EXCEPT ![x] = new]
        /\ history' = [history EXCEPT ![x] = Append(history[x], [previous |-> seen[t], new |-> new])]
    BY <1>6 DEF Change
  <2>3. Append(history[x], [previous |-> seen[t], new |-> new]) \in Seq([previous : Nat, new : Nat])
    BY <1>0, <2>1 DEF TypeOK
  <2> QED
    BY <1>0, <2>1, <2>2, <2>3 DEF TypeOK
<1>7. ASSUME NEW t \in Txs, RecordTurn(t), call[t] \in Calls, call[t].kind = "turn"
      PROVE  turns' \in SUBSET [encounter : Encounters, slot : Slots, campaign : Campaigns \cup {None}]
  BY <1>0, <1>7, CallFields DEF RecordTurn, TypeOK
<1>8. ASSUME NEW t \in Txs, CommitAdjust(t) PROVE TypeOK'
  <2>1. pc[t] = "write" /\ Change(t) /\ Release(t)
        /\ lastEvent' = [lastEvent EXCEPT ![call[t].row] = Len(history[call[t].row]) + 1]
        /\ UNCHANGED <<status, campaign, turns, endings>>
    BY <1>8 DEF CommitAdjust
  <2>2. call[t].row \in Rows
    BY <1>0, <2>1, RowOfCall
  <2>3. lastEvent' \in [Rows -> Nat]
    BY <1>0, <2>1, <2>2 DEF TypeOK
  <2> QED
    BY <1>0, <1>6, <2>1, <2>3, ReleaseTypes DEF TypeOK
<1>9. ASSUME NEW t \in Txs, CommitTurn(t) \/ CommitDamage(t) PROVE TypeOK'
  <2>1. Release(t) /\ RecordTurn(t) /\ call[t].kind = "turn" /\ call[t] \in Calls
        /\ UNCHANGED <<status, campaign, endings, lastEvent>>
        /\ ((pc[t] = "write" /\ Change(t)) \/ UNCHANGED <<value, history>>)
    BY <1>0, <1>9 DEF CommitTurn, CommitDamage, CallInv
  <2> QED
    BY <1>0, <1>6, <1>7, <2>1, ReleaseTypes DEF TypeOK
<1>10. ASSUME NEW t \in Txs, CommitEnd(t) PROVE TypeOK'
  <2>1. Release(t) /\ call[t].encounter \in Encounters
    BY <1>0, <1>10, CallFields DEF CommitEnd, CallInv
  <2> QED
    BY <1>0, <1>10, <2>1, ReleaseTypes DEF CommitEnd, TypeOK
<1>11. ASSUME NEW e \in Encounters, NEW c \in Campaigns \cup {None},
              StartEncounter(e, c)
       PROVE  TypeOK'
  BY <1>0, <1>11 DEF StartEncounter, TypeOK
<1> QED
  BY <1>1, <1>2, <1>3, <1>4, <1>5, <1>8, <1>9, <1>10, <1>11 DEF Next, Progress

\* A transaction other than t: what it is doing and what it has read is left
\* alone by a step of t, and so are the locks it holds.
Bystander(t) ==
  \A u \in Txs : u # t =>
    pc'[u] = pc[u] /\ call'[u] = call[u] /\ seen'[u] = seen[u] /\ owner'[u] = owner[u]

LocksKept(t) ==
  /\ \A e \in Encounters, u \in Txs : u # t /\ encounterLock[e] = u => encounterLock'[e] = u
  /\ \A x \in Rows, u \in Txs : u # t /\ rowLock[x] = u => rowLock'[x] = u

\* A step that ends a transaction leaves the others their locks.
LEMMA ReleaseOthers ==
  ASSUME TypeOK, NEW t \in Txs, Release(t)
  PROVE  Bystander(t) /\ LocksKept(t) /\ pc'[t] = "idle"
  BY DEF TypeOK, Release, Goto, Bystander, LocksKept

\* A step of t leaves the other transactions and their locks alone.
LEMMA StepOthers ==
  ASSUME TypeOK, CallInv, NEW t \in Txs, Progress(t) \/ Rollback(t)
  PROVE  Bystander(t) /\ LocksKept(t)
<1>1. CASE LockEncounter(t)
  <2>1. call[t].encounter \in Encounters
    BY <1>1, CallFields DEF LockEncounter, CallInv
  <2> QED
    BY <1>1, <2>1, NoneAssumption DEF LockEncounter, Goto, TypeOK, Bystander, LocksKept
<1>2. CASE InsertTurn(t)
  BY <1>2 DEF InsertTurn, Goto, TypeOK, Bystander, LocksKept
<1>3. CASE LockRow(t)
  <2>1. call[t].row \in Rows
    BY <1>3, RowOfCall DEF LockRow
  <2> QED
    BY <1>3, <2>1, NoneAssumption DEF LockRow, Goto, TypeOK, Bystander, LocksKept
<1>4. CASE Release(t)
  BY <1>4, ReleaseOthers
<1> QED
  BY <1>1, <1>2, <1>3, <1>4 DEF Progress, Rollback, EncounterRefused, TurnTaken, RowRejects,
     AdjustNothing, CommitAdjust, CommitTurn, CommitDamage, CommitEnd

\* A step of t changes no encounter and no row that t has not locked.
LEMMA StepTables ==
  ASSUME TypeOK, CallInv, EncounterInv, RowInv, NEW t \in Txs, Progress(t) \/ Rollback(t)
  PROVE  /\ campaign' = campaign
         /\ \A e \in Encounters : encounterLock[e] # t =>
              status'[e] = status[e] /\ endings'[e] = endings[e]
              /\ \A u \in turns' : u.encounter = e => u \in turns
         /\ \A x \in Rows : rowLock[x] # t =>
              value'[x] = value[x] /\ history'[x] = history[x]
<1> DEFINE Kept == /\ campaign' = campaign
                   /\ \A e \in Encounters : encounterLock[e] # t =>
                        status'[e] = status[e] /\ endings'[e] = endings[e]
                        /\ \A u \in turns' : u.encounter = e => u \in turns
                   /\ \A x \in Rows : rowLock[x] # t =>
                        value'[x] = value[x] /\ history'[x] = history[x]
<1>1. CASE UNCHANGED tables
  BY <1>1 DEF tables
<1>2. ASSUME pc[t] = "write", Change(t)
      PROVE  \A x \in Rows : rowLock[x] # t => value'[x] = value[x] /\ history'[x] = history[x]
  <2>1. call[t].row \in Rows /\ rowLock[call[t].row] = t
    BY <1>2, RowOfCall DEF RowInv
  <2> QED
    BY <1>2, <2>1 DEF Change, TypeOK
<1>3. ASSUME HoldsEncounter(t), RecordTurn(t)
      PROVE  \A e \in Encounters : encounterLock[e] # t =>
               \A u \in turns' : u.encounter = e => u \in turns
  BY <1>3 DEF RecordTurn, EncounterInv
<1>4. CASE CommitAdjust(t)
  BY <1>2, <1>4 DEF CommitAdjust
<1>5. CASE CommitTurn(t)
  BY <1>3, <1>5 DEF CommitTurn, HoldsEncounter
<1>6. CASE CommitDamage(t)
  BY <1>2, <1>3, <1>6 DEF CommitDamage, HoldsEncounter
<1>7. CASE CommitEnd(t)
  <2>1. encounterLock[call[t].encounter] = t
    BY <1>7 DEF CommitEnd, EncounterInv, HoldsEncounter
  <2> QED
    BY <1>7, <2>1 DEF CommitEnd, TypeOK
<1> QED
  BY <1>1, <1>4, <1>5, <1>6, <1>7 DEF Progress, Rollback, EncounterRefused, TurnTaken, RowRejects,
     AdjustNothing, LockEncounter, InsertTurn, LockRow

\* Every step keeps the calls in their place.
LEMMA CallStep ==
  ASSUME TypeOK, CallInv, [Next]_vars
  PROVE  CallInv'
<1>1. ASSUME NEW t \in Txs, Progress(t) \/ Rollback(t) PROVE CallInv'
  <2>1. Bystander(t)
    BY <1>1, StepOthers
  <2>2. \/ pc'[t] = "idle"
        \/ /\ pc[t] # "idle" /\ call' = call
           /\ \/ pc[t] = "encounter" /\ call[t].kind \in {"turn", "end"}
                 /\ pc'[t] = (IF call[t].kind = "turn" THEN "turn" ELSE "commit")
              \/ pc[t] = "turn" /\ pc'[t] = (IF Damaging(call[t]) THEN "row" ELSE "commit")
              \/ pc[t] = "row" /\ pc'[t] = "write"
    <3>1. CASE Release(t)
      BY <3>1, ReleaseOthers
    <3>2. CASE LockEncounter(t)
      BY <3>2 DEF LockEncounter, Goto, TypeOK, CallInv
    <3>3. CASE InsertTurn(t)
      BY <3>3 DEF InsertTurn, Goto, TypeOK
    <3>4. CASE LockRow(t)
      BY <3>4 DEF LockRow, Goto, TypeOK
    <3> QED
      BY <1>1, <3>1, <3>2, <3>3, <3>4 DEF Progress, Rollback, EncounterRefused, TurnTaken,
         RowRejects, AdjustNothing, CommitAdjust, CommitTurn, CommitDamage, CommitEnd
  <2> QED
    BY <2>1, <2>2 DEF CallInv, Bystander, Damaging
<1>2. ASSUME NEW t \in Txs, NEW k \in Calls, Begin(t, k) PROVE CallInv'
  <2>1. k.kind \in {"turn", "end", "adjust"}
    BY CallFields
  <2> QED
    BY <1>2, <2>1 DEF Begin, Goto, TypeOK, CallInv, Damaging
<1>3. CASE UNCHANGED <<pc, call>>
  BY <1>3 DEF CallInv, Damaging
<1> QED
  BY <1>1, <1>2, <1>3 DEF Next, vars, StartEncounter

\* What a transaction knows of the encounter it has locked stays true.
LEMMA EncounterStep ==
  ASSUME TypeOK, CallInv, EncounterInv, RowInv, [Next]_vars
  PROVE  EncounterInv'
<1>1. ASSUME NEW t \in Txs, Progress(t) \/ Rollback(t) PROVE EncounterInv'
  <2> SUFFICES ASSUME NEW u \in Txs, HoldsEncounter(u)'
               PROVE  (/\ encounterLock[call[u].encounter] = u
                       /\ Usable(u)
                       /\ owner[u] = campaign[call[u].encounter]
                       /\ call[u].kind = "turn" /\ pc[u] # "turn" =>
                            SlotFree(call[u].encounter, call[u].slot))'
    BY DEF EncounterInv
  <2>1. CASE u # t
    <3>1. pc'[u] = pc[u] /\ call'[u] = call[u] /\ owner'[u] = owner[u] /\ HoldsEncounter(u)
      BY <1>1, <2>1, StepOthers DEF Bystander, HoldsEncounter
    <3>2. call[u].encounter \in Encounters
      BY <3>1, CallFields DEF HoldsEncounter, CallInv
    <3>3. encounterLock[call[u].encounter] = u /\ encounterLock'[call[u].encounter] = u
      BY <1>1, <2>1, <3>1, <3>2, StepOthers DEF EncounterInv, LocksKept
    <3> DEFINE e == call[u].encounter
    <3>4. campaign' = campaign /\ status'[e] = status[e]
          /\ \A w \in turns' : w.encounter = e => w \in turns
      BY <1>1, <2>1, <3>2, <3>3, StepTables
    <3> QED
      BY <3>1, <3>3, <3>4 DEF EncounterInv, Usable, SlotFree
  <2>2. CASE u = t
    <3>1. ~Release(t)
      BY <2>2, ReleaseOthers DEF HoldsEncounter
    <3>2. CASE LockEncounter(t)
      <4>1. call[t].encounter \in Encounters
        BY <3>2, CallFields DEF LockEncounter, CallInv
      <4> QED
        BY <2>2, <3>2, <4>1 DEF LockEncounter, Goto, tables, TypeOK, Usable
    <3>3. CASE InsertTurn(t)
      BY <2>2, <3>3 DEF InsertTurn, Goto, tables, TypeOK, Usable, SlotFree, EncounterInv,
         HoldsEncounter
    <3>4. CASE LockRow(t)
      BY <2>2, <3>4 DEF LockRow, Goto, tables, TypeOK, Usable, SlotFree, EncounterInv,
         HoldsEncounter
    <3> QED
      BY <1>1, <3>1, <3>2, <3>3, <3>4 DEF Progress, Rollback, EncounterRefused, TurnTaken,
         RowRejects, AdjustNothing, CommitAdjust, CommitTurn, CommitDamage, CommitEnd
  <2> QED
    BY <2>1, <2>2
<1>2. ASSUME NEW t \in Txs, NEW k \in Calls, Begin(t, k) PROVE EncounterInv'
  <2>1. pc'[t] \in {"row", "encounter"} /\ (pc'[t] = "row" => call'[t].kind = "adjust")
    BY <1>2 DEF Begin, Goto, TypeOK
  <2>2. \A u \in Txs : u # t => pc'[u] = pc[u] /\ call'[u] = call[u]
    BY <1>2 DEF Begin, Goto, TypeOK
  <2> QED
    BY <1>2, <2>1, <2>2 DEF Begin, tables, EncounterInv, HoldsEncounter, Usable, SlotFree
<1>3. ASSUME NEW e \in Encounters, NEW c \in Campaigns \cup {None},
             StartEncounter(e, c)
      PROVE  EncounterInv'
  <2> SUFFICES ASSUME NEW u \in Txs, HoldsEncounter(u)
               PROVE  (/\ encounterLock[call[u].encounter] = u
                       /\ Usable(u)
                       /\ owner[u] = campaign[call[u].encounter]
                       /\ call[u].kind = "turn" /\ pc[u] # "turn" =>
                            SlotFree(call[u].encounter, call[u].slot))'
    BY <1>3 DEF EncounterInv, StartEncounter, HoldsEncounter
  <2>1. encounterLock[call[u].encounter] = u /\ status[call[u].encounter] = "active"
    BY DEF EncounterInv, Usable
  <2>2. call[u].encounter # e
    BY <1>3, <2>1, NoneAssumption DEF StartEncounter
  <2>3. call[u].encounter \in Encounters
    BY CallFields DEF CallInv, HoldsEncounter
  <2>4. /\ UNCHANGED <<turns, encounterLock, pc, call, owner>>
        /\ status'[call[u].encounter] = status[call[u].encounter]
        /\ campaign'[call[u].encounter] = campaign[call[u].encounter]
    BY <1>3, <2>2, <2>3 DEF StartEncounter, TypeOK
  <2> QED
    BY <2>4 DEF EncounterInv, Usable, SlotFree
<1>4. CASE UNCHANGED vars
  BY <1>4 DEF vars, tables, EncounterInv, HoldsEncounter, Usable, SlotFree
<1> QED
  BY <1>1, <1>2, <1>3, <1>4 DEF Next

\* What a transaction has read from the row it has locked stays its value.
LEMMA RowStep ==
  ASSUME TypeOK, CallInv, EncounterInv, RowInv, [Next]_vars
  PROVE  RowInv'
<1>1. ASSUME NEW t \in Txs, Progress(t) \/ Rollback(t) PROVE RowInv'
  <2> SUFFICES ASSUME NEW u \in Txs, pc'[u] = "write"
               PROVE  (rowLock[call[u].row] = u /\ seen[u] = value[call[u].row])'
    BY DEF RowInv
  <2>1. CASE u # t
    <3>1. pc[u] = "write" /\ call'[u] = call[u] /\ seen'[u] = seen[u]
      BY <1>1, <2>1, StepOthers DEF Bystander
    <3>2. call[u].row \in Rows /\ rowLock[call[u].row] = u /\ seen[u] = value[call[u].row]
      BY <3>1, RowOfCall DEF RowInv
    <3>3. rowLock'[call[u].row] = u
      BY <1>1, <2>1, <3>2, StepOthers DEF LocksKept
    <3>4. value'[call[u].row] = value[call[u].row]
      BY <1>1, <2>1, <3>2, StepTables
    <3> QED
      BY <3>1, <3>2, <3>3, <3>4
  <2>2. CASE u = t
    <3>1. ~Release(t)
      BY <2>2, ReleaseOthers
    <3>2. LockRow(t)
      BY <1>1, <2>2, <3>1 DEF Progress, Rollback, EncounterRefused, TurnTaken, RowRejects,
         AdjustNothing, CommitAdjust, CommitTurn, CommitDamage, CommitEnd, LockEncounter,
         InsertTurn, Goto, TypeOK
    <3>3. call[t].row \in Rows
      BY <3>2, RowOfCall DEF LockRow
    <3> QED
      BY <2>2, <3>2, <3>3 DEF LockRow, tables, TypeOK
  <2> QED
    BY <2>1, <2>2
<1>2. ASSUME NEW t \in Txs, NEW k \in Calls, Begin(t, k) PROVE RowInv'
  BY <1>2 DEF Begin, Goto, tables, TypeOK, RowInv
<1>3. ASSUME NEW e \in Encounters, NEW c \in Campaigns \cup {None},
             StartEncounter(e, c)
      PROVE  RowInv'
  BY <1>3 DEF StartEncounter, RowInv
<1>4. CASE UNCHANGED vars
  BY <1>4 DEF vars, tables, RowInv
<1> QED
  BY <1>1, <1>2, <1>3, <1>4 DEF Next

\* Every recorded change starts from the value the row had, and what it
\* records is the new value of the row.
LEMMA ChangeKeepsHistory ==
  ASSUME TypeOK, CallInv, RowInv, WithinBounds, HistoryExplainsValue,
         NEW t \in Txs, pc[t] = "write", Change(t)
  PROVE  WithinBounds' /\ HistoryExplainsValue'
<1> DEFINE x == call[t].row
           new == NewValue(call[t], seen[t])
           effect == [previous |-> seen[t], new |-> new]
<1>1. x \in Rows /\ seen[t] = value[x] /\ new \in 0 .. Maximum[x]
  BY ChangeIsBounded
<1>2. /\ value' = [value EXCEPT ![x] = new]
      /\ history' = [history EXCEPT ![x] = Append(history[x], effect)]
  BY DEF Change
<1>3. \A y \in Rows : y # x => value'[y] = value[y] /\ history'[y] = history[y]
  BY <1>2 DEF TypeOK
<1>4. value'[x] = new /\ history'[x] = Append(history[x], effect)
  BY <1>1, <1>2 DEF TypeOK
<1>5. WithinBounds'
  BY <1>1, <1>3, <1>4 DEF WithinBounds
<1> HIDE DEF effect, new
<1>6. ASSUME NEW y \in Rows
      PROVE  /\ \A i \in 1 .. Len(history'[y]) :
                  history'[y][i].previous = IF i = 1 THEN Maximum[y] ELSE history'[y][i - 1].new
             /\ value'[y] = IF history'[y] = <<>> THEN Maximum[y]
                            ELSE history'[y][Len(history'[y])].new
  <2>1. CASE y # x
    BY <1>3, <2>1 DEF HistoryExplainsValue
  <2>2. CASE y = x
    <3> DEFINE h == history[x]
    <3>1. h \in Seq([previous : Nat, new : Nat]) /\ Len(h) \in Nat
      BY <1>1 DEF TypeOK
    <3>2. /\ Len(history'[x]) = Len(h) + 1
          /\ history'[x][Len(h) + 1] = effect
          /\ \A i \in 1 .. Len(h) : history'[x][i] = h[i]
          /\ history'[x] # <<>>
      BY <1>4, <3>1
    <3>3. effect.previous = value[x] /\ effect.new = new
      BY <1>1 DEF effect
    <3>4. value[x] = IF Len(h) = 0 THEN Maximum[x] ELSE h[Len(h)].new
      BY <1>1, <3>1 DEF HistoryExplainsValue
    <3>5. ASSUME NEW i \in 1 .. Len(history'[x])
          PROVE  history'[x][i].previous = IF i = 1 THEN Maximum[x] ELSE history'[x][i - 1].new
      <4>1. CASE i = Len(h) + 1 /\ Len(h) = 0
        BY <3>2, <3>3, <3>4, <4>1
      <4>2. CASE i = Len(h) + 1 /\ Len(h) # 0
        <5>1. Len(h) \in 1 .. Len(h) /\ i # 1 /\ i - 1 = Len(h)
          BY <3>1, <4>2
        <5>2. history'[x][i].previous = h[Len(h)].new
          BY <3>2, <3>3, <3>4, <4>2
        <5> QED
          BY <3>2, <5>1, <5>2
      <4>3. CASE i \in 1 .. Len(h)
        <5>1. h[i].previous = IF i = 1 THEN Maximum[x] ELSE h[i - 1].new
          BY <1>1, <4>3 DEF HistoryExplainsValue
        <5>2. i # 1 => i - 1 \in 1 .. Len(h)
          BY <3>1, <4>3
        <5> QED
          BY <3>2, <4>3, <5>1, <5>2
      <4>4. i = Len(h) + 1 \/ i \in 1 .. Len(h)
        BY <3>1, <3>2
      <4> QED
        BY <4>1, <4>2, <4>3, <4>4
    <3> QED
      BY <1>4, <2>2, <3>1, <3>2, <3>3, <3>5
  <2> QED
    BY <2>1, <2>2
<1> QED
  BY <1>5, <1>6 DEF HistoryExplainsValue

\* The inductive invariant is preserved by every step.
LEMMA IInvStep == IInv /\ [Next]_vars => IInv'
<1> SUFFICES ASSUME IInv, [Next]_vars PROVE IInv'
  OBVIOUS
<1>1. /\ TypeOK /\ CallInv /\ EncounterInv /\ RowInv
      /\ WithinBounds /\ HistoryExplainsValue
  BY DEF IInv
<1>2. TypeOK' /\ CallInv' /\ EncounterInv' /\ RowInv'
  BY <1>1, TypeStep, CallStep, EncounterStep, RowStep
<1>3. ASSUME UNCHANGED <<value, history>> PROVE WithinBounds' /\ HistoryExplainsValue'
  BY <1>1, <1>3 DEF WithinBounds, HistoryExplainsValue
<1>4. ASSUME NEW t \in Txs, pc[t] = "write", Change(t)
      PROVE  WithinBounds' /\ HistoryExplainsValue'
  BY <1>1, <1>4, ChangeKeepsHistory
<1>5. ASSUME NEW t \in Txs, Progress(t) \/ Rollback(t),
             ~UNCHANGED <<value, history>>
      PROVE  pc[t] = "write" /\ Change(t)
  BY <1>5 DEF Progress, Rollback, tables, LockEncounter, EncounterRefused, InsertTurn,
     TurnTaken, LockRow, RowRejects, AdjustNothing, CommitAdjust, CommitTurn, CommitDamage,
     CommitEnd
<1>6. ASSUME NEW t \in Txs, NEW k \in Calls, Begin(t, k) PROVE UNCHANGED <<value, history>>
  BY <1>6 DEF Begin, tables
<1>7. ASSUME NEW e \in Encounters, NEW c \in Campaigns \cup {None},
             StartEncounter(e, c)
      PROVE  UNCHANGED <<value, history>>
  BY <1>7 DEF StartEncounter
<1>8. UNCHANGED vars => UNCHANGED <<value, history>>
  BY DEF vars, tables
<1>9. WithinBounds' /\ HistoryExplainsValue'
  BY <1>3, <1>4, <1>5, <1>6, <1>7, <1>8 DEF Next
<1> QED
  BY <1>2, <1>9 DEF IInv

\* The inductive invariant always holds.
THEOREM Invariance == Spec => []IInv
  BY InitIInv, IInvStep, PTL DEF Spec

\* Every reachable state is well typed.
THEOREM TypeCorrect == Spec => []TypeOK
<1>1. IInv => TypeOK
  BY DEF IInv
<1> QED
  BY <1>1, Invariance, PTL

\* No update of hit points or of a resource is lost, and none is made without
\* an effect that records it.
THEOREM NoLostUpdate == Spec => []HistoryExplainsValue
<1>1. IInv => HistoryExplainsValue
  BY DEF IInv
<1> QED
  BY <1>1, Invariance, PTL

\* Hit points and resources stay within their bounds.
THEOREM Bounded == Spec => []WithinBounds
<1>1. IInv => WithinBounds
  BY DEF IInv
<1> QED
  BY <1>1, Invariance, PTL

\* What a transaction that ends with a turn or with the completion of an
\* encounter knows of the encounter.
LEMMA LockedEncounter ==
  ASSUME IInv, NEW t \in Txs, HoldsEncounter(t)
  PROVE  /\ call[t].encounter \in Encounters /\ call[t].campaign \in Campaigns \cup {None}
         /\ Ledger!Usable(call[t].encounter, call[t].campaign)
         /\ owner[t] = campaign[call[t].encounter]
         /\ call[t].kind = "turn" => call[t].slot \in Slots
         /\ call[t].kind = "turn" /\ pc[t] # "turn" => SlotFree(call[t].encounter, call[t].slot)
<1>1. TypeOK /\ CallInv /\ EncounterInv
  BY DEF IInv
<1>2. call[t] \in Calls /\ call[t].kind \in {"turn", "end"}
  BY <1>1 DEF CallInv, HoldsEncounter
<1> QED
  BY <1>1, <1>2, CallFields DEF EncounterInv, Usable, Ledger!Usable

\* The commit of a turn is a turn of the ledger.
LEMMA TurnRefines ==
  ASSUME IInv, NEW t \in Txs, CommitTurn(t) \/ CommitDamage(t)
  PROVE  Ledger!Next
<1>1. HoldsEncounter(t) /\ call[t].kind = "turn" /\ pc[t] # "turn" /\ RecordTurn(t)
      /\ UNCHANGED <<status, campaign, endings>>
  BY DEF CommitTurn, CommitDamage, HoldsEncounter
<1>2. PICK e \in Encounters, s \in Slots, c \in Campaigns \cup {None} :
        e = call[t].encounter /\ s = call[t].slot /\ c = call[t].campaign
  BY <1>1, LockedEncounter
<1>3. Ledger!Usable(e, c) /\ owner[t] = campaign[e] /\ SlotFree(e, s)
  BY <1>1, <1>2, LockedEncounter
<1>4. Ledger!Record(e, s)
  BY <1>1, <1>2, <1>3 DEF RecordTurn, SlotFree, Ledger!Record
<1>5. CASE CommitTurn(t)
  <2>1. Ledger!Turn(e, s, c)
    BY <1>1, <1>3, <1>4, <1>5 DEF CommitTurn, Ledger!Turn
  <2> QED
    BY <2>1 DEF Ledger!Next
<1>6. CASE CommitDamage(t)
  <2>1. pc[t] = "write" /\ Change(t)
    BY <1>6 DEF CommitDamage
  <2>2. TypeOK /\ CallInv /\ RowInv /\ WithinBounds
    BY DEF IInv
  <2>3. call[t].row \in HitPoints /\ call[t].amount \in Nat \ {0}
    BY <1>1, <2>1, <2>2, RowOfCall
  <2>4. seen[t] = value[call[t].row] /\ NewValue(call[t], seen[t]) \in 0 .. Maximum[call[t].row]
        /\ value[call[t].row] \in Nat
    BY <2>1, <2>2, <2>3, ChangeIsBounded DEF TypeOK, Rows
  <2>5. NewValue(call[t], seen[t]) = value[call[t].row] - call[t].amount
    BY <1>1, <2>4 DEF NewValue
  <2>6. PICK x \in HitPoints, n \in Nat \ {0} : x = call[t].row /\ n = call[t].amount
    BY <2>3
  <2>7. value[x] \in Nat /\ value[x] - n >= 0
    <3>1. Maximum[x] \in Nat
      BY <2>6, RowsAssumption DEF Rows
    <3> QED
      BY <2>4, <2>5, <2>6, <3>1
  <2>8. n \in 1 .. value[x]
    BY <2>6, <2>7
  <2>9. Ledger!Change(x, value[x] - n)
    BY <2>1, <2>4, <2>5, <2>6 DEF Change, Ledger!Change
  <2>10. Ledger!DamagingTurn(e, s, c, x, n)
    BY <1>1, <1>3, <1>4, <2>8, <2>9 DEF Ledger!DamagingTurn
  <2> QED
    BY <2>8, <2>10 DEF Ledger!Next
<1> QED
  BY <1>5, <1>6

\* The commit of an adjustment is an adjustment of the ledger.
LEMMA AdjustRefines ==
  ASSUME IInv, NEW t \in Txs, CommitAdjust(t)
  PROVE  Ledger!Next
<1>1. pc[t] = "write" /\ Change(t) /\ NewValue(call[t], seen[t]) # seen[t]
      /\ UNCHANGED <<status, campaign, turns, endings>>
  BY DEF CommitAdjust
<1>2. /\ call[t].row \in Rows /\ seen[t] = value[call[t].row]
      /\ NewValue(call[t], seen[t]) \in 0 .. Maximum[call[t].row]
  BY <1>1, ChangeIsBounded DEF IInv
<1>3. PICK x \in Rows : x = call[t].row
  BY <1>2
<1>4. PICK n \in 0 .. Maximum[x] : n = NewValue(call[t], seen[t])
  BY <1>2, <1>3
<1>5. Ledger!Change(x, n)
  BY <1>1, <1>2, <1>3, <1>4 DEF Change, Ledger!Change
<1>6. Ledger!Adjust(x, n)
  BY <1>1, <1>2, <1>3, <1>4, <1>5 DEF Ledger!Adjust
<1> QED
  BY <1>6 DEF Ledger!Next, Rows, Ledger!Rows

\* The commit that completes an encounter ends it in the ledger.
LEMMA EndRefines ==
  ASSUME IInv, NEW t \in Txs, CommitEnd(t)
  PROVE  Ledger!Next
<1>1. HoldsEncounter(t)
  BY DEF CommitEnd, HoldsEncounter
<1>2. PICK e \in Encounters, c \in Campaigns \cup {None} :
        e = call[t].encounter /\ c = call[t].campaign
  BY <1>1, LockedEncounter
<1>3. Ledger!Usable(e, c)
  BY <1>1, <1>2, LockedEncounter
<1>4. Ledger!End(e, c)
  BY <1>2, <1>3 DEF CommitEnd, Ledger!End
<1> QED
  BY <1>4 DEF Ledger!Next

\* Every step of the transactions is a step of the ledger, or a stutter.
LEMMA RefinementStep ==
  ASSUME IInv, [Next]_vars
  PROVE  [Ledger!Next]_(Ledger!vars)
<1>1. ASSUME UNCHANGED tables PROVE UNCHANGED Ledger!vars
  BY <1>1 DEF tables, Ledger!vars
<1>2. ASSUME NEW t \in Txs, Progress(t) \/ Rollback(t)
      PROVE  UNCHANGED tables \/ CommitAdjust(t) \/ CommitTurn(t) \/ CommitDamage(t) \/ CommitEnd(t)
  BY <1>2 DEF Progress, Rollback, LockEncounter, EncounterRefused, InsertTurn, TurnTaken,
     LockRow, RowRejects, AdjustNothing
<1>3. ASSUME NEW t \in Txs, NEW k \in Calls, Begin(t, k) PROVE UNCHANGED tables
  BY <1>3 DEF Begin
<1>4. ASSUME NEW e \in Encounters, NEW c \in Campaigns \cup {None},
             StartEncounter(e, c)
      PROVE  Ledger!Next
  <2>1. Ledger!Start(e, c)
    BY <1>4 DEF StartEncounter, Ledger!Start
  <2> QED
    BY <2>1 DEF Ledger!Next
<1>5. UNCHANGED vars => UNCHANGED tables
  BY DEF vars
<1>6. ASSUME NEW t \in Txs, Progress(t) \/ Rollback(t) PROVE Ledger!Next \/ UNCHANGED Ledger!vars
  BY <1>1, <1>2, <1>6, TurnRefines, AdjustRefines, EndRefines
<1> QED
  BY <1>1, <1>3, <1>4, <1>5, <1>6 DEF Next

\* The transactions implement the ledger: under any interleaving, each command
\* that commits takes effect as if it ran alone.
THEOREM Implements == Spec => ImplementsLedger
<1>1. Init => Ledger!Init
  BY RowsAssumption DEF Init, Ledger!Init, Rows, Ledger!Rows
<1>2. IInv /\ [Next]_vars => [Ledger!Next]_(Ledger!vars)
  BY RefinementStep
<1> QED
  BY <1>1, <1>2, Invariance, PTL DEF Spec, ImplementsLedger, Ledger!Spec

\* A step of the ledger leaves completed encounters closed.
LEMMA LedgerCloses ==
  ASSUME IInv, [Ledger!Next]_(Ledger!vars), NEW e \in Encounters, status[e] = "completed"
  PROVE  /\ status'[e] = "completed" /\ endings'[e] = endings[e]
         /\ \A u \in turns' \ turns : u.encounter # e
<1> DEFINE Closed == /\ status'[e] = "completed" /\ endings'[e] = endings[e]
                     /\ \A u \in turns' \ turns : u.encounter # e
<1>1. TypeOK
  BY DEF IInv
<1>2. ASSUME NEW f \in Encounters, NEW c \in Campaigns \cup {None},
             Ledger!Start(f, c) \/ Ledger!End(f, c)
      PROVE  Closed
  <2>1. turns' = turns
    BY <1>2 DEF Ledger!Start, Ledger!End
  <2>2. f # e
    BY <1>2 DEF Ledger!Start, Ledger!End, Ledger!Usable
  <2>3. status'[e] = status[e] /\ endings'[e] = endings[e]
    BY <1>1, <1>2, <2>2 DEF Ledger!Start, Ledger!End, TypeOK
  <2> QED
    BY <2>1, <2>3
<1>3. ASSUME NEW f \in Encounters, NEW s \in Slots, NEW c \in Campaigns \cup {None},
             \/ Ledger!Turn(f, s, c)
             \/ \E x \in HitPoints : \E n \in 1 .. value[x] : Ledger!DamagingTurn(f, s, c, x, n)
      PROVE  Closed
  <2>1. status' = status /\ endings' = endings /\ Ledger!Usable(f, c) /\ Ledger!Record(f, s)
    BY <1>3 DEF Ledger!Turn, Ledger!DamagingTurn
  <2>2. f # e
    BY <2>1 DEF Ledger!Usable
  <2> QED
    BY <2>1, <2>2 DEF Ledger!Record
<1>4. ASSUME NEW x \in Ledger!Rows, NEW n \in 0 .. Maximum[x], Ledger!Adjust(x, n)
      PROVE  Closed
  BY <1>4 DEF Ledger!Adjust
<1>5. CASE UNCHANGED Ledger!vars
  BY <1>5 DEF Ledger!vars
<1> QED
  BY <1>2, <1>3, <1>4, <1>5 DEF Ledger!Next

\* A completed encounter stays completed, with one completion event, and
\* takes no further turn.
THEOREM ClosedForGood == Spec => CompletedEncounterIsClosed
<1>1. IInv /\ [Next]_vars =>
        [\A e \in Encounters :
           status[e] = "completed" =>
             /\ status'[e] = "completed" /\ endings'[e] = endings[e]
             /\ \A u \in turns' \ turns : u.encounter # e]_vars
  BY RefinementStep, LedgerCloses
<1> QED
  BY <1>1, Invariance, PTL DEF Spec, CompletedEncounterIsClosed

\* The campaign of an encounter is set when it starts, so that what a turn was
\* attributed to stays right.
THEOREM RightOwner == Spec => []TurnsBelongToTheOwner
<1>1. Init => TurnsBelongToTheOwner
  BY DEF Init, TurnsBelongToTheOwner
<1>2. ASSUME IInv, TurnsBelongToTheOwner, [Next]_vars PROVE TurnsBelongToTheOwner'
  <2>1. TypeOK /\ [Ledger!Next]_(Ledger!vars)
    BY <1>2, RefinementStep DEF IInv
  <2>2. CASE UNCHANGED Ledger!vars
    BY <1>2, <2>2 DEF Ledger!vars, TurnsBelongToTheOwner
  <2>3. ASSUME NEW e \in Encounters, NEW c \in Campaigns \cup {None}, Ledger!Start(e, c)
        PROVE  TurnsBelongToTheOwner'
    BY <1>2, <2>1, <2>3 DEF Ledger!Start, TurnsBelongToTheOwner, TypeOK
  <2>4. ASSUME NEW e \in Encounters, NEW c \in Campaigns \cup {None}, Ledger!End(e, c)
        PROVE  TurnsBelongToTheOwner'
    BY <1>2, <2>1, <2>4 DEF Ledger!End, Ledger!Usable, TurnsBelongToTheOwner, TypeOK
  <2>5. ASSUME NEW e \in Encounters, NEW s \in Slots, NEW c \in Campaigns \cup {None},
               \/ Ledger!Turn(e, s, c)
               \/ \E x \in HitPoints : \E n \in 1 .. value[x] : Ledger!DamagingTurn(e, s, c, x, n)
        PROVE  TurnsBelongToTheOwner'
    BY <1>2, <2>5 DEF Ledger!Turn, Ledger!DamagingTurn, Ledger!Record, Ledger!Usable,
         TurnsBelongToTheOwner
  <2>6. ASSUME NEW x \in Ledger!Rows, NEW n \in 0 .. Maximum[x], Ledger!Adjust(x, n)
        PROVE  TurnsBelongToTheOwner'
    BY <1>2, <2>6 DEF Ledger!Adjust, TurnsBelongToTheOwner
  <2> QED
    BY <2>1, <2>2, <2>3, <2>4, <2>5, <2>6 DEF Ledger!Next
<1> QED
  BY <1>1, <1>2, Invariance, PTL DEF Spec
-----------------------------------------------------------------------------
(* Revision 081, which is installed while these commands run.              *)

LEMMA RevCallFields ==
  ASSUME NEW c \in Revision081!Commands
  PROVE  /\ c.kind \in {"write", "turn", "end", "upgrade"}
         /\ c.kind # "upgrade" => c.encounter \in ScopedEncounters
         /\ c.kind = "write" => c.new \in Scopes
BY DEF Revision081!Commands

LEMMA RevCallKinds ==
  ASSUME NEW e \in ScopedEncounters
  PROVE  /\ \A r \in Scopes : [kind |-> "write", encounter |-> e, new |-> r] \in Revision081!Commands
         /\ \A k \in {"turn", "end"} : [kind |-> k, encounter |-> e] \in Revision081!Commands
BY DEF Revision081!Commands

LEMMA UpgradeCall == [kind |-> "upgrade"] \in Revision081!Commands
BY DEF Revision081!Commands

LEMMA StampTyped ==
  ASSUME NEW r \in Revision081!AnyScope
  PROVE  Revision081!Stamp(r) \in Revision081!AnyStamp
BY DEF Revision081!Stamp, Revision081!AnyStamp, Revision081!AnyScope

LEMMA ScopeTypes ==
  ASSUME Revision081!TypeOK, Revision081!CallFits, Revision081!HoldsRow,
         Scopes \subseteq Revision081!AnyScope,
         None \notin Revision081!AnyScope,
         [Revision081!Next]_(Revision081!scopeVars)
  PROVE  Revision081!TypeOK'
<1> USE DEF Revision081!TypeOK
<1>1. CASE UNCHANGED Revision081!scopeVars
  BY <1>1 DEF Revision081!scopeVars
<1>2. CASE Revision081!Downgrade
  BY <1>2 DEF Revision081!Downgrade
<1>3. ASSUME NEW t \in Txs, NEW e \in ScopedEncounters, NEW r \in Scopes, Revision081!CallWrite(t, e, r)
      PROVE  Revision081!TypeOK'
  BY <1>3, RevCallKinds, UpgradeCall DEF Revision081!CallWrite, Revision081!Advance
<1>4. ASSUME NEW t \in Txs, NEW e \in ScopedEncounters, NEW kind \in {"turn", "end"},
             Revision081!CallCommand(t, kind, e)
      PROVE  Revision081!TypeOK'
  BY <1>4, RevCallKinds, UpgradeCall DEF Revision081!CallCommand, Revision081!Advance, Revision081!Lock
<1>5. ASSUME NEW t \in Txs, Revision081!CallUpgrade(t)
      PROVE  Revision081!TypeOK'
  BY <1>5, RevCallKinds, UpgradeCall DEF Revision081!CallUpgrade, Revision081!Advance
<1>6. ASSUME NEW t \in Txs, Revision081!LockTable(t) \/ Revision081!LockForAudit(t)
      PROVE  Revision081!TypeOK'
  BY <1>6 DEF Revision081!LockTable, Revision081!LockForAudit, Revision081!Advance, Revision081!Lock
<1>7. ASSUME NEW t \in Txs, Revision081!LockRow(t)
      PROVE  Revision081!TypeOK'
  <2>1. task[t].encounter \in ScopedEncounters
    BY <1>7, RevCallFields DEF Revision081!LockRow, Revision081!Advance, Revision081!CallFits
  <2>2. task[t].kind # "write" => Revision081!Stamp(scope[task[t].encounter]) \in Revision081!AnyStamp
    BY <1>7, <2>1, RevCallFields, StampTyped
    DEF Revision081!LockRow, Revision081!Advance, Revision081!CallFits
  <2> QED
    BY <1>7, <2>1, <2>2 DEF Revision081!LockRow, Revision081!Advance
<1>8. ASSUME NEW t \in Txs, Revision081!Audit(t) \/ Revision081!AuditAgain(t)
      PROVE  Revision081!TypeOK'
  BY <1>8 DEF Revision081!Audit, Revision081!AuditAgain, Revision081!Advance
<1>9. ASSUME NEW t \in Txs, Revision081!CommitUpgrade(t) \/ Revision081!Rollback(t)
      PROVE  Revision081!TypeOK'
  BY <1>9 DEF Revision081!CommitUpgrade, Revision081!Rollback, Revision081!End
<1>10. ASSUME NEW t \in Txs, Revision081!CommitWrite(t)
       PROVE  Revision081!TypeOK'
  <2>1. task[t].encounter \in ScopedEncounters /\ task[t].new \in Scopes
    BY <1>10, RevCallFields DEF Revision081!CommitWrite, Revision081!CallFits
  <2> QED
    BY <1>10, <2>1 DEF Revision081!CommitWrite, Revision081!End
<1>11. ASSUME NEW t \in Txs, Revision081!CommitCommand(t)
       PROVE  Revision081!TypeOK'
  <2>1. /\ task[t].encounter \in ScopedEncounters
        /\ scope[task[t].encounter] \in Revision081!AnyScope
    <3>1. /\ stage[t] = "commit" /\ task[t] \in Revision081!Commands /\ task[t].kind # "write"
          /\ task[t].kind # "upgrade"
          /\ task[t].kind \in {"turn", "end"} => scope[task[t].encounter] # None
      BY <1>11 DEF Revision081!CommitCommand, Revision081!CallFits
    <3>2. task[t].kind \in {"turn", "end"} /\ task[t].encounter \in ScopedEncounters
      BY <3>1, RevCallFields
    <3> QED
      BY <3>1, <3>2
  <2>2. read[t] = Revision081!Stamp(scope[task[t].encounter])
    BY <1>11 DEF Revision081!CommitCommand, Revision081!HoldsRow
  <2>3. read[t] \in Revision081!AnyStamp
    BY <2>1, <2>2, StampTyped
  <2> QED
    BY <1>11, <2>1, <2>3 DEF Revision081!CommitCommand, Revision081!End
<1> QED
  BY <1>11, <1>1, <1>2, <1>3, <1>4, <1>5, <1>6, <1>7, <1>8, <1>9, <1>10 DEF Revision081!Next

LEMMA CallFitsInductive ==
  ASSUME Revision081!TypeOK, Revision081!CallFits, None \notin Revision081!AnyScope,
         Scopes \subseteq Revision081!AnyScope, [Revision081!Next]_(Revision081!scopeVars)
  PROVE  Revision081!CallFits'
<1> USE DEF Revision081!TypeOK, Revision081!CallFits
<1>1. CASE UNCHANGED Revision081!scopeVars
  BY <1>1 DEF Revision081!scopeVars
<1>2. CASE Revision081!Downgrade
  BY <1>2 DEF Revision081!Downgrade
<1>3. ASSUME NEW t \in Txs, NEW e \in ScopedEncounters, NEW r \in Scopes, Revision081!CallWrite(t, e, r)
      PROVE  Revision081!CallFits'
  BY <1>3, RevCallKinds DEF Revision081!CallWrite, Revision081!Advance
<1>4. ASSUME NEW t \in Txs, NEW e \in ScopedEncounters, NEW kind \in {"turn", "end"},
             Revision081!CallCommand(t, kind, e)
      PROVE  Revision081!CallFits'
  BY <1>4, RevCallKinds DEF Revision081!CallCommand, Revision081!Advance, Revision081!Lock
<1>5. ASSUME NEW t \in Txs, Revision081!CallUpgrade(t)
      PROVE  Revision081!CallFits'
  BY <1>5, UpgradeCall DEF Revision081!CallUpgrade, Revision081!Advance
<1>6. ASSUME NEW t \in Txs, Revision081!LockTable(t) \/ Revision081!LockForAudit(t) \/ Revision081!LockRow(t)
      PROVE  Revision081!CallFits'
  BY <1>6 DEF Revision081!LockTable, Revision081!LockForAudit, Revision081!LockRow,
              Revision081!Advance, Revision081!Lock
<1>7. ASSUME NEW t \in Txs, Revision081!Audit(t) \/ Revision081!AuditAgain(t)
      PROVE  Revision081!CallFits'
  BY <1>7 DEF Revision081!Audit, Revision081!AuditAgain, Revision081!Advance
<1>8. ASSUME NEW t \in Txs,
             Revision081!CommitUpgrade(t) \/ Revision081!Rollback(t) \/ Revision081!CommitCommand(t)
      PROVE  Revision081!CallFits'
  BY <1>8 DEF Revision081!CommitUpgrade, Revision081!Rollback, Revision081!CommitCommand,
              Revision081!End
<1>9. ASSUME NEW t \in Txs, Revision081!CommitWrite(t)
      PROVE  Revision081!CallFits'
  <2>1. task[t].encounter \in ScopedEncounters /\ task[t].new # None
    BY <1>9, RevCallFields DEF Revision081!CommitWrite
  <2>2. \A e \in ScopedEncounters : scope'[e] = None => scope[e] = None
    BY <1>9, <2>1 DEF Revision081!CommitWrite
  <2>3. \A u \in Txs : stage'[u] # "idle" => u # t /\ stage'[u] = stage[u] /\ task'[u] = task[u]
    BY <1>9 DEF Revision081!CommitWrite, Revision081!End
  <2> SUFFICES ASSUME NEW u \in Txs, stage'[u] # "idle"
               PROVE  /\ task'[u] \in Revision081!Commands
                      /\ task'[u].kind \in {"turn", "end"} => scope'[task'[u].encounter] # None
                      /\ task'[u].kind = "upgrade" =>
                           stage'[u] \in {"table", "audit", "audit again", "install"}
    OBVIOUS
  <2>4. /\ task'[u] = task[u] /\ stage'[u] = stage[u] /\ task[u] \in Revision081!Commands
        /\ task[u].kind \in {"turn", "end"} => scope[task[u].encounter] # None
        /\ task[u].kind = "upgrade" => stage[u] \in {"table", "audit", "audit again", "install"}
    BY <2>3
  <2>5. task[u].kind # "upgrade" => task[u].encounter \in ScopedEncounters
    BY <2>4, RevCallFields
  <2> QED
    BY <2>2, <2>4, <2>5
<1> HIDE DEF Revision081!TypeOK, Revision081!CallFits
<1> QED
  BY <1>1, <1>2, <1>3, <1>4, <1>5, <1>6, <1>7, <1>8, <1>9 DEF Revision081!Next

LEMMA TableInductive ==
  ASSUME Revision081!TypeOK, Revision081!HoldsTable, [Revision081!Next]_(Revision081!scopeVars)
  PROVE  Revision081!HoldsTable'
<1> USE DEF Revision081!TypeOK, Revision081!HoldsTable
<1>1. CASE UNCHANGED Revision081!scopeVars
  BY <1>1 DEF Revision081!scopeVars
<1>2. CASE Revision081!Downgrade
  BY <1>2 DEF Revision081!Downgrade
<1>3. ASSUME NEW t \in Txs, NEW e \in ScopedEncounters, NEW r \in Scopes, Revision081!CallWrite(t, e, r)
      PROVE  Revision081!HoldsTable'
  BY <1>3 DEF Revision081!CallWrite, Revision081!Advance
<1>4. ASSUME NEW t \in Txs, NEW e \in ScopedEncounters, NEW kind \in {"turn", "end"},
             Revision081!CallCommand(t, kind, e)
      PROVE  Revision081!HoldsTable'
  BY <1>4 DEF Revision081!CallCommand, Revision081!Advance, Revision081!Lock
<1>5. ASSUME NEW t \in Txs, Revision081!CallUpgrade(t) \/ Revision081!LockRow(t)
      PROVE  Revision081!HoldsTable'
  BY <1>5 DEF Revision081!CallUpgrade, Revision081!LockRow, Revision081!Advance
<1>6. ASSUME NEW t \in Txs, Revision081!LockTable(t)
      PROVE  Revision081!HoldsTable'
  BY <1>6 DEF Revision081!LockTable, Revision081!Advance, Revision081!Lock, Revision081!Holds
<1>7. ASSUME NEW t \in Txs, Revision081!LockForAudit(t)
      PROVE  Revision081!HoldsTable'
  BY <1>7 DEF Revision081!LockForAudit, Revision081!Advance, Revision081!Lock, Revision081!Holds
<1>8. ASSUME NEW t \in Txs, Revision081!Audit(t) \/ Revision081!AuditAgain(t)
      PROVE  Revision081!HoldsTable'
  BY <1>8 DEF Revision081!Audit, Revision081!AuditAgain, Revision081!Advance
<1>9. ASSUME NEW t \in Txs, Revision081!End(t)
      PROVE  Revision081!HoldsTable'
  BY <1>9 DEF Revision081!End
<1> HIDE DEF Revision081!TypeOK, Revision081!HoldsTable
<1> QED
  BY <1>1, <1>2, <1>3, <1>4, <1>5, <1>6, <1>7, <1>8, <1>9
  DEF Revision081!Next, Revision081!CommitUpgrade, Revision081!CommitWrite,
      Revision081!CommitCommand, Revision081!Rollback

LEMMA RowInductive ==
  ASSUME None \notin Txs, Revision081!TypeOK, Revision081!CallFits, Revision081!HoldsTable,
         Revision081!HoldsRow, [Revision081!Next]_(Revision081!scopeVars)
  PROVE  Revision081!HoldsRow'
<1> DEFINE Holds(u) == stage[u] = "commit" \/ (stage[u] = "table" /\ task[u].kind = "end")
           Knows(u) ==
             /\ rowHolder[task[u].encounter] = u
             /\ IF task[u].kind = "write"
                  THEN Revision081!Accepted(task[u].encounter, task[u].new)
                  ELSE read[u] = Revision081!Stamp(scope[task[u].encounter])
<1>a. \A u \in Txs : Holds(u) => Knows(u)
  BY DEF Revision081!HoldsRow
<1>b. ASSUME NEW u \in Txs, Holds(u)
      PROVE  task[u].encounter \in ScopedEncounters
  <2>1. task[u] \in Revision081!Commands /\ task[u].kind # "upgrade"
    BY <1>b DEF Revision081!CallFits
  <2> QED
    BY <2>1, RevCallFields
<1>c. SUFFICES ASSUME NEW u \in Txs, Holds(u)'
               PROVE  Knows(u)'
  BY DEF Revision081!HoldsRow
<1>1. ASSUME Holds(u), task'[u] = task[u], read'[u] = read[u], UNCHANGED <<scope, rowHolder>>,
             installed' => installed
      PROVE  Knows(u)'
  BY <1>1, <1>a DEF Revision081!Accepted
<1>2. CASE UNCHANGED Revision081!scopeVars
  BY <1>1, <1>2, <1>c DEF Revision081!scopeVars
<1>3. CASE Revision081!Downgrade
  BY <1>1, <1>3, <1>c DEF Revision081!Downgrade
<1>4. ASSUME NEW t \in Txs,
             \/ \E e \in ScopedEncounters, r \in Scopes : Revision081!CallWrite(t, e, r)
             \/ \E e \in ScopedEncounters, kind \in {"turn", "end"} : Revision081!CallCommand(t, kind, e)
             \/ Revision081!CallUpgrade(t)
      PROVE  Knows(u)'
  <2>1. /\ UNCHANGED <<scope, rowHolder, installed, read>>
        /\ u # t => stage'[u] = stage[u] /\ task'[u] = task[u]
        /\ u = t => ~Holds(u)'
    <3>1. CASE \E e \in ScopedEncounters, r \in Scopes : Revision081!CallWrite(t, e, r)
      <4>1. PICK e \in ScopedEncounters, r \in Scopes : Revision081!CallWrite(t, e, r)
        BY <3>1
      <4>2. task' = [task EXCEPT ![t] = [kind |-> "write", encounter |-> e, new |-> r]]
        BY <4>1 DEF Revision081!CallWrite
      <4>3. task'[t].kind = "write"
        BY <4>2 DEF Revision081!TypeOK
      <4>4. stage'[t] = "table"
        BY <4>1 DEF Revision081!CallWrite, Revision081!Advance, Revision081!TypeOK
      <4> QED
        BY <4>1, <4>2, <4>3, <4>4 DEF Revision081!CallWrite, Revision081!Advance, Revision081!TypeOK
    <3>2. CASE \E e \in ScopedEncounters, kind \in {"turn", "end"} : Revision081!CallCommand(t, kind, e)
      BY <3>2 DEF Revision081!CallCommand, Revision081!Advance, Revision081!TypeOK
    <3>3. CASE Revision081!CallUpgrade(t)
      BY <3>3 DEF Revision081!CallUpgrade, Revision081!Advance, Revision081!TypeOK
    <3> QED
      BY <1>4, <3>1, <3>2, <3>3
  <2> QED
    BY <1>1, <1>c, <2>1
<1>5. ASSUME NEW t \in Txs,
             \/ Revision081!LockTable(t) \/ Revision081!LockForAudit(t)
             \/ Revision081!Audit(t) \/ Revision081!AuditAgain(t)
      PROVE  Knows(u)'
  <2>1. /\ UNCHANGED <<scope, rowHolder, installed, read, task>>
        /\ u # t => stage'[u] = stage[u]
        /\ u = t /\ Holds(u)' => Holds(u)
    BY <1>5 DEF Revision081!LockTable, Revision081!LockForAudit, Revision081!Audit,
                Revision081!AuditAgain, Revision081!Advance, Revision081!TypeOK
  <2> QED
    BY <1>1, <1>c, <2>1
<1>6. ASSUME NEW t \in Txs, Revision081!LockRow(t)
      PROVE  Knows(u)'
  <2>1. /\ UNCHANGED <<scope, installed, task>>
        /\ rowHolder' = [rowHolder EXCEPT ![task[t].encounter] = t]
        /\ rowHolder[task[t].encounter] = None
        /\ u # t => stage'[u] = stage[u] /\ read'[u] = read[u]
    BY <1>6 DEF Revision081!LockRow, Revision081!Advance, Revision081!TypeOK
  <2>2. CASE u = t
    <3>1. task[t].encounter \in ScopedEncounters
      <4>1. task[t] \in Revision081!Commands /\ task[t].kind # "upgrade"
        BY <1>6 DEF Revision081!LockRow, Revision081!Advance, Revision081!CallFits
      <4> QED
        BY <4>1, RevCallFields
    <3>2. IF task[t].kind = "write"
            THEN Revision081!Accepted(task[t].encounter, task[t].new)
            ELSE read'[t] = Revision081!Stamp(scope[task[t].encounter])
      BY <1>6 DEF Revision081!LockRow, Revision081!TypeOK
    <3> QED
      BY <2>1, <2>2, <3>1, <3>2 DEF Revision081!Accepted, Revision081!TypeOK
  <2>3. CASE u # t
    <3>1. Holds(u) /\ Knows(u) /\ task[u].encounter # task[t].encounter
      BY <1>a, <1>c, <2>1, <2>3
    <3> QED
      BY <1>b, <2>1, <2>3, <3>1 DEF Revision081!Accepted, Revision081!TypeOK
  <2> QED
    BY <2>2, <2>3
<1>7. ASSUME NEW t \in Txs, Revision081!End(t)
      PROVE  u # t /\ Holds(u) /\ Knows(u) /\ task'[u] = task[u] /\ read'[u] = read[u]
             /\ rowHolder'[task[u].encounter] = u
  <2>1. u # t /\ stage'[u] = stage[u] /\ task'[u] = task[u] /\ read'[u] = read[u]
    BY <1>7, <1>c DEF Revision081!End, Revision081!TypeOK
  <2>2. Holds(u) /\ Knows(u)
    BY <1>a, <1>c, <2>1
  <2> QED
    BY <1>7, <1>b, <2>1, <2>2 DEF Revision081!End
<1>8. ASSUME NEW t \in Txs, Revision081!Rollback(t) \/ Revision081!CommitCommand(t)
      PROVE  Knows(u)'
  BY <1>7, <1>8 DEF Revision081!Rollback, Revision081!CommitCommand, Revision081!Accepted
<1>9. ASSUME NEW t \in Txs, Revision081!CommitUpgrade(t)
      PROVE  Knows(u)'
  <2>1. /\ Holds(u) /\ Knows(u) /\ u # t /\ task'[u] = task[u] /\ read'[u] = read[u]
        /\ rowHolder'[task[u].encounter] = u /\ scope' = scope
    BY <1>7, <1>9 DEF Revision081!CommitUpgrade
  <2>2. task[u].kind # "write"
    BY <1>9, <2>1 DEF Revision081!CommitUpgrade, Revision081!HoldsTable
  <2> QED
    BY <2>1, <2>2
<1>10. ASSUME NEW t \in Txs, Revision081!CommitWrite(t)
       PROVE  Knows(u)'
  <2>1. /\ Holds(u) /\ Knows(u) /\ u # t /\ task'[u] = task[u] /\ read'[u] = read[u]
        /\ rowHolder'[task[u].encounter] = u /\ installed' = installed
    BY <1>7, <1>10 DEF Revision081!CommitWrite
  <2>2. Knows(t)
    BY <1>a, <1>10 DEF Revision081!CommitWrite
  <2>3. scope'[task[u].encounter] = scope[task[u].encounter]
    BY <1>10, <1>b, <2>1, <2>2 DEF Revision081!CommitWrite, Revision081!TypeOK
  <2> QED
    BY <2>1, <2>3 DEF Revision081!Accepted
<1> HIDE DEF Knows
<1> QED
  BY <1>2, <1>3, <1>4, <1>5, <1>6, <1>8, <1>9, <1>10 DEF Revision081!Next

LEMMA ScopeInductive ==
  ASSUME None \notin Txs, None \notin Revision081!AnyScope, Scopes \subseteq Revision081!AnyScope,
         Revision081!IInv, [Revision081!Next]_(Revision081!scopeVars)
  PROVE  /\ Revision081!Audited'
         /\ \A e \in ScopedEncounters : scope'[e] = None => stamps'[e] = {}
         /\ Revision081!InstalledMeansScoped'
<1> DEFINE Goal == /\ Revision081!Audited'
                   /\ \A e \in ScopedEncounters : scope'[e] = None => stamps'[e] = {}
                   /\ Revision081!InstalledMeansScoped'
<1> USE DEF Revision081!IInv
<1>1. ASSUME UNCHANGED <<scope, stamps>>, installed' => installed,
             \A t \in Txs : stage'[t] \in {"audit again", "install"} => stage'[t] = stage[t]
      PROVE  Goal
  BY <1>1 DEF Revision081!Audited, Revision081!InstalledMeansScoped, Revision081!AllScoped,
              Revision081!AllAgree
<1>2. ASSUME Revision081!Downgrade \/ UNCHANGED Revision081!scopeVars
      PROVE  Goal
  <2>1. UNCHANGED <<scope, stamps, stage>> /\ (installed' => installed)
    BY <1>2 DEF Revision081!Downgrade, Revision081!scopeVars
  <2> QED
    BY <1>1, <2>1
<1>3. ASSUME NEW t \in Txs,
             \/ \E e \in ScopedEncounters, r \in Scopes : Revision081!CallWrite(t, e, r)
             \/ \E e \in ScopedEncounters, kind \in {"turn", "end"} : Revision081!CallCommand(t, kind, e)
             \/ Revision081!CallUpgrade(t) \/ Revision081!LockTable(t) \/ Revision081!LockRow(t)
             \/ Revision081!LockForAudit(t) \/ Revision081!Rollback(t)
      PROVE  Goal
  <2>1. /\ UNCHANGED <<scope, stamps, installed>>
        /\ \A u \in Txs : stage'[u] \in {"audit again", "install"} => stage'[u] = stage[u]
    BY <1>3 DEF Revision081!CallWrite, Revision081!CallCommand, Revision081!CallUpgrade,
         Revision081!LockTable, Revision081!LockRow, Revision081!LockForAudit,
         Revision081!Rollback, Revision081!End, Revision081!Advance, Revision081!TypeOK
  <2> QED
    BY <1>1, <2>1
<1>4. ASSUME NEW t \in Txs, Revision081!Audit(t) \/ Revision081!AuditAgain(t)
      PROVE  Goal
  <2>1. UNCHANGED <<scope, stamps, installed>>
    BY <1>4 DEF Revision081!Audit, Revision081!AuditAgain
  <2>2. /\ Revision081!AllScoped' <=> Revision081!AllScoped
        /\ Revision081!AllAgree' <=> Revision081!AllAgree
    BY <2>1 DEF Revision081!AllScoped, Revision081!AllAgree
  <2>3. /\ \A u \in Txs \ {t} : stage'[u] = stage[u]
        /\ \/ stage'[t] = "audit again" /\ Revision081!AllScoped
           \/ stage'[t] = "install" /\ stage[t] = "audit again" /\ Revision081!AllAgree
    BY <1>4 DEF Revision081!Audit, Revision081!AuditAgain, Revision081!Advance, Revision081!TypeOK
  <2>4. Revision081!Audited'
    BY <2>2, <2>3 DEF Revision081!Audited
  <2> QED
    BY <2>1, <2>2, <2>4 DEF Revision081!InstalledMeansScoped
<1>5. ASSUME NEW t \in Txs, Revision081!CommitUpgrade(t)
      PROVE  Goal
  BY <1>5 DEF Revision081!CommitUpgrade, Revision081!End, Revision081!TypeOK,
       Revision081!Audited, Revision081!InstalledMeansScoped, Revision081!AllScoped,
       Revision081!AllAgree
<1>6. ASSUME NEW t \in Txs, Revision081!CommitWrite(t)
      PROVE  Goal
  <2> DEFINE e == task[t].encounter
             new == task[t].new
  <2>1. e \in ScopedEncounters /\ new \in Scopes /\ new # None
    BY <1>6, RevCallFields DEF Revision081!CommitWrite, Revision081!CallFits
  <2>2. /\ rowHolder[e] = t /\ Revision081!Accepted(e, new)
        /\ tableLock[t] = "row exclusive"
    BY <1>6 DEF Revision081!CommitWrite, Revision081!HoldsRow, Revision081!HoldsTable
  <2>3. scope' = [scope EXCEPT ![e] = new] /\ UNCHANGED <<stamps, installed>>
    BY <1>6 DEF Revision081!CommitWrite
  <2>4. \A u \in Txs : stage'[u] \notin {"audit again", "install"}
    BY <1>6, <2>2 DEF Revision081!CommitWrite, Revision081!End, Revision081!HoldsTable,
                      Revision081!TypeOK
  <2>5. installed' => Revision081!AllScoped'
    BY <2>1, <2>2, <2>3 DEF Revision081!Accepted, Revision081!InstalledMeansScoped,
         Revision081!AllScoped, Revision081!Scoped, Revision081!TypeOK
  <2>6. installed' => Revision081!AllAgree'
    <3>1. installed => scope[e] = None \/ Revision081!Stamp(scope[e]) = Revision081!Stamp(new)
      BY <2>2 DEF Revision081!Accepted, Revision081!SameIdentity
    <3> QED
      BY <2>1, <2>3, <3>1 DEF Revision081!InstalledMeansScoped, Revision081!AllAgree,
           Revision081!TypeOK
  <2>7. \A f \in ScopedEncounters : scope'[f] = None => stamps'[f] = {}
    BY <2>1, <2>3 DEF Revision081!TypeOK
  <2> QED
    BY <2>4, <2>5, <2>6, <2>7 DEF Revision081!Audited, Revision081!InstalledMeansScoped
<1>7. ASSUME NEW t \in Txs, Revision081!CommitCommand(t)
      PROVE  Goal
  <2> DEFINE e == task[t].encounter
  <2>1. /\ task[t] \in Revision081!Commands /\ task[t].kind \notin {"write", "upgrade"}
        /\ task[t].kind \in {"turn", "end"} => scope[e] # None
        /\ stamps' = [stamps EXCEPT ![e] = @ \cup {read[t]}]
        /\ UNCHANGED <<scope, installed>>
    BY <1>7 DEF Revision081!CommitCommand, Revision081!CallFits
  <2>2. e \in ScopedEncounters /\ scope[e] # None
    BY <2>1, RevCallFields
  <2>3. read[t] = Revision081!Stamp(scope[e])
    BY <1>7 DEF Revision081!CommitCommand, Revision081!HoldsRow
  <2>4. Revision081!AllAgree => Revision081!AllAgree'
    BY <2>1, <2>2, <2>3 DEF Revision081!AllAgree, Revision081!TypeOK
  <2>5. Revision081!AllScoped => Revision081!AllScoped'
    BY <2>1 DEF Revision081!AllScoped
  <2>6. \A u \in Txs : stage'[u] \in {"audit again", "install"} => stage'[u] = stage[u]
    BY <1>7 DEF Revision081!CommitCommand, Revision081!End, Revision081!TypeOK
  <2>7. \A f \in ScopedEncounters : scope'[f] = None => stamps'[f] = {}
    BY <2>1, <2>2 DEF Revision081!TypeOK
  <2> QED
    BY <2>1, <2>4, <2>5, <2>6, <2>7 DEF Revision081!Audited, Revision081!InstalledMeansScoped
<1> HIDE DEF Goal, Revision081!IInv
<1>8. Goal
  BY <1>2, <1>3, <1>4, <1>5, <1>6, <1>7 DEF Revision081!Next
<1> QED
  BY <1>8 DEF Goal

LEMMA RevisionInit == None \notin Revision081!AnyScope \cup Txs /\ Revision081!Init => Revision081!IInv
<1> SUFFICES ASSUME None \notin Revision081!AnyScope \cup Txs, Revision081!Init
             PROVE  Revision081!IInv
  OBVIOUS
<1>1. Revision081!TypeOK
  BY DEF Revision081!Init, Revision081!TypeOK
<1>2. /\ Revision081!CallFits /\ Revision081!HoldsTable /\ Revision081!HoldsRow
      /\ Revision081!Audited /\ Revision081!InstalledMeansScoped
  BY DEF Revision081!Init, Revision081!CallFits, Revision081!HoldsTable, Revision081!HoldsRow,
         Revision081!Audited, Revision081!InstalledMeansScoped
<1> QED
  BY <1>1, <1>2 DEF Revision081!Init, Revision081!IInv

(* Installed on a live database, revision 081 holds of every encounter and of *)
(* everything recorded about one: the table lock of the upgrade keeps writers *)
(* out between its audits and its commit, and a command, which it lets pass,  *)
(* records what it has read under the lock of the row.                        *)
THEOREM ScopeIsEnforced ==
  ASSUME Revision081!ScopesAssumption
  PROVE  Revision081!Spec => []InstalledMeansScoped
<1>1. None \notin Txs /\ None \notin Revision081!AnyScope /\ Scopes \subseteq Revision081!AnyScope
  BY DEF Revision081!ScopesAssumption
<1>2. Revision081!Init => Revision081!IInv
  BY <1>1, RevisionInit
<1>3. Revision081!IInv /\ [Revision081!Next]_(Revision081!scopeVars) => Revision081!IInv'
  <2> SUFFICES ASSUME Revision081!IInv, [Revision081!Next]_(Revision081!scopeVars)
               PROVE  Revision081!IInv'
    OBVIOUS
  <2>1. Revision081!TypeOK' /\ Revision081!CallFits' /\ Revision081!HoldsTable' /\ Revision081!HoldsRow'
    BY <1>1, ScopeTypes, CallFitsInductive, TableInductive, RowInductive DEF Revision081!IInv
  <2> QED
    BY <1>1, <2>1, ScopeInductive DEF Revision081!IInv
<1> QED
  BY <1>2, <1>3, PTL DEF Revision081!Spec, Revision081!IInv, InstalledMeansScoped
=============================================================================
