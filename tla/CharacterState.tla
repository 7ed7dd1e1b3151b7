---------------------------- MODULE CharacterState ----------------------------
(***************************************************************************)
(* Encounters, hit points and resources under concurrent transactions      *)
(* (src/dnd_ai/commands/encounters.py, commands/character_state.py): each  *)
(* command locks the rows it reads with SELECT ... FOR UPDATE, the         *)
(* encounter first, and keeps them locked until it commits.                *)
(*                                                                         *)
(* Transactions run at READ COMMITTED: a statement that waited for a row   *)
(* sees the row as it was committed.  Writes show at the commit.           *)
(***************************************************************************)
EXTENDS Integers, Sequences

CONSTANTS
  Txs,               \* transactions that may be open at the same time
  Encounters,
  Slots,             \* (round number, participant): at most one turn of each
  Campaigns,
  HitPoints,         \* rows of campaign.character_state
  Resources,         \* rows of campaign.character_resources
  Maximum,           \* maximum_hit_points, maximum_amount
  Calls,             \* the calls that may be made
  MaxTransactions,   \* bound: calls made in a behaviour
  None

Rows == HitPoints \cup Resources
Hits == {"hit", "miss", "unreported"}

\* A combat turn names its target's row, or None for no target and for one
\* without hit points; "adjust" is adjust_hit_points or
\* adjust_character_resource, by the kind of its row.
AnyCall ==
  [kind : {"turn"}, encounter : Encounters, campaign : Campaigns \cup {None}, slot : Slots,
   hit : Hits, row : HitPoints \cup {None}, amount : Nat]
    \cup [kind : {"end"}, encounter : Encounters, campaign : Campaigns \cup {None}]
    \cup [kind : {"adjust"}, row : Rows, amount : Int]

ASSUME CallsAssumption == \A k \in Calls : k \in AnyCall

ASSUME RowsAssumption ==
  /\ HitPoints \cap Resources = {}
  /\ Maximum \in [Rows -> Nat]
  /\ MaxTransactions \in Nat

ASSUME NoneAssumption ==
  None \notin Txs /\ None \notin Calls /\ None \notin Rows /\ None \notin Campaigns

VARIABLES
  status, campaign,       \* narrative.encounters, as committed
  turns,                  \* narrative.encounter_turns and their interactions
  endings,                \* completion events of an encounter
  value, history,         \* a row and its narrative.event_effects
  lastEvent,              \* last_event_id: the place of the event in history
  encounterLock, rowLock, \* the transaction that holds a row lock
  pc, call,               \* a transaction: where it is, what it was called with
  seen,                   \* the value it read from its row
  owner,                  \* the campaign it read from its encounter
  made

tables == <<status, campaign, turns, endings, value, history, lastEvent>>
vars == <<tables, encounterLock, rowLock, pc, call, seen, owner, made>>

Steps == {"idle", "encounter", "turn", "row", "write", "commit"}

TypeOK ==
  /\ status \in [Encounters -> {"none", "active", "completed"}]
  /\ campaign \in [Encounters -> Campaigns \cup {None}]
  /\ turns \in SUBSET [encounter : Encounters, slot : Slots, campaign : Campaigns \cup {None}]
  /\ endings \in [Encounters -> Nat]
  /\ value \in [Rows -> Nat]
  /\ history \in [Rows -> Seq([previous : Nat, new : Nat])]
  /\ lastEvent \in [Rows -> Nat]
  /\ encounterLock \in [Encounters -> Txs \cup {None}]
  /\ rowLock \in [Rows -> Txs \cup {None}]
  /\ pc \in [Txs -> Steps]
  /\ call \in [Txs -> Calls \cup {None}]
  /\ seen \in [Txs -> Nat]
  /\ owner \in [Txs -> Campaigns \cup {None}]
  /\ made \in Nat

Init ==
  /\ status = [e \in Encounters |-> "none"]
  /\ campaign = [e \in Encounters |-> None]
  /\ turns = {}
  /\ endings = [e \in Encounters |-> 0]
  /\ value = Maximum
  /\ history = [x \in Rows |-> <<>>]
  /\ lastEvent = [x \in Rows |-> 0]
  /\ encounterLock = [e \in Encounters |-> None]
  /\ rowLock = [x \in Rows |-> None]
  /\ pc = [t \in Txs |-> "idle"]
  /\ call = [t \in Txs |-> None]
  /\ seen = [t \in Txs |-> 0]
  /\ owner = [t \in Txs |-> None]
  /\ made = 0
-----------------------------------------------------------------------------
Goto(t, step) == pc' = [pc EXCEPT ![t] = step]

\* The transaction ends and its row locks are released.
Release(t) ==
  /\ encounterLock' = [e \in Encounters |-> IF encounterLock[e] = t THEN None ELSE encounterLock[e]]
  /\ rowLock' = [x \in Rows |-> IF rowLock[x] = t THEN None ELSE rowLock[x]]
  /\ Goto(t, "idle")
  /\ call' = [call EXCEPT ![t] = None]
  /\ seen' = [seen EXCEPT ![t] = 0]
  /\ owner' = [owner EXCEPT ![t] = None]
  /\ UNCHANGED made

\* Mutant of Rollback: the connection is dropped, not closed.
RollbackKeepingLocks(t) ==
  /\ pc[t] # "idle"
  /\ Goto(t, "idle")
  /\ UNCHANGED <<tables, encounterLock, rowLock, call, seen, owner, made>>

\* A validation fails, the database rejects a row, or the connection breaks.
Rollback(t) == pc[t] # "idle" /\ Release(t) /\ UNCHANGED tables

\* start_encounter, which inserts rows nobody else knows of.  The campaign of an
\* encounter never changes afterwards: module EncounterScope.
StartEncounter(e, c) ==
  /\ status[e] = "none"
  /\ status' = [status EXCEPT ![e] = "active"]
  /\ campaign' = [campaign EXCEPT ![e] = c]
  /\ UNCHANGED <<turns, endings, value, history, lastEvent, encounterLock, rowLock, pc, call,
                 seen, owner, made>>

Begin(t, k) ==
  /\ pc[t] = "idle"
  /\ made < MaxTransactions
  /\ made' = made + 1
  /\ call' = [call EXCEPT ![t] = k]
  /\ Goto(t, IF k.kind = "adjust" THEN "row" ELSE "encounter")
  /\ UNCHANGED <<tables, encounterLock, rowLock, seen, owner>>

\* The checks of _lock_encounter on the row it has locked.
Usable(t) ==
  /\ status[call[t].encounter] = "active"
  /\ call[t].campaign \in {None, campaign[call[t].encounter]}

\* _lock_encounter
LockEncounter(t) ==
  /\ pc[t] = "encounter"
  /\ encounterLock[call[t].encounter] = None
  /\ Usable(t)
  /\ encounterLock' = [encounterLock EXCEPT ![call[t].encounter] = t]
  /\ owner' = [owner EXCEPT ![t] = campaign[call[t].encounter]]
  /\ Goto(t, IF call[t].kind = "turn" THEN "turn" ELSE "commit")
  /\ UNCHANGED <<tables, rowLock, call, seen, made>>

\* EncounterNotFoundError, EncounterNotActiveError
EncounterRefused(t) ==
  /\ pc[t] = "encounter"
  /\ encounterLock[call[t].encounter] = None
  /\ ~Usable(t)
  /\ Release(t)
  /\ UNCHANGED tables

\* Only a hit, or an unreported one, with damage on tracked hit points.
Damaging(k) == k.hit # "miss" /\ k.amount > 0 /\ k.row # None

SlotFree(e, s) == \A u \in turns : u.encounter # e \/ u.slot # s

\* Round, interaction, combat action and turn are inserted.
InsertTurn(t) ==
  /\ pc[t] = "turn"
  /\ SlotFree(call[t].encounter, call[t].slot)
  /\ Goto(t, IF Damaging(call[t]) THEN "row" ELSE "commit")
  /\ UNCHANGED <<tables, encounterLock, rowLock, call, seen, owner, made>>

\* ux_encounter_turns_round_participant
TurnTaken(t) ==
  /\ pc[t] = "turn"
  /\ ~SlotFree(call[t].encounter, call[t].slot)
  /\ Release(t)
  /\ UNCHANGED tables

\* Mutant of LockRow: a SELECT without FOR UPDATE.
ReadRow(t) ==
  /\ pc[t] = "row"
  /\ seen' = [seen EXCEPT ![t] = value[call[t].row]]
  /\ Goto(t, "write")
  /\ UNCHANGED <<tables, encounterLock, rowLock, call, owner, made>>

LockRow(t) ==
  /\ pc[t] = "row"
  /\ rowLock[call[t].row] = None
  /\ rowLock' = [rowLock EXCEPT ![call[t].row] = t]
  /\ seen' = [seen EXCEPT ![t] = value[call[t].row]]
  /\ Goto(t, "write")
  /\ UNCHANGED <<tables, encounterLock, call, owner, made>>

Clamp(n, bottom, top) == IF n < bottom THEN bottom ELSE IF n > top THEN top ELSE n

\* The value a command computes in Python from the one it has read.
NewValue(k, v) ==
  IF k.kind = "turn" THEN v - k.amount
  ELSE IF k.row \in HitPoints THEN Clamp(v + k.amount, 0, Maximum[k.row])
  ELSE v + k.amount

\* The CHECK constraints: never negative, and a resource within its maximum.
RowAccepts(x, v) == v >= 0 /\ (x \in Resources => v <= Maximum[x])

RowRejects(t) ==
  /\ pc[t] = "write"
  /\ ~RowAccepts(call[t].row, NewValue(call[t], seen[t]))
  /\ Release(t)
  /\ UNCHANGED tables

\* An adjustment that changes nothing writes nothing.
AdjustNothing(t) ==
  /\ pc[t] = "write"
  /\ call[t].kind = "adjust"
  /\ NewValue(call[t], seen[t]) = seen[t]
  /\ Release(t)
  /\ UNCHANGED tables

\* The UPDATE of a row and the effect that records it.
Change(t) ==
  LET x == call[t].row
      new == NewValue(call[t], seen[t])
  IN /\ RowAccepts(x, new)
     /\ value' = [value EXCEPT ![x] = new]
     /\ history' = [history EXCEPT ![x] = Append(@, [previous |-> seen[t], new |-> new])]

CommitAdjust(t) ==
  /\ pc[t] = "write"
  /\ call[t].kind = "adjust"
  /\ NewValue(call[t], seen[t]) # seen[t]
  /\ Change(t)
  /\ lastEvent' = [lastEvent EXCEPT ![call[t].row] = Len(history[call[t].row]) + 1]
  /\ Release(t)
  /\ UNCHANGED <<status, campaign, turns, endings>>

RecordTurn(t) ==
  turns' = turns \cup
    {[encounter |-> call[t].encounter, slot |-> call[t].slot, campaign |-> owner[t]]}

CommitTurn(t) ==
  /\ pc[t] = "commit"
  /\ call[t].kind = "turn"
  /\ RecordTurn(t)
  /\ Release(t)
  /\ UNCHANGED <<status, campaign, endings, value, history, lastEvent>>

\* The UPDATE of a combat turn leaves last_event_id alone.
CommitDamage(t) ==
  /\ pc[t] = "write"
  /\ call[t].kind = "turn"
  /\ RecordTurn(t)
  /\ Change(t)
  /\ Release(t)
  /\ UNCHANGED <<status, campaign, endings, lastEvent>>

CommitEnd(t) ==
  /\ pc[t] = "commit"
  /\ call[t].kind = "end"
  /\ status' = [status EXCEPT ![call[t].encounter] = "completed"]
  /\ endings' = [endings EXCEPT ![call[t].encounter] = @ + 1]
  /\ Release(t)
  /\ UNCHANGED <<campaign, turns, value, history, lastEvent>>

Progress(t) ==
  \/ LockEncounter(t) \/ EncounterRefused(t) \/ InsertTurn(t) \/ TurnTaken(t)
  \/ LockRow(t) \/ RowRejects(t) \/ AdjustNothing(t)
  \/ CommitAdjust(t) \/ CommitTurn(t) \/ CommitDamage(t) \/ CommitEnd(t)

Next ==
  \/ \E t \in Txs, k \in Calls : Begin(t, k)
  \/ \E t \in Txs : Progress(t) \/ Rollback(t)
  \/ \E e \in Encounters, c \in Campaigns \cup {None} : StartEncounter(e, c)

Fairness == \A t \in Txs : WF_vars(Progress(t))

Spec == Init /\ [][Next]_vars
FairSpec == Spec /\ Fairness
-----------------------------------------------------------------------------
\* The recorded changes of a row follow on each other, from its maximum to its
\* current value: no update is lost, and none happens without a record.
HistoryExplainsValue ==
  \A x \in Rows :
    /\ \A i \in 1 .. Len(history[x]) :
         history[x][i].previous = IF i = 1 THEN Maximum[x] ELSE history[x][i - 1].new
    /\ value[x] = IF history[x] = <<>> THEN Maximum[x] ELSE history[x][Len(history[x])].new

\* Hit points and resources stay within their bounds, although combat damage
\* is not clamped and the bounds of a resource are left to the database.
WithinBounds == \A x \in Rows : value[x] \in 0 .. Maximum[x]

\* An encounter is ended once, whoever else ends it or resolves a turn at the
\* same time, and a completed encounter takes no further turn.
CompletedEncounterIsClosed ==
  [][\A e \in Encounters :
       status[e] = "completed" =>
         /\ status'[e] = "completed" /\ endings'[e] = endings[e]
         /\ \A u \in turns' \ turns : u.encounter # e]_vars

\* The campaign that a transaction has read from the encounter, and attributes
\* its turn to, is the one that owns the encounter, then and ever after.
TurnsBelongToTheOwner ==
  \A u \in turns : status[u.encounter] # "none" /\ u.campaign = campaign[u.encounter]

\* One after the other, the transactions are commands that take effect in one
\* step: the locking of rows makes them serial.
Ledger == INSTANCE CombatLedger

ImplementsLedger == Ledger!Spec

\* last_event_id names the event that produced the current values (comment of
\* campaign.character_state in src/dnd_ai/persistence/tables/campaign.py).  TLC
\* refutes it: README, section 6.
LastEventIsCurrent == \A x \in Rows : lastEvent[x] = Len(history[x])

\* Every transaction ends: the rows are locked in the same order by all.
EveryTransactionEnds == \A t \in Txs : pc[t] # "idle" ~> pc[t] = "idle"
-----------------------------------------------------------------------------
\* The inductive invariant: what a transaction has read is still so, because
\* it holds the locks of what it has read.
HoldsEncounter(t) ==
  pc[t] \in {"turn", "commit"} \/ (pc[t] \in {"row", "write"} /\ call[t].kind = "turn")

CallInv ==
  \A t \in Txs :
    /\ pc[t] # "idle" => call[t] \in Calls
    /\ pc[t] \in {"encounter", "commit"} => call[t].kind \in {"turn", "end"}
    /\ pc[t] = "turn" => call[t].kind = "turn"
    /\ pc[t] \in {"row", "write"} =>
         call[t].kind = "adjust" \/ (call[t].kind = "turn" /\ Damaging(call[t]))

EncounterInv ==
  \A t \in Txs :
    HoldsEncounter(t) =>
      /\ encounterLock[call[t].encounter] = t
      /\ Usable(t)
      /\ owner[t] = campaign[call[t].encounter]
      /\ call[t].kind = "turn" /\ pc[t] # "turn" => SlotFree(call[t].encounter, call[t].slot)

RowInv ==
  \A t \in Txs :
    pc[t] = "write" => rowLock[call[t].row] = t /\ seen[t] = value[call[t].row]

IInv ==
  /\ TypeOK /\ CallInv /\ EncounterInv /\ RowInv
  /\ WithinBounds /\ HistoryExplainsValue
=============================================================================
