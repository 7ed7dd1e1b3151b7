--------------------------------- MODULE Items ---------------------------------
(***************************************************************************)
(* Transferring and identifying items (src/dnd_ai/commands/items.py).      *)
(* Where an item is and how far a knower has identified it are rows that   *)
(* may not exist yet, campaign.inventory_entries and                       *)
(* knowledge.item_identification; both commands therefore lock the row of  *)
(* the item itself, which always exists, before they read theirs.  The     *)
(* previous value goes into the effect of the event.                       *)
(***************************************************************************)
CONSTANTS
  Txs,
  Things,   \* items
  Aspects,  \* of an item: its place, and its level for each knower
  Values,
  None

VARIABLES
  value,     \* what is committed; None when there is no row
  itemLock,  \* who holds the row of an item
  stage,
  call,      \* the command: of which item, which aspect, the new value
  previous   \* the value its transaction read, for the effect of the event

itemVars == <<value, itemLock, stage, call, previous>>

TypeOK ==
  /\ value \in [Things \X Aspects -> Values \cup {None}]
  /\ itemLock \in [Things -> Txs \cup {None}]
  /\ stage \in [Txs -> {"idle", "lock", "read", "write", "commit"}]
  /\ call \in [Txs -> [of : Things, aspect : Aspects, to : Values] \cup {None}]
  /\ previous \in [Txs -> Values \cup {None}]

Init ==
  /\ value = [k \in Things \X Aspects |-> None]
  /\ itemLock = [i \in Things |-> None]
  /\ stage = [t \in Txs |-> "idle"]
  /\ call = [t \in Txs |-> None]
  /\ previous = [t \in Txs |-> None]
-----------------------------------------------------------------------------
Row(t) == <<call[t].of, call[t].aspect>>

Advance(t, from, to) ==
  /\ stage[t] = from
  /\ stage' = [stage EXCEPT ![t] = to]

Call(t, c) ==
  /\ Advance(t, "idle", "lock")
  /\ call' = [call EXCEPT ![t] = c]
  /\ UNCHANGED <<value, itemLock, previous>>

\* Mutant of LockItem: the row that may not exist is all that is locked.
LockNothing(t) ==
  /\ Advance(t, "lock", "read")
  /\ UNCHANGED <<value, itemLock, call, previous>>

\* _lock_item_instance
LockItem(t) ==
  /\ Advance(t, "lock", "read")
  /\ itemLock[call[t].of] = None
  /\ itemLock' = [itemLock EXCEPT ![call[t].of] = t]
  /\ UNCHANGED <<value, call, previous>>

\* _lock_inventory_entry, _lock_item_identification: the writers of a row that
\* exists queue up here too.
ReadRow(t) ==
  /\ Advance(t, "read", "write")
  /\ \A u \in Txs \ {t} :
       ~(stage[u] \in {"write", "commit"} /\ Row(u) = Row(t) /\ value[Row(t)] # None)
  /\ previous' = [previous EXCEPT ![t] = value[Row(t)]]
  /\ UNCHANGED <<value, itemLock, call>>

\* An INSERT waits for another of its key, and fails if there is a row.
Write(t) ==
  /\ Advance(t, "write", "commit")
  /\ previous[t] = None =>
       /\ value[Row(t)] = None
       /\ \A u \in Txs \ {t} : ~(stage[u] = "commit" /\ Row(u) = Row(t))
  /\ UNCHANGED <<value, itemLock, call, previous>>

End(t) ==
  /\ call' = [call EXCEPT ![t] = None]
  /\ previous' = [previous EXCEPT ![t] = None]
  /\ itemLock' = [i \in Things |-> IF itemLock[i] = t THEN None ELSE itemLock[i]]

Commit(t) ==
  /\ Advance(t, "commit", "idle")
  /\ value' = [value EXCEPT ![Row(t)] = call[t].to]
  /\ End(t)

\* A check of the database refuses the row, or the connection breaks.
Rollback(t) ==
  /\ stage[t] # "idle"
  /\ stage' = [stage EXCEPT ![t] = "idle"]
  /\ End(t)
  /\ UNCHANGED value

Next ==
  \E t \in Txs :
    \/ \E c \in [of : Things, aspect : Aspects, to : Values] : Call(t, c)
    \/ LockItem(t) \/ ReadRow(t) \/ Write(t) \/ Commit(t) \/ Rollback(t)

Spec == Init /\ [][Next]_itemVars
-----------------------------------------------------------------------------
\* The previous value that a command puts into the effect of its event, "the
\* item's actual prior holder/container/location" (docstring of items.py), is
\* still true when it writes, and in particular no first write of a row is
\* refused because another made it in the meantime ("the same first-write
\* concurrency guard", docstring of _lock_item_instance).
PreviousStillHolds ==
  \A t \in Txs : stage[t] \in {"write", "commit"} => previous[t] = value[Row(t)]
-----------------------------------------------------------------------------
\* Who is past LockItem holds the item; nobody else reads or writes of it.
HoldsItem ==
  \A t \in Txs :
    /\ stage[t] # "idle" => call[t] \in [of : Things, aspect : Aspects, to : Values]
    /\ stage[t] \in {"read", "write", "commit"} => itemLock[call[t].of] = t

IInv == TypeOK /\ HoldsItem /\ PreviousStillHolds
=============================================================================
