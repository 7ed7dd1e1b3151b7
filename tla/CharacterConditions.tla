-------------------------- MODULE CharacterConditions --------------------------
(***************************************************************************)
(* Applying and removing conditions (src/dnd_ai/commands/                  *)
(* character_state.py).  A condition that a character has is a row of      *)
(* campaign.character_conditions; a condition it does not have is no row,  *)
(* and SELECT ... FOR UPDATE cannot lock what is not there.                *)
(*                                                                         *)
(* The statements of a transaction run at READ COMMITTED: a SELECT that    *)
(* waited for a row goes on with that row or finds it deleted, and misses  *)
(* a row inserted meanwhile; an INSERT waits for an uncommitted INSERT or  *)
(* DELETE of its primary key and then fails if there is a row.             *)
(***************************************************************************)
EXTENDS Naturals, Sequences

CONSTANTS
  Txs,       \* transactions that may be open at the same time
  Keys,      \* (timeline, character, condition)
  MaxCalls,  \* bound: calls made in a behaviour
  None

ASSUME NoneAssumption == None \notin Txs /\ None \notin Keys /\ MaxCalls \in Nat

VARIABLES
  present,    \* the committed rows
  changes,    \* the committed effects of a key, oldest first
  inserter,   \* the transaction with an uncommitted INSERT of a key
  rowLock,    \* the transaction that holds the lock of a committed row
  pc, kind, key,
  calls

vars == <<present, changes, inserter, rowLock, pc, kind, key, calls>>

Steps == {"idle", "select", "waiting", "found", "absent", "inserted", "deleted"}

TypeOK ==
  /\ present \in [Keys -> BOOLEAN]
  /\ changes \in [Keys -> Seq({"applied", "removed"})]
  /\ inserter \in [Keys -> Txs \cup {None}]
  /\ rowLock \in [Keys -> Txs \cup {None}]
  /\ pc \in [Txs -> Steps]
  /\ kind \in [Txs -> {"apply", "remove"}]
  /\ key \in [Txs -> Keys \cup {None}]
  /\ calls \in Nat

Init ==
  /\ present = [k \in Keys |-> FALSE]
  /\ changes = [k \in Keys |-> <<>>]
  /\ inserter = [k \in Keys |-> None]
  /\ rowLock = [k \in Keys |-> None]
  /\ pc = [t \in Txs |-> "idle"]
  /\ kind = [t \in Txs |-> "apply"]
  /\ key = [t \in Txs |-> None]
  /\ calls = 0
-----------------------------------------------------------------------------
Goto(t, from, to) ==
  /\ pc[t] = from
  /\ pc' = [pc EXCEPT ![t] = to]

Unlock(t) ==
  /\ inserter' = [k \in Keys |-> IF inserter[k] = t THEN None ELSE inserter[k]]
  /\ rowLock' = [k \in Keys |-> IF rowLock[k] = t THEN None ELSE rowLock[k]]
  /\ UNCHANGED <<kind, key, calls>>

Call(t, what, k) ==
  /\ Goto(t, "idle", "select")
  /\ calls < MaxCalls
  /\ calls' = calls + 1
  /\ kind' = [kind EXCEPT ![t] = what]
  /\ key' = [key EXCEPT ![t] = k]
  /\ UNCHANGED <<present, changes, inserter, rowLock>>

\* The row is there and not locked, or not any more.
SelectFinds(t) ==
  /\ pc[t] \in {"select", "waiting"}
  /\ present[key[t]]
  /\ rowLock[key[t]] = None
  /\ rowLock' = [rowLock EXCEPT ![key[t]] = t]
  /\ pc' = [pc EXCEPT ![t] = "found"]
  /\ UNCHANGED <<present, changes, inserter, kind, key, calls>>

SelectFindsNothing(t) ==
  /\ Goto(t, "select", "absent")
  /\ ~present[key[t]]
  /\ UNCHANGED <<present, changes, inserter, rowLock, kind, key, calls>>

SelectWaits(t) ==
  /\ Goto(t, "select", "waiting")
  /\ present[key[t]]
  /\ rowLock[key[t]] # None
  /\ UNCHANGED <<present, changes, inserter, rowLock, kind, key, calls>>

Deleting(k) == rowLock[k] # None /\ pc[rowLock[k]] = "deleted"

\* Mutant of Insert: ON CONFLICT DO UPDATE, an upsert.
Upsert(t) ==
  /\ kind[t] = "apply"
  /\ Goto(t, "absent", "inserted")
  /\ inserter[key[t]] = None
  /\ inserter' = [inserter EXCEPT ![key[t]] = t]
  /\ UNCHANGED <<present, changes, rowLock, kind, key, calls>>

Insert(t) ==
  /\ kind[t] = "apply"
  /\ Goto(t, "absent", "inserted")
  /\ inserter[key[t]] = None
  /\ ~present[key[t]]
  /\ inserter' = [inserter EXCEPT ![key[t]] = t]
  /\ UNCHANGED <<present, changes, rowLock, kind, key, calls>>

\* The primary key is taken after all: the request is answered with an error.
InsertConflicts(t) ==
  /\ kind[t] = "apply"
  /\ Goto(t, "absent", "idle")
  /\ present[key[t]]
  /\ ~Deleting(key[t])
  /\ Unlock(t)
  /\ UNCHANGED <<present, changes>>

Delete(t) ==
  /\ kind[t] = "remove"
  /\ Goto(t, "found", "deleted")
  /\ UNCHANGED <<present, changes, inserter, rowLock, kind, key, calls>>

\* An apply that finds the row or a remove that does not: no event, no write.
CommitNothing(t) ==
  /\ \/ kind[t] = "apply" /\ Goto(t, "found", "idle")
     \/ kind[t] = "remove" /\ Goto(t, "absent", "idle")
  /\ Unlock(t)
  /\ UNCHANGED <<present, changes>>

CommitApply(t) ==
  /\ Goto(t, "inserted", "idle")
  /\ present' = [present EXCEPT ![key[t]] = TRUE]
  /\ changes' = [changes EXCEPT ![key[t]] = Append(@, "applied")]
  /\ Unlock(t)

\* Whoever waits for the row finds it deleted.
CommitRemove(t) ==
  /\ pc[t] = "deleted"
  /\ pc' = [u \in Txs |->
              IF u = t THEN "idle"
              ELSE IF pc[u] = "waiting" /\ key[u] = key[t] THEN "absent"
              ELSE pc[u]]
  /\ present' = [present EXCEPT ![key[t]] = FALSE]
  /\ changes' = [changes EXCEPT ![key[t]] = Append(@, "removed")]
  /\ Unlock(t)

\* A check of the database fails, or the connection breaks.
Rollback(t) ==
  /\ pc[t] # "idle"
  /\ pc' = [pc EXCEPT ![t] = "idle"]
  /\ Unlock(t)
  /\ UNCHANGED <<present, changes>>

Progress(t) ==
  \/ SelectFinds(t) \/ SelectFindsNothing(t) \/ SelectWaits(t)
  \/ Insert(t) \/ InsertConflicts(t) \/ Delete(t)
  \/ CommitNothing(t) \/ CommitApply(t) \/ CommitRemove(t)

Next ==
  \/ \E t \in Txs, what \in {"apply", "remove"}, k \in Keys : Call(t, what, k)
  \/ \E t \in Txs : Progress(t) \/ Rollback(t)

Spec == Init /\ [][Next]_vars
-----------------------------------------------------------------------------
\* The events of a condition alternate and explain whether the character has
\* it: no application or removal is recorded twice, however calls race.
ChangesAlternate ==
  \A k \in Keys :
    /\ \A i \in 1 .. Len(changes[k]) :
         changes[k][i] # IF i = 1 THEN "removed" ELSE changes[k][i - 1]
    /\ present[k] = (changes[k] # <<>> /\ changes[k][Len(changes[k])] = "applied")

\* An apply that reports the condition as already applied is right about it:
\* the row cannot be removed before its transaction ends.
AlreadyAppliedIsTrue ==
  \A t \in Txs : pc[t] = "found" => present[key[t]] /\ rowLock[key[t]] = t

\* Applying a condition that is already applied is a no-op, not an error
\* (docstring of character_state.py).  TLC refutes it: README, section 6.
RedundantApplyIsNoOp == [][\A t \in Txs : ~InsertConflicts(t)]_vars
-----------------------------------------------------------------------------
\* The inductive invariant: a row that is locked stays, and the primary key of
\* an uncommitted INSERT stays free.
TxInv ==
  \A t \in Txs :
    /\ pc[t] # "idle" => key[t] \in Keys
    /\ pc[t] \in {"found", "deleted"} => present[key[t]] /\ rowLock[key[t]] = t
    /\ pc[t] = "inserted" => ~present[key[t]] /\ inserter[key[t]] = t

IInv == TypeOK /\ TxInv /\ ChangesAlternate
=============================================================================
