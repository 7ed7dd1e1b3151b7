------------------------------- MODULE Rulesets -------------------------------
(***************************************************************************)
(* The rulesets that a world allows (rules.world_rulesets) and the rows    *)
(* of that world which use one: the triggers of the revisions 024, 027,    *)
(* 029, 031, 035, 037, 061, 064, 068 and 077                               *)
(* (src/database/migrations/versions).                                     *)
(*                                                                         *)
(* Both directions are checked by reading the other table, of which a      *)
(* statement sees what is committed and what its own transaction wrote.    *)
(* A row that comes to use a ruleset therefore takes a shared lock on the  *)
(* association, which conflicts with the lock that DELETE and UPDATE take  *)
(* before their trigger runs.  All locks are kept until the transaction    *)
(* ends; a transaction is any number of statements.                        *)
(***************************************************************************)
EXTENDS FiniteSets

CONSTANTS
  Txs,
  Rulesets,
  Rows,     \* rows of the world that may use a ruleset
  KindOf,   \* what each of them is
  None

VARIABLES
  allowed, newAllowed,  \* the associations: committed, and with what is written
  uses, newUses,        \* the ruleset each row uses, likewise
  shared,               \* who holds FOR SHARE on an association
  writer,               \* who wrote an association and has not ended
  rowWriter             \* who wrote a row and has not ended

rulesetVars == <<allowed, newAllowed, uses, newUses, shared, writer, rowWriter>>

Kinds == {"world default", "campaign", "species", "build", "condition", "resource",
          "language", "check request", "route", "item instance"}

\* What the trigger on the associations looks for.
Watched == Kinds \ {"item instance"}

TypeOK ==
  /\ allowed \subseteq Rulesets /\ newAllowed \subseteq Rulesets
  /\ uses \in [Rows -> Rulesets \cup {None}]
  /\ newUses \in [Rows -> Rulesets \cup {None}]
  /\ shared \in [Rulesets -> SUBSET Txs]
  /\ writer \in [Rulesets -> Txs \cup {None}]
  /\ rowWriter \in [Rows -> Txs \cup {None}]

Init ==
  /\ allowed = {} /\ newAllowed = {}
  /\ uses = [r \in Rows |-> None] /\ newUses = [r \in Rows |-> None]
  /\ shared = [s \in Rulesets |-> {}]
  /\ writer = [s \in Rulesets |-> None]
  /\ rowWriter = [r \in Rows |-> None]
-----------------------------------------------------------------------------
SeesAllowed(t, s) == s \in (IF writer[s] = t THEN newAllowed ELSE allowed)
SeesUse(t, r) == IF rowWriter[r] = t THEN newUses[r] ELSE uses[r]

StillInUse(t, s) == \E r \in Rows : KindOf[r] \in Watched /\ SeesUse(t, r) = s

MayWrite(t, s) == writer[s] \in {t, None} /\ shared[s] \subseteq {t}

\* INSERT INTO world_rulesets: the primary key admits one writer at a time.
Allow(t, s) ==
  /\ MayWrite(t, s)
  /\ ~SeesAllowed(t, s)
  /\ newAllowed' = newAllowed \cup {s}
  /\ writer' = [writer EXCEPT ![s] = t]
  /\ UNCHANGED <<allowed, uses, newUses, shared, rowWriter>>

Disallow(t, s) ==
  /\ MayWrite(t, s)
  /\ SeesAllowed(t, s)
  /\ ~StillInUse(t, s)
  /\ newAllowed' = newAllowed \ {s}
  /\ writer' = [writer EXCEPT ![s] = t]
  /\ UNCHANGED <<allowed, uses, newUses, shared, rowWriter>>

\* UPDATE world_rulesets SET ruleset_id.
Repoint(t, s, new) ==
  /\ MayWrite(t, s) /\ MayWrite(t, new)
  /\ SeesAllowed(t, s) /\ ~SeesAllowed(t, new)
  /\ ~StillInUse(t, s)
  /\ newAllowed' = (newAllowed \ {s}) \cup {new}
  /\ writer' = [writer EXCEPT ![s] = t, ![new] = t]
  /\ UNCHANGED <<allowed, uses, newUses, shared, rowWriter>>

WriteRow(t, r, s) ==
  /\ rowWriter[r] \in {t, None}
  /\ rowWriter' = [rowWriter EXCEPT ![r] = t]
  /\ newUses' = [newUses EXCEPT ![r] = s]
  /\ UNCHANGED <<allowed, newAllowed, uses, writer>>

\* The version a build is pinned to does not change.
MayUse(t, r, s) == KindOf[r] = "build" => SeesUse(t, r) \in {s, None}

\* Mutant of Use: the check of revision 029, which takes no lock.
UseUnlocked(t, r, s) ==
  /\ MayUse(t, r, s)
  /\ SeesAllowed(t, s)
  /\ WriteRow(t, r, s)
  /\ UNCHANGED shared

\* INSERT or UPDATE of a row: the association is read FOR SHARE.
Use(t, r, s) ==
  /\ MayUse(t, r, s)
  /\ writer[s] \in {t, None}
  /\ SeesAllowed(t, s)
  /\ shared' = [shared EXCEPT ![s] = @ \cup {t}]
  /\ WriteRow(t, r, s)

\* DELETE of a row, or a default that is taken back.
Release(t, r) ==
  /\ SeesUse(t, r) # None
  /\ WriteRow(t, r, None)
  /\ UNCHANGED shared

EndLocks(t) ==
  /\ shared' = [s \in Rulesets |-> shared[s] \ {t}]
  /\ writer' = [s \in Rulesets |-> IF writer[s] = t THEN None ELSE writer[s]]
  /\ rowWriter' = [r \in Rows |-> IF rowWriter[r] = t THEN None ELSE rowWriter[r]]

Commit(t) ==
  /\ allowed' = {s \in Rulesets : SeesAllowed(t, s)}
  /\ uses' = [r \in Rows |-> SeesUse(t, r)]
  /\ UNCHANGED <<newAllowed, newUses>>
  /\ EndLocks(t)

\* A check fails, a deadlock is broken, or the connection breaks.
Rollback(t) ==
  /\ newAllowed' = {s \in Rulesets :
                      s \in (IF writer[s] = t THEN allowed ELSE newAllowed)}
  /\ newUses' = [r \in Rows |-> IF rowWriter[r] = t THEN uses[r] ELSE newUses[r]]
  /\ UNCHANGED <<allowed, uses>>
  /\ EndLocks(t)

Next ==
  \E t \in Txs :
    \/ \E s \in Rulesets : Allow(t, s) \/ Disallow(t, s)
    \/ \E s, new \in Rulesets : Repoint(t, s, new)
    \/ \E r \in Rows, s \in Rulesets : Use(t, r, s)
    \/ \E r \in Rows : Release(t, r)
    \/ Commit(t) \/ Rollback(t)

Spec == Init /\ [][Next]_rulesetVars
-----------------------------------------------------------------------------
\* What a row uses is allowed for its world, although the two sides of this are
\* written by different transactions (035, "exactly the invariant these
\* triggers exist to prevent, just not against each other").
UsedIsAllowed ==
  \A r \in Rows : KindOf[r] \in Watched /\ uses[r] # None => uses[r] \in allowed

\* "Keeps an item instance's definition drawn from a ruleset its own world
\* allows" (077:408).  TLC refutes it: README, section 6.
ItemIsAllowed ==
  \A r \in Rows : KindOf[r] = "item instance" /\ uses[r] # None => uses[r] \in allowed
-----------------------------------------------------------------------------
\* What is written differs from what is committed only if somebody wrote it.
Accounted ==
  /\ \A s \in Rulesets : writer[s] = None => (s \in newAllowed <=> s \in allowed)
  /\ \A r \in Rows : rowWriter[r] = None => newUses[r] = uses[r]

\* The writer of an association is the only one who may share it.
SharedOrWritten == \A s \in Rulesets : writer[s] # None => shared[s] \subseteq {writer[s]}

\* Who wrote the use of a ruleset sees its association, and shares it.
UseIsHeld ==
  \A r \in Rows, t \in Txs :
    rowWriter[r] = t /\ KindOf[r] \in Watched /\ newUses[r] # None =>
      SeesAllowed(t, newUses[r]) /\ t \in shared[newUses[r]]

\* Who disallowed a ruleset sees no use of it.
DisallowedIsUnused ==
  \A s \in Rulesets, t \in Txs : writer[s] = t /\ s \notin newAllowed => ~StillInUse(t, s)

IInv ==
  /\ TypeOK /\ Accounted /\ SharedOrWritten /\ UseIsHeld /\ DisallowedIsUnused
  /\ UsedIsAllowed
=============================================================================
