---------------------------- MODULE EncounterScope ----------------------------
(***************************************************************************)
(* Revision 081 is installed while the application runs                    *)
(* (database/migrations/versions/081_encounter_session_scope.py): it       *)
(* audits narrative.encounters and what combat turns and endings have      *)
(* recorded of them, then replaces one trigger function, under which an    *)
(* encounter's timeline, campaign and session belong together, and adds a  *)
(* trigger, under which timeline and campaign never change.                *)
(*                                                                         *)
(* Writers of the table, commands that lock a row of it and upgrades meet  *)
(* in the table lock and in row locks.  A downgrade drops both rules.      *)
(***************************************************************************)
EXTENDS FiniteSets, Naturals

CONSTANTS
  Txs, Encounters, Timelines, Campaigns, Sessions,
  TimelineOf,   \* of a campaign, immutable since revision 030
  CampaignOf,   \* of a session, immutable since revision 080
  Scopes,       \* the rows that somebody may write
  MaxStamps,    \* bound: what is recorded of an encounter
  None

AnyScope ==
  [timeline : Timelines, campaign : Campaigns \cup {None}, session : Sessions \cup {None}]

AnyStamp == [timeline : Timelines, campaign : Campaigns \cup {None}]

ScopesAssumption ==
  /\ TimelineOf \in [Campaigns -> Timelines]
  /\ CampaignOf \in [Sessions -> Campaigns]
  /\ Scopes \subseteq AnyScope
  /\ None \notin Campaigns \cup Sessions \cup Txs \cup AnyScope

VARIABLES
  scope,      \* a row of narrative.encounters, None before it is inserted
  stamps,     \* timeline and campaign of the interactions and events of an encounter
  installed,  \* whether revision 081 is
  stage, call,
  tableLock,  \* the mode in which a transaction has locked the table, if any
  rowLock,    \* the transaction that has locked an encounter
  seen        \* what a command has read of its encounter

scopeVars == <<scope, stamps, installed, stage, call, tableLock, rowLock, seen>>

Commands ==
  [kind : {"write"}, encounter : Encounters, new : Scopes]
    \cup [kind : {"turn", "end"}, encounter : Encounters] \cup [kind : {"upgrade"}]

TypeOK ==
  /\ scope \in [Encounters -> Scopes \cup {None}]
  /\ stamps \in [Encounters -> SUBSET AnyStamp]
  /\ installed \in BOOLEAN
  /\ stage \in [Txs -> {"idle", "table", "row", "audit", "audit again", "install", "commit"}]
  /\ call \in [Txs -> Commands \cup {None}]
  /\ tableLock \in [Txs -> {"none", "row share", "row exclusive", "share row exclusive"}]
  /\ rowLock \in [Encounters -> Txs \cup {None}]
  /\ seen \in [Txs -> AnyStamp \cup {None}]

Init ==
  /\ scope = [e \in Encounters |-> None]
  /\ stamps = [e \in Encounters |-> {}]
  /\ installed = FALSE
  /\ stage = [t \in Txs |-> "idle"]
  /\ call = [t \in Txs |-> None]
  /\ tableLock = [t \in Txs |-> "none"]
  /\ rowLock = [e \in Encounters |-> None]
  /\ seen = [t \in Txs |-> None]
-----------------------------------------------------------------------------
Stamp(r) == [timeline |-> r.timeline, campaign |-> r.campaign]

\* The rules that the upgrade enables, and its audits count violations of.
Scoped(r) ==
  /\ r.campaign # None => TimelineOf[r.campaign] = r.timeline
  /\ r.session # None => r.campaign # None /\ CampaignOf[r.session] = r.campaign
AllScoped == \A e \in Encounters : scope[e] # None => Scoped(scope[e])
AllAgree == \A e \in Encounters : \A s \in stamps[e] : s = Stamp(scope[e])

\* Mutant of SameIdentity: core.enforce_immutable_columns lets a NULL be filled in.
SameOnceSet(old, new) ==
  old.timeline = new.timeline /\ old.campaign \in {None, new.campaign}

\* enforce_encounter_identity_immutable
SameIdentity(old, new) == Stamp(old) = Stamp(new)

\* The triggers, as installed, let a transaction write a row.
Accepted(e, new) ==
  installed => Scoped(new) /\ (scope[e] # None => SameIdentity(scope[e], new))

Advance(t, from, to) ==
  /\ stage[t] = from
  /\ stage' = [stage EXCEPT ![t] = to]

Lock(t, mode) == tableLock' = [tableLock EXCEPT ![t] = mode]

\* An INSERT, or an UPDATE, an administrator's or a later command's.
CallWrite(t, e, r) ==
  /\ Advance(t, "idle", "table")
  /\ call' = [call EXCEPT ![t] = [kind |-> "write", encounter |-> e, new |-> r]]
  /\ UNCHANGED <<scope, stamps, installed, tableLock, rowLock, seen>>

\* resolve_combat_turn or end_encounter: SELECT ... FOR UPDATE comes first.
CallCommand(t, kind, e) ==
  /\ Advance(t, "idle", "row")
  /\ scope[e] # None
  /\ call' = [call EXCEPT ![t] = [kind |-> kind, encounter |-> e]]
  /\ Cardinality(stamps[e]) < MaxStamps
  /\ Lock(t, "row share")
  /\ UNCHANGED <<scope, stamps, installed, rowLock, seen>>

CallUpgrade(t) ==
  /\ Advance(t, "idle", "table")
  /\ call' = [call EXCEPT ![t] = [kind |-> "upgrade"]]
  /\ UNCHANGED <<scope, stamps, installed, tableLock, rowLock, seen>>

Holds(mode) == \E t \in Txs : tableLock[t] = mode

\* The INSERT or UPDATE of a row, and the UPDATE with which a command ends its
\* encounter, conflict with an upgrade that has the table.  (That they also
\* queue behind one that only waits for it is left out: see NoCycleToBreak.)
LockTable(t) ==
  /\ stage[t] = "table" /\ call[t].kind \in {"write", "end"}
  /\ ~Holds("share row exclusive")
  /\ Advance(t, "table", IF call[t].kind = "write" THEN "row" ELSE "commit")
  /\ Lock(t, "row exclusive")
  /\ UNCHANGED <<scope, stamps, installed, call, rowLock, seen>>

\* Mutant of LockRow: a command reads its encounter without FOR UPDATE.
LockWrittenRow(t) ==
  /\ stage[t] = "row"
  /\ Advance(t, "row", IF call[t].kind = "end" THEN "table" ELSE "commit")
  /\ IF call[t].kind = "write"
       THEN /\ rowLock[call[t].encounter] = None
            /\ Accepted(call[t].encounter, call[t].new)
            /\ rowLock' = [rowLock EXCEPT ![call[t].encounter] = t]
            /\ UNCHANGED seen
       ELSE seen' = [seen EXCEPT ![t] = Stamp(scope[call[t].encounter])] /\ UNCHANGED rowLock
  /\ UNCHANGED <<scope, stamps, installed, call, tableLock>>

\* _lock_encounter reads the row when it has it, and the triggers of a writer
\* look at it then.
LockRow(t) ==
  /\ stage[t] = "row"
  /\ rowLock[call[t].encounter] = None
  /\ Advance(t, "row", IF call[t].kind = "end" THEN "table" ELSE "commit")
  /\ rowLock' = [rowLock EXCEPT ![call[t].encounter] = t]
  /\ IF call[t].kind = "write"
       THEN Accepted(call[t].encounter, call[t].new) /\ UNCHANGED seen
       ELSE seen' = [seen EXCEPT ![t] = Stamp(scope[call[t].encounter])]
  /\ UNCHANGED <<scope, stamps, installed, call, tableLock>>

\* Mutant of LockForAudit: CREATE TRIGGER takes the lock anyway, later.
AuditUnlocked(t) ==
  /\ stage[t] = "table" /\ call[t].kind = "upgrade"
  /\ Advance(t, "table", "audit")
  /\ UNCHANGED <<scope, stamps, installed, call, tableLock, rowLock, seen>>

\* LOCK TABLE narrative.encounters IN SHARE ROW EXCLUSIVE MODE
LockForAudit(t) ==
  /\ stage[t] = "table" /\ call[t].kind = "upgrade"
  /\ ~Holds("row exclusive") /\ ~Holds("share row exclusive")
  /\ Advance(t, "table", "audit")
  /\ Lock(t, "share row exclusive")
  /\ UNCHANGED <<scope, stamps, installed, call, rowLock, seen>>

\* Each audit counts violations among the committed rows and raises if it finds
\* one; the new function and the new trigger are not visible to others yet.
Audit(t) ==
  /\ Advance(t, "audit", "audit again")
  /\ AllScoped
  /\ UNCHANGED <<scope, stamps, installed, call, tableLock, rowLock, seen>>

AuditAgain(t) ==
  /\ Advance(t, "audit again", "install")
  /\ AllAgree
  /\ UNCHANGED <<scope, stamps, installed, call, tableLock, rowLock, seen>>

End(t) ==
  /\ stage' = [stage EXCEPT ![t] = "idle"]
  /\ call' = [call EXCEPT ![t] = None]
  /\ tableLock' = [tableLock EXCEPT ![t] = "none"]
  /\ rowLock' = [e \in Encounters |-> IF rowLock[e] = t THEN None ELSE rowLock[e]]
  /\ seen' = [seen EXCEPT ![t] = None]

\* A second upgrade fails: the trigger exists.
CommitUpgrade(t) ==
  /\ stage[t] = "install"
  /\ ~installed
  /\ installed' = TRUE
  /\ End(t)
  /\ UNCHANGED <<scope, stamps>>

CommitWrite(t) ==
  /\ stage[t] = "commit" /\ call[t].kind = "write"
  /\ scope' = [scope EXCEPT ![call[t].encounter] = call[t].new]
  /\ End(t)
  /\ UNCHANGED <<stamps, installed>>

\* What was read is stamped on the interaction or the event.
CommitCommand(t) ==
  /\ stage[t] = "commit" /\ call[t].kind # "write"
  /\ stamps' = [stamps EXCEPT ![call[t].encounter] = @ \cup {seen[t]}]
  /\ End(t)
  /\ UNCHANGED <<scope, installed>>

\* A trigger or an audit raises, a deadlock is broken, or a connection is.
Rollback(t) == stage[t] # "idle" /\ End(t) /\ UNCHANGED <<scope, stamps, installed>>

\* DROP TRIGGER waits for everybody who uses the table.
Downgrade ==
  /\ installed
  /\ \A t \in Txs : tableLock[t] = "none"
  /\ installed' = FALSE
  /\ UNCHANGED <<scope, stamps, stage, call, tableLock, rowLock, seen>>

Next ==
  \/ Downgrade
  \/ \E t \in Txs :
       \/ \E e \in Encounters :
            \/ \E r \in Scopes : CallWrite(t, e, r)
            \/ \E kind \in {"turn", "end"} : CallCommand(t, kind, e)
       \/ CallUpgrade(t)
       \/ LockTable(t) \/ LockRow(t) \/ LockForAudit(t) \/ Audit(t) \/ AuditAgain(t)
       \/ CommitUpgrade(t) \/ CommitWrite(t) \/ CommitCommand(t) \/ Rollback(t)

Spec == Init /\ [][Next]_scopeVars
-----------------------------------------------------------------------------
\* As long as the revision is installed, every encounter is in its campaign's
\* timeline and its session's campaign, and all that was ever recorded of it
\* names its timeline and campaign, also what was written while the upgrade ran.
InstalledMeansScoped == installed => AllScoped /\ AllAgree

\* "there is no lock-ordering cycle for PostgreSQL's deadlock detector to ever
\* need to break" (docstring of revision 081).  TLC refutes it: an upgrade waits
\* for a writer of the table, the writer for the row that an ending has locked,
\* and the ending, which locks the table last, queues behind the upgrade.  (The
\* detector can break this one by letting the ending pass, without an error.)
NoCycleToBreak ==
  ~ \E m, w, c \in Txs :
      /\ stage[m] = "table" /\ call[m].kind = "upgrade"
      /\ stage[w] = "row" /\ tableLock[w] = "row exclusive"
      /\ rowLock[call[w].encounter] = c
      /\ stage[c] = "table" /\ call[c].kind = "end"
-----------------------------------------------------------------------------
(* What a transaction knows from the locks it holds.                       *)

CallFits ==
  \A t \in Txs : stage[t] # "idle" =>
    /\ call[t] \in Commands
    /\ call[t].kind \in {"turn", "end"} => scope[call[t].encounter] # None
    /\ call[t].kind = "upgrade" => stage[t] \in {"table", "audit", "audit again", "install"}

\* An upgrade that audits has the table to itself, but for "row share".
HoldsTable ==
  /\ \A t \in Txs :
       /\ stage[t] \in {"audit", "audit again", "install"} =>
            tableLock[t] = "share row exclusive"
       /\ stage[t] \in {"row", "commit"} /\ call[t].kind = "write" =>
            tableLock[t] = "row exclusive"
  /\ \A t, u \in Txs : t # u /\ tableLock[t] = "share row exclusive" =>
       tableLock[u] \notin {"row exclusive", "share row exclusive"}

HoldsRow ==
  \A t \in Txs : stage[t] = "commit" \/ (stage[t] = "table" /\ call[t].kind = "end") =>
    /\ rowLock[call[t].encounter] = t
    /\ IF call[t].kind = "write" THEN Accepted(call[t].encounter, call[t].new)
                                 ELSE seen[t] = Stamp(scope[call[t].encounter])

Audited ==
  \A t \in Txs :
    /\ stage[t] \in {"audit again", "install"} => AllScoped
    /\ stage[t] = "install" => AllAgree

IInv ==
  /\ TypeOK /\ CallFits /\ HoldsTable /\ HoldsRow /\ Audited
  /\ \A e \in Encounters : scope[e] = None => stamps[e] = {}
  /\ InstalledMeansScoped
=============================================================================
