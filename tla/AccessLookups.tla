----------------------------- MODULE AccessLookups -----------------------------
(***************************************************************************)
(* The rule that an active campaign keeps a member who manages access,     *)
(* when the rows change that say what a grant is worth: roles and their    *)
(* capabilities, the capability access.manage and the membership status    *)
(* 'active' (section 18 of                                                 *)
(* database/migrations/versions/080_security_identity_and_access.py).      *)
(* AccessControl has the commands, for which these rows are constant.      *)
(*                                                                         *)
(* A row is on or off: a membership is active and open, a grant stands, a  *)
(* campaign is active, a role or a lookup is_active, a role has its        *)
(* capability.  Memberships are updated, grants inserted and revoked.  A   *)
(* transaction switches some rows; its deferred triggers run when it       *)
(* commits, in any order here, and queue up at the row of each campaign    *)
(* they look at.  Whose campaigns a lookup concerns they find out by a     *)
(* query, a loop.                                                          *)
(***************************************************************************)
EXTENDS FiniteSets, Naturals

CONSTANTS
  Txs, Campaigns, Members, Grants, RoleIds,
  CampaignOf,  \* of a membership
  MemberOf,    \* of a grant
  RoleOf,      \* of a grant
  ScopeOf,     \* the campaign of a role, None if it is a system template
  Capability,  \* the row of security.capabilities with the code 'access.manage'
  ActiveStatus,  \* the row of security.membership_statuses with the code 'active'
  Switched,    \* the rows that transactions switch
  MaxChanges,  \* bound: the rows that one transaction switches
  None

RoleRows == RoleIds \X {"is_active", "access.manage"}  \* the latter in role_capabilities
Codes == {Capability, ActiveStatus}
Rows == Campaigns \cup Members \cup Grants \cup RoleRows \cup Codes

\* A row is of one table.
TablesAreApart ==
  /\ Campaigns \cap (Members \cup Grants \cup RoleRows \cup Codes) = {}
  /\ Members \cap (Grants \cup RoleRows \cup Codes) = {}
  /\ Grants \cap (RoleRows \cup Codes) = {}
  /\ RoleRows \cap Codes = {}

LookupsAssumption ==
  /\ TablesAreApart /\ Capability # ActiveStatus
  /\ CampaignOf \in [Members -> Campaigns]
  /\ MemberOf \in [Grants -> Members] /\ RoleOf \in [Grants -> RoleIds]
  /\ ScopeOf \in [RoleIds -> Campaigns \cup {None}]
  /\ \A g \in Grants : ScopeOf[RoleOf[g]] \in {None, CampaignOf[MemberOf[g]]}
  /\ Switched \subseteq Rows
  /\ None \notin Campaigns \cup Txs

VARIABLES
  on,       \* the rows that are, as committed
  wrote,    \* the rows that a transaction has switched
  locks,    \* who holds the row of a campaign
  stage,
  loops,    \* the lookups whose loop a committing transaction has yet to run
  looped,   \* and those whose loop it has run
  due,      \* the campaigns it has yet to look at
  missed    \* history: campaigns for which a loop ran past what others were switching on

lookupVars == <<on, wrote, locks, stage, loops, looped, due, missed>>

Stages == {"idle", "open", "commit"}

TypeOK ==
  /\ on \subseteq Rows
  /\ wrote \in [Txs -> SUBSET Switched]
  /\ locks \in [Campaigns -> Txs \cup {None}]
  /\ stage \in [Txs -> Stages]
  /\ loops \in [Txs -> SUBSET (RoleRows \cup Codes)]
  /\ looped \in [Txs -> SUBSET (RoleRows \cup Codes)]
  /\ due \in [Txs -> SUBSET Campaigns]
  /\ missed \subseteq Campaigns

Init ==
  /\ on = Rows
  /\ wrote = [t \in Txs |-> {}]
  /\ locks = [c \in Campaigns |-> None]
  /\ stage = [t \in Txs |-> "idle"]
  /\ loops = [t \in Txs |-> {}] /\ looped = [t \in Txs |-> {}]
  /\ due = [t \in Txs |-> {}]
  /\ missed = {}
-----------------------------------------------------------------------------
GrantCampaign(g) == CampaignOf[MemberOf[g]]

\* What a statement of t sees: what is committed and what t has switched.
Sees(t) == (on \ wrote[t]) \cup (wrote[t] \ on)

SwitchedOn(t) == wrote[t] \ on
SwitchedOff(t) == wrote[t] \cap on

\* security.campaign_has_access_manager
HasManager(rows, c) ==
  \E g \in Grants \cap rows :
    /\ GrantCampaign(g) = c /\ MemberOf[g] \in rows
    /\ {RoleOf[g]} \X {"is_active", "access.manage"} \subseteq rows
    /\ Codes \subseteq rows

\* The loop of the trigger on a lookup: the campaigns that a switch of row l
\* concerns, among rows.
Concerned(l, rows) ==
  IF l = ActiveStatus
    THEN { CampaignOf[m] : m \in Members \cap rows }
    ELSE { GrantCampaign(g) : g \in
             { h \in Grants \cap rows :
                 /\ MemberOf[h] \in rows
                 /\ IF l = Capability THEN <<RoleOf[h], "access.manage">> \in rows
                                           ELSE RoleOf[h] = l[1] } }

IsTemplateRow(l) == l \in Codes \/ (l \in RoleRows /\ ScopeOf[l[1]] = None)

\* The campaign of a row whose trigger needs no loop.
OwnCampaign(r) ==
  IF r \in Members THEN CampaignOf[r]
  ELSE IF r \in Grants THEN GrantCampaign(r)
  ELSE IF r \in Campaigns THEN r
  ELSE ScopeOf[r[1]]

\* What t sees when others commit what they have switched on, and the campaigns
\* that l concerns only then.
Visible(t) == Sees(t) \cup UNION { SwitchedOn(u) : u \in Txs \ {t} }
Unseen(l, t) == Concerned(l, Visible(t)) \ Concerned(l, Sees(t))

\* The first statement begins the transaction; each locks the row it writes.
Switch(t, r) ==
  /\ stage[t] \in {"idle", "open"}
  /\ stage' = [stage EXCEPT ![t] = "open"]
  /\ Cardinality(wrote[t]) < MaxChanges
  /\ \A u \in Txs : r \notin wrote[u]
  /\ r \in Campaigns => locks[r] \in {t, None}
  /\ wrote' = [wrote EXCEPT ![t] = @ \cup {r}]
  /\ locks' = IF r \in Campaigns THEN [locks EXCEPT ![r] = t] ELSE locks
  /\ UNCHANGED <<on, loops, looped, due>>
  /\ missed' = missed \cup UNION { UNION { Unseen(l, u)' : l \in looped[u] } : u \in Txs \ {t} }

\* The rows whose switch has a deferred trigger with something to do: those on
\* memberships and on the is_active of a role fire either way.
Triggering(t) ==
  (SwitchedOff(t) \ Campaigns) \cup (SwitchedOn(t) \cap Campaigns)
    \cup (wrote[t] \cap (Members \cup RoleIds \X {"is_active"}))

StartCommit(t) ==
  /\ stage[t] = "open"
  /\ stage' = [stage EXCEPT ![t] = "commit"]
  /\ loops' = [loops EXCEPT ![t] = { l \in Triggering(t) : IsTemplateRow(l) }]
  /\ due' = [due EXCEPT ![t] = { OwnCampaign(r) : r \in Triggering(t) \ loops'[t] }]
  /\ UNCHANGED <<on, wrote, locks, looped, missed>>

\* The query of a loop sees no row that another transaction has not committed.
Loop(t, l) ==
  /\ l \in loops[t]
  /\ loops' = [loops EXCEPT ![t] = @ \ {l}]
  /\ looped' = [looped EXCEPT ![t] = @ \cup {l}]
  /\ due' = [due EXCEPT ![t] = @ \cup Concerned(l, Sees(t))]
  /\ missed' = missed \cup Unseen(l, t)
  /\ UNCHANGED <<on, wrote, locks, stage>>

Satisfied(t, c) == c \in Sees(t) => HasManager(Sees(t), c)

\* Mutant of Check: security.campaign_has_access_manager without the lock.
CheckUnlocked(t, c) ==
  /\ c \in due[t]
  /\ Satisfied(t, c)
  /\ due' = [due EXCEPT ![t] = @ \ {c}]
  /\ UNCHANGED <<on, wrote, locks, stage, loops, looped, missed>>

\* security.assert_campaign_retains_access_manager: FOR UPDATE, then another look.
Check(t, c) ==
  /\ c \in due[t]
  /\ locks[c] \in {t, None}
  /\ Satisfied(t, c)
  /\ locks' = [locks EXCEPT ![c] = t]
  /\ due' = [due EXCEPT ![t] = @ \ {c}]
  /\ UNCHANGED <<on, wrote, stage, loops, looped, missed>>

End(t) ==
  /\ stage' = [stage EXCEPT ![t] = "idle"]
  /\ wrote' = [wrote EXCEPT ![t] = {}]
  /\ locks' = [c \in Campaigns |-> IF locks[c] = t THEN None ELSE locks[c]]
  /\ loops' = [loops EXCEPT ![t] = {}]
  /\ looped' = [looped EXCEPT ![t] = {}]
  /\ due' = [due EXCEPT ![t] = {}]

Commit(t) ==
  /\ stage[t] = "commit" /\ loops[t] = {} /\ due[t] = {}
  /\ on' = Sees(t)
  /\ End(t)
  /\ UNCHANGED missed

\* A trigger raises, a deadlock is broken, or the connection is.
Rollback(t) == stage[t] # "idle" /\ End(t) /\ UNCHANGED <<on, missed>>

Next ==
  \E t \in Txs :
    \/ StartCommit(t) \/ Commit(t) \/ Rollback(t)
    \/ \E r \in Switched : Switch(t, r)
    \/ \E l \in loops[t] : Loop(t, l)
    \/ \E c \in due[t] : Check(t, c)

Spec == Init /\ [][Next]_lookupVars
-----------------------------------------------------------------------------
\* An active campaign has a member who manages access, whatever is switched off
\* and by how many at once, unless the loop of a lookup ran past a grant, a
\* membership or a capability that was being added to it.
ManagedUnlessMissed == \A c \in Campaigns \cap on : HasManager(on, c) \/ c \in missed

\* "Every active campaign retains at least one membership authorized to manage
\* campaign ownership and access" (rule 19, quoted in section 18), and
\* "Enforcement covers every mutation-shaped path".  TLC refutes it: access is
\* handed over from one role to another while the other is deactivated.  The
\* handover looks at a role that is active; the loop of the deactivation finds no
\* grant of it; neither locks what the other reads.
AlwaysManaged == \A c \in Campaigns \cap on : HasManager(on, c)
-----------------------------------------------------------------------------
\* A transaction that is not committing has not begun to look at campaigns, and
\* holds the rows of those it has switched.
StageFits ==
  /\ \A t \in Txs :
       /\ stage[t] = "idle" => wrote[t] = {}
       /\ stage[t] # "commit" => loops[t] = {} /\ looped[t] = {} /\ due[t] = {}
  /\ \A c \in Campaigns : locks[c] # None => stage[locks[c]] = "commit" \/ c \in wrote[locks[c]]

\* A row is switched by one transaction at a time, that of a campaign by its holder.
WritesAlone ==
  /\ \A t, u \in Txs : t # u => wrote[t] \cap wrote[u] = {}
  /\ \A t \in Txs : \A c \in Campaigns \cap wrote[t] : locks[c] = t

\* t has looked at c, will do so, or may not know that it has to.
Covers(t, c) == c \in missed \/ c \in due[t] \/ locks[c] = t

TriggersCover ==
  \A t \in Txs : stage[t] = "commit" =>
    \A r \in Triggering(t) :
      IF IsTemplateRow(r) THEN r \in loops[t] \cup looped[t] ELSE Covers(t, OwnCampaign(r))

LoopsCover == \A t \in Txs : \A l \in looped[t] : \A c \in Concerned(l, Visible(t)) : Covers(t, c)

\* What a transaction has looked at under the lock stays so until it ends.
LookStands ==
  \A t \in Txs : \A c \in Campaigns :
    stage[t] = "commit" /\ locks[c] = t /\ c \notin due[t] => c \in missed \/ Satisfied(t, c)

IInv ==
  /\ TypeOK /\ StageFits /\ WritesAlone /\ TriggersCover /\ LoopsCover /\ LookStands
  /\ ManagedUnlessMissed
=============================================================================
