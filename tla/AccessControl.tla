---------------------------- MODULE AccessControl ----------------------------
(***************************************************************************)
(* Who may do what in the campaigns of one timeline: campaigns and the     *)
(* bootstrap grants that claim the timeline (src/dnd_ai/commands/          *)
(* campaigns.py), memberships and their roles (memberships.py),            *)
(* invitations (campaign_invitations.py), and the constraint triggers of   *)
(* migration 080 that keep every active campaign managed.                  *)
(*                                                                         *)
(* Of the roles only those that carry access.manage are kept, as one.  A   *)
(* grant of it is permanent or expires; only a permanent one counts for    *)
(* the rule that an active campaign has a manager, either will do to       *)
(* authorise its holder.                                                   *)
(*                                                                         *)
(* Transactions run at READ COMMITTED: a read sees what is committed and   *)
(* the transaction's own writes, a locked row and an uncommitted entry of  *)
(* a unique index make others wait, and deferred triggers run at the       *)
(* commit.                                                                 *)
(***************************************************************************)
EXTENDS Naturals, FiniteSets

CONSTANTS
  Txs, Users, Campaigns, Invitations,
  Tenures,      \* numbers of a user's memberships in a campaign, oldest least
  MaxGranted,   \* bound on the roles a membership is ever given
  MaxRequests,  \* bound on the requests
  None

ASSUME AccessAssumption ==
  /\ Tenures \subseteq Nat
  /\ MaxGranted \in Nat \ {0} /\ MaxRequests \in Nat
  /\ None \notin Users \cup Campaigns \cup Invitations
       \cup {"none", "open", "ended", "permanent", "expiring", "active", "archived"}
       \cup (Campaigns \X Users \X Tenures)

VARIABLES
  seat,       \* campaign_memberships: of campaign, user and number
  role,       \* the unrevoked grant of access.manage to a membership
  granted,    \* how many grants the membership has had
  status,     \* of a campaign
  bootstrap,  \* a user's bootstrap grant for the timeline
  claim,      \* the user whose bootstrap grant a campaign was created with
  invited,    \* the campaign an invitation is to
  accepted,   \* by whom it was accepted
  withdrawn,  \* whether it has expired or been revoked
  admitted,   \* the users told that they are members because of it
  held,       \* the locks of a transaction
  pc, job,
  requests    \* made so far

Members == Campaigns \X Users \X Tenures
membership == <<seat, role, granted>>
invitation == <<invited, accepted, withdrawn, admitted>>
db == <<membership, status, bootstrap, claim, invitation>>
vars == <<db, held, pc, job, requests>>

Locks ==
  {<<"campaign", c>> : c \in Campaigns}
    \cup {<<"invitation", i>> : i \in Invitations}
    \cup {<<"timeline">>}
    \cup {<<"membership", m>> : m \in Members}
    \cup {<<"open", c, u>> : c \in Campaigns, u \in Users}
    \cup {<<"role", m, k>> : m \in Members, k \in 1 .. MaxGranted}

Steps == {"idle", "role", "check", "grant", "membership", "status", "open",
          "invitation", "choose", "row", "replay", "timeline", "authorize",
          "campaign", "recheck", "commit"}

\* What a transaction is doing, and the values it has written: None for the
\* columns it leaves alone.
Jobs ==
  [how : {"revoke", "assign", "end", "join", "accept", "create", "archive", "activate"},
   m : Members \cup {None}, nth : 0 .. MaxGranted, i : Invitations \cup {None},
   c : Campaigns \cup {None}, u : Users \cup {None},
   seat : {"open", "ended", None}, role : {"none", "permanent", "expiring", None},
   status : {"active", "archived", None}, fresh : BOOLEAN]

TypeOK ==
  /\ seat \in [Members -> {"none", "open", "ended"}]
  /\ role \in [Members -> {"none", "permanent", "expiring", "lapsed"}]
  /\ granted \in [Members -> 0 .. MaxGranted]
  /\ status \in [Campaigns -> {"none", "active", "archived"}]
  /\ bootstrap \in [Users -> {"none", "live", "consumed"}]
  /\ claim \in [Campaigns -> Users \cup {None}]
  /\ invited \in [Invitations -> Campaigns \cup {None}]
  /\ accepted \in [Invitations -> Users \cup {None}]
  /\ withdrawn \in [Invitations -> BOOLEAN]
  /\ admitted \in [Invitations -> SUBSET Users]
  /\ held \in [Txs -> SUBSET Locks]
  /\ pc \in [Txs -> Steps]
  /\ job \in [Txs -> Jobs \cup {None}]
  /\ requests \in 0 .. MaxRequests

Init ==
  /\ seat = [m \in Members |-> "none"]
  /\ role = [m \in Members |-> "none"]
  /\ granted = [m \in Members |-> 0]
  /\ status = [c \in Campaigns |-> "none"]
  /\ bootstrap = [u \in Users |-> "none"]
  /\ claim = [c \in Campaigns |-> None]
  /\ invited = [i \in Invitations |-> None]
  /\ accepted = [i \in Invitations |-> None]
  /\ withdrawn = [i \in Invitations |-> FALSE]
  /\ admitted = [i \in Invitations |-> {}]
  /\ held = [t \in Txs |-> {}]
  /\ pc = [t \in Txs |-> "idle"]
  /\ job = [t \in Txs |-> None]
  /\ requests = 0
-----------------------------------------------------------------------------
(* What a transaction sees, and the rule about managers. *)

How(t) == job[t].how
Membership(t) == job[t].m
Campaign(t) == job[t].c
User(t) == job[t].u

Seats(t) == IF job[t].seat = None THEN seat ELSE [seat EXCEPT ![Membership(t)] = job[t].seat]
Roles(t) == IF job[t].role = None THEN role ELSE [role EXCEPT ![Membership(t)] = job[t].role]
Status(t) == IF job[t].status = None THEN status[Campaign(t)] ELSE job[t].status

\* campaign_has_access_manager: a membership that is open and whose grant does
\* not expire.
Managed(seats, roles, c) ==
  \E u \in Users, n \in Tenures :
    seats[<<c, u, n>>] = "open" /\ roles[<<c, u, n>>] = "permanent"

\* access.manage in a campaign, for the authorisation of a request.
Manages(u, c) ==
  \E n \in Tenures :
    seat[<<c, u, n>>] = "open" /\ role[<<c, u, n>>] \in {"permanent", "expiring"}

OpenTo(u, c) == \E n \in Tenures : seat[<<c, u, n>>] = "open"
Used(c, u) == {n \in Tenures : seat[<<c, u, n>>] # "none"}

\* The locks, and the steps of a transaction.
Free(t, lock) == \A other \in Txs \ {t} : lock \notin held[other]
Take(t, lock) ==
  /\ Free(t, lock)
  /\ held' = [held EXCEPT ![t] = @ \cup {lock}]

Goto(t, from, to) ==
  /\ pc[t] = from
  /\ pc' = [pc EXCEPT ![t] = to]

Asked(how) ==
  [how |-> how, m |-> None, nth |-> 0, i |-> None, c |-> None, u |-> None,
   seat |-> None, role |-> None, status |-> None, fresh |-> FALSE]
Begin(t, to, request) ==
  /\ requests < MaxRequests
  /\ requests' = requests + 1
  /\ Goto(t, "idle", to)
  /\ job' = [job EXCEPT ![t] = request]
  /\ UNCHANGED <<db, held>>

Finish(t, from) ==
  /\ Goto(t, from, "idle")
  /\ job' = [job EXCEPT ![t] = None]
  /\ held' = [held EXCEPT ![t] = {}]

Abort(t, from) == Finish(t, from) /\ UNCHANGED db

Check(t, from, good, to) ==
  IF good THEN Goto(t, from, to) /\ UNCHANGED <<db, held, job>> ELSE Abort(t, from)
-----------------------------------------------------------------------------
(* The deferred triggers, and the commit. *)

ReadCampaign(t) == UNCHANGED held
LockCampaign(t) == Take(t, <<"campaign", Campaign(t)>>)

\* assert_campaign_retains_access_manager locks the campaign ...
BeginAssert(t) ==
  /\ Goto(t, "campaign", "recheck")
  /\ LockCampaign(t)
  /\ UNCHANGED <<db, job>>

\* ... and looks again, at what has been committed in the meantime.
Retained(t) == Status(t) = "active" => Managed(Seats(t), Roles(t), Campaign(t))
Recheck(t) == pc[t] = "recheck" /\ Check(t, "recheck", Retained(t), "commit")

Granted(t) ==
  IF job[t].role \in {"permanent", "expiring"}
  THEN [granted EXCEPT ![Membership(t)] = @ + 1] ELSE granted

Commit(t) ==
  /\ Finish(t, "commit")
  /\ seat' = Seats(t)
  /\ role' = Roles(t)
  /\ granted' = Granted(t)
  /\ status' = IF job[t].status = None THEN status
               ELSE [status EXCEPT ![Campaign(t)] = job[t].status]
  /\ LET claims == How(t) = "create" /\ job[t].fresh
     IN /\ claim' = IF claims THEN [claim EXCEPT ![Campaign(t)] = User(t)] ELSE claim
        /\ bootstrap' = IF claims THEN [bootstrap EXCEPT ![User(t)] = "consumed"]
                        ELSE bootstrap
  /\ LET accepts == How(t) = "accept" /\ job[t].fresh
     IN accepted' = IF accepts THEN [accepted EXCEPT ![job[t].i] = User(t)] ELSE accepted
  /\ admitted' = IF How(t) = "accept" THEN [admitted EXCEPT ![job[t].i] = @ \cup {User(t)}]
                 ELSE admitted
  /\ UNCHANGED <<invited, withdrawn>>
-----------------------------------------------------------------------------
(* memberships.py *)

\* A request about a campaign is authorised by a manager of it, once, before
\* the command runs.
Authorised(c) == \E u \in Users : Manages(u, c)

AskRevoke(t, m) ==
  /\ Authorised(m[1]) /\ role[m] # "none"
  /\ Begin(t, "role", [Asked("revoke") EXCEPT !.m = m, !.nth = granted[m], !.c = m[1]])

\* SELECT ... FOR UPDATE OF mr, and the UPDATE, which finds nothing to do in a
\* grant that is revoked already.
RevokeRole(t) ==
  LET m == Membership(t)
      live == granted[m] = job[t].nth /\ role[m] # "none"
  IN /\ Goto(t, "role", "check")
     /\ Take(t, <<"role", m, job[t].nth>>)
     /\ job' = IF live THEN [job EXCEPT ![t].role = "none"] ELSE job
     /\ UNCHANGED db

\* The command's own look at the managers, which takes no lock, and then the
\* end of the transaction: the trigger runs if the grant has changed.
CheckManager(t) ==
  /\ pc[t] = "check"
  /\ Check(t, "check", Retained(t), IF job[t].role = None THEN "commit" ELSE "campaign")

AskAssign(t, m, kind) ==
  /\ Authorised(m[1]) /\ seat[m] # "none"
  /\ Begin(t, "grant", [Asked("assign") EXCEPT !.m = m, !.c = m[1], !.role = kind])

\* The unique index on the unrevoked grants lets one in: a revocation that is
\* under way is waited for.
AssignRole(t) ==
  LET m == Membership(t) IN
  /\ pc[t] = "grant"
  /\ granted[m] > 0 => Free(t, <<"role", m, granted[m]>>)
  /\ \/ /\ role[m] = "none" /\ granted[m] < MaxGranted
        /\ Goto(t, "grant", "commit")
        /\ Take(t, <<"role", m, granted[m] + 1>>)
        /\ UNCHANGED <<db, job>>
     \/ role[m] # "none" /\ Abort(t, "grant")

AskJoin(t, c, u) ==
  /\ Authorised(c)
  /\ Begin(t, "open", [Asked("join") EXCEPT !.c = c, !.u = u])

\* An administrator closes a membership, or archives a campaign or makes it
\* active again.
AskEnd(t, m) ==
  /\ seat[m] = "open"
  /\ Begin(t, "membership", [Asked("end") EXCEPT !.m = m, !.c = m[1], !.u = m[2]])
EndMembership(t) ==
  /\ pc[t] = "membership"
  /\ Free(t, <<"open", Campaign(t), User(t)>>)
  /\ \/ /\ seat[Membership(t)] = "open"
        /\ Goto(t, "membership", "campaign")
        /\ Take(t, <<"membership", Membership(t)>>)
        /\ job' = [job EXCEPT ![t].seat = "ended"]
        /\ UNCHANGED db
     \/ seat[Membership(t)] # "open" /\ Abort(t, "membership")

AskStatus(t, c, how) ==
  /\ status[c] = IF how = "archive" THEN "active" ELSE "archived"
  /\ Begin(t, "status", [Asked(how) EXCEPT !.c = c])
SetStatus(t) ==
  /\ Goto(t, "status", IF How(t) = "archive" THEN "commit" ELSE "recheck")
  /\ Take(t, <<"campaign", Campaign(t)>>)
  /\ job' = [job EXCEPT ![t].status = IF How(t) = "archive" THEN "archived" ELSE "active"]
  /\ UNCHANGED db
-----------------------------------------------------------------------------
(* campaign_invitations.py *)

\* One INSERT.
Invite(i, c) ==
  /\ invited[i] = None /\ Authorised(c)
  /\ invited' = [invited EXCEPT ![i] = c]
  /\ UNCHANGED <<membership, status, bootstrap, claim, accepted, withdrawn, admitted,
                 held, pc, job, requests>>

\* Time passes: an invitation runs out, or a grant that expires.
Withdraw(i) ==
  /\ invited[i] # None /\ accepted[i] = None /\ ~withdrawn[i]
  /\ withdrawn' = [withdrawn EXCEPT ![i] = TRUE]
  /\ UNCHANGED <<membership, status, bootstrap, claim, invited, accepted, admitted,
                 held, pc, job, requests>>
Lapse(m) ==
  /\ role[m] = "expiring"
  /\ role' = [role EXCEPT ![m] = "lapsed"]
  /\ UNCHANGED <<seat, granted, status, bootstrap, claim, invitation, held, pc, job, requests>>

AskAccept(t, i, u) ==
  /\ invited[i] # None
  /\ Begin(t, "invitation", [Asked("accept") EXCEPT !.i = i, !.c = invited[i], !.u = u])

ReadInvitation(t) == UNCHANGED held
LockInvitation(t) == Take(t, <<"invitation", job[t].i>>)

UnusedOrOwn(i, u) == accepted[i] \in {None, u} /\ ~withdrawn[i]
Usable(i, u) == accepted[i] = None /\ ~withdrawn[i]

\* The same user again is answered from the membership; anyone else, or too
\* late, is refused.
FindInvitation(t) ==
  LET i == job[t].i IN
  /\ pc[t] = "invitation"
  /\ \/ /\ Usable(i, User(t))
        /\ Goto(t, "invitation", "choose")
        /\ LockInvitation(t)
        /\ job' = [job EXCEPT ![t].fresh = TRUE]
        /\ UNCHANGED db
     \/ /\ ~Usable(i, User(t)) /\ accepted[i] = User(t)
        /\ Goto(t, "invitation", "replay")
        /\ LockInvitation(t)
        /\ UNCHANGED <<db, job>>
     \/ /\ ~Usable(i, User(t)) /\ accepted[i] # User(t)
        /\ Free(t, <<"invitation", i>>)
        /\ Abort(t, "invitation")

ReplayAcceptance(t) ==
  pc[t] = "replay" /\ Check(t, "replay", OpenTo(User(t), Campaign(t)), "commit")

\* _activate_or_create_membership: the newest membership, whether open or not ...
ChooseMembership(t) ==
  LET used == Used(Campaign(t), User(t)) IN
  /\ pc[t] = "choose"
  /\ \/ /\ used = {}
        /\ Goto(t, "choose", "open")
        /\ UNCHANGED job
     \/ \E n \in used :
          /\ \A other \in used : other <= n
          /\ Goto(t, "choose", "row")
          /\ job' = [job EXCEPT ![t].m = <<Campaign(t), User(t), n>>]
  /\ UNCHANGED <<db, held>>

\* ... is locked, and then left as it is or reopened with the roles it had.
LockMembership(t) ==
  /\ pc[t] = "row"
  /\ Goto(t, "row", IF seat[Membership(t)] = "open" THEN "commit" ELSE "open")
  /\ Take(t, <<"membership", Membership(t)>>)
  /\ UNCHANGED <<db, job>>

\* The unique index on the open memberships of a user in a campaign.
NothingOrClosed(t) == Membership(t) # None \/ ~OpenTo(User(t), Campaign(t))
PlaceFree(t) == ~OpenTo(User(t), Campaign(t))

\* A new membership, or the one to reopen.
OpenMembership(t) ==
  LET c == Campaign(t)
      u == User(t)
      new == {n \in Tenures : \A other \in Used(c, u) : other < n}
  IN
  /\ pc[t] = "open"
  /\ \/ /\ PlaceFree(t)
        /\ Take(t, <<"open", c, u>>)
        /\ \/ /\ Membership(t) # None
              /\ Goto(t, "open", "campaign")
              /\ job' = [job EXCEPT ![t].seat = "open"]
           \/ /\ Membership(t) = None
              /\ Goto(t, "open", "commit")
              /\ \E n \in new :
                   /\ \A other \in new : n <= other
                   /\ job' = [job EXCEPT ![t].seat = "open", ![t].m = <<c, u, n>>]
        /\ UNCHANGED db
     \/ /\ ~PlaceFree(t)
        /\ Free(t, <<"open", c, u>>)
        /\ Abort(t, "open")
-----------------------------------------------------------------------------
(* campaigns.py *)

GrantBootstrap(u) ==
  /\ bootstrap[u] = "none"
  /\ bootstrap' = [bootstrap EXCEPT ![u] = "live"]
  /\ UNCHANGED <<membership, status, claim, invitation, held, pc, job, requests>>

AskCreate(t, u) == Begin(t, "timeline", [Asked("create") EXCEPT !.u = u])

ReadTimeline(t) == UNCHANGED held
LockTimeline(t) == Take(t, <<"timeline">>)
BeginCreate(t) ==
  /\ Goto(t, "timeline", "authorize")
  /\ LockTimeline(t)
  /\ UNCHANGED <<db, job>>

\* The first campaign of the timeline needs a bootstrap grant, the others
\* someone who manages one that is there.
FirstOfTimeline == \A c \in Campaigns : status[c] = "none"
MayCreate(u) ==
  IF FirstOfTimeline THEN bootstrap[u] = "live" ELSE \E c \in Campaigns : Manages(u, c)

\* The campaign, its owner's membership and role are inserted together.
Founding(t, c, n) ==
  [job[t] EXCEPT !.c = c, !.m = <<c, User(t), n>>, !.seat = "open",
                 !.role = "permanent", !.status = "active", !.fresh = FirstOfTimeline]
CreateCampaign(t) ==
  /\ pc[t] = "authorize"
  /\ \/ /\ MayCreate(User(t))
        /\ Goto(t, "authorize", "recheck")
        /\ \E c \in Campaigns, n \in Tenures :
             /\ status[c] = "none"
             /\ \A other \in Tenures : n <= other
             /\ Take(t, <<"campaign", c>>)
             /\ job' = [job EXCEPT ![t] = Founding(t, c, n)]
        /\ UNCHANGED db
     \/ ~MayCreate(User(t)) /\ Abort(t, "authorize")
-----------------------------------------------------------------------------
Ask(t) ==
  \/ \E m \in Members :
       \/ AskRevoke(t, m)
       \/ AskEnd(t, m)
       \/ \E kind \in {"permanent", "expiring"} : AskAssign(t, m, kind)
  \/ \E c \in Campaigns, u \in Users : AskJoin(t, c, u)
  \/ \E c \in Campaigns, how \in {"archive", "activate"} : AskStatus(t, c, how)
  \/ \E i \in Invitations, u \in Users : AskAccept(t, i, u)
  \/ \E u \in Users : AskCreate(t, u)

Proceed(t) ==
  /\ \/ BeginAssert(t) \/ Recheck(t) \/ Commit(t)
     \/ RevokeRole(t) \/ CheckManager(t) \/ AssignRole(t)
     \/ EndMembership(t) \/ SetStatus(t)
     \/ FindInvitation(t) \/ ReplayAcceptance(t)
     \/ ChooseMembership(t) \/ LockMembership(t) \/ OpenMembership(t)
     \/ BeginCreate(t) \/ CreateCampaign(t)
  /\ UNCHANGED requests

Next ==
  \/ \E t \in Txs : Ask(t) \/ Proceed(t)
  \/ \E i \in Invitations : Withdraw(i) \/ \E c \in Campaigns : Invite(i, c)
  \/ \E m \in Members : Lapse(m)
  \/ \E u \in Users : GrantBootstrap(u)

Spec == Init /\ [][Next]_vars
-----------------------------------------------------------------------------
\* An active campaign keeps somebody who manages it for good, whatever is
\* revoked, ended or activated at the same time: the comment on the triggers of
\* migration 080, which the look of revoke_membership_role alone does not ensure.
ManagerRemains == \A c \in Campaigns : status[c] = "active" => Managed(seat, role, c)

\* A user has one open membership in a campaign, however membership creation,
\* acceptance and reactivation meet.
OneOpenMembership ==
  \A c \in Campaigns, u \in Users :
    \A m, n \in Tenures :
      seat[<<c, u, m>>] = "open" /\ seat[<<c, u, n>>] = "open" => m = n

\* An invitation lets one user in: nobody else is ever told that they are a
\* member because of it.
InvitationAdmitsOne == \A i \in Invitations : admitted[i] \subseteq {accepted[i]}

\* Who has left a campaign belongs to it again, with the roles of before, only
\* by an invitation that nobody has used: the one that let them in does not do it
\* again.  An administrator can make them a member anew, but without a role.
ReturnNeedsInvitation ==
  [][\A c \in Campaigns, u \in Users :
       Used(c, u) # {} /\ ~OpenTo(u, c) /\ OpenTo(u, c)' =>
         \/ \E i \in Invitations :
              invited[i] = c /\ accepted[i] = None /\ accepted'[i] = u
         \/ \A n \in Tenures :
              seat'[<<c, u, n>>] = "open" => n \notin Used(c, u) /\ role'[<<c, u, n>>] = "none"]_vars

\* The timeline is claimed once: of the campaigns one was created with a
\* bootstrap grant, and that user's grant is the one that is consumed.
TimelineClaimedOnce ==
  LET first == {c \in Campaigns : claim[c] # None} IN
  /\ \A c, d \in first : c = d
  /\ \A u \in Users : bootstrap[u] = "consumed" => \E c \in first : claim[c] = u
-----------------------------------------------------------------------------
(* The inductive invariant that the proofs rest on. *)

\* The steps of a request of each kind, and what it has found out or written by
\* then.
StepsOf ==
  [revoke |-> {"role", "check", "campaign", "recheck", "commit"},
   assign |-> {"grant", "commit"},
   end |-> {"membership", "campaign", "recheck", "commit"},
   join |-> {"open", "commit"},
   accept |-> {"invitation", "replay", "choose", "row", "open", "campaign", "recheck", "commit"},
   archive |-> {"status", "commit"},
   activate |-> {"status", "recheck", "commit"},
   create |-> {"timeline", "authorize", "recheck", "commit"}]

Began(t) ==
  /\ job[t] \in Jobs
  /\ How(t) \in DOMAIN StepsOf /\ pc[t] \in StepsOf[How(t)]
  /\ job[t].m # None => Membership(t) \in Members /\ Membership(t)[1] = Campaign(t)
  /\ job[t].seat # None \/ job[t].role # None \/ pc[t] = "row" => job[t].m # None
  /\ job[t].seat # None => pc[t] \in {"campaign", "recheck", "commit"}
  /\ How(t) \in {"end", "join", "accept"} =>
       User(t) \in Users /\ (job[t].m # None => Membership(t)[2] = User(t))
  /\ How(t) # "create" => Campaign(t) \in Campaigns /\ status[Campaign(t)] # "none"

\* What each kind of request writes.
Writes(t) ==
  /\ job[t].role = "none" => How(t) = "revoke"
  /\ job[t].role \in {"permanent", "expiring"} => How(t) \in {"assign", "create"}
  /\ job[t].seat = "ended" => How(t) = "end"
  /\ job[t].seat = "open" => How(t) \in {"join", "accept", "create"}
  /\ job[t].status # None => How(t) \in {"archive", "activate", "create"}
  /\ How(t) \in {"revoke", "assign", "end"} => job[t].m # None
  /\ How(t) = "revoke" => job[t].nth # 0
  /\ How(t) = "assign" => job[t].role # None
  /\ How(t) \in {"assign", "end"} => seat[Membership(t)] # "none"
  /\ How(t) = "join" => IF pc[t] = "commit" THEN job[t].seat = "open" ELSE job[t].m = None
  /\ How(t) = "end" /\ pc[t] # "membership" => job[t].seat = "ended"

\* A step that could leave a campaign without a manager is committed only under
\* the campaign's lock, and after a look at the managers.
Weakens(t) == job[t].seat = "ended" \/ job[t].role = "none" \/ job[t].status = "active"
Looked(t) ==
  /\ pc[t] \in {"recheck", "commit"} /\ Weakens(t) => <<"campaign", Campaign(t)>> \in held[t]
  /\ pc[t] = "commit" /\ Weakens(t) => Retained(t)

GrantIsNew(t) ==
  How(t) = "assign" /\ pc[t] = "commit" =>
    /\ role[Membership(t)] = "none" /\ granted[Membership(t)] < MaxGranted
    /\ <<"role", Membership(t), granted[Membership(t)] + 1>> \in held[t]

\* A place is taken by the transaction that holds it; except by invitation it
\* is a new one.
PlaceIsHeld(t) ==
  job[t].seat = "open" =>
    /\ ~OpenTo(User(t), Campaign(t))
    /\ How(t) # "create" => <<"open", Campaign(t), User(t)>> \in held[t]
    /\ How(t) # "accept" => seat[Membership(t)] = "none"

InvitationIsHeld(t) ==
  How(t) = "accept" =>
    /\ job[t].i \in Invitations /\ invited[job[t].i] = Campaign(t)
    /\ pc[t] \notin {"invitation", "replay", "commit"} => job[t].fresh
    /\ job[t].seat # None => job[t].fresh
    /\ job[t].fresh => /\ accepted[job[t].i] = None
                       /\ <<"invitation", job[t].i>> \in held[t]
    /\ ~job[t].fresh /\ pc[t] # "invitation" => accepted[job[t].i] = User(t)

TimelineIsHeld(t) ==
  How(t) = "create" =>
    /\ User(t) \in Users
    /\ pc[t] # "timeline" => <<"timeline">> \in held[t]
    /\ pc[t] \in {"timeline", "authorize"} => job[t].status = None /\ job[t].m = None
    /\ pc[t] \in {"recheck", "commit"} =>
         /\ Campaign(t) \in Campaigns /\ status[Campaign(t)] = "none"
         /\ job[t].seat = "open" /\ job[t].role = "permanent" /\ job[t].status = "active"
         /\ Membership(t)[2] = User(t)
         /\ job[t].fresh => FirstOfTimeline /\ bootstrap[User(t)] = "live"

TxInv(t) ==
  IF pc[t] = "idle" THEN held[t] = {}
  ELSE /\ Began(t) /\ Writes(t) /\ Looked(t) /\ GrantIsNew(t)
       /\ PlaceIsHeld(t) /\ InvitationIsHeld(t) /\ TimelineIsHeld(t)

DbInv ==
  /\ \A m \in Members : status[m[1]] = "none" => seat[m] = "none"
  /\ \A m \in Members : seat[m] = "none" => granted[m] = 0
  /\ \A m \in Members : granted[m] = 0 => role[m] = "none"
  /\ \A i \in Invitations : invited[i] # None => status[invited[i]] # "none"
  /\ \A i \in Invitations : accepted[i] = None => admitted[i] = {}
  /\ \A c \in Campaigns : claim[c] # None => status[c] # "none"

Exclusive == \A t, u \in Txs : t # u => held[t] \cap held[u] = {}

IInv ==
  /\ TypeOK /\ DbInv /\ Exclusive
  /\ \A t \in Txs : TxInv(t)
  /\ ManagerRemains /\ OneOpenMembership /\ InvitationAdmitsOne /\ TimelineClaimedOnce
=============================================================================
