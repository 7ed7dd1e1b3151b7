------------------------- MODULE AccessControl_proofs -------------------------
(* A campaign keeps a manager, a user has one open membership, an invitation *)
(* admits one user and a timeline is claimed once, for any number of users,  *)
(* campaigns, invitations and concurrent transactions.                       *)
EXTENDS AccessControl, TLAPS

\* What a membership is made of.
LEMMA MemberParts ==
  /\ \A m \in Members : /\ m[1] \in Campaigns /\ m[2] \in Users /\ m[3] \in Tenures
                        /\ m = <<m[1], m[2], m[3]>>
  /\ \A c \in Campaigns, u \in Users, n \in Tenures :
       /\ <<c, u, n>> \in Members
       /\ <<c, u, n>>[1] = c /\ <<c, u, n>>[2] = u /\ <<c, u, n>>[3] = n
  BY DEF Members

LEMMA NoMembership == None \notin Members
  BY AccessAssumption DEF Members

\* The locks there are.
LEMMA LockKinds ==
  /\ \A c \in Campaigns : <<"campaign", c>> \in Locks
  /\ \A i \in Invitations : <<"invitation", i>> \in Locks
  /\ <<"timeline">> \in Locks
  /\ \A m \in Members : <<"membership", m>> \in Locks
  /\ \A c \in Campaigns, u \in Users : <<"open", c, u>> \in Locks
  /\ \A m \in Members, k \in 1 .. MaxGranted : <<"role", m, k>> \in Locks
  BY DEF Locks

\* The initial state satisfies the inductive invariant.
LEMMA InitIInv == Init => IInv
<1> SUFFICES ASSUME Init PROVE IInv
  OBVIOUS
<1> USE AccessAssumption DEF Init
<1>1. TypeOK
  BY DEF TypeOK, Steps
<1>2. DbInv /\ Exclusive /\ \A t \in Txs : TxInv(t)
  BY DEF DbInv, Exclusive, TxInv
<1>3. ManagerRemains /\ OneOpenMembership /\ InvitationAdmitsOne /\ TimelineClaimedOnce
  BY MemberParts DEF ManagerRemains, OneOpenMembership, InvitationAdmitsOne, TimelineClaimedOnce
<1> QED
  BY <1>1, <1>2, <1>3 DEF IInv

\* The columns of the tables, one by one.
Rows == <<seat, role, granted, status, bootstrap, claim, invited, accepted, withdrawn, admitted>>

\* What a transaction has found out holds as long as nothing changes that it
\* depends on.
LEMMA Frame ==
  ASSUME NEW u \in Txs, TxInv(u), UNCHANGED Rows,
         pc'[u] = pc[u], job'[u] = job[u], held'[u] = held[u]
  PROVE  TxInv(u)'
<1>0. UNCHANGED <<seat, role, granted, status, bootstrap, claim, invited, accepted, withdrawn,
                  admitted>>
  BY DEF Rows
<1>1. CASE pc[u] = "idle"
  BY <1>1 DEF TxInv
<1>2. CASE pc[u] # "idle"
  <2>1. Began(u) /\ Writes(u) /\ Looked(u) /\ GrantIsNew(u) /\ PlaceIsHeld(u)
        /\ InvitationIsHeld(u) /\ TimelineIsHeld(u)
    BY <1>2 DEF TxInv
  <2> USE DEF How, Membership, Campaign, User
  <2>2. Began(u)' /\ Writes(u)'
    BY <1>0, <2>1 DEF Began, Writes
  <2>3. Looked(u)'
    BY <1>0, <2>1 DEF Looked, Weakens, Retained, Status, Managed, Seats, Roles
  <2>4. GrantIsNew(u)' /\ PlaceIsHeld(u)'
    BY <1>0, <2>1 DEF GrantIsNew, PlaceIsHeld, OpenTo
  <2>5. InvitationIsHeld(u)' /\ TimelineIsHeld(u)'
    BY <1>0, <2>1 DEF InvitationIsHeld, TimelineIsHeld, FirstOfTimeline
  <2> QED
    BY <1>2, <2>2, <2>3, <2>4, <2>5 DEF TxInv
<1> QED
  BY <1>1, <1>2

\* A step of one transaction that changes no row, and gives it no lock that
\* another has.
Own(t) ==
  /\ held' \in [Txs -> SUBSET Locks] /\ pc' \in [Txs -> Steps]
  /\ job' \in [Txs -> Jobs \cup {None}] /\ requests' \in 0 .. MaxRequests
  /\ \A u \in Txs : u # t => pc'[u] = pc[u] /\ job'[u] = job[u] /\ held'[u] = held[u]
  /\ \A lock \in held'[t] : lock \in held[t] \/ Free(t, lock)

\* Such a step preserves the invariant if it preserves what the transaction
\* itself has found out.
LEMMA OwnExclusive ==
  ASSUME TypeOK, Exclusive, NEW t \in Txs, Own(t)
  PROVE  Exclusive'
<1> SUFFICES ASSUME NEW u \in Txs, NEW v \in Txs, u # v, NEW lock, lock \in held'[u],
                    lock \in held'[v]
             PROVE  FALSE
  BY DEF Exclusive
<1>1. \A a, b \in Txs : a # b => ~(lock \in held[a] /\ lock \in held[b])
  BY DEF Exclusive
<1>2. CASE u # t /\ v # t
  BY <1>1, <1>2 DEF Own
<1>3. CASE u = t
  BY <1>1, <1>3 DEF Own, Free
<1>4. CASE v = t
  BY <1>1, <1>4 DEF Own, Free
<1> QED
  BY <1>2, <1>3, <1>4

LEMMA OwnStep ==
  ASSUME IInv, NEW t \in Txs, Own(t), UNCHANGED Rows, TxInv(t)'
  PROVE  IInv'
<1>0. UNCHANGED <<seat, role, granted, status, bootstrap, claim, invited, accepted, withdrawn,
                  admitted>>
  BY DEF Rows
<1>1. TypeOK'
  BY <1>0 DEF IInv, TypeOK, Own
<1>2. DbInv'
  BY <1>0 DEF IInv, DbInv
<1>3. Exclusive'
  BY OwnExclusive DEF IInv
<1>4. ASSUME NEW u \in Txs PROVE TxInv(u)'
  BY Frame DEF IInv, Own
<1>5. ManagerRemains' /\ OneOpenMembership' /\ InvitationAdmitsOne' /\ TimelineClaimedOnce'
  BY <1>0 DEF IInv, ManagerRemains, Managed, OneOpenMembership, InvitationAdmitsOne,
              TimelineClaimedOnce
<1> QED
  BY <1>1, <1>2, <1>3, <1>4, <1>5 DEF IInv

LEMMA RowsOfDb == UNCHANGED db <=> UNCHANGED Rows
  BY DEF db, membership, invitation, Rows

\* The ways in which a step takes a lock or ends its transaction.
LEMMA TakeLock ==
  ASSUME TypeOK, NEW t \in Txs, NEW lock \in Locks, Take(t, lock)
  PROVE  /\ held' \in [Txs -> SUBSET Locks]
         /\ \A u \in Txs : u # t => held'[u] = held[u]
         /\ held'[t] = held[t] \cup {lock}
         /\ \A l \in held'[t] : l \in held[t] \/ Free(t, l)
  BY DEF TypeOK, Take

LEMMA FinishLocks ==
  ASSUME TypeOK, NEW t \in Txs, NEW from, Finish(t, from)
  PROVE  /\ held' \in [Txs -> SUBSET Locks] /\ pc' \in [Txs -> Steps]
         /\ job' \in [Txs -> Jobs \cup {None}]
         /\ \A u \in Txs : u # t => pc'[u] = pc[u] /\ job'[u] = job[u] /\ held'[u] = held[u]
         /\ pc[t] = from /\ pc'[t] = "idle" /\ held'[t] = {}
  BY DEF TypeOK, Finish, Goto, Steps

LEMMA AbortStep ==
  ASSUME IInv, NEW t \in Txs, NEW from, Abort(t, from), UNCHANGED requests
  PROVE  IInv'
<1>1. TypeOK /\ Finish(t, from) /\ UNCHANGED Rows
  BY RowsOfDb DEF IInv, Abort
<1>2. Own(t)
  BY <1>1, FinishLocks DEF Own, TypeOK
<1>3. TxInv(t)'
  BY <1>1, FinishLocks DEF TxInv
<1> QED
  BY <1>1, <1>2, <1>3, OwnStep

LEMMA NoGrants == 0 \in 0 .. MaxGranted
  BY AccessAssumption

\* A request begins.
LEMMA BeginOwn ==
  ASSUME TypeOK, NEW t \in Txs, NEW to \in Steps \ {"idle"}, NEW request \in Jobs,
         Begin(t, to, request)
  PROVE  /\ Own(t) /\ UNCHANGED Rows
         /\ pc'[t] = to /\ job'[t] = request /\ held'[t] = held[t]
<1>1. UNCHANGED Rows /\ UNCHANGED held
  BY RowsOfDb DEF Begin
<1>2. pc' = [pc EXCEPT ![t] = to] /\ job' = [job EXCEPT ![t] = request] /\ requests' = requests + 1
      /\ requests < MaxRequests
  BY DEF Begin, Goto
<1>3. requests' \in 0 .. MaxRequests
  BY <1>2, AccessAssumption DEF TypeOK
<1> QED
  BY <1>1, <1>2, <1>3 DEF TypeOK, Own

\* A manager belongs to a campaign that is there.
LEMMA ManagedExists ==
  ASSUME TypeOK, DbInv, NEW c \in Campaigns, Authorised(c)
  PROVE  status[c] # "none"
<1>1. PICK u \in Users, n \in Tenures : seat[<<c, u, n>>] = "open"
  BY DEF Authorised, Manages
<1> QED
  BY <1>1, MemberParts DEF DbInv

LEMMA Begun ==
  ASSUME IInv, NEW t \in Txs, NEW q \in Jobs,
         NEW to \in {"role", "grant", "membership", "open", "status", "invitation", "timeline"},
         Begin(t, to, q), q.how \in DOMAIN StepsOf, to \in StepsOf[q.how],
         q.seat = None, q.status = None, ~q.fresh, q.role # "none",
         q.role # None <=> q.how = "assign",
         q.m # None <=> q.how \in {"revoke", "assign", "end"},
         q.m # None => q.m \in Members /\ q.m[1] = q.c,
         q.how = "revoke" => q.nth # 0,
         q.how \in {"assign", "end"} => seat[q.m] # "none",
         q.how = "end" => q.m[2] = q.u,
         q.how = "accept" => q.i \in Invitations /\ invited[q.i] = q.c,
         q.how \in {"end", "join", "accept", "create"} => q.u \in Users,
         q.how # "create" => q.c \in Campaigns /\ status[q.c] # "none",
         to # "open" \/ q.how = "join",
         to = "timeline" <=> q.how = "create",
         to = "membership" <=> q.how = "end",
         to = "invitation" <=> q.how = "accept"
  PROVE  IInv'
<1>1. TypeOK /\ to \in Steps \ {"idle"}
  BY DEF IInv, Steps
<1>2. Own(t) /\ UNCHANGED Rows /\ pc'[t] = to /\ job'[t] = q
  BY <1>1, BeginOwn
<1>3. TxInv(t)'
  BY <1>1, <1>2, AccessAssumption
  DEF TxInv, Began, Writes, Looked, Weakens, GrantIsNew, PlaceIsHeld, InvitationIsHeld,
      TimelineIsHeld, How, Membership, Campaign, User, Rows
<1> QED
  BY <1>2, <1>3, OwnStep

LEMMA AskMembership ==
  ASSUME IInv, NEW t \in Txs, NEW m \in Members, NEW kind \in {"permanent", "expiring"},
         AskRevoke(t, m) \/ AskEnd(t, m) \/ AskAssign(t, m, kind)
  PROVE  IInv'
<1>0. TypeOK /\ DbInv /\ m[1] \in Campaigns /\ m[2] \in Users /\ m # None
      /\ granted[m] \in 0 .. MaxGranted
  BY MemberParts, AccessAssumption DEF IInv, TypeOK, Members
<1>1. CASE AskRevoke(t, m)
  <2> DEFINE q == [Asked("revoke") EXCEPT !.m = m, !.nth = granted[m], !.c = m[1]]
  <2>1. /\ q \in Jobs /\ q.how = "revoke" /\ q.m = m /\ q.nth = granted[m] /\ q.c = m[1]
        /\ q.u = None /\ q.seat = None /\ q.role = None /\ q.status = None /\ q.fresh = FALSE
    BY <1>0, NoGrants DEF Asked, Jobs
  <2>2. Begin(t, "role", q) /\ role[m] # "none"
    BY <1>1 DEF AskRevoke
  <2>3. granted[m] # 0 /\ status[m[1]] # "none"
    BY <1>0, <2>2 DEF DbInv
  <2> HIDE DEF q
  <2> QED
    BY <1>0, <2>1, <2>2, <2>3, Begun, AccessAssumption DEF StepsOf
<1>2. CASE AskEnd(t, m)
  <2> DEFINE q == [Asked("end") EXCEPT !.m = m, !.c = m[1], !.u = m[2]]
  <2>1. /\ q \in Jobs /\ q.how = "end" /\ q.m = m /\ q.c = m[1] /\ q.u = m[2]
        /\ q.seat = None /\ q.role = None /\ q.status = None /\ q.fresh = FALSE
    BY <1>0, NoGrants DEF Asked, Jobs
  <2>2. Begin(t, "membership", q) /\ seat[m] = "open"
    BY <1>2 DEF AskEnd
  <2>3. status[m[1]] # "none"
    BY <1>0, <2>2 DEF DbInv
  <2> HIDE DEF q
  <2> QED
    BY <1>0, <2>1, <2>2, <2>3, Begun, AccessAssumption DEF StepsOf
<1>3. CASE AskAssign(t, m, kind)
  <2> DEFINE q == [Asked("assign") EXCEPT !.m = m, !.c = m[1], !.role = kind]
  <2>1. /\ q \in Jobs /\ q.how = "assign" /\ q.m = m /\ q.c = m[1] /\ q.u = None
        /\ q.seat = None /\ q.role = kind /\ q.status = None /\ q.fresh = FALSE
    BY <1>0, NoGrants DEF Asked, Jobs
  <2>2. Begin(t, "grant", q) /\ seat[m] # "none"
    BY <1>3 DEF AskAssign
  <2>3. status[m[1]] # "none"
    BY <1>0, <2>2 DEF DbInv
  <2> HIDE DEF q
  <2> QED
    BY <1>0, <2>1, <2>2, <2>3, Begun, AccessAssumption DEF StepsOf
<1> QED
  BY <1>1, <1>2, <1>3

LEMMA AskOther ==
  ASSUME IInv, NEW t \in Txs,
         \/ \E c \in Campaigns, u \in Users : AskJoin(t, c, u)
         \/ \E c \in Campaigns, how \in {"archive", "activate"} : AskStatus(t, c, how)
         \/ \E i \in Invitations, u \in Users : AskAccept(t, i, u)
         \/ \E u \in Users : AskCreate(t, u)
  PROVE  IInv'
<1>0. TypeOK /\ DbInv
  BY DEF IInv
<1>1. ASSUME NEW c \in Campaigns, NEW u \in Users, AskJoin(t, c, u) PROVE IInv'
  <2> DEFINE q == [Asked("join") EXCEPT !.c = c, !.u = u]
  <2>1. /\ q \in Jobs /\ q.how = "join" /\ q.m = None /\ q.c = c /\ q.u = u
        /\ q.seat = None /\ q.role = None /\ q.status = None /\ q.fresh = FALSE
    BY NoGrants DEF Asked, Jobs
  <2>2. Begin(t, "open", q) /\ status[c] # "none"
    BY <1>0, <1>1, ManagedExists DEF AskJoin
  <2> HIDE DEF q
  <2> QED
    BY <2>1, <2>2, Begun, AccessAssumption DEF StepsOf
<1>2. ASSUME NEW u \in Users, AskCreate(t, u) PROVE IInv'
  <2> DEFINE q == [Asked("create") EXCEPT !.u = u]
  <2>1. /\ q \in Jobs /\ q.how = "create" /\ q.m = None /\ q.u = u
        /\ q.seat = None /\ q.role = None /\ q.status = None /\ q.fresh = FALSE
    BY NoGrants DEF Asked, Jobs
  <2>2. Begin(t, "timeline", q)
    BY <1>2 DEF AskCreate
  <2> HIDE DEF q
  <2> QED
    BY <2>1, <2>2, Begun, AccessAssumption DEF StepsOf
<1>3. ASSUME NEW c \in Campaigns, NEW how \in {"archive", "activate"}, AskStatus(t, c, how)
      PROVE  IInv'
  <2> DEFINE q == [Asked(how) EXCEPT !.c = c]
  <2>1. /\ q \in Jobs /\ q.how = how /\ q.m = None /\ q.c = c /\ q.u = None
        /\ q.seat = None /\ q.role = None /\ q.status = None /\ q.fresh = FALSE
    BY NoGrants DEF Asked, Jobs
  <2>2. Begin(t, "status", q) /\ status[c] # "none"
    BY <1>3 DEF AskStatus
  <2> HIDE DEF q
  <2> QED
    BY <2>1, <2>2, Begun, AccessAssumption DEF StepsOf
<1>4. ASSUME NEW i \in Invitations, NEW u \in Users, AskAccept(t, i, u) PROVE IInv'
  <2> DEFINE q == [Asked("accept") EXCEPT !.i = i, !.c = invited[i], !.u = u]
  <2>0. invited[i] # None
    BY <1>4 DEF AskAccept
  <2>1. invited[i] \in Campaigns /\ status[invited[i]] # "none"
    BY <1>0, <2>0 DEF TypeOK, DbInv
  <2>2. /\ q \in Jobs /\ q.how = "accept" /\ q.m = None /\ q.i = i /\ q.c = invited[i] /\ q.u = u
        /\ q.seat = None /\ q.role = None /\ q.status = None /\ q.fresh = FALSE
    BY <2>1, NoGrants DEF Asked, Jobs
  <2>3. Begin(t, "invitation", q)
    BY <1>4 DEF AskAccept
  <2> HIDE DEF q
  <2> QED
    BY <2>1, <2>2, <2>3, Begun, AccessAssumption DEF StepsOf
<1> QED
  BY <1>1, <1>2, <1>3, <1>4

\* A job that differs from another in what has been found out or written since.
SameRequest(j, k) == j.how = k.how /\ j.nth = k.nth /\ j.i = k.i

LEMMA WroteSeat ==
  ASSUME NEW j \in Jobs, NEW x \in {"open", "ended"}
  PROVE  LET k == [j EXCEPT !.seat = x]
         IN  /\ k \in Jobs /\ SameRequest(j, k)
             /\ k.c = j.c /\ k.m = j.m /\ k.u = j.u /\ k.seat = x
             /\ k.role = j.role /\ k.status = j.status /\ k.fresh = j.fresh
  BY DEF Jobs, SameRequest

LEMMA WroteRole ==
  ASSUME NEW j \in Jobs
  PROVE  LET k == [j EXCEPT !.role = "none"]
         IN  /\ k \in Jobs /\ SameRequest(j, k)
             /\ k.c = j.c /\ k.m = j.m /\ k.u = j.u /\ k.seat = j.seat
             /\ k.role = "none" /\ k.status = j.status /\ k.fresh = j.fresh
  BY DEF Jobs, SameRequest

LEMMA WroteStatus ==
  ASSUME NEW j \in Jobs, NEW x \in {"active", "archived"}
  PROVE  LET k == [j EXCEPT !.status = x]
         IN  /\ k \in Jobs /\ SameRequest(j, k)
             /\ k.c = j.c /\ k.m = j.m /\ k.u = j.u /\ k.seat = j.seat
             /\ k.role = j.role /\ k.status = x /\ k.fresh = j.fresh
  BY DEF Jobs, SameRequest

LEMMA FoundInvitation ==
  ASSUME NEW j \in Jobs
  PROVE  LET k == [j EXCEPT !.fresh = TRUE]
         IN  /\ k \in Jobs /\ SameRequest(j, k)
             /\ k.c = j.c /\ k.m = j.m /\ k.u = j.u /\ k.seat = j.seat
             /\ k.role = j.role /\ k.status = j.status /\ k.fresh = TRUE
  BY DEF Jobs, SameRequest

LEMMA ChoseMembership ==
  ASSUME NEW j \in Jobs, NEW m \in Members
  PROVE  LET k == [j EXCEPT !.m = m]
         IN  /\ k \in Jobs /\ SameRequest(j, k)
             /\ k.c = j.c /\ k.m = m /\ k.u = j.u /\ k.seat = j.seat
             /\ k.role = j.role /\ k.status = j.status /\ k.fresh = j.fresh
  BY DEF Jobs, SameRequest

LEMMA WroteMembership ==
  ASSUME NEW j \in Jobs, NEW m \in Members
  PROVE  LET k == [j EXCEPT !.seat = "open", !.m = m]
         IN  /\ k \in Jobs /\ SameRequest(j, k)
             /\ k.c = j.c /\ k.m = m /\ k.u = j.u /\ k.seat = "open"
             /\ k.role = j.role /\ k.status = j.status /\ k.fresh = j.fresh
  BY DEF Jobs, SameRequest

\* What is known of a transaction under way.
Known(t) ==
  /\ TypeOK /\ DbInv /\ job[t] \in Jobs
  /\ Began(t) /\ Writes(t) /\ Looked(t) /\ GrantIsNew(t)
  /\ PlaceIsHeld(t) /\ InvitationIsHeld(t) /\ TimelineIsHeld(t)

LEMMA RunningTx ==
  ASSUME IInv, NEW t \in Txs, pc[t] # "idle"
  PROVE  Known(t)
  BY DEF IInv, TxInv, Began, Known

LEMMA SameJob ==
  ASSUME TypeOK, NEW t \in Txs, UNCHANGED job
  PROVE  job' = [job EXCEPT ![t] = job[t]]
  BY DEF TypeOK

\* The steps that write nothing into the tables.
LEMMA AssertStep ==
  ASSUME IInv, NEW t \in Txs, BeginAssert(t), UNCHANGED requests
  PROVE  IInv'
<1>1. pc[t] = "campaign" /\ Goto(t, "campaign", "recheck") /\ Take(t, <<"campaign", Campaign(t)>>)
      /\ UNCHANGED Rows /\ UNCHANGED job
  BY RowsOfDb DEF BeginAssert, LockCampaign, Goto
<1>2. Known(t) /\ TypeOK /\ job[t] \in Jobs
  BY <1>1, RunningTx DEF Known
<1>3. <<"campaign", Campaign(t)>> \in Locks /\ "recheck" \in Steps \ {"idle"}
  BY <1>1, <1>2, LockKinds DEF Known, Began, StepsOf, Steps
<1>4. Own(t) /\ pc'[t] = "recheck" /\ job'[t] = job[t] /\ held[t] \subseteq held'[t]
  BY <1>1, <1>2, <1>3, TakeLock, SameJob DEF TypeOK, Own, Goto
<1>5. <<"campaign", Campaign(t)>> \in held'[t]
  BY <1>1, <1>2, <1>3, TakeLock
<1>a. (Began(t) /\ Writes(t) /\ Looked(t) /\ GrantIsNew(t))'
  BY <1>1, <1>2, <1>4, <1>5
  DEF Known, Began, Writes, Looked, Weakens, GrantIsNew, How, Membership, Campaign, User, Rows,
      StepsOf
<1>b. (PlaceIsHeld(t) /\ InvitationIsHeld(t) /\ TimelineIsHeld(t))'
  BY <1>1, <1>2, <1>4, <1>5
  DEF Known, Began, Writes, PlaceIsHeld, InvitationIsHeld, TimelineIsHeld, How, Membership, Campaign,
      User, Rows, OpenTo, StepsOf, FirstOfTimeline
<1>6. TxInv(t)'
  BY <1>1, <1>2, <1>4, <1>5, <1>a, <1>b DEF TxInv
<1> QED
  BY <1>1, <1>4, <1>6, OwnStep

\* A step that only asks whether to go on.
LEMMA CheckOwn ==
  ASSUME TypeOK, NEW t \in Txs, NEW from, NEW to \in Steps \ {"idle"}, Goto(t, from, to),
         UNCHANGED <<db, held, job>>, UNCHANGED requests, job[t] \in Jobs
  PROVE  Own(t) /\ UNCHANGED Rows /\ pc[t] = from /\ pc'[t] = to /\ job'[t] = job[t]
         /\ held'[t] = held[t]
  BY RowsOfDb DEF TypeOK, Own, Goto

LEMMA CheckSteps ==
  ASSUME IInv, NEW t \in Txs, Recheck(t) \/ CheckManager(t) \/ ReplayAcceptance(t),
         UNCHANGED requests
  PROVE  IInv'
<1>1. ASSUME NEW from \in Steps, Abort(t, from) PROVE IInv'
  BY <1>1, AbortStep
<1>2. CASE Recheck(t) /\ ~\E from \in Steps : Abort(t, from)
  <2>1. Goto(t, "recheck", "commit") /\ UNCHANGED <<db, held, job>> /\ Retained(t)
        /\ pc[t] = "recheck"
    BY <1>2 DEF Recheck, Check, Steps
  <2>2. Known(t) /\ TypeOK /\ job[t] \in Jobs /\ "commit" \in Steps \ {"idle"}
    BY <2>1, RunningTx DEF Known, Steps
  <2>3. Own(t) /\ UNCHANGED Rows /\ pc'[t] = "commit" /\ job'[t] = job[t] /\ held'[t] = held[t]
    BY <2>1, <2>2, CheckOwn
  <2>4. Retained(t)'
    BY <2>1, <2>3 DEF Rows, Retained, Status, Managed, Seats, Roles, Campaign, Membership
  <2>a. (Began(t) /\ Writes(t) /\ Looked(t) /\ GrantIsNew(t))'
    BY <2>1, <2>2, <2>3, <2>4
    DEF Known, Began, Writes, Looked, Weakens, GrantIsNew, How, Membership, Campaign, User, Rows,
        StepsOf
  <2>b. (PlaceIsHeld(t) /\ InvitationIsHeld(t) /\ TimelineIsHeld(t))'
    BY <2>1, <2>2, <2>3, <2>4
    DEF Known, Began, Writes, PlaceIsHeld, InvitationIsHeld, TimelineIsHeld, How, Membership,
        Campaign,
        User, Rows, OpenTo, StepsOf, FirstOfTimeline
  <2>5. TxInv(t)'
    BY <2>1, <2>2, <2>3, <2>4, <2>a, <2>b DEF TxInv
  <2> QED
    BY <2>3, <2>5, OwnStep
<1>3. CASE CheckManager(t) /\ ~\E from \in Steps : Abort(t, from)
  <2> DEFINE to == IF job[t].role = None THEN "commit" ELSE "campaign"
  <2>1. Goto(t, "check", to) /\ UNCHANGED <<db, held, job>> /\ pc[t] = "check"
    BY <1>3 DEF CheckManager, Check, Steps
  <2>2. Known(t) /\ TypeOK /\ job[t] \in Jobs /\ to \in Steps \ {"idle"}
    BY <2>1, RunningTx DEF Known, Steps
  <2>3. Own(t) /\ UNCHANGED Rows /\ pc'[t] = to /\ job'[t] = job[t] /\ held'[t] = held[t]
    BY <2>1, <2>2, CheckOwn
  <2>a. (Began(t) /\ Writes(t) /\ Looked(t) /\ GrantIsNew(t))'
    BY <2>1, <2>2, <2>3, AccessAssumption
    DEF Known, Began, Writes, Looked, Weakens, GrantIsNew, How, Membership, Campaign, User, Rows,
        StepsOf
  <2>b. (PlaceIsHeld(t) /\ InvitationIsHeld(t) /\ TimelineIsHeld(t))'
    BY <2>1, <2>2, <2>3, AccessAssumption
    DEF Known, Began, Writes, PlaceIsHeld, InvitationIsHeld, TimelineIsHeld, How, Membership,
        Campaign,
        User, Rows, OpenTo, StepsOf, FirstOfTimeline
  <2>4. TxInv(t)'
    BY <2>1, <2>2, <2>3, AccessAssumption, <2>a, <2>b DEF TxInv
  <2> QED
    BY <2>3, <2>4, OwnStep
<1>4. CASE ReplayAcceptance(t) /\ ~\E from \in Steps : Abort(t, from)
  <2>1. Goto(t, "replay", "commit") /\ UNCHANGED <<db, held, job>> /\ pc[t] = "replay"
    BY <1>4 DEF ReplayAcceptance, Check, Steps
  <2>2. Known(t) /\ TypeOK /\ job[t] \in Jobs /\ "commit" \in Steps \ {"idle"}
    BY <2>1, RunningTx DEF Known, Steps
  <2>3. Own(t) /\ UNCHANGED Rows /\ pc'[t] = "commit" /\ job'[t] = job[t] /\ held'[t] = held[t]
    BY <2>1, <2>2, CheckOwn
  <2>a. (Began(t) /\ Writes(t) /\ Looked(t) /\ GrantIsNew(t))'
    BY <2>1, <2>2, <2>3, AccessAssumption
    DEF Known, Began, Writes, Looked, Weakens, GrantIsNew, How, Membership, Campaign, User, Rows,
        StepsOf
  <2>b. (PlaceIsHeld(t) /\ InvitationIsHeld(t) /\ TimelineIsHeld(t))'
    BY <2>1, <2>2, <2>3, AccessAssumption
    DEF Known, Began, Writes, PlaceIsHeld, InvitationIsHeld, TimelineIsHeld, How, Membership,
        Campaign,
        User, Rows, OpenTo, StepsOf, FirstOfTimeline
  <2>4. TxInv(t)'
    BY <2>1, <2>2, <2>3, AccessAssumption, <2>a, <2>b DEF TxInv
  <2> QED
    BY <2>3, <2>4, OwnStep
<1> QED
  BY <1>1, <1>2, <1>3, <1>4
LEMMA RevokeStep ==
  ASSUME IInv, NEW t \in Txs, RevokeRole(t), UNCHANGED requests
  PROVE  IInv'
<1> DEFINE lock == <<"role", Membership(t), job[t].nth>>
           j == IF granted[Membership(t)] = job[t].nth /\ role[Membership(t)] # "none"
                THEN [job[t] EXCEPT !.role = "none"] ELSE job[t]
<1>1. pc[t] = "role" /\ Goto(t, "role", "check") /\ Take(t, lock) /\ UNCHANGED Rows
  BY RowsOfDb DEF RevokeRole, Goto
<1>2. Known(t) /\ TypeOK /\ job[t] \in Jobs
  BY <1>1, RunningTx DEF Known
<1>3. How(t) = "revoke" /\ Membership(t) \in Members /\ job[t].nth \in 1 .. MaxGranted
      /\ "check" \in Steps \ {"idle"}
  BY <1>1, <1>2, AccessAssumption DEF Known, Began, Writes, StepsOf, Jobs, Steps, Membership
<1>4. lock \in Locks
  BY <1>3, LockKinds
<1>5. job' = [job EXCEPT ![t] = j]
  BY <1>2, SameJob DEF RevokeRole
<1>6. /\ j \in Jobs /\ SameRequest(job[t], j)
      /\ j.c = job[t].c /\ j.m = job[t].m /\ j.u = job[t].u /\ j.seat = job[t].seat
      /\ j.role \in {job[t].role, "none"} /\ j.status = job[t].status /\ j.fresh = job[t].fresh
  BY <1>2, WroteRole DEF SameRequest
<1> HIDE DEF j, lock
<1>7. Own(t) /\ pc'[t] = "check" /\ job'[t] = j /\ held[t] \subseteq held'[t]
  BY <1>1, <1>2, <1>3, <1>4, <1>5, <1>6, TakeLock DEF TypeOK, Own, Goto
<1>a. (Began(t) /\ Writes(t) /\ Looked(t) /\ GrantIsNew(t))'
  BY <1>1, <1>2, <1>3, <1>6, <1>7, AccessAssumption
  DEF SameRequest, Known, Began, Writes, Looked, Weakens, GrantIsNew, How, Membership, Campaign,
      User, Rows, StepsOf
<1>b. (PlaceIsHeld(t) /\ InvitationIsHeld(t) /\ TimelineIsHeld(t))'
  BY <1>1, <1>2, <1>3, <1>6, <1>7, AccessAssumption
  DEF SameRequest, Known, Began, Writes, PlaceIsHeld, InvitationIsHeld, TimelineIsHeld, How,
      Membership, Campaign,
      User, Rows, OpenTo, StepsOf, FirstOfTimeline
<1>c. TxInv(t)'
  BY <1>1, <1>2, <1>3, <1>6, <1>7, AccessAssumption, <1>a, <1>b DEF TxInv
<1> QED
  BY <1>1, <1>7, <1>c, OwnStep

LEMMA AssignStep ==
  ASSUME IInv, NEW t \in Txs, AssignRole(t), UNCHANGED requests
  PROVE  IInv'
<1> DEFINE m == Membership(t)
           lock == <<"role", m, granted[m] + 1>>
<1>0. CASE Abort(t, "grant")
  BY <1>0, AbortStep
<1>1. CASE ~Abort(t, "grant")
  <2>1. pc[t] = "grant" /\ Goto(t, "grant", "commit") /\ Take(t, lock) /\ UNCHANGED Rows
        /\ UNCHANGED job /\ role[m] = "none" /\ granted[m] < MaxGranted
    BY <1>1, RowsOfDb DEF AssignRole, Goto
  <2>2. Known(t) /\ TypeOK /\ job[t] \in Jobs
    BY <2>1, RunningTx DEF Known
  <2>3. How(t) = "assign" /\ m \in Members /\ granted[m] + 1 \in 1 .. MaxGranted
        /\ "commit" \in Steps \ {"idle"}
    BY <2>1, <2>2, AccessAssumption DEF Known, Began, Writes, StepsOf, TypeOK, Steps, Membership
  <2>4. lock \in Locks
    BY <2>3, LockKinds
  <2>5. Own(t) /\ pc'[t] = "commit" /\ job'[t] = job[t] /\ held[t] \subseteq held'[t]
    BY <2>1, <2>2, <2>3, <2>4, TakeLock, SameJob DEF TypeOK, Own, Goto
  <2>6. lock \in held'[t]
    BY <2>1, <2>2, <2>4, TakeLock
  <2>a. (Began(t) /\ Writes(t) /\ Looked(t) /\ GrantIsNew(t))'
    BY <2>1, <2>2, <2>3, <2>5, <2>6, AccessAssumption
    DEF Known, Began, Writes, Looked, Weakens, GrantIsNew, How, Membership, Campaign, User, Rows,
        StepsOf
  <2>b. (PlaceIsHeld(t) /\ InvitationIsHeld(t) /\ TimelineIsHeld(t))'
    BY <2>1, <2>2, <2>3, <2>5, <2>6, AccessAssumption
    DEF Known, Began, Writes, PlaceIsHeld, InvitationIsHeld, TimelineIsHeld, How, Membership,
        Campaign,
        User, Rows, OpenTo, StepsOf, FirstOfTimeline
  <2>c. TxInv(t)'
    BY <2>1, <2>2, <2>3, <2>5, <2>6, AccessAssumption, <2>a, <2>b DEF TxInv
  <2> QED
    BY <2>1, <2>5, <2>c, OwnStep
<1> QED
  BY <1>0, <1>1

LEMMA EndStep ==
  ASSUME IInv, NEW t \in Txs, EndMembership(t), UNCHANGED requests
  PROVE  IInv'
<1> DEFINE lock == <<"membership", Membership(t)>>
           j == [job[t] EXCEPT !.seat = "ended"]
<1>0. CASE Abort(t, "membership")
  BY <1>0, AbortStep
<1>1. CASE ~Abort(t, "membership")
  <2>1. pc[t] = "membership" /\ Goto(t, "membership", "campaign") /\ Take(t, lock)
        /\ UNCHANGED Rows
    BY <1>1, RowsOfDb DEF EndMembership, Goto
  <2>2. Known(t) /\ TypeOK /\ job[t] \in Jobs
    BY <2>1, RunningTx DEF Known
  <2>3. How(t) = "end" /\ Membership(t) \in Members /\ "campaign" \in Steps \ {"idle"}
    BY <2>1, <2>2 DEF Known, Began, Writes, StepsOf, Steps, Membership
  <2>4. lock \in Locks
    BY <2>3, LockKinds
  <2>5. job' = [job EXCEPT ![t] = j]
    BY <1>1, <2>2 DEF EndMembership
  <2>6. /\ j \in Jobs /\ SameRequest(job[t], j)
        /\ j.c = job[t].c /\ j.m = job[t].m /\ j.u = job[t].u /\ j.seat = "ended"
        /\ j.role = job[t].role /\ j.status = job[t].status /\ j.fresh = job[t].fresh
    BY <2>2, WroteSeat
  <2> HIDE DEF j, lock
  <2>7. Own(t) /\ pc'[t] = "campaign" /\ job'[t] = j /\ held[t] \subseteq held'[t]
    BY <2>1, <2>2, <2>3, <2>4, <2>5, <2>6, TakeLock DEF TypeOK, Own, Goto
  <2>a. (Began(t) /\ Writes(t) /\ Looked(t) /\ GrantIsNew(t))'
    BY <2>1, <2>2, <2>3, <2>6, <2>7, AccessAssumption
    DEF SameRequest, Known, Began, Writes, Looked, Weakens, GrantIsNew, How, Membership, Campaign,
        User, Rows, StepsOf
  <2>b. (PlaceIsHeld(t) /\ InvitationIsHeld(t) /\ TimelineIsHeld(t))'
    BY <2>1, <2>2, <2>3, <2>6, <2>7, AccessAssumption
    DEF SameRequest, Known, Began, Writes, PlaceIsHeld, InvitationIsHeld, TimelineIsHeld, How,
        Membership, Campaign,
        User, Rows, OpenTo, StepsOf, FirstOfTimeline
  <2>c. TxInv(t)'
    BY <2>1, <2>2, <2>3, <2>6, <2>7, AccessAssumption, <2>a, <2>b DEF TxInv
  <2> QED
    BY <2>1, <2>7, <2>c, OwnStep
<1> QED
  BY <1>0, <1>1

LEMMA StatusStep ==
  ASSUME IInv, NEW t \in Txs, SetStatus(t), UNCHANGED requests
  PROVE  IInv'
<1> DEFINE lock == <<"campaign", Campaign(t)>>
           to == IF How(t) = "archive" THEN "commit" ELSE "recheck"
           x == IF How(t) = "archive" THEN "archived" ELSE "active"
           j == [job[t] EXCEPT !.status = x]
<1>1. pc[t] = "status" /\ Goto(t, "status", to) /\ Take(t, lock) /\ UNCHANGED Rows
  BY RowsOfDb DEF SetStatus, Goto
<1>2. Known(t) /\ TypeOK /\ job[t] \in Jobs
  BY <1>1, RunningTx DEF Known
<1>3. How(t) \in {"archive", "activate"} /\ Campaign(t) \in Campaigns /\ to \in Steps \ {"idle"}
  BY <1>1, <1>2 DEF Known, Began, StepsOf, Steps
<1>4. lock \in Locks
  BY <1>3, LockKinds
<1>5. job' = [job EXCEPT ![t] = j]
  BY <1>2 DEF SetStatus
<1>6. /\ j \in Jobs /\ SameRequest(job[t], j)
      /\ j.c = job[t].c /\ j.m = job[t].m /\ j.u = job[t].u /\ j.seat = job[t].seat
      /\ j.role = job[t].role /\ j.status = x /\ j.fresh = job[t].fresh
  <2>1. x \in {"active", "archived"}
    OBVIOUS
  <2> HIDE DEF x
  <2> QED
    BY <1>2, <2>1, WroteStatus
<1>7. lock \in held'[t]
  BY <1>1, <1>2, <1>4, TakeLock
<1> HIDE DEF j
<1>8. Own(t) /\ pc'[t] = to /\ job'[t] = j /\ held[t] \subseteq held'[t]
  BY <1>1, <1>2, <1>3, <1>4, <1>5, <1>6, TakeLock DEF TypeOK, Own, Goto
<1>a. (Began(t) /\ Writes(t) /\ Looked(t) /\ GrantIsNew(t))'
  BY <1>1, <1>2, <1>3, <1>6, <1>7, <1>8, AccessAssumption
  DEF SameRequest, Known, Began, Writes, Looked, Weakens, GrantIsNew, How, Membership, Campaign,
      User, Rows, StepsOf
<1>b. (PlaceIsHeld(t) /\ InvitationIsHeld(t) /\ TimelineIsHeld(t))'
  BY <1>1, <1>2, <1>3, <1>6, <1>7, <1>8, AccessAssumption
  DEF SameRequest, Known, Began, Writes, PlaceIsHeld, InvitationIsHeld, TimelineIsHeld, How,
      Membership, Campaign,
      User, Rows, OpenTo, StepsOf, FirstOfTimeline
<1>c. TxInv(t)'
  BY <1>1, <1>2, <1>3, <1>6, <1>7, <1>8, AccessAssumption, <1>a, <1>b DEF TxInv
<1> QED
  BY <1>1, <1>8, <1>c, OwnStep
LEMMA FindStep ==
  ASSUME IInv, NEW t \in Txs, FindInvitation(t), UNCHANGED requests
  PROVE  IInv'
<1> DEFINE lock == <<"invitation", job[t].i>>
           j == [job[t] EXCEPT !.fresh = TRUE]
<1>1. pc[t] = "invitation"
  BY DEF FindInvitation
<1>2. Known(t) /\ TypeOK /\ job[t] \in Jobs
  BY <1>1, RunningTx DEF Known
<1>3. How(t) = "accept" /\ job[t].i \in Invitations /\ lock \in Locks
      /\ {"choose", "replay"} \subseteq Steps \ {"idle"}
  BY <1>1, <1>2, LockKinds DEF Known, Began, InvitationIsHeld, StepsOf, Steps
<1>4. CASE Usable(job[t].i, User(t)) /\ ~Abort(t, "invitation")
  <2>1. Goto(t, "invitation", "choose") /\ Take(t, lock) /\ UNCHANGED Rows
        /\ job' = [job EXCEPT ![t] = j] /\ accepted[job[t].i] = None
    BY <1>2, <1>4, RowsOfDb DEF FindInvitation, LockInvitation, Usable
  <2>2. /\ j \in Jobs /\ SameRequest(job[t], j)
        /\ j.c = job[t].c /\ j.m = job[t].m /\ j.u = job[t].u /\ j.seat = job[t].seat
        /\ j.role = job[t].role /\ j.status = job[t].status /\ j.fresh = TRUE
    BY <1>2, FoundInvitation
  <2>3. lock \in held'[t]
    BY <1>2, <1>3, <2>1, TakeLock
  <2> HIDE DEF j
  <2>4. Own(t) /\ pc'[t] = "choose" /\ job'[t] = j /\ held[t] \subseteq held'[t]
    BY <1>2, <1>3, <2>1, <2>2, TakeLock DEF TypeOK, Own, Goto
  <2>a. (Began(t) /\ Writes(t) /\ Looked(t) /\ GrantIsNew(t))'
    BY <1>1, <1>2, <1>3, <2>1, <2>2, <2>3, <2>4, AccessAssumption
    DEF SameRequest, Known, Began, Writes, Looked, Weakens, GrantIsNew, How, Membership, Campaign,
        User, Rows, StepsOf
  <2>b. (PlaceIsHeld(t) /\ InvitationIsHeld(t) /\ TimelineIsHeld(t))'
    BY <1>1, <1>2, <1>3, <2>1, <2>2, <2>3, <2>4, AccessAssumption
    DEF SameRequest, Known, Began, Writes, PlaceIsHeld, InvitationIsHeld, TimelineIsHeld, How,
        Membership, Campaign,
        User, Rows, OpenTo, StepsOf, FirstOfTimeline
  <2>c. TxInv(t)'
    BY <1>1, <1>2, <1>3, <2>1, <2>2, <2>3, <2>4, AccessAssumption, <2>a, <2>b DEF TxInv
  <2> QED
    BY <2>1, <2>4, <2>c, OwnStep
<1>5. CASE ~Usable(job[t].i, User(t)) /\ accepted[job[t].i] = User(t) /\ ~Abort(t, "invitation")
  <2>1. Goto(t, "invitation", "replay") /\ Take(t, lock) /\ UNCHANGED Rows /\ UNCHANGED job
    BY <1>5, RowsOfDb DEF FindInvitation, LockInvitation
  <2>4. Own(t) /\ pc'[t] = "replay" /\ job'[t] = job[t] /\ held[t] \subseteq held'[t]
    BY <1>2, <1>3, <2>1, TakeLock, SameJob DEF TypeOK, Own, Goto
  <2>5. lock \in held'[t]
    BY <1>2, <1>3, <2>1, TakeLock
  <2>a. (Began(t) /\ Writes(t) /\ Looked(t) /\ GrantIsNew(t))'
    BY <1>1, <1>2, <1>3, <1>5, <2>1, <2>4, <2>5, AccessAssumption
    DEF Known, Began, Writes, Looked, Weakens, GrantIsNew, How, Membership, Campaign, User, Rows,
        StepsOf
  <2>b. (PlaceIsHeld(t) /\ InvitationIsHeld(t) /\ TimelineIsHeld(t))'
    BY <1>1, <1>2, <1>3, <1>5, <2>1, <2>4, <2>5, AccessAssumption
    DEF Known, Began, Writes, PlaceIsHeld, InvitationIsHeld, TimelineIsHeld, How, Membership,
        Campaign,
        User, Rows, OpenTo, StepsOf, FirstOfTimeline
  <2>c. TxInv(t)'
    BY <1>1, <1>2, <1>3, <1>5, <2>1, <2>4, <2>5, AccessAssumption, <2>a, <2>b DEF TxInv
  <2> QED
    BY <2>1, <2>4, <2>c, OwnStep
<1>6. CASE Abort(t, "invitation")
  BY <1>6, AbortStep
<1> QED
  BY <1>4, <1>5, <1>6 DEF FindInvitation

LEMMA ChooseStep ==
  ASSUME IInv, NEW t \in Txs, ChooseMembership(t), UNCHANGED requests
  PROVE  IInv'
<1>1. pc[t] = "choose" /\ UNCHANGED Rows /\ UNCHANGED held
  BY RowsOfDb DEF ChooseMembership
<1>2. Known(t) /\ TypeOK /\ job[t] \in Jobs
  BY <1>1, RunningTx DEF Known
<1>3. How(t) = "accept" /\ Campaign(t) \in Campaigns /\ User(t) \in Users
      /\ {"open", "row"} \subseteq Steps \ {"idle"} /\ job[t].seat = None
  BY <1>1, <1>2 DEF Known, Began, StepsOf, Steps
<1>4. CASE Goto(t, "choose", "open") /\ UNCHANGED job
  <2>1. Own(t) /\ pc'[t] = "open" /\ job'[t] = job[t] /\ held[t] \subseteq held'[t]
    BY <1>1, <1>2, <1>3, <1>4, SameJob DEF TypeOK, Own, Goto
  <2>a. (Began(t) /\ Writes(t) /\ Looked(t) /\ GrantIsNew(t))'
    BY <1>1, <1>2, <1>3, <2>1, AccessAssumption
    DEF Known, Began, Writes, Looked, Weakens, GrantIsNew, How, Membership, Campaign, User, Rows,
        StepsOf
  <2>b. (PlaceIsHeld(t) /\ InvitationIsHeld(t) /\ TimelineIsHeld(t))'
    BY <1>1, <1>2, <1>3, <2>1, AccessAssumption
    DEF Known, Began, Writes, PlaceIsHeld, InvitationIsHeld, TimelineIsHeld, How, Membership,
        Campaign,
        User, Rows, OpenTo, StepsOf, FirstOfTimeline
  <2>c. TxInv(t)'
    BY <1>1, <1>2, <1>3, <2>1, AccessAssumption, <2>a, <2>b DEF TxInv
  <2> QED
    BY <1>1, <2>1, <2>c, OwnStep
<1>5. ASSUME NEW n \in Tenures, Goto(t, "choose", "row"),
             job' = [job EXCEPT ![t].m = <<Campaign(t), User(t), n>>]
      PROVE  IInv'
  <2> DEFINE m == <<Campaign(t), User(t), n>>
             j == [job[t] EXCEPT !.m = m]
  <2>1. m \in Members /\ m[1] = Campaign(t) /\ m[2] = User(t) /\ m # None
    BY <1>3, MemberParts, NoMembership
  <2>2. job' = [job EXCEPT ![t] = j] /\ Goto(t, "choose", "row")
    BY <1>2, <1>5
  <2> HIDE DEF m
  <2>3. /\ j \in Jobs /\ SameRequest(job[t], j)
        /\ j.c = job[t].c /\ j.m = m /\ j.u = job[t].u /\ j.seat = job[t].seat
        /\ j.role = job[t].role /\ j.status = job[t].status /\ j.fresh = job[t].fresh
    BY <1>2, <2>1, ChoseMembership
  <2> HIDE DEF j
  <2>4. Own(t) /\ pc'[t] = "row" /\ job'[t] = j /\ held[t] \subseteq held'[t]
    BY <1>1, <1>2, <1>3, <2>2, <2>3 DEF TypeOK, Own, Goto
  <2>p. Began(t)'
    <3>1. job'[t] \in Jobs /\ job'[t].how = "accept" /\ job'[t].m = m /\ job'[t].seat = None
          /\ job'[t].c = Campaign(t) /\ job'[t].u = User(t)
      BY <1>3, <2>3, <2>4 DEF SameRequest, How, Campaign, User
    <3>2. How(t)' \in DOMAIN StepsOf /\ pc'[t] \in StepsOf[How(t)']
      BY <2>4, <3>1 DEF How, StepsOf
    <3>3. status'[Campaign(t)'] # "none"
      BY <1>1, <1>2, <1>3, <3>1 DEF Known, Began, Rows, Campaign, How
    <3> QED
      BY <1>3, <2>1, <3>1, <3>2, <3>3 DEF Began, How, Membership, Campaign, User
  <2>q. Writes(t)'
    BY <1>1, <1>2, <1>3, <2>1, <2>3, <2>4, AccessAssumption
    DEF SameRequest, Known, Began, Writes, How, Membership, Campaign, User, Rows
  <2>r. (Looked(t) /\ GrantIsNew(t))'
    BY <1>1, <1>2, <1>3, <2>1, <2>3, <2>4, AccessAssumption
    DEF SameRequest, Known, Began, Writes, Looked, Weakens, GrantIsNew, How, Membership, Campaign
  <2>a. (Began(t) /\ Writes(t) /\ Looked(t) /\ GrantIsNew(t))'
    BY <2>p, <2>q, <2>r
  <2>b. (PlaceIsHeld(t) /\ InvitationIsHeld(t) /\ TimelineIsHeld(t))'
    BY <1>1, <1>2, <1>3, <2>1, <2>3, <2>4, AccessAssumption
    DEF SameRequest, Known, Began, Writes, PlaceIsHeld, InvitationIsHeld, TimelineIsHeld, How,
        Membership, Campaign,
        User, Rows, OpenTo, StepsOf, FirstOfTimeline
  <2>c. TxInv(t)'
    BY <1>1, <1>2, <1>3, <2>1, <2>3, <2>4, AccessAssumption, <2>a, <2>b DEF TxInv
  <2> QED
    BY <1>1, <2>4, <2>c, OwnStep
<1> QED
  BY <1>4, <1>5 DEF ChooseMembership, Used

LEMMA RowStep ==
  ASSUME IInv, NEW t \in Txs, LockMembership(t), UNCHANGED requests
  PROVE  IInv'
<1> DEFINE lock == <<"membership", Membership(t)>>
           to == IF seat[Membership(t)] = "open" THEN "commit" ELSE "open"
<1>1. pc[t] = "row" /\ Goto(t, "row", to) /\ Take(t, lock) /\ UNCHANGED Rows /\ UNCHANGED job
  BY RowsOfDb DEF LockMembership
<1>2. Known(t) /\ TypeOK /\ job[t] \in Jobs
  BY <1>1, RunningTx DEF Known
<1>3. How(t) = "accept" /\ Membership(t) \in Members /\ lock \in Locks
      /\ to \in Steps \ {"idle"} /\ to \in {"commit", "open"}
  BY <1>1, <1>2, LockKinds DEF Known, Began, StepsOf, Steps, Membership
<1> HIDE DEF to
<1>4. Own(t) /\ pc'[t] = to /\ job'[t] = job[t] /\ held[t] \subseteq held'[t]
  BY <1>1, <1>2, <1>3, TakeLock, SameJob DEF TypeOK, Own, Goto
<1>a. (Began(t) /\ Writes(t) /\ Looked(t) /\ GrantIsNew(t))'
  BY <1>1, <1>2, <1>3, <1>4, AccessAssumption
  DEF Known, Began, Writes, Looked, Weakens, GrantIsNew, How, Membership, Campaign, User, Rows,
      StepsOf
<1>b. (PlaceIsHeld(t) /\ InvitationIsHeld(t) /\ TimelineIsHeld(t))'
  BY <1>1, <1>2, <1>3, <1>4, AccessAssumption
  DEF Known, Began, Writes, PlaceIsHeld, InvitationIsHeld, TimelineIsHeld, How, Membership, Campaign,
      User, Rows, OpenTo, StepsOf, FirstOfTimeline
<1>c. TxInv(t)'
  BY <1>1, <1>2, <1>3, <1>4, AccessAssumption, <1>a, <1>b DEF TxInv
<1> QED
  BY <1>1, <1>4, <1>c, OwnStep

LEMMA OpenStep ==
  ASSUME IInv, NEW t \in Txs, OpenMembership(t), UNCHANGED requests
  PROVE  IInv'
<1> DEFINE lock == <<"open", Campaign(t), User(t)>>
<1>1. pc[t] = "open"
  BY DEF OpenMembership
<1>2. Known(t) /\ TypeOK /\ job[t] \in Jobs
  BY <1>1, RunningTx DEF Known
<1>3. How(t) \in {"join", "accept"} /\ Campaign(t) \in Campaigns /\ User(t) \in Users
      /\ lock \in Locks /\ {"commit", "campaign"} \subseteq Steps \ {"idle"}
      /\ (How(t) = "join" => Membership(t) = None)
  BY <1>1, <1>2, LockKinds DEF Known, Began, Writes, StepsOf, Steps, Membership
<1>4. CASE Abort(t, "open")
  BY <1>4, AbortStep
<1>5. ASSUME PlaceFree(t), Take(t, lock), UNCHANGED db, Membership(t) # None,
             Goto(t, "open", "campaign"), job' = [job EXCEPT ![t].seat = "open"]
      PROVE  IInv'
  <2> DEFINE j == [job[t] EXCEPT !.seat = "open"]
  <2>1. UNCHANGED Rows /\ job' = [job EXCEPT ![t] = j] /\ How(t) = "accept" /\ Take(t, lock)
        /\ Goto(t, "open", "campaign") /\ ~OpenTo(User(t), Campaign(t)) /\ Membership(t) # None
    BY <1>2, <1>3, <1>5, RowsOfDb DEF PlaceFree
  <2>2. /\ j \in Jobs /\ SameRequest(job[t], j)
        /\ j.c = job[t].c /\ j.m = job[t].m /\ j.u = job[t].u /\ j.seat = "open"
        /\ j.role = job[t].role /\ j.status = job[t].status /\ j.fresh = job[t].fresh
    BY <1>2, WroteSeat
  <2>3. lock \in held'[t]
    BY <1>2, <1>3, <2>1, TakeLock
  <2> HIDE DEF j
  <2>4. Own(t) /\ pc'[t] = "campaign" /\ job'[t] = j /\ held[t] \subseteq held'[t]
    BY <1>2, <1>3, <2>1, <2>2, TakeLock DEF TypeOK, Own, Goto
  <2>a. (Began(t) /\ Writes(t) /\ Looked(t) /\ GrantIsNew(t))'
    BY <1>1, <1>2, <1>3, <2>1, <2>2, <2>3, <2>4, AccessAssumption
    DEF SameRequest, Known, Began, Writes, Looked, Weakens, GrantIsNew, How, Membership, Campaign,
        User, Rows, StepsOf
  <2>b. (PlaceIsHeld(t) /\ InvitationIsHeld(t) /\ TimelineIsHeld(t))'
    BY <1>1, <1>2, <1>3, <2>1, <2>2, <2>3, <2>4, AccessAssumption
    DEF SameRequest, Known, Began, Writes, PlaceIsHeld, InvitationIsHeld, TimelineIsHeld, How,
        Membership, Campaign,
        User, Rows, OpenTo, StepsOf, FirstOfTimeline
  <2>c. TxInv(t)'
    BY <1>1, <1>2, <1>3, <2>1, <2>2, <2>3, <2>4, AccessAssumption, <2>a, <2>b DEF TxInv
  <2> QED
    BY <2>1, <2>4, <2>c, OwnStep
<1>6. ASSUME PlaceFree(t), Take(t, lock), UNCHANGED db, Membership(t) = None,
             Goto(t, "open", "commit"),
             NEW n \in Tenures, \A other \in Used(Campaign(t), User(t)) : other < n,
             job' = [job EXCEPT ![t].seat = "open", ![t].m = <<Campaign(t), User(t), n>>]
      PROVE  IInv'
  <2> DEFINE m == <<Campaign(t), User(t), n>>
             j == [job[t] EXCEPT !.seat = "open", !.m = m]
  <2>0. n \notin Used(Campaign(t), User(t))
    BY <1>6, AccessAssumption
  <2>1. m \in Members /\ m[1] = Campaign(t) /\ m[2] = User(t) /\ seat[m] = "none"
        /\ m # None
    BY <1>3, <2>0, MemberParts, NoMembership DEF Used
  <2>2. UNCHANGED Rows /\ job' = [job EXCEPT ![t] = j] /\ Take(t, lock)
        /\ Goto(t, "open", "commit") /\ ~OpenTo(User(t), Campaign(t))
    BY <1>2, <1>6, RowsOfDb DEF PlaceFree
  <2>3. lock \in held'[t]
    BY <1>2, <1>3, <2>2, TakeLock
  <2> HIDE DEF m
  <2>4. /\ j \in Jobs /\ SameRequest(job[t], j)
        /\ j.c = job[t].c /\ j.m = m /\ j.u = job[t].u /\ j.seat = "open"
        /\ j.role = job[t].role /\ j.status = job[t].status /\ j.fresh = job[t].fresh
    BY <1>2, <2>1, WroteMembership
  <2> HIDE DEF j
  <2>5. Own(t) /\ pc'[t] = "commit" /\ job'[t] = j /\ held[t] \subseteq held'[t]
    BY <1>2, <1>3, <2>2, <2>4, TakeLock DEF TypeOK, Own, Goto
  <2>a. (Began(t) /\ Writes(t) /\ Looked(t) /\ GrantIsNew(t))'
    BY <1>1, <1>2, <1>3, <2>1, <2>2, <2>3, <2>4, <2>5, AccessAssumption
    DEF SameRequest, Known, Began, Writes, Looked, Weakens, GrantIsNew, How, Membership, Campaign,
        User, Rows, StepsOf
  <2>b. (PlaceIsHeld(t) /\ InvitationIsHeld(t) /\ TimelineIsHeld(t))'
    BY <1>1, <1>2, <1>3, <2>1, <2>2, <2>3, <2>4, <2>5, AccessAssumption
    DEF SameRequest, Known, Began, Writes, PlaceIsHeld, InvitationIsHeld, TimelineIsHeld, How,
        Membership, Campaign,
        User, Rows, OpenTo, StepsOf, FirstOfTimeline
  <2>c. TxInv(t)'
    BY <1>1, <1>2, <1>3, <2>1, <2>2, <2>3, <2>4, <2>5, AccessAssumption, <2>a, <2>b DEF TxInv
  <2> QED
    BY <2>2, <2>5, <2>c, OwnStep
<1> QED
  BY <1>4, <1>5, <1>6 DEF OpenMembership

LEMMA TimelineStep ==
  ASSUME IInv, NEW t \in Txs, BeginCreate(t), UNCHANGED requests
  PROVE  IInv'
<1>1. pc[t] = "timeline" /\ Goto(t, "timeline", "authorize") /\ Take(t, <<"timeline">>)
      /\ UNCHANGED Rows /\ UNCHANGED job
  BY RowsOfDb DEF BeginCreate, LockTimeline, Goto
<1>2. Known(t) /\ TypeOK /\ job[t] \in Jobs
  BY <1>1, RunningTx DEF Known
<1>3. <<"timeline">> \in Locks /\ "authorize" \in Steps \ {"idle"} /\ How(t) = "create"
  BY <1>1, <1>2, LockKinds DEF Known, Began, StepsOf, Steps
<1>4. Own(t) /\ pc'[t] = "authorize" /\ job'[t] = job[t] /\ held[t] \subseteq held'[t]
  BY <1>1, <1>2, <1>3, TakeLock, SameJob DEF TypeOK, Own, Goto
<1>5. <<"timeline">> \in held'[t]
  BY <1>1, <1>2, <1>3, TakeLock
<1>a. (Began(t) /\ Writes(t) /\ Looked(t) /\ GrantIsNew(t))'
  BY <1>1, <1>2, <1>3, <1>4, <1>5, AccessAssumption
  DEF Known, Began, Writes, Looked, Weakens, GrantIsNew, How, Membership, Campaign, User, Rows,
      StepsOf
<1>b. (PlaceIsHeld(t) /\ InvitationIsHeld(t) /\ TimelineIsHeld(t))'
  BY <1>1, <1>2, <1>3, <1>4, <1>5, AccessAssumption
  DEF Known, Began, Writes, PlaceIsHeld, InvitationIsHeld, TimelineIsHeld, How, Membership, Campaign,
      User, Rows, OpenTo, StepsOf, FirstOfTimeline
<1>c. TxInv(t)'
  BY <1>1, <1>2, <1>3, <1>4, <1>5, AccessAssumption, <1>a, <1>b DEF TxInv
<1> QED
  BY <1>1, <1>4, <1>c, OwnStep

LEMMA CreateStep ==
  ASSUME IInv, NEW t \in Txs, CreateCampaign(t), UNCHANGED requests
  PROVE  IInv'
<1>1. pc[t] = "authorize"
  BY DEF CreateCampaign
<1>2. Known(t) /\ TypeOK /\ job[t] \in Jobs /\ DbInv
  BY <1>1, RunningTx DEF Known
<1>3. How(t) = "create" /\ User(t) \in Users /\ "recheck" \in Steps \ {"idle"}
      /\ <<"timeline">> \in held[t]
  BY <1>1, <1>2 DEF Known, Began, TimelineIsHeld, StepsOf, Steps
<1> DEFINE Places(c, n) ==
             /\ status[c] = "none"
             /\ Take(t, <<"campaign", c>>)
             /\ job' = [job EXCEPT ![t] = Founding(t, c, n)]
<1>4. CASE Abort(t, "authorize")
  BY <1>4, AbortStep
<1>5. ASSUME MayCreate(User(t)), Goto(t, "authorize", "recheck"), UNCHANGED db,
             NEW c \in Campaigns, NEW n \in Tenures, Places(c, n)
      PROVE  IInv'
  <2> DEFINE m == <<c, User(t), n>>
             f == FirstOfTimeline
             j == [job[t] EXCEPT !.c = c, !.m = m, !.seat = "open",
                             !.role = "permanent", !.status = "active", !.fresh = f]
  <2>1. m \in Members /\ m[1] = c /\ m[2] = User(t) /\ f \in BOOLEAN /\ m # None
    BY <1>3, MemberParts, NoMembership DEF FirstOfTimeline
  <2>2. seat[m] = "none" /\ ~OpenTo(User(t), c)
    BY <1>2, <1>3, <1>5, <2>1, MemberParts DEF DbInv, OpenTo
  <2>3. UNCHANGED Rows /\ job' = [job EXCEPT ![t] = j] /\ Take(t, <<"campaign", c>>)
        /\ Goto(t, "authorize", "recheck")
    BY <1>2, <1>5, RowsOfDb DEF Founding
  <2>4. status[c] = "none" /\ (f => bootstrap[User(t)] = "live")
    BY <1>5 DEF MayCreate
  <2>5. <<"campaign", c>> \in Locks /\ <<"campaign", c>> \in held'[t]
    BY <1>2, <2>3, LockKinds, TakeLock
  <2> HIDE DEF m, f
  <2>6. /\ j \in Jobs /\ SameRequest(job[t], j)
        /\ j.c = c /\ j.m = m /\ j.u = job[t].u /\ j.seat = "open"
        /\ j.role = "permanent" /\ j.status = "active" /\ j.fresh = f
    BY <1>2, <2>1 DEF Jobs, SameRequest
  <2> HIDE DEF j
  <2>7. Own(t) /\ pc'[t] = "recheck" /\ job'[t] = j /\ held[t] \subseteq held'[t]
    BY <1>2, <1>3, <2>3, <2>5, <2>6, TakeLock DEF TypeOK, Own, Goto
  <2>8. f <=> FirstOfTimeline'
    BY <2>3 DEF f, FirstOfTimeline, Rows
  <2>9. /\ How(t)' = "create" /\ Campaign(t)' = c /\ Membership(t)' = m /\ User(t)' = User(t)
        /\ job'[t].seat = "open" /\ job'[t].role = "permanent" /\ job'[t].status = "active"
        /\ job'[t] \in Jobs /\ job'[t].fresh = f
    BY <1>3, <2>6, <2>7 DEF SameRequest, How, Campaign, Membership, User
  <2>10. UNCHANGED <<seat, status, bootstrap>> /\ <<"timeline">> \in held'[t]
    BY <1>3, <2>3, <2>7 DEF Rows
  <2>11. (Began(t) /\ Writes(t))'
    BY <1>3, <2>1, <2>7, <2>9, AccessAssumption
    DEF Began, Writes, How, Membership, Campaign, User, StepsOf
  <2>12. (Looked(t) /\ GrantIsNew(t) /\ InvitationIsHeld(t))'
    BY <2>5, <2>7, <2>9 DEF Looked, GrantIsNew, InvitationIsHeld
  <2>13. PlaceIsHeld(t)'
    BY <2>2, <2>7, <2>9, <2>10 DEF PlaceIsHeld, OpenTo
  <2>14. TimelineIsHeld(t)'
    <3>1. job'[t].fresh => FirstOfTimeline' /\ bootstrap'[User(t)] = "live"
      BY <2>4, <2>8, <2>9, <2>10
    <3> QED
      BY <1>3, <2>1, <2>4, <2>7, <2>9, <2>10, <3>1 DEF TimelineIsHeld
  <2>c. TxInv(t)'
    BY <2>7, <2>11, <2>12, <2>13, <2>14 DEF TxInv
  <2> QED
    BY <2>3, <2>7, <2>c, OwnStep
<1>6. \/ Abort(t, "authorize")
      \/ /\ MayCreate(User(t)) /\ Goto(t, "authorize", "recheck") /\ UNCHANGED db
         /\ \E c \in Campaigns, n \in Tenures : Places(c, n)
  BY DEF CreateCampaign
<1> HIDE DEF Places
<1> QED
  BY <1>4, <1>5, <1>6
\* What a commit does to the tables, column by column.
Written(t) ==
  /\ \A n \in Members : IF n = Membership(t) /\ job[t].seat # None
                        THEN seat'[n] = job[t].seat ELSE seat'[n] = seat[n]
  /\ \A n \in Members : IF n = Membership(t) /\ job[t].role # None
                        THEN role'[n] = job[t].role ELSE role'[n] = role[n]
  /\ \A n \in Members : IF n = Membership(t) /\ job[t].role \in {"permanent", "expiring"}
                        THEN granted'[n] = granted[n] + 1 ELSE granted'[n] = granted[n]
  /\ \A c \in Campaigns : IF c = Campaign(t) /\ job[t].status # None
                          THEN status'[c] = job[t].status ELSE status'[c] = status[c]
  /\ \A c \in Campaigns : IF c = Campaign(t) /\ How(t) = "create" /\ job[t].fresh
                          THEN claim'[c] = User(t) ELSE claim'[c] = claim[c]
  /\ \A u \in Users : IF u = User(t) /\ How(t) = "create" /\ job[t].fresh
                      THEN bootstrap'[u] = "consumed" ELSE bootstrap'[u] = bootstrap[u]
  /\ \A i \in Invitations : IF i = job[t].i /\ How(t) = "accept" /\ job[t].fresh
                            THEN accepted'[i] = User(t) ELSE accepted'[i] = accepted[i]
  /\ \A i \in Invitations : IF i = job[t].i /\ How(t) = "accept"
                            THEN admitted'[i] = admitted[i] \cup {User(t)}
                            ELSE admitted'[i] = admitted[i]
  /\ UNCHANGED <<invited, withdrawn>>

LEMMA CommitWrites ==
  ASSUME NEW t \in Txs, Known(t), pc[t] = "commit", Commit(t)
  PROVE  Written(t)
<1>0. TypeOK
  BY DEF Known
<1>1. /\ seat' = Seats(t) /\ role' = Roles(t) /\ granted' = Granted(t)
      /\ status' = IF job[t].status = None THEN status
                   ELSE [status EXCEPT ![Campaign(t)] = job[t].status]
      /\ UNCHANGED <<invited, withdrawn>>
  BY DEF Commit
<1>2. /\ claim' = IF How(t) = "create" /\ job[t].fresh
                  THEN [claim EXCEPT ![Campaign(t)] = User(t)] ELSE claim
      /\ bootstrap' = IF How(t) = "create" /\ job[t].fresh
                      THEN [bootstrap EXCEPT ![User(t)] = "consumed"] ELSE bootstrap
      /\ accepted' = IF How(t) = "accept" /\ job[t].fresh
                     THEN [accepted EXCEPT ![job[t].i] = User(t)] ELSE accepted
      /\ admitted' = IF How(t) = "accept" THEN [admitted EXCEPT ![job[t].i] = @ \cup {User(t)}]
                     ELSE admitted
  BY DEF Commit
<1>3. /\ \A n \in Members : IF n = Membership(t) /\ job[t].seat # None
                            THEN seat'[n] = job[t].seat ELSE seat'[n] = seat[n]
      /\ \A n \in Members : IF n = Membership(t) /\ job[t].role # None
                            THEN role'[n] = job[t].role ELSE role'[n] = role[n]
      /\ \A n \in Members : IF n = Membership(t) /\ job[t].role \in {"permanent", "expiring"}
                            THEN granted'[n] = granted[n] + 1 ELSE granted'[n] = granted[n]
  BY <1>0, <1>1 DEF TypeOK, Seats, Roles, Granted
<1>4. \A c \in Campaigns : IF c = Campaign(t) /\ job[t].status # None
                           THEN status'[c] = job[t].status ELSE status'[c] = status[c]
  BY <1>0, <1>1 DEF TypeOK
<1>5. /\ \A c \in Campaigns : IF c = Campaign(t) /\ How(t) = "create" /\ job[t].fresh
                              THEN claim'[c] = User(t) ELSE claim'[c] = claim[c]
      /\ \A u \in Users : IF u = User(t) /\ How(t) = "create" /\ job[t].fresh
                          THEN bootstrap'[u] = "consumed" ELSE bootstrap'[u] = bootstrap[u]
  BY <1>0, <1>2 DEF TypeOK
<1>6. /\ \A i \in Invitations : IF i = job[t].i /\ How(t) = "accept" /\ job[t].fresh
                                THEN accepted'[i] = User(t) ELSE accepted'[i] = accepted[i]
      /\ \A i \in Invitations : IF i = job[t].i /\ How(t) = "accept"
                                THEN admitted'[i] = admitted[i] \cup {User(t)}
                                ELSE admitted'[i] = admitted[i]
  BY <1>0, <1>2 DEF TypeOK
<1> QED
  BY <1>1, <1>3, <1>4, <1>5, <1>6 DEF Written

LEMMA CommitTypes ==
  ASSUME NEW t \in Txs, Known(t), pc[t] = "commit", Commit(t), UNCHANGED requests
  PROVE  TypeOK'
<1>0. TypeOK /\ DbInv /\ job[t] \in Jobs /\ Began(t) /\ Writes(t) /\ GrantIsNew(t) /\ TimelineIsHeld(t)
      /\ InvitationIsHeld(t)
  BY DEF Known
<1>1. Finish(t, "commit")
  BY DEF Commit
<1>2. /\ held' \in [Txs -> SUBSET Locks] /\ pc' \in [Txs -> Steps]
      /\ job' \in [Txs -> Jobs \cup {None}] /\ requests' \in 0 .. MaxRequests
  BY <1>0, <1>1, FinishLocks DEF TypeOK
<1>3. /\ job[t].seat \in {"open", "ended", None} /\ job[t].role \in {"none", "permanent", "expiring", None}
      /\ job[t].status \in {"active", "archived", None}
  BY <1>0 DEF Jobs
<1>4. seat' \in [Members -> {"none", "open", "ended"}]
  BY <1>0, <1>3 DEF Commit, Seats, TypeOK
<1>5. role' \in [Members -> {"none", "permanent", "expiring", "lapsed"}]
  BY <1>0, <1>3 DEF Commit, Roles, TypeOK
<1>6. granted' \in [Members -> 0 .. MaxGranted]
  <2>1. CASE job[t].role \in {"permanent", "expiring"}
    <3>1. Membership(t) \in Members
      BY <1>0, <2>1, AccessAssumption DEF Began, Membership
    <3>2. granted[Membership(t)] < MaxGranted /\ granted[Membership(t)] \in 0 .. MaxGranted
      <4>1. CASE How(t) = "assign"
        BY <1>0, <3>1, <4>1 DEF GrantIsNew, TypeOK
      <4>2. CASE How(t) = "create"
        <5>1. status[Membership(t)[1]] = "none"
          BY <1>0, <4>2, <3>1, AccessAssumption DEF TimelineIsHeld, Began, Membership
        <5>2. granted[Membership(t)] = 0
          BY <1>0, <3>1, <5>1 DEF DbInv
        <5> QED
          BY <5>2, AccessAssumption
      <4> QED
        BY <1>0, <2>1, <4>1, <4>2 DEF Writes
    <3>3. granted' = [granted EXCEPT ![Membership(t)] = granted[Membership(t)] + 1]
      BY <2>1 DEF Commit, Granted
    <3>4. granted[Membership(t)] + 1 \in 0 .. MaxGranted
      BY <3>2, AccessAssumption
    <3> QED
      BY <1>0, <3>1, <3>3, <3>4 DEF TypeOK
  <2>2. CASE job[t].role \notin {"permanent", "expiring"}
    BY <1>0, <2>2 DEF Commit, Granted, TypeOK
  <2> QED
    BY <2>1, <2>2
<1>7. status' \in [Campaigns -> {"none", "active", "archived"}]
  BY <1>0, <1>3 DEF Commit, TypeOK
<1>8. claim' \in [Campaigns -> Users \cup {None}] /\ bootstrap' \in [Users -> {"none", "live", "consumed"}]
  BY <1>0 DEF Commit, TypeOK, TimelineIsHeld
<1>9. accepted' \in [Invitations -> Users \cup {None}] /\ admitted' \in [Invitations -> SUBSET Users]
  <2>1. How(t) = "accept" => User(t) \in Users
    BY <1>0 DEF Began
  <2> QED
    BY <1>0, <2>1 DEF Commit, TypeOK
<1>10. UNCHANGED <<invited, withdrawn>>
  BY DEF Commit
<1> QED
  BY <1>0, <1>2, <1>4, <1>5, <1>6, <1>7, <1>8, <1>9, <1>10 DEF TypeOK
\* Two transactions never hold one lock.
LEMMA OneHolder ==
  ASSUME Exclusive, NEW t \in Txs, NEW u \in Txs, t # u, NEW lock
  PROVE  ~(lock \in held[t] /\ lock \in held[u])
  BY DEF Exclusive

\* Two transactions under way: they do not fill one place, only one is about
\* to create a campaign, and only one grants the role to a membership.
LEMMA Apart ==
  ASSUME Exclusive, NEW t \in Txs, NEW u \in Txs, t # u, Known(t), Known(u)
  PROVE  /\ job[t].seat = "open" /\ job[u].seat = "open" =>
              Campaign(t) # Campaign(u) \/ User(t) # User(u)
         /\ How(t) = "create" /\ pc[t] = "commit" =>
              /\ status[Campaign(t)] = "none"
              /\ How(u) = "create" => pc[u] = "timeline"
              /\ How(u) # "create" => Campaign(u) # Campaign(t)
         /\ How(t) = "assign" /\ How(u) = "assign" /\ pc[t] = "commit" /\ pc[u] = "commit" =>
              Membership(t) # Membership(u)
<1>1. ASSUME How(t) = "create", pc[t] = "commit"
      PROVE  /\ status[Campaign(t)] = "none"
             /\ How(u) = "create" => pc[u] = "timeline"
             /\ How(u) # "create" => Campaign(u) # Campaign(t)
  <2>1. status[Campaign(t)] = "none" /\ <<"timeline">> \in held[t]
    BY <1>1 DEF Known, TimelineIsHeld
  <2>2. How(u) = "create" => pc[u] = "timeline"
    BY <2>1, OneHolder DEF Known, TimelineIsHeld
  <2>3. How(u) # "create" => status[Campaign(u)] # "none"
    BY DEF Known, Began
  <2> QED
    BY <2>1, <2>2, <2>3
<1>2. ASSUME How(t) = "assign", How(u) = "assign", pc[t] = "commit", pc[u] = "commit",
             Membership(t) = Membership(u)
      PROVE  FALSE
  BY <1>2, OneHolder DEF Known, GrantIsNew
<1>3. ASSUME job[t].seat = "open", job[u].seat = "open", Campaign(t) = Campaign(u), User(t) = User(u)
      PROVE  FALSE
  <2>1. How(t) = "create" \/ <<"open", Campaign(t), User(t)>> \in held[t]
    BY <1>3 DEF Known, PlaceIsHeld
  <2>2. How(u) = "create" \/ <<"open", Campaign(t), User(t)>> \in held[u]
    BY <1>3 DEF Known, PlaceIsHeld
  <2>3. How(t) = "create" => status[Campaign(t)] = "none" /\ <<"timeline">> \in held[t]
    BY <1>3, AccessAssumption DEF Known, TimelineIsHeld, Began, StepsOf, How
  <2>4. How(u) = "create" => status[Campaign(u)] = "none" /\ <<"timeline">> \in held[u]
    BY <1>3, AccessAssumption DEF Known, TimelineIsHeld, Began, StepsOf, How
  <2>5. (How(t) # "create" => status[Campaign(t)] # "none")
        /\ (How(u) # "create" => status[Campaign(u)] # "none")
    BY DEF Known, Began
  <2> QED
    BY <1>3, <2>1, <2>2, <2>3, <2>4, <2>5, OneHolder
<1> QED
  BY <1>1, <1>2, <1>3

\* A commit of t, seen by another transaction u.
LEMMA CommitOthers ==
  ASSUME Exclusive, NEW t \in Txs, NEW u \in Txs, t # u, Known(t), Known(u), pc[u] # "idle",
         pc[t] = "commit", Written(t), TypeOK',
         pc'[u] = pc[u], job'[u] = job[u], held'[u] = held[u]
  PROVE  TxInv(u)'
<1> DEFINE m == Membership(u)
           c == Campaign(u)
<1>0. /\ TypeOK /\ DbInv /\ job[t] \in Jobs /\ job[u] \in Jobs
      /\ Began(t) /\ Writes(t) /\ Looked(t) /\ GrantIsNew(t) /\ PlaceIsHeld(t)
      /\ InvitationIsHeld(t) /\ TimelineIsHeld(t)
      /\ Began(u) /\ Writes(u) /\ Looked(u) /\ GrantIsNew(u) /\ PlaceIsHeld(u)
      /\ InvitationIsHeld(u) /\ TimelineIsHeld(u)
  BY DEF Known
<1>1. /\ How(u)' = How(u) /\ Membership(u)' = m /\ Campaign(u)' = c /\ User(u)' = User(u)
      /\ job'[u] = job[u] /\ pc'[u] = pc[u] /\ held'[u] = held[u]
  BY DEF How, Membership, Campaign, User
<1>2. \A d \in Campaigns : status[d] # "none" => status'[d] # "none"
  BY <1>0 DEF Written, Jobs
<1>3. \A n \in Members : seat[n] # "none" => seat'[n] # "none"
  BY <1>0 DEF Written, Jobs
<1>4. Began(u)'
  BY <1>0, <1>1, <1>2 DEF Began
<1>5. Writes(u)'
  <2>1. How(u) \in {"assign", "end"} => m \in Members
    BY <1>0, AccessAssumption DEF Writes, Began, Membership
  <2> QED
    BY <1>0, <1>1, <1>3, <2>1 DEF Writes
<1>6. GrantIsNew(u)'
  <2>1. SUFFICES ASSUME How(u) = "assign", pc[u] = "commit"
                 PROVE  role'[m] = "none" /\ granted'[m] = granted[m]
    BY <1>0, <1>1 DEF GrantIsNew
  <2>2. m \in Members /\ m[1] = c /\ role[m] = "none"
    BY <1>0, <2>1 DEF Writes, Began, GrantIsNew, Membership
  <2>3. ASSUME job[t].role \in {"permanent", "expiring"}, m = Membership(t) PROVE FALSE
    <3>1. Membership(t)[1] = Campaign(t)
      BY <1>0, <2>3, AccessAssumption DEF Began
    <3>2. CASE How(t) = "create"
      BY <2>1, <2>2, <2>3, <3>1, <3>2, Apart
    <3>3. CASE How(t) = "assign"
      BY <2>1, <2>3, <3>3, Apart
    <3> QED
      BY <1>0, <2>3, <3>2, <3>3 DEF Writes
  <2>4. job[t].role \in {"none", "permanent", "expiring", None}
    BY <1>0 DEF Jobs
  <2> QED
    BY <2>2, <2>3, <2>4 DEF Written
<1>7. PlaceIsHeld(u)'
  <2>1. SUFFICES ASSUME job[u].seat = "open"
                 PROVE  ~OpenTo(User(u), c)' /\ (How(u) # "accept" => seat'[m] = "none")
    BY <1>0, <1>1 DEF PlaceIsHeld
  <2>2. m \in Members /\ m[1] = c /\ m[2] = User(u) /\ ~OpenTo(User(u), c)
        /\ (How(u) # "accept" => seat[m] = "none") /\ c \in Campaigns /\ User(u) \in Users
    <3>1. m \in Members /\ m[1] = c
      BY <1>0, <2>1, AccessAssumption DEF Began, Membership
    <3>2. m[2] = User(u)
      BY <1>0, <2>1, <3>1, NoMembership DEF Began, Writes, TimelineIsHeld, StepsOf, Membership
    <3> QED
      BY <1>0, <2>1, <3>1, <3>2, MemberParts DEF PlaceIsHeld
  <2>3. job[t].seat = "open" =>
          /\ Membership(t)[1] # c \/ Membership(t)[2] # User(u)
          /\ Membership(t) # m
    <3>1. SUFFICES ASSUME job[t].seat = "open"
                   PROVE  Membership(t)[1] # c \/ Membership(t)[2] # User(u)
      BY <2>2
    <3>2. Membership(t) \in Members /\ Membership(t)[1] = Campaign(t)
      BY <1>0, <3>1, AccessAssumption DEF Began, Membership
    <3>3. Membership(t)[2] = User(t)
      BY <1>0, <3>1, <3>2, NoMembership DEF Began, Writes, TimelineIsHeld, StepsOf, Membership
    <3> QED
      BY <2>1, <3>1, <3>2, <3>3, Apart
  <2>4. \A n \in Tenures : seat'[<<c, User(u), n>>] # "open"
    BY <2>2, <2>3, <1>0, MemberParts DEF Written, OpenTo, Jobs
  <2>5. How(u) # "accept" => seat'[m] = "none"
    <3>1. ASSUME How(u) # "accept", job[t].seat # None, m = Membership(t) PROVE FALSE
      <4>1. job[t].seat = "ended"
        BY <1>0, <2>3, <3>1 DEF Jobs
      <4> QED
        BY <1>0, <2>2, <3>1, <4>1 DEF Writes
    <3> QED
      BY <2>2, <3>1 DEF Written
  <2> QED
    BY <1>1, <2>4, <2>5 DEF OpenTo
<1>8. InvitationIsHeld(u)'
  <2>0. CASE How(u) # "accept"
    BY <1>1, <2>0 DEF InvitationIsHeld
  <2>1. SUFFICES ASSUME How(u) = "accept" PROVE InvitationIsHeld(u)'
    BY <2>0
  <2>2. job[u].i \in Invitations /\ invited[job[u].i] = c /\ User(u) \in Users
    BY <1>0, <2>1 DEF InvitationIsHeld, Began
  <2>3. ASSUME How(t) = "accept", job[t].fresh, job[t].i = job[u].i, job[u].fresh \/ pc[u] # "invitation"
        PROVE  FALSE
    <3>1. accepted[job[u].i] = None /\ <<"invitation", job[u].i>> \in held[t]
      BY <1>0, <2>3 DEF InvitationIsHeld
    <3>2. job[u].fresh
      BY <1>0, <2>1, <2>2, <2>3, <3>1, AccessAssumption DEF InvitationIsHeld
    <3> QED
      BY <1>0, <2>1, <3>1, <3>2, OneHolder DEF InvitationIsHeld
  <2>4. invited'[job[u].i] = c
    BY <2>2 DEF Written
  <2>5. job[u].fresh \/ pc[u] # "invitation" => accepted'[job[u].i] = accepted[job[u].i]
    BY <2>2, <2>3 DEF Written
  <2> QED
    BY <1>0, <1>1, <2>1, <2>2, <2>4, <2>5 DEF InvitationIsHeld
<1>9. TimelineIsHeld(u)'
  <2>1. SUFFICES ASSUME How(u) = "create", pc[u] \in {"recheck", "commit"}
                 PROVE  /\ status'[c] = "none"
                        /\ job[u].fresh => FirstOfTimeline' /\ bootstrap'[User(u)] = "live"
    BY <1>0, <1>1 DEF TimelineIsHeld
  <2>2. How(t) # "create"
    BY <2>1, Apart
  <2>3. Campaign(t) \in Campaigns /\ status[Campaign(t)] # "none"
    BY <1>0, <2>2 DEF Began
  <2>4. \A d \in Campaigns : status[d] = "none" => status'[d] = "none"
    BY <2>3 DEF Written
  <2>5. c \in Campaigns /\ status[c] = "none" /\ User(u) \in Users
        /\ (job[u].fresh => FirstOfTimeline /\ bootstrap[User(u)] = "live")
    BY <1>0, <2>1 DEF TimelineIsHeld
  <2> QED
    BY <2>2, <2>4, <2>5 DEF FirstOfTimeline, Written
<1>10. Looked(u)'
  <2>1. SUFFICES ASSUME Weakens(u), pc[u] = "commit"
                 PROVE  Retained(u)'
    BY <1>0, <1>1 DEF Looked, Weakens
  <2>2. c \in Campaigns /\ Retained(u) /\ <<"campaign", c>> \in held[u]
    BY <1>0, <2>1 DEF Looked, Began, TimelineIsHeld
  <2>3. Weakens(t) => Campaign(t) # c
    BY <1>0, <2>2, OneHolder DEF Looked
  <2>4. /\ status'[c] = "active" => status[c] = "active"
        /\ \A v \in Users, n \in Tenures :
             /\ seat[<<c, v, n>>] = "open" => seat'[<<c, v, n>>] = "open"
             /\ role[<<c, v, n>>] = "permanent" => role'[<<c, v, n>>] = "permanent"
    <3>1. status'[c] = "active" => status[c] = "active"
      BY <2>2, <2>3 DEF Written, Weakens
    <3>2. ASSUME NEW n \in Members, n[1] = c, seat[n] = "open" PROVE seat'[n] = "open"
      <4>1. n = Membership(t) /\ job[t].seat # None => job[t].seat = "open"
        BY <1>0, <2>3, <3>2, NoMembership DEF Weakens, Began, Jobs
      <4> QED
        BY <3>2, <4>1 DEF Written
    <3>3. ASSUME NEW n \in Members, n[1] = c, role[n] = "permanent" PROVE role'[n] = "permanent"
      <4>1. n = Membership(t) => ~(job[t].role # None)
        <5>1. SUFFICES ASSUME n = Membership(t), job[t].role # None PROVE FALSE
          OBVIOUS
        <5>2. Campaign(t) = c
          BY <1>0, <3>3, <5>1, NoMembership DEF Began
        <5>3. job[t].role \in {"permanent", "expiring"} /\ job[t].status # "active"
          BY <1>0, <2>3, <5>1, <5>2 DEF Weakens, Jobs
        <5>4. How(t) = "assign"
          BY <1>0, <5>3 DEF Writes, TimelineIsHeld, Began, StepsOf
        <5> QED
          BY <1>0, <3>3, <5>1, <5>4 DEF GrantIsNew
      <4> QED
        BY <3>3, <4>1 DEF Written
    <3> QED
      BY <2>2, <3>1, <3>2, <3>3, MemberParts
  <2>5. ASSUME Status(u)' = "active" PROVE Managed(Seats(u)', Roles(u)', c)
    <3>1. Status(u) = "active"
      BY <1>1, <2>4, <2>5 DEF Status
    <3>2. PICK v \in Users, n \in Tenures :
            Seats(u)[<<c, v, n>>] = "open" /\ Roles(u)[<<c, v, n>>] = "permanent"
      BY <2>2, <3>1 DEF Retained, Managed
    <3>3. <<c, v, n>> \in Members
      BY <2>2, MemberParts
    <3>4. Seats(u)'[<<c, v, n>>] = "open" /\ Roles(u)'[<<c, v, n>>] = "permanent"
      BY <1>0, <1>1, <2>4, <3>2, <3>3 DEF Seats, Roles, TypeOK
    <3> QED
      BY <3>4 DEF Managed
  <2> QED
    BY <1>1, <2>5 DEF Retained
<1> QED
  BY <1>1, <1>4, <1>5, <1>6, <1>7, <1>8, <1>9, <1>10 DEF TxInv
\* A commit keeps the tables as they have to be.
LEMMA CommitTables ==
  ASSUME IInv, NEW t \in Txs, Known(t), pc[t] = "commit", Written(t)
  PROVE  /\ DbInv' /\ ManagerRemains' /\ OneOpenMembership'
         /\ InvitationAdmitsOne' /\ TimelineClaimedOnce'
<1> DEFINE m == Membership(t)
           c == Campaign(t)
<1>0. /\ TypeOK /\ DbInv /\ job[t] \in Jobs
      /\ ManagerRemains /\ OneOpenMembership /\ InvitationAdmitsOne /\ TimelineClaimedOnce
      /\ Began(t) /\ Writes(t) /\ Looked(t) /\ GrantIsNew(t) /\ PlaceIsHeld(t)
      /\ InvitationIsHeld(t) /\ TimelineIsHeld(t)
  BY DEF Known, IInv
<1>1. c \in Campaigns /\ status'[c] # "none"
      /\ \A d \in Campaigns : d # c => status'[d] = status[d]
  <2>1. c \in Campaigns
    BY <1>0 DEF Began, TimelineIsHeld
  <2>2. How(t) # "create" => status[c] # "none"
    BY <1>0 DEF Began
  <2>3. job[t].status = None => How(t) # "create"
    BY <1>0, AccessAssumption DEF TimelineIsHeld
  <2> QED
    BY <1>0, <2>1, <2>2, <2>3 DEF Written, Jobs
<1>2. /\ job[t].seat # None \/ job[t].role # None => m \in Members /\ m[1] = c
      /\ job[t].seat \in {"open", "ended", None}
      /\ job[t].role \in {"none", "permanent", "expiring", None}
      /\ job[t].status \in {"active", "archived", None}
  BY <1>0, NoMembership DEF Began, Jobs, Membership
<1>3. DbInv'
  <2>1. ASSUME NEW n \in Members, status'[n[1]] = "none" PROVE seat'[n] = "none"
    <3>1. n[1] # c /\ status[n[1]] = "none"
      BY <1>1, <2>1, MemberParts
    <3>2. seat[n] = "none"
      BY <1>0, <3>1 DEF DbInv
    <3>3. n = m => job[t].seat = None
      BY <1>2, <3>1
    <3> QED
      BY <3>2, <3>3, AccessAssumption DEF Written
  <2>2. \A n \in Members : granted'[n] = 0 => role'[n] = "none"
    BY <1>0, <1>2, AccessAssumption DEF DbInv, Written, TypeOK
  <2>3. \A i \in Invitations : invited'[i] # None => status'[invited'[i]] # "none"
    BY <1>0, <1>1 DEF DbInv, Written, TypeOK
  <2>4. \A i \in Invitations : accepted'[i] = None => admitted'[i] = {}
    <3>1. How(t) = "accept" => User(t) \in Users /\ (~job[t].fresh => accepted[job[t].i] = User(t))
      BY <1>0 DEF InvitationIsHeld, Began
    <3> QED
      BY <1>0, <3>1, AccessAssumption DEF DbInv, Written
  <2>5. \A d \in Campaigns : claim'[d] # None => status'[d] # "none"
    BY <1>0, <1>1 DEF DbInv, Written
  <2>6. ASSUME NEW n \in Members, seat'[n] = "none" PROVE granted'[n] = 0
    <3>1. seat[n] = "none" /\ (n = m => job[t].seat = None)
      BY <1>0, <1>2, <2>6 DEF Written
    <3>2. n = m => job[t].role \notin {"permanent", "expiring"}
      BY <1>0, <3>1, AccessAssumption DEF Writes, TimelineIsHeld
    <3> QED
      BY <1>0, <3>1, <3>2 DEF Written, DbInv
  <2> QED
    BY <2>1, <2>2, <2>3, <2>4, <2>5, <2>6 DEF DbInv
<1>4. ManagerRemains'
  <2>1. SUFFICES ASSUME NEW d \in Campaigns, status'[d] = "active"
                 PROVE  Managed(seat', role', d)
    BY DEF ManagerRemains
  <2>2. CASE Weakens(t) /\ d = c
    <3>1. Retained(t) /\ Status(t) = "active"
      BY <1>0, <1>1, <2>1, <2>2 DEF Looked, Written, Status
    <3>2. PICK v \in Users, n \in Tenures :
            Seats(t)[<<d, v, n>>] = "open" /\ Roles(t)[<<d, v, n>>] = "permanent"
      BY <2>2, <3>1 DEF Retained, Managed
    <3>3. <<d, v, n>> \in Members
      BY MemberParts
    <3>4. seat'[<<d, v, n>>] = "open" /\ role'[<<d, v, n>>] = "permanent"
      BY <1>0, <3>2, <3>3 DEF Seats, Roles, Written, TypeOK
    <3> QED
      BY <3>4 DEF Managed
  <2>3. CASE ~Weakens(t) \/ d # c
    <3>1. status[d] = "active"
      BY <1>1, <1>2, <2>1, <2>3 DEF Written, Weakens
    <3>2. PICK v \in Users, n \in Tenures :
            seat[<<d, v, n>>] = "open" /\ role[<<d, v, n>>] = "permanent"
      BY <1>0, <3>1 DEF ManagerRemains, Managed
    <3>3. <<d, v, n>> \in Members /\ <<d, v, n>>[1] = d
      BY MemberParts
    <3>4. seat'[<<d, v, n>>] = "open"
      BY <1>2, <2>3, <3>2, <3>3 DEF Weakens, Written
    <3>5. role'[<<d, v, n>>] = "permanent"
      <4>1. <<d, v, n>> = m => job[t].role = None
        <5>1. SUFFICES ASSUME <<d, v, n>> = m, job[t].role # None PROVE FALSE
          OBVIOUS
        <5>2. d = c /\ job[t].role \in {"permanent", "expiring"} /\ job[t].status # "active"
          BY <1>2, <2>3, <3>3, <5>1 DEF Weakens
        <5>3. How(t) = "assign"
          BY <1>0, <5>2 DEF Writes, TimelineIsHeld
        <5> QED
          BY <1>0, <3>2, <5>1, <5>3 DEF GrantIsNew
      <4> QED
        BY <3>2, <3>3, <4>1 DEF Written
    <3> QED
      BY <3>4, <3>5 DEF Managed
  <2> QED
    BY <2>2, <2>3
<1>5. OneOpenMembership'
  <2>1. SUFFICES ASSUME NEW d \in Campaigns, NEW v \in Users, NEW n \in Tenures, NEW k \in Tenures,
                        seat'[<<d, v, n>>] = "open", seat'[<<d, v, k>>] = "open", n # k
                 PROVE  FALSE
    BY DEF OneOpenMembership
  <2>2. /\ <<d, v, n>> \in Members /\ <<d, v, k>> \in Members /\ <<d, v, n>> # <<d, v, k>>
        /\ <<d, v, n>>[1] = d /\ <<d, v, n>>[2] = v /\ <<d, v, k>>[1] = d /\ <<d, v, k>>[2] = v
    BY <2>1, MemberParts
  <2>3. seat[<<d, v, n>>] # "open" \/ seat[<<d, v, k>>] # "open"
    BY <1>0, <2>1 DEF OneOpenMembership
  <2>4. job[t].seat = "open" /\ (m = <<d, v, n>> \/ m = <<d, v, k>>)
    BY <1>2, <2>1, <2>2, <2>3 DEF Written
  <2>5. d = c /\ v = User(t)
    BY <1>0, <1>2, <2>2, <2>4, NoMembership DEF Began, Writes, TimelineIsHeld, Membership
  <2>6. seat[<<d, v, n>>] # "open" /\ seat[<<d, v, k>>] # "open"
    BY <1>0, <2>4, <2>5 DEF PlaceIsHeld, OpenTo
  <2> QED
    BY <2>1, <2>2, <2>4, <2>6 DEF Written
<1>6. InvitationAdmitsOne'
  <2>1. ASSUME NEW i \in Invitations PROVE admitted'[i] \subseteq {accepted'[i]}
    <3>1. CASE How(t) = "accept" /\ i = job[t].i
      <4>1. admitted'[i] = admitted[i] \cup {User(t)}
        BY <3>1 DEF Written
      <4>2. CASE job[t].fresh
        <5>1. accepted[i] = None /\ accepted'[i] = User(t)
          BY <1>0, <3>1, <4>2 DEF InvitationIsHeld, Written
        <5>2. admitted[i] = {}
          BY <1>0, <5>1 DEF DbInv
        <5> QED
          BY <4>1, <5>1, <5>2
      <4>3. CASE ~job[t].fresh
        <5>1. accepted[i] = User(t) /\ accepted'[i] = User(t)
          BY <1>0, <3>1, <4>3 DEF InvitationIsHeld, Written
        <5> QED
          BY <1>0, <4>1, <5>1 DEF InvitationAdmitsOne
      <4> QED
        BY <4>2, <4>3
    <3>2. CASE ~(How(t) = "accept" /\ i = job[t].i)
      BY <1>0, <3>2 DEF Written, InvitationAdmitsOne
    <3> QED
      BY <3>1, <3>2
  <2> QED
    BY <2>1 DEF InvitationAdmitsOne
<1>7. TimelineClaimedOnce'
  <2>1. CASE How(t) = "create" /\ job[t].fresh
    <3>1. FirstOfTimeline /\ User(t) \in Users
      BY <1>0, <2>1 DEF TimelineIsHeld
    <3>2. \A d \in Campaigns : claim[d] = None
      BY <1>0, <3>1 DEF FirstOfTimeline, DbInv
    <3>3. \A d \in Campaigns : claim'[d] = IF d = c THEN User(t) ELSE None
      BY <2>1, <3>2 DEF Written
    <3>4. \A u \in Users : bootstrap'[u] = "consumed" => u = User(t)
      BY <1>0, <2>1, <3>2 DEF Written, TimelineClaimedOnce
    <3> QED
      BY <1>1, <3>1, <3>3, <3>4, AccessAssumption DEF TimelineClaimedOnce
  <2>2. CASE ~(How(t) = "create" /\ job[t].fresh)
    <3>1. /\ \A d \in Campaigns : claim'[d] = claim[d]
          /\ \A u \in Users : bootstrap'[u] = bootstrap[u]
      BY <2>2 DEF Written
    <3> QED
      BY <1>0, <3>1 DEF TimelineClaimedOnce
  <2> QED
    BY <2>1, <2>2
<1> QED
  BY <1>3, <1>4, <1>5, <1>6, <1>7

LEMMA CommitStep ==
  ASSUME IInv, NEW t \in Txs, Commit(t), UNCHANGED requests
  PROVE  IInv'
<1>1. pc[t] = "commit" /\ Finish(t, "commit") /\ TypeOK /\ Exclusive
  BY DEF Commit, Finish, Goto, IInv
<1>2. Known(t)
  BY <1>1, RunningTx
<1>3. Written(t) /\ TypeOK'
  BY <1>1, <1>2, CommitWrites, CommitTypes
<1>4. /\ \A u \in Txs : u # t => pc'[u] = pc[u] /\ job'[u] = job[u] /\ held'[u] = held[u]
      /\ pc'[t] = "idle" /\ held'[t] = {}
  BY <1>1, FinishLocks
<1>5. ASSUME NEW u \in Txs PROVE TxInv(u)'
  <2>1. CASE u = t
    BY <1>4, <2>1 DEF TxInv
  <2>2. CASE u # t /\ pc[u] = "idle"
    <3>1. held[u] = {}
      BY <2>2 DEF IInv, TxInv
    <3> QED
      BY <1>4, <2>2, <3>1 DEF TxInv
  <2>3. CASE u # t /\ pc[u] # "idle"
    BY <1>1, <1>2, <1>3, <1>4, <2>3, RunningTx, CommitOthers
  <2> QED
    BY <2>1, <2>2, <2>3
<1>6. Exclusive'
  BY <1>1, <1>4 DEF Exclusive
<1>7. DbInv' /\ ManagerRemains' /\ OneOpenMembership' /\ InvitationAdmitsOne' /\ TimelineClaimedOnce'
  BY <1>1, <1>2, <1>3, CommitTables
<1> QED
  BY <1>3, <1>5, <1>6, <1>7 DEF IInv
\* What happens outside the transactions: an invitation is made or withdrawn, a
\* grant runs out, an administrator grants the bootstrap.
Outside ==
  /\ UNCHANGED <<held, pc, job, requests>>
  /\ UNCHANGED <<seat, granted, status, claim, accepted, admitted>>
  /\ \A m \in Members : role'[m] = role[m] \/ (role[m] = "expiring" /\ role'[m] = "lapsed")
  /\ \A i \in Invitations :
       invited'[i] = invited[i] \/ (invited[i] = None /\ status[invited'[i]] # "none")
  /\ \A v \in Users : bootstrap'[v] = bootstrap[v] \/ (bootstrap[v] = "none" /\ bootstrap'[v] = "live")

LEMMA OutsideOthers ==
  ASSUME TypeOK, TypeOK', NEW u \in Txs, TxInv(u), Outside
  PROVE  TxInv(u)'
<1>0. /\ UNCHANGED <<held, pc, job, seat, granted, status, claim, accepted, admitted>>
      /\ How(u)' = How(u) /\ Membership(u)' = Membership(u) /\ Campaign(u)' = Campaign(u)
      /\ User(u)' = User(u) /\ Status(u)' = Status(u)
  BY DEF Outside, How, Membership, Campaign, User, Status
<1>1. CASE pc[u] = "idle"
  BY <1>0, <1>1 DEF TxInv
<1>2. CASE pc[u] # "idle"
  <2>1. Began(u) /\ Writes(u) /\ Looked(u) /\ GrantIsNew(u) /\ PlaceIsHeld(u)
        /\ InvitationIsHeld(u) /\ TimelineIsHeld(u)
    BY <1>2 DEF TxInv
  <2>2. Began(u)' /\ Writes(u)' /\ PlaceIsHeld(u)'
    BY <1>0, <2>1 DEF Began, Writes, PlaceIsHeld, OpenTo
  <2>3. ASSUME pc[u] = "commit", Retained(u) PROVE Retained(u)'
    <3>1. Campaign(u) \in Campaigns
      BY <2>1, <2>3 DEF Began, TimelineIsHeld
    <3>2. ASSUME Status(u) = "active" PROVE Managed(Seats(u)', Roles(u)', Campaign(u))
      <4>1. PICK v \in Users, n \in Tenures :
              Seats(u)[<<Campaign(u), v, n>>] = "open" /\ Roles(u)[<<Campaign(u), v, n>>] = "permanent"
        BY <2>3, <3>2 DEF Retained, Managed
      <4>2. <<Campaign(u), v, n>> \in Members
        BY <3>1, MemberParts
      <4>3. Seats(u)'[<<Campaign(u), v, n>>] = "open"
        BY <1>0, <4>1 DEF Seats
      <4>4. Roles(u)'[<<Campaign(u), v, n>>] = "permanent"
        BY <1>0, <4>1, <4>2 DEF Roles, TypeOK, Outside
      <4> QED
        BY <4>3, <4>4 DEF Managed
    <3> QED
      BY <1>0, <3>2 DEF Retained
  <2>4. Looked(u)'
    BY <1>0, <2>1, <2>3 DEF Looked, Weakens
  <2>5. GrantIsNew(u)'
    BY <1>0, <2>1, NoMembership DEF GrantIsNew, Outside, Writes, Began, Membership
  <2>6. InvitationIsHeld(u)'
    BY <1>0, <2>1, AccessAssumption DEF InvitationIsHeld, Outside, Began
  <2>7. TimelineIsHeld(u)'
    BY <1>0, <2>1 DEF TimelineIsHeld, Outside, FirstOfTimeline
  <2> QED
    BY <1>0, <1>2, <2>2, <2>4, <2>5, <2>6, <2>7 DEF TxInv
<1> QED
  BY <1>1, <1>2

LEMMA OutsideStep ==
  ASSUME IInv, TypeOK', Outside
  PROVE  IInv'
<1>0. TypeOK /\ DbInv /\ UNCHANGED <<held, seat, granted, status, claim, accepted, admitted>>
  BY DEF IInv, Outside
<1>1. \A u \in Txs : TxInv(u)'
  BY <1>0, OutsideOthers DEF IInv
<1>2. Exclusive'
  BY <1>0 DEF IInv, Exclusive
<1>3. DbInv'
  <2>1. \A m \in Members : granted'[m] = 0 => role'[m] = "none"
    BY <1>0 DEF DbInv, Outside
  <2>2. \A i \in Invitations : invited'[i] # None => status'[invited'[i]] # "none"
    BY <1>0 DEF DbInv, Outside
  <2> QED
    BY <1>0, <2>1, <2>2 DEF DbInv
<1>4. ManagerRemains'
  <2>1. \A c \in Campaigns : Managed(seat, role, c) => Managed(seat', role', c)
    <3>1. ASSUME NEW c \in Campaigns, NEW v \in Users, NEW n \in Tenures,
                 seat[<<c, v, n>>] = "open", role[<<c, v, n>>] = "permanent"
          PROVE  seat'[<<c, v, n>>] = "open" /\ role'[<<c, v, n>>] = "permanent"
      BY <1>0, <3>1, MemberParts DEF Outside
    <3> QED
      BY <3>1 DEF Managed
  <2> QED
    BY <1>0, <2>1 DEF IInv, ManagerRemains
<1>5. OneOpenMembership' /\ InvitationAdmitsOne'
  BY <1>0 DEF IInv, OneOpenMembership, InvitationAdmitsOne
<1>6. TimelineClaimedOnce'
  <2>1. \A u \in Users : bootstrap'[u] = "consumed" => bootstrap[u] = "consumed"
    BY DEF Outside
  <2> QED
    BY <1>0, <2>1 DEF IInv, TimelineClaimedOnce
<1> QED
  BY <1>1, <1>2, <1>3, <1>4, <1>5, <1>6 DEF IInv

LEMMA OutsideSteps ==
  ASSUME IInv,
         \/ \E i \in Invitations : Withdraw(i) \/ \E c \in Campaigns : Invite(i, c)
         \/ \E m \in Members : Lapse(m)
         \/ \E u \in Users : GrantBootstrap(u)
  PROVE  IInv'
<1>0. TypeOK /\ DbInv
  BY DEF IInv
<1>1. ASSUME NEW i \in Invitations, Withdraw(i) PROVE IInv'
  <2>1. TypeOK' /\ Outside
    BY <1>0, <1>1 DEF Withdraw, membership, TypeOK, Outside
  <2> QED
    BY <2>1, OutsideStep
<1>2. ASSUME NEW i \in Invitations, NEW c \in Campaigns, Invite(i, c) PROVE IInv'
  <2>1. status[c] # "none"
    BY <1>0, <1>2, ManagedExists DEF Invite
  <2>2. TypeOK' /\ Outside
    BY <1>0, <1>2, <2>1 DEF Invite, membership, TypeOK, Outside
  <2> QED
    BY <2>2, OutsideStep
<1>3. ASSUME NEW m \in Members, Lapse(m) PROVE IInv'
  <2>1. TypeOK' /\ Outside
    BY <1>0, <1>3 DEF Lapse, invitation, TypeOK, Outside
  <2> QED
    BY <2>1, OutsideStep
<1>4. ASSUME NEW u \in Users, GrantBootstrap(u) PROVE IInv'
  <2>1. TypeOK' /\ Outside
    BY <1>0, <1>4 DEF GrantBootstrap, membership, invitation, TypeOK, Outside
  <2> QED
    BY <2>1, OutsideStep
<1> QED
  BY <1>1, <1>2, <1>3, <1>4

\* Every step of the system preserves the inductive invariant.
LEMMA NextStep == IInv /\ [Next]_vars => IInv'
<1> SUFFICES ASSUME IInv, [Next]_vars PROVE IInv'
  OBVIOUS
<1>1. CASE UNCHANGED vars
  <2>1. UNCHANGED Rows /\ UNCHANGED <<held, pc, job, requests>>
    BY <1>1, RowsOfDb DEF vars
  <2>2. \A t \in Txs : TxInv(t)'
    BY <2>1, Frame DEF IInv
  <2>3. TypeOK' /\ DbInv' /\ Exclusive'
    BY <2>1 DEF IInv, TypeOK, DbInv, Exclusive, Rows
  <2>4. ManagerRemains' /\ OneOpenMembership' /\ InvitationAdmitsOne' /\ TimelineClaimedOnce'
    BY <2>1 DEF IInv, ManagerRemains, Managed, OneOpenMembership, InvitationAdmitsOne,
                TimelineClaimedOnce, Rows
  <2> QED
    BY <2>2, <2>3, <2>4 DEF IInv
<1>2. ASSUME NEW t \in Txs, Ask(t) PROVE IInv'
  <2>1. "permanent" \in {"permanent", "expiring"}
    OBVIOUS
  <2> QED
    BY <1>2, <2>1, AskMembership, AskOther DEF Ask
<1>3. ASSUME NEW t \in Txs, Proceed(t) PROVE IInv'
  BY <1>3, AssertStep, CheckSteps, CommitStep, RevokeStep, AssignStep, EndStep, StatusStep,
     FindStep, ChooseStep, RowStep, OpenStep, TimelineStep, CreateStep DEF Proceed
<1> QED
  BY <1>1, <1>2, <1>3, OutsideSteps DEF Next

\* The inductive invariant holds in every reachable state.
THEOREM AccessInvariant == Spec => []IInv
BY InitIInv, NextStep, PTL DEF Spec

\* Every variable keeps its type.
THEOREM TypeCorrect == Spec => []TypeOK
<1>1. IInv => TypeOK
  BY DEF IInv
<1> QED
  BY <1>1, AccessInvariant, PTL

\* However revocations, closed memberships and activations meet, an active
\* campaign has a manager: it is the second look, under the campaign's lock,
\* that ensures it.
THEOREM ManagerStays == Spec => []ManagerRemains
<1>1. IInv => ManagerRemains
  BY DEF IInv
<1> QED
  BY <1>1, AccessInvariant, PTL

\* No two open memberships of a user in a campaign, for any number of
\* acceptances and additions at once.
THEOREM OneMembership == Spec => []OneOpenMembership
<1>1. IInv => OneOpenMembership
  BY DEF IInv
<1> QED
  BY <1>1, AccessInvariant, PTL

\* Nobody but the user who accepted it is told that an invitation let them in.
THEOREM InvitationOnce == Spec => []InvitationAdmitsOne
<1>1. IInv => InvitationAdmitsOne
  BY DEF IInv
<1> QED
  BY <1>1, AccessInvariant, PTL

\* One campaign at most claims the timeline, with the grant that is consumed.
THEOREM TimelineOnce == Spec => []TimelineClaimedOnce
<1>1. IInv => TimelineClaimedOnce
  BY DEF IInv
<1> QED
  BY <1>1, AccessInvariant, PTL

\* Memberships are written by commits only.
LEMMA SeatsKept ==
  ASSUME IInv, [Next]_vars, ~\E t \in Txs : Commit(t)
  PROVE  UNCHANGED seat
<1>1. CASE UNCHANGED vars
  BY <1>1 DEF vars, db, membership
<1>2. ASSUME NEW t \in Txs, Ask(t) PROVE UNCHANGED seat
  <2>1. ASSUME NEW to, NEW q, Begin(t, to, q) PROVE UNCHANGED seat
    BY <2>1 DEF Begin, db, membership
  <2> QED
    BY <1>2, <2>1 DEF Ask, AskRevoke, AskEnd, AskAssign, AskJoin, AskStatus, AskAccept, AskCreate
<1>3. ASSUME NEW t \in Txs, Proceed(t) PROVE UNCHANGED seat
  <2>1. UNCHANGED db
    BY <1>3 DEF Proceed, BeginAssert, Recheck, RevokeRole, CheckManager, AssignRole,
                EndMembership, SetStatus, FindInvitation, ReplayAcceptance, ChooseMembership,
                LockMembership, OpenMembership, BeginCreate, CreateCampaign, Check, Abort
  <2> QED
    BY <2>1 DEF db, membership
<1>4. ASSUME NEW i \in Invitations, Withdraw(i) \/ \E c \in Campaigns : Invite(i, c)
      PROVE  UNCHANGED seat
  BY <1>4 DEF Withdraw, Invite, membership
<1>5. ASSUME NEW m \in Members, Lapse(m) PROVE UNCHANGED seat
  BY <1>5 DEF Lapse
<1>6. ASSUME NEW u \in Users, GrantBootstrap(u) PROVE UNCHANGED seat
  BY <1>6 DEF GrantBootstrap, membership
<1> QED
  BY <1>1, <1>2, <1>3, <1>4, <1>5, <1>6 DEF Next

\* The commit that lets a user into a campaign again is that of an acceptance
\* with an unused invitation, or adds a membership that has never had a role.
LEMMA ReturnCommit ==
  ASSUME IInv, NEW t \in Txs, Commit(t), NEW c \in Campaigns, NEW u \in Users,
         Used(c, u) # {}, ~OpenTo(u, c), OpenTo(u, c)'
  PROVE  \/ \E i \in Invitations :
              invited[i] = c /\ accepted[i] = None /\ accepted'[i] = u
         \/ \A n \in Tenures :
              seat'[<<c, u, n>>] = "open" => n \notin Used(c, u) /\ role'[<<c, u, n>>] = "none"
<1>1. /\ pc[t] = "commit"
      /\ \A n \in Tenures : <<c, u, n>> \in Members
      /\ \A n \in Tenures : <<c, u, n>>[1] = c /\ <<c, u, n>>[2] = u
  BY MemberParts DEF Commit, Finish, Goto
<1>2. Known(t) /\ Written(t)
  BY <1>1, RunningTx, CommitWrites
<1>3. \A n \in Tenures : seat'[<<c, u, n>>] = "open" =>
        <<c, u, n>> = Membership(t) /\ job[t].seat = "open"
  BY <1>1, <1>2 DEF Written, OpenTo
<1>4. PICK n \in Tenures : <<c, u, n>> = Membership(t) /\ job[t].seat = "open"
  BY <1>3 DEF OpenTo
<1> DEFINE m == <<c, u, n>>
<1>5. m \in Members /\ m[1] = c /\ m[2] = u /\ m = Membership(t)
  BY <1>1, <1>4
<1>6. How(t) \in {"join", "accept", "create"} /\ m # None
  BY <1>2, <1>4, <1>5, NoMembership DEF Known, Writes
<1>7. Campaign(t) = c
  BY <1>2, <1>5, <1>6 DEF Known, Began, Membership
<1>8. How(t) # "create"
  <2>1. status[c] = "none" => Used(c, u) = {}
    BY <1>1, <1>2 DEF Known, DbInv, Used
  <2> QED
    BY <1>1, <1>2, <1>7, <2>1 DEF Known, TimelineIsHeld
<1>9. CASE How(t) = "accept"
  <2>1. User(t) = u
    BY <1>2, <1>5, <1>6, <1>9 DEF Known, Began, Membership
  <2>2. /\ job[t].i \in Invitations /\ invited[job[t].i] = c /\ job[t].fresh
        /\ accepted[job[t].i] = None
    BY <1>2, <1>4, <1>7, <1>9, AccessAssumption DEF Known, InvitationIsHeld
  <2>3. accepted'[job[t].i] = u
    BY <1>2, <1>9, <2>1, <2>2 DEF Written
  <2> QED
    BY <2>2, <2>3
<1>10. CASE How(t) = "join"
  <2>1. seat[m] = "none"
    BY <1>2, <1>4, <1>5, <1>10 DEF Known, PlaceIsHeld
  <2>2. role[m] = "none"
    BY <1>2, <1>5, <2>1 DEF Known, DbInv
  <2>3. job[t].role = None
    BY <1>2, <1>10 DEF Known, Writes, Jobs
  <2>4. role'[m] = "none" /\ n \notin Used(c, u)
    BY <1>2, <1>5, <2>1, <2>2, <2>3 DEF Written, Used
  <2>5. ASSUME NEW k \in Tenures, seat'[<<c, u, k>>] = "open"
        PROVE  k \notin Used(c, u) /\ role'[<<c, u, k>>] = "none"
    <3>1. <<c, u, k>> = <<c, u, n>>
      BY <1>3, <1>4, <2>5
    <3>2. k = n
      BY <3>1
    <3> QED
      BY <2>4, <3>2
  <2> QED
    BY <2>5
<1> QED
  BY <1>6, <1>8, <1>9, <1>10

\* Whoever has left a campaign gets what they had only by an invitation that
\* nobody has used; who is let in otherwise begins without a role.
THEOREM ReturnInvited == Spec => ReturnNeedsInvitation
<1>1. ASSUME IInv, [Next]_vars, NEW c \in Campaigns, NEW u \in Users,
             Used(c, u) # {}, ~OpenTo(u, c), OpenTo(u, c)'
      PROVE  \/ \E i \in Invitations :
                  invited[i] = c /\ accepted[i] = None /\ accepted'[i] = u
             \/ \A n \in Tenures :
                  seat'[<<c, u, n>>] = "open" => n \notin Used(c, u) /\ role'[<<c, u, n>>] = "none"
  <2>1. \E t \in Txs : Commit(t)
    BY <1>1, SeatsKept DEF OpenTo
  <2> QED
    BY <1>1, <2>1, ReturnCommit
<1>2. IInv /\ [Next]_vars =>
        \A c \in Campaigns, u \in Users :
          Used(c, u) # {} /\ ~OpenTo(u, c) /\ OpenTo(u, c)' =>
            \/ \E i \in Invitations :
                 invited[i] = c /\ accepted[i] = None /\ accepted'[i] = u
            \/ \A n \in Tenures :
                 seat'[<<c, u, n>>] = "open" => n \notin Used(c, u) /\ role'[<<c, u, n>>] = "none"
  BY <1>1
<1> QED
  BY <1>2, AccessInvariant, PTL DEF Spec, ReturnNeedsInvitation
=============================================================================
