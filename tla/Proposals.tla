------------------------------ MODULE Proposals ------------------------------
(***************************************************************************)
(* Quest objectives, knowledge and the AI's proposals to change them, in   *)
(* one timeline (src/dnd_ai/commands/quests.py, knowledge.py, ai_npc.py,   *)
(* ai_proposals.py and _maybe_discover_target of interactions.py).         *)
(*                                                                         *)
(* An NPC's turn reads what the NPC may reveal or advance in one           *)
(* transaction, asks the provider outside any, and records the answer as a *)
(* proposal in another.  A low-risk proposal is applied there and then;    *)
(* the others wait for a review, and by then the party may have left, the  *)
(* NPC may have left the quest, and people may have advanced the objective *)
(* or revealed the item themselves.                                        *)
(*                                                                         *)
(* Transactions run at READ COMMITTED.  What a transaction wrote shows at  *)
(* its commit; a row lock and an uncommitted INSERT of a unique key make   *)
(* the others wait.  An INSERT locks the rows that its foreign keys refer  *)
(* to FOR KEY SHARE, which waits for FOR UPDATE and makes it wait: a       *)
(* discovery refers to its item, an event to the campaign.  The others     *)
(* refer to rows that nobody here locks, or only the transaction itself;   *)
(* what else a check locks is in Interactions.                             *)
(***************************************************************************)
EXTENDS Naturals, Sequences

CONSTANTS
  Txs,         \* transactions, or turns, that may be under way at the same time
  Objectives,
  Items,       \* knowledge items about the NPC
  Public,      \* those whose disclosure needs no approval
  Proposals,
  None

ASSUME ProposalsAssumption ==
  /\ Public \subseteq Items
  /\ Objectives \cap Items = {} /\ Proposals \cap (Objectives \cup Items) = {}
  /\ {"party", "participant", "campaign"} \cap (Proposals \cup Objectives \cup Items) = {}
  /\ None \notin Txs \cup Proposals

Scopes == {"party", "campaign"}  \* whose perspective on an objective
Decided == {"completed", "failed"}

VARIABLES
  objective,     \* objective_state, "none" when there is no row
  history,       \* the event effects on it, oldest first
  logged,        \* party_discoveries
  known,         \* party_knowledge
  logEvents,     \* events that entered an item in the log
  knowEvents,    \* events that made an item known
  member,        \* whether the party belongs to the campaign
  participates,  \* whether the NPC participates in the quest
  status, proposed, reviews,  \* of a proposal
  lock,          \* the transaction that holds a row
  pc, job,
  context        \* what the NPC of a turn was told it may change

story == <<objective, history, logged, known, logEvents, knowEvents>>
people == <<member, participates>>
decisions == <<status, proposed, reviews>>
db == <<story, people, decisions>>
vars == <<db, lock, pc, job, context>>

Changes ==
  [what : Objectives, scope : Scopes, to : Decided]
    \cup [what : Items, scope : {"party"}, to : {"known"}]
Rows == Proposals \cup Objectives \cup Items \cup {"party", "participant", "campaign"}
Jobs ==
  [how : {"direct", "discover", "turn", "approve", "reject"},
   change : Changes \cup {None}, proposal : Proposals \cup {None}]
Steps == {"idle", "provider", "proposal", "validate", "party", "objective",
          "participant", "advance", "item", "read", "log", "share", "commit"}

TypeOK ==
  /\ objective \in [Objectives \X Scopes -> {"none", "active"} \cup Decided]
  /\ history \in [Objectives \X Scopes ->
       Seq([from : {"none", "active"} \cup Decided, to : Decided, by : Proposals \cup {None}])]
  /\ logged \subseteq Items /\ known \subseteq Items
  /\ logEvents \in [Items -> Nat] /\ knowEvents \in [Items -> Nat]
  /\ member \in BOOLEAN /\ participates \in BOOLEAN
  /\ status \in [Proposals -> {"none", "asked", "pending", "applied", "rejected"}]
  /\ proposed \in [Proposals -> Changes \cup {None}]
  /\ reviews \in [Proposals -> Nat]
  /\ lock \in [Rows -> Txs \cup {None}]
  /\ pc \in [Txs -> Steps]
  /\ job \in [Txs -> Jobs \cup {None}]
  /\ context \in [Txs -> SUBSET (Objectives \cup Items)]

\* An objective that is under way in the campaign and that the party has no row
\* of its own for.
Init ==
  /\ objective = [o \in Objectives \X Scopes |-> IF o[2] = "party" THEN "none" ELSE "active"]
  /\ history = [o \in Objectives \X Scopes |-> <<>>]
  /\ logged = {} /\ known = {}
  /\ logEvents = [k \in Items |-> 0] /\ knowEvents = [k \in Items |-> 0]
  /\ member = TRUE /\ participates = TRUE
  /\ status = [p \in Proposals |-> "none"]
  /\ proposed = [p \in Proposals |-> None]
  /\ reviews = [p \in Proposals |-> 0]
  /\ lock = [r \in Rows |-> None]
  /\ pc = [t \in Txs |-> "idle"]
  /\ job = [t \in Txs |-> None]
  /\ context = [t \in Txs |-> {}]
-----------------------------------------------------------------------------
How(t) == job[t].how
Proposal(t) == job[t].proposal
Change(t) == job[t].change
What(t) == Change(t).what
Place(t) == <<What(t), Change(t).scope>>

\* The party's own state of an objective counts, and the campaign's without it.
Open(o) ==
  LET mine == objective[<<o, "party">>]
  IN (IF mine = "none" THEN objective[<<o, "campaign">>] ELSE mine) \notin Decided

Applies(t) ==
  \/ How(t) \in {"direct", "discover", "approve"}
  \/ How(t) = "turn" /\ What(t) \in Public

\* What a transaction does to the log and the knowledge of the party.
Logs(t, k) == Applies(t) /\ What(t) = k /\ (How(t) = "discover" \/ k \notin known)

OpenTxs == {t \in Txs : pc[t] # "idle"}

\* The row that the next statement of t locks.
Wanted(t) ==
  {r \in Rows :
     \/ pc[t] = "proposal" /\ r = Proposal(t)
     \/ pc[t] \in {"party", "participant"} /\ r = pc[t]
     \/ pc[t] \in {"objective", "item"} /\ r = What(t)}

\* The row that the statement refers to: the event that precedes a change
\* belongs to the campaign.
Referred(t) ==
  {r \in Rows :
     \/ pc[t] \in {"advance", "log"} /\ r = "campaign"
     \/ pc[t] = "share" /\ r = What(t)}

\* Who discovers an item has inserted its key, and then locks it FOR KEY SHARE.
HasLogged(t, k) == pc[t] \in {"share", "commit"} /\ Logs(t, k)
SharesItem(t, k) == pc[t] = "commit" /\ How(t) = "discover" /\ What(t) = k

\* The transactions that the statement waits for: the holders of the row that it
\* locks or refers to, or of the unique key that it inserts.
WaitsFor(t) ==
  {u \in Txs :
     \/ \E r \in Wanted(t) \cup Referred(t) : lock[r] = u
     \/ pc[t] = "item" /\ SharesItem(u, What(t))
     \/ pc[t] = "log" /\ HasLogged(u, What(t))}

Goto(t, from, to) ==
  /\ pc[t] = from
  /\ pc' = [pc EXCEPT ![t] = to]

Take(t) ==
  /\ WaitsFor(t) = {}
  /\ lock' = [r \in Rows |-> IF r \in Wanted(t) THEN t ELSE lock[r]]

Start(t, to, how, change, proposal) ==
  /\ Goto(t, "idle", to)
  /\ job' = [job EXCEPT ![t] = [how |-> how, change |-> change, proposal |-> proposal]]
  /\ UNCHANGED lock

End(t) ==
  /\ pc' = [pc EXCEPT ![t] = "idle"]
  /\ job' = [job EXCEPT ![t] = None]
  /\ context' = [context EXCEPT ![t] = {}]
  /\ lock' = [r \in Rows |-> IF lock[r] = t THEN None ELSE lock[r]]
-----------------------------------------------------------------------------
\* The calls.

\* Somebody advances an objective or reveals an item.
CallDirectly(t, c) ==
  /\ Start(t, "validate", "direct", c, None)
  /\ UNCHANGED <<db, context>>

\* A successful check on the subject of an item.
CallDiscover(t, k) ==
  /\ Start(t, "read", "discover", [what |-> k, scope |-> "party", to |-> "known"], None)
  /\ UNCHANGED <<db, context>>

\* The first transaction of an NPC's turn records what the NPC may change.
AskProvider(t, p) ==
  /\ status[p] = "none"
  /\ Start(t, "provider", "turn", None, p)
  /\ status' = [status EXCEPT ![p] = "asked"]
  /\ context' = [context EXCEPT ![t] =
       (Items \ known) \cup IF participates THEN {o \in Objectives : Open(o)} ELSE {}]
  /\ UNCHANGED <<story, people, proposed, reviews>>

CallReview(t, p, decision) ==
  /\ status[p] \in {"pending", "applied", "rejected"}
  /\ Start(t, "proposal", decision, None, p)
  /\ UNCHANGED <<db, context>>

\* An administrator takes the party out of the campaign.
PartyLeaves ==
  /\ member /\ lock["party"] = None
  /\ member' = FALSE
  /\ UNCHANGED <<story, participates, decisions, lock, pc, job, context>>

NpcLeaves ==
  /\ participates /\ lock["participant"] = None
  /\ participates' = FALSE
  /\ UNCHANGED <<story, member, decisions, lock, pc, job, context>>
-----------------------------------------------------------------------------
\* The steps of a transaction.

\* The answer is checked against the context that was sent.  A change that
\* needs no approval is applied at once.
Answer(t, c) ==
  /\ c.what \in context[t] /\ c.scope = "party"
  /\ Goto(t, "provider", IF c.what \in Public THEN "validate" ELSE "commit")
  /\ job' = [job EXCEPT ![t].change = c]
  /\ context' = [context EXCEPT ![t] = {}]
  /\ UNCHANGED <<db, lock>>

\* No usable answer: the exchange is recorded, nothing is proposed.
AnswerNothing(t) ==
  /\ pc[t] = "provider"
  /\ End(t)
  /\ UNCHANGED db

LockProposal(t) ==
  LET c == proposed[Proposal(t)]
  IN /\ pc[t] = "proposal"
     /\ Take(t)
     /\ status[Proposal(t)] = "pending"
     /\ Goto(t, "proposal", IF How(t) = "reject" THEN "commit"
                            ELSE IF c.what \in Items THEN "validate" ELSE "party")
     /\ job' = [job EXCEPT ![t].change = c]
     /\ UNCHANGED <<db, context>>

\* The party is looked up without a lock.
Validate(t) ==
  /\ pc[t] = "validate"
  /\ Change(t).scope = "party" => member
  /\ pc' = [pc EXCEPT ![t] = IF What(t) \in Items THEN "item" ELSE "objective"]
  /\ UNCHANGED <<db, lock, job, context>>

\* Mutant of LockParty: it locks the row of the campaign, too.
LockPartyAndCampaign(t) ==
  /\ Goto(t, "party", "objective")
  /\ WaitsFor(t) = {}
  /\ lock' = [lock EXCEPT !["party"] = t, !["campaign"] = t]
  /\ member
  /\ UNCHANGED <<db, job, context>>

\* An approved advance locks everything it depends on: the party, ...
LockParty(t) ==
  /\ Goto(t, "party", "objective")
  /\ Take(t)
  /\ member
  /\ UNCHANGED <<db, job, context>>

\* Mutant of LockObjective: no FOR UPDATE.
ReadObjective(t) ==
  /\ Goto(t, "objective", IF How(t) = "approve" THEN "participant" ELSE "advance")
  /\ UNCHANGED <<db, lock, job, context>>

\* ... the objective, which every advance locks, ...
LockObjective(t) ==
  /\ Goto(t, "objective", IF How(t) = "approve" THEN "participant" ELSE "advance")
  /\ Take(t)
  /\ UNCHANGED <<db, job, context>>

\* Mutant of LockParticipant: no FOR UPDATE.
ReadParticipant(t) ==
  /\ Goto(t, "participant", "advance")
  /\ participates /\ Open(What(t))
  /\ UNCHANGED <<db, lock, job, context>>

\* ... and the participation of the NPC, before it looks whether the objective
\* is still open.
LockParticipant(t) ==
  /\ Goto(t, "participant", "advance")
  /\ Take(t)
  /\ participates /\ Open(What(t))
  /\ UNCHANGED <<db, job, context>>

\* The state row is locked and read; a decided objective stays as it is.
Advance(t) ==
  /\ Goto(t, "advance", "commit")
  /\ objective[Place(t)] \notin Decided
  /\ WaitsFor(t) = {}
  /\ UNCHANGED <<db, lock, job, context>>

LockItem(t) ==
  /\ Goto(t, "item", IF What(t) \in known THEN "commit" ELSE "log")
  /\ Take(t)
  /\ UNCHANGED <<db, job, context>>

\* Nothing is locked when a check looks for the discovery.
ReadLog(t) ==
  /\ Goto(t, "read", "log")
  /\ What(t) \notin logged
  /\ UNCHANGED <<db, lock, job, context>>

\* Mutant of InsertLog: ON CONFLICT DO NOTHING, with the event kept.
UpsertLog(t) ==
  /\ Goto(t, "log", IF How(t) = "discover" THEN "share" ELSE "commit")
  /\ UNCHANGED <<db, lock, job, context>>

\* The key is unique from here on; a reveal has locked the item before.
InsertLog(t) ==
  /\ Goto(t, "log", IF How(t) = "discover" THEN "share" ELSE "commit")
  /\ What(t) \notin logged
  /\ WaitsFor(t) = {}
  /\ UNCHANGED <<db, lock, job, context>>

\* The foreign key of the discovery.
ReferToItem(t) ==
  /\ Goto(t, "share", "commit")
  /\ WaitsFor(t) = {}
  /\ UNCHANGED <<db, lock, job, context>>

\* ux_party_discoveries_party fails the whole request.
DiscoverConflicts(t) ==
  /\ pc[t] = "log" /\ How(t) = "discover"
  /\ What(t) \in logged
  /\ End(t)
  /\ UNCHANGED db

RevealConflicts(t) ==
  /\ pc[t] = "log" /\ How(t) # "discover"
  /\ What(t) \in logged
  /\ End(t)
  /\ UNCHANGED db

\* The request is answered with an error, or has nothing to do.
Refuse(t) ==
  /\ WaitsFor(t) = {}
  /\ \/ pc[t] = "proposal" /\ status[Proposal(t)] # "pending"
     \/ pc[t] = "validate" /\ Change(t).scope = "party" /\ ~member
     \/ pc[t] = "party" /\ ~member
     \/ pc[t] = "participant" /\ ~(participates /\ Open(What(t)))
     \/ pc[t] = "advance" /\ objective[Place(t)] \in Decided
     \/ pc[t] = "read" /\ What(t) \in logged
  /\ End(t)
  /\ UNCHANGED db

CommitStory(t) ==
  /\ IF Applies(t) /\ What(t) \in Objectives
     THEN /\ objective' = [objective EXCEPT ![Place(t)] = Change(t).to]
          /\ history' = [history EXCEPT ![Place(t)] = Append(@,
               [from |-> objective[Place(t)], to |-> Change(t).to, by |-> Proposal(t)])]
     ELSE UNCHANGED <<objective, history>>
  /\ IF What(t) \in Items /\ Logs(t, What(t))
     THEN /\ logged' = logged \cup {What(t)}
          /\ logEvents' = [logEvents EXCEPT ![What(t)] = @ + 1]
     ELSE UNCHANGED <<logged, logEvents>>
  /\ IF What(t) \in Items /\ Logs(t, What(t)) /\ How(t) # "discover"
     THEN /\ known' = known \cup {What(t)}
          /\ knowEvents' = [knowEvents EXCEPT ![What(t)] = @ + 1]
     ELSE UNCHANGED <<known, knowEvents>>

Verdict(decision) == IF decision = "approve" THEN "applied" ELSE "rejected"

CommitDecision(t) ==
  \/ /\ How(t) = "turn"
     /\ status' = [status EXCEPT ![Proposal(t)] =
          IF What(t) \in Public THEN "applied" ELSE "pending"]
     /\ proposed' = [proposed EXCEPT ![Proposal(t)] = Change(t)]
     /\ UNCHANGED reviews
  \/ /\ How(t) \in {"approve", "reject"}
     /\ status' = [status EXCEPT ![Proposal(t)] = Verdict(How(t))]
     /\ reviews' = [reviews EXCEPT ![Proposal(t)] = @ + 1]
     /\ UNCHANGED proposed
  \/ /\ How(t) \in {"direct", "discover"}
     /\ UNCHANGED decisions

Commit(t) ==
  /\ pc[t] = "commit"
  /\ CommitStory(t)
  /\ CommitDecision(t)
  /\ End(t)
  /\ UNCHANGED people

\* A statement fails, the connection breaks, or the turn is given up.
Rollback(t) ==
  /\ pc[t] # "idle"
  /\ End(t)
  /\ UNCHANGED db

Progress(t) ==
  \/ AnswerNothing(t)
  \/ LockProposal(t) \/ LockParty(t) \/ LockObjective(t) \/ LockParticipant(t) \/ LockItem(t)
  \/ Validate(t) \/ Advance(t)
  \/ ReadLog(t) \/ InsertLog(t) \/ ReferToItem(t) \/ DiscoverConflicts(t) \/ RevealConflicts(t)
  \/ Refuse(t)
  \/ Commit(t)

Next ==
  \/ \E t \in Txs, c \in Changes : CallDirectly(t, c) \/ (pc[t] = "provider" /\ Answer(t, c))
  \/ \E t \in Txs, k \in Items : CallDiscover(t, k)
  \/ \E t \in Txs, p \in Proposals :
       AskProvider(t, p) \/ CallReview(t, p, "approve") \/ CallReview(t, p, "reject")
  \/ PartyLeaves \/ NpcLeaves
  \/ \E t \in Txs : Progress(t) \/ Rollback(t)

Spec == Init /\ [][Next]_vars
-----------------------------------------------------------------------------
\* From each perspective an objective is decided at most once, by one event,
\* whoever tries at the same time.
DecidedOnce ==
  \A o \in Objectives, s \in Scopes :
    \/ history[<<o, s>>] = <<>> /\ objective[<<o, s>>] \notin Decided
    \/ /\ Len(history[<<o, s>>]) = 1
       /\ history[<<o, s>>][1].from \notin Decided
       /\ history[<<o, s>>][1].to = objective[<<o, s>>]

\* An item is entered in the log once and made known once, and the party knows
\* nothing that its log of discoveries lacks: the two tables are written by
\* commands that do not lock each other out.
KnownOnce ==
  \A k \in Items :
    /\ logEvents[k] = IF k \in logged THEN 1 ELSE 0
    /\ knowEvents[k] = IF k \in known THEN 1 ELSE 0
    /\ k \in known => k \in logged

\* A proposal is applied exactly when its change was made, in its name, and the
\* change still stands; it is decided by one review, or by none if it needs no
\* approval.
AppliedIsTrue ==
  \A p \in Proposals :
    LET c == proposed[p]
        made == {o \in Objectives :
                   \E n \in DOMAIN history[<<o, "party">>] : history[<<o, "party">>][n].by = p}
    IN /\ status[p] = "applied" =>
            IF c.what \in Items THEN c.what \in known
            ELSE made = {c.what} /\ objective[<<c.what, "party">>] = c.to
       /\ status[p] # "applied" => made = {}
       /\ reviews[p] = IF \/ status[p] = "rejected"
                          \/ status[p] = "applied" /\ c.what \notin Public
                       THEN 1 ELSE 0

\* When a review applies an advance, the party belongs to the campaign, the NPC
\* participates in the quest and the objective is open at that very moment, not
\* only when the NPC was asked or the review looked.
AppliedWhileEligible ==
  [][\A p \in Proposals :
       status[p] = "pending" /\ status'[p] = "applied" /\ proposed[p].what \in Objectives =>
         member /\ participates /\ Open(proposed[p].what)]_vars

\* A check has inserted the discovery of an item and now refers to the item,
\* which a reveal has locked; the reveal waits for that discovery.
WaitForEachOther(t, u) ==
  /\ pc[t] = "share" /\ pc[u] = "log"
  /\ What(t) = What(u) /\ lock[What(t)] = u

\* Any open transactions that wait for each other in a circle have a discovery
\* and a reveal of that kind among them.  Commands and reviews take their rows
\* in the order proposal, party, objective, participant, and none of them locks
\* a row that the events of the others refer to.
DeadlockNeedsDiscovery ==
  \A S \in (SUBSET OpenTxs) \ {{}} :
    \/ \E t \in S : WaitsFor(t) \subseteq OpenTxs \ S
    \/ \E t, u \in S : WaitForEachOther(t, u)
-----------------------------------------------------------------------------
(* The inductive invariant that the proofs rest on. *)

StepsOf ==
  [direct |-> {"validate", "objective", "advance", "item", "log", "commit"},
   discover |-> {"read", "log", "share", "commit"},
   turn |-> {"provider", "validate", "item", "log", "commit"},
   approve |-> {"proposal", "validate", "item", "log", "party", "objective", "participant",
                "advance", "commit"},
   reject |-> {"proposal", "commit"}]

Began(t) ==
  /\ job[t] \in Jobs /\ How(t) \in DOMAIN StepsOf /\ pc[t] \in StepsOf[How(t)]
  /\ IF How(t) \in {"direct", "discover"} THEN Proposal(t) = None ELSE Proposal(t) \in Proposals
  /\ pc[t] \notin {"provider", "proposal"} => Change(t) \in Changes
  /\ pc[t] \in {"item", "log", "read"} \/ How(t) = "discover" => What(t) \in Items
  /\ pc[t] \in {"party", "objective", "participant", "advance"} => What(t) \in Objectives
  /\ How(t) = "approve" /\ pc[t] = "validate" => What(t) \in Items
  /\ How(t) = "turn" /\ pc[t] # "provider" => Change(t).scope = "party"
  /\ How(t) = "turn" /\ pc[t] \in {"validate", "item", "log"} => What(t) \in Public

\* What a turn or a review knows of its proposal.
ProposalIsHeld(t) ==
  /\ How(t) = "turn" => status[Proposal(t)] = "asked"
  /\ How(t) \in {"approve", "reject"} /\ pc[t] # "proposal" =>
       /\ lock[Proposal(t)] = t /\ status[Proposal(t)] = "pending"
       /\ Change(t) = proposed[Proposal(t)]

\* What an advance knows of the objective, the party and the NPC ...
ObjectiveIsHeld(t) ==
  /\ pc[t] \in {"objective", "participant", "advance", "commit"}
  /\ Applies(t) /\ What(t) \in Objectives
  =>
    /\ pc[t] # "objective" => lock[What(t)] = t
    /\ pc[t] = "commit" => objective[Place(t)] \notin Decided
    /\ How(t) = "approve" => lock["party"] = t /\ member
    /\ How(t) = "approve" /\ pc[t] \in {"advance", "commit"} =>
         lock["participant"] = t /\ participates /\ Open(What(t))

\* ... and a reveal or a discovery of the item.
ItemIsHeld(t) ==
  /\ pc[t] \in {"log", "commit"} /\ Applies(t) /\ What(t) \in Items /\ How(t) # "discover" =>
       /\ lock[What(t)] = t
       /\ pc[t] = "log" => What(t) \notin known
  /\ \A k \in Items : HasLogged(t, k) => k \notin logged

TxInv(t) ==
  IF pc[t] = "idle" THEN \A r \in Rows : lock[r] # t
  ELSE Began(t) /\ ProposalIsHeld(t) /\ ObjectiveIsHeld(t) /\ ItemIsHeld(t)

\* No two turns are about one proposal, and no two of them enter one item.
Apart ==
  \A t, u \in Txs :
    t # u =>
      /\ pc[t] # "idle" /\ pc[u] # "idle" /\ How(t) = "turn" /\ How(u) = "turn" =>
           Proposal(t) # Proposal(u)
      /\ \A k \in Items : ~(HasLogged(t, k) /\ HasLogged(u, k))

ProposedIsKnown ==
  \A p \in Proposals :
    /\ status[p] \notin {"none", "asked"} => proposed[p] \in Changes /\ proposed[p].scope = "party"
    /\ status[p] = "pending" => proposed[p].what \notin Public

IInv ==
  /\ TypeOK /\ Apart /\ ProposedIsKnown
  /\ \A t \in Txs : TxInv(t)
  /\ DecidedOnce /\ KnownOnce /\ AppliedIsTrue

\* Where a transaction may be once it has locked a row; nobody locks the
\* campaign, and a check locks none of these rows.
StepsAfter(r) ==
  CASE r \in Proposals -> Steps \ {"idle", "provider", "proposal", "read", "share"}
    [] r = "party" -> {"objective", "participant", "advance", "commit"}
    [] r \in Objectives -> {"participant", "advance", "commit"}
    [] r = "participant" -> {"advance", "commit"}
    [] r \in Items -> {"log", "commit"}
    [] r = "campaign" -> {}

LocksFit ==
  \A r \in Rows, t \in Txs : lock[r] = t => pc[t] \in StepsAfter(r) /\ How(t) # "discover"
=============================================================================
