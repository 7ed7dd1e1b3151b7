--------------------------- MODULE Proposals_proofs ---------------------------
(* An objective is decided once, an item is made known once, and a proposal   *)
(* is applied once and only while it may be, for any number of objectives,    *)
(* items, proposals, turns, reviews and commands.                             *)
EXTENDS Proposals, SequenceTheorems, TLAPS

USE ProposalsAssumption

LEMMA NothingInEmpty == \A n : n \notin DOMAIN <<>>
<1>1. <<>> \in Seq({}) /\ Len(<<>>) = 0
  BY EmptySeq
<1>2. DOMAIN <<>> = 1 .. Len(<<>>)
  BY <1>1, LenProperties
<1> QED
  BY <1>1, <1>2

LEMMA InitIInv == Init => IInv
<1> SUFFICES ASSUME Init PROVE IInv
  OBVIOUS
<1>1. TypeOK
  BY DEF Init, TypeOK, Steps, Scopes, Decided
<1>2. Apart /\ ProposedIsKnown
  BY DEF Init, Apart, ProposedIsKnown, HasLogged
<1>3. \A t \in Txs : TxInv(t)
  BY DEF Init, TxInv
<1>4. DecidedOnce
  BY DEF Init, DecidedOnce, Scopes, Decided
<1>5. KnownOnce
  BY DEF Init, KnownOnce
<1>6. AppliedIsTrue
  <2>1. \A o \in Objectives : <<o, "party">> \in Objectives \X Scopes
    BY DEF Scopes
  <2>2. \A o \in Objectives : history[<<o, "party">>] = <<>>
    BY <2>1 DEF Init
  <2>3. \A o \in Objectives : \A n : n \notin DOMAIN history[<<o, "party">>]
    BY <2>2, NothingInEmpty
  <2> QED
    BY <2>3 DEF Init, AppliedIsTrue
<1> QED
  BY <1>1, <1>2, <1>3, <1>4, <1>5, <1>6 DEF IInv

\* A transaction that does nothing is where it was, with the locks it had.
Keeps(u) ==
  /\ pc'[u] = pc[u] /\ job'[u] = job[u]
  /\ \A r \in Rows : lock'[r] = u <=> lock[r] = u

\* What may happen to the tables without a commit: a turn takes up a proposal,
\* the party leaves or the NPC does, when nobody has locked that.
Quiet ==
  /\ UNCHANGED story /\ UNCHANGED <<proposed, reviews>>
  /\ \A p \in Proposals : status'[p] = status[p] \/ (status[p] = "none" /\ status'[p] = "asked")
  /\ member' = member \/ lock["party"] = None
  /\ participates' = participates \/ lock["participant"] = None

\* The rows of a job are rows.
LEMMA JobRows ==
  ASSUME NEW t \in Txs, Began(t)
  PROVE  /\ "party" \in Rows /\ "participant" \in Rows /\ "campaign" \in Rows
         /\ Proposal(t) \in Proposals => Proposal(t) \in Rows
         /\ pc[t] \notin {"provider", "proposal"} =>
              /\ What(t) \in Rows /\ What(t) \in Objectives \cup Items
              /\ Change(t).scope \in Scopes
              /\ What(t) \in Objectives => Place(t) \in Objectives \X Scopes /\ Change(t).to \in Decided
  BY DEF Began, Rows, Changes, What, Place, Scopes

LEMMA Same ==
  ASSUME NEW t \in Txs, Quiet, job'[t] = job[t]
  PROVE  /\ How(t)' = How(t) /\ Proposal(t)' = Proposal(t) /\ Change(t)' = Change(t)
         /\ What(t)' = What(t) /\ Place(t)' = Place(t) /\ Applies(t)' = Applies(t)
         /\ Open(What(t))' = Open(What(t))
         /\ \A k : Logs(t, k)' = Logs(t, k)
         /\ UNCHANGED <<objective, history, logged, known, logEvents, knowEvents, proposed, reviews>>
<1>1. /\ How(t)' = How(t) /\ Proposal(t)' = Proposal(t) /\ Change(t)' = Change(t)
      /\ UNCHANGED <<objective, history, logged, known, logEvents, knowEvents, proposed, reviews>>
  BY DEF How, Proposal, Change, Quiet, story
<1>2. What(t)' = What(t) /\ Place(t)' = Place(t)
  BY <1>1 DEF What, Place
<1>3. Applies(t)' = Applies(t) /\ Open(What(t))' = Open(What(t))
  BY <1>1, <1>2 DEF Applies, Open
<1>4. \A k : Logs(t, k)' = Logs(t, k)
  BY <1>1, <1>2, <1>3 DEF Logs
<1> QED
  BY <1>1, <1>2, <1>3, <1>4

LEMMA Frame ==
  ASSUME NEW u \in Txs, TypeOK, TxInv(u), Keeps(u), Quiet
  PROVE  TxInv(u)'
<1>1. CASE pc[u] = "idle"
  BY <1>1 DEF TxInv, Keeps
<1>2. CASE pc[u] # "idle"
  <2>1. /\ Began(u) /\ ProposalIsHeld(u) /\ ObjectiveIsHeld(u) /\ ItemIsHeld(u)
        /\ pc'[u] = pc[u] /\ job'[u] = job[u]
    BY <1>2 DEF TxInv, Keeps
  <2>2. Began(u)'
    BY <2>1, Same DEF Began
  <2>3. ProposalIsHeld(u)'
    <3>1. Proposal(u) \in Proposals => (lock'[Proposal(u)] = u <=> lock[Proposal(u)] = u)
      BY <2>1, JobRows DEF Keeps
    <3>2. How(u) \in {"turn", "approve", "reject"} => Proposal(u) \in Proposals
      BY <2>1 DEF Began
    <3> QED
      BY <2>1, <3>1, <3>2, Same DEF ProposalIsHeld, Quiet
  <2>4. ObjectiveIsHeld(u)'
    <3> SUFFICES ASSUME pc[u] \in {"objective", "participant", "advance", "commit"},
                        Applies(u), What(u) \in Objectives
                 PROVE  ObjectiveIsHeld(u)'
      BY <2>1, Same DEF ObjectiveIsHeld
    <3>1. /\ lock'[What(u)] = u <=> lock[What(u)] = u
          /\ lock'["party"] = u <=> lock["party"] = u
          /\ lock'["participant"] = u <=> lock["participant"] = u
      BY <2>1, JobRows DEF Keeps
    <3>2. /\ lock["party"] = u => member' = member
          /\ lock["participant"] = u => participates' = participates
      BY DEF Quiet
    <3> QED
      BY <2>1, <3>1, <3>2, Same DEF ObjectiveIsHeld
  <2>5. ItemIsHeld(u)'
    <3>1. pc[u] \in {"log", "commit"} => (lock'[What(u)] = u <=> lock[What(u)] = u)
      BY <2>1, JobRows DEF Keeps
    <3>2. \A k \in Items : HasLogged(u, k)' = HasLogged(u, k)
      BY <2>1, Same DEF HasLogged
    <3> QED
      BY <2>1, <3>1, <3>2, Same DEF ItemIsHeld
  <2> QED
    BY <1>2, <2>1, <2>2, <2>3, <2>4, <2>5 DEF TxInv
<1> QED
  BY <1>1, <1>2

\* Nothing of what is promised about the tables depends on a quiet step.
LEMMA QuietTables ==
  ASSUME IInv, Quiet
  PROVE  ProposedIsKnown' /\ DecidedOnce' /\ KnownOnce' /\ AppliedIsTrue'
<1>1. UNCHANGED <<objective, history, logged, known, logEvents, knowEvents, proposed, reviews>>
  BY DEF Quiet, story
<1>2. ProposedIsKnown'
  BY <1>1 DEF IInv, ProposedIsKnown, Quiet
<1>3. DecidedOnce'
  BY <1>1 DEF IInv, DecidedOnce
<1>4. KnownOnce'
  BY <1>1 DEF IInv, KnownOnce
<1>5. AppliedIsTrue'
  BY <1>1 DEF IInv, AppliedIsTrue, Quiet
<1> QED
  BY <1>2, <1>3, <1>4, <1>5

\* A quiet step of one transaction preserves the invariant if what the
\* transaction itself knows is right, and it is not in the way of another.
LEMMA OwnStep ==
  ASSUME IInv, TypeOK', NEW t \in Txs, \A u \in Txs : u # t => Keeps(u), Quiet, TxInv(t)',
         pc'[t] # "idle" /\ How(t)' = "turn" =>
           \A u \in Txs : u # t /\ pc[u] # "idle" /\ How(u) = "turn" => Proposal(u) # Proposal(t)',
         pc'[t] \in {"share", "commit"} =>
           \A u \in Txs : u # t => \A k \in Items : ~(Logs(t, k)' /\ HasLogged(u, k))
  PROVE  IInv'
<1>1. \A u \in Txs : TxInv(u)'
  BY Frame DEF IInv
<1>2. \A u \in Txs : u # t => /\ pc'[u] = pc[u] /\ How(u)' = How(u) /\ Proposal(u)' = Proposal(u)
                              /\ \A k \in Items : HasLogged(u, k)' = HasLogged(u, k)
  BY Same DEF Keeps, HasLogged
<1>3. \A u \in Txs : u # t => \A k \in Items : ~(HasLogged(t, k)' /\ HasLogged(u, k))
  BY DEF HasLogged
<1>4. Apart'
  BY <1>2, <1>3 DEF IInv, Apart
<1> QED
  BY <1>1, <1>4, QuietTables DEF IInv

\* The types of what the transactions have under way, and of the tables.
TxTypes ==
  /\ lock \in [Rows -> Txs \cup {None}] /\ pc \in [Txs -> Steps]
  /\ job \in [Txs -> Jobs \cup {None}] /\ context \in [Txs -> SUBSET (Objectives \cup Items)]

LEMMA TypesOfWork ==
  /\ TypeOK => TxTypes
  /\ TypeOK /\ UNCHANGED db /\ TxTypes' => TypeOK'
  BY DEF TypeOK, TxTypes, db, story, people, decisions

LEMMA UnchangedIsQuiet == UNCHANGED db => Quiet
  BY DEF db, people, decisions, Quiet

LEMMA EndStep ==
  ASSUME IInv, NEW t \in Txs, End(t)
  PROVE  /\ TxTypes' /\ \A u \in Txs : u # t => Keeps(u)
         /\ pc'[t] = "idle" /\ \A r \in Rows : lock'[r] # t
<1>1. TxTypes
  BY TypesOfWork DEF IInv
<1> QED
  BY <1>1 DEF End, TxTypes, Keeps, Steps

LEMMA AbortStep ==
  ASSUME IInv, NEW t \in Txs, End(t), UNCHANGED db
  PROVE  IInv'
<1>1. TypeOK'
  BY EndStep, TypesOfWork DEF IInv
<1>2. TxInv(t)'
  BY EndStep DEF TxInv
<1> QED
  BY <1>1, <1>2, EndStep, OwnStep, UnchangedIsQuiet

\* A call begins; what it may be called with is in the job.
LEMMA CallStep ==
  ASSUME IInv, NEW t \in Txs, NEW to \in Steps \ {"idle", "commit"}, NEW how \in DOMAIN StepsOf,
         NEW c \in Changes \cup {None}, NEW p \in Proposals \cup {None}, Start(t, to, how, c, p),
         to \in StepsOf[how], Quiet, TypeOK',
         IF how \in {"direct", "discover"} THEN p = None ELSE p \in Proposals,
         to \in {"provider", "proposal"} \/ (c \in Changes /\ how \in {"direct", "discover"}),
         how = "discover" => c.what \in Items,
         to \in {"provider", "proposal", "validate"} \/ (to = "read" /\ how = "discover"),
         how # "turn" => UNCHANGED status,
         how = "turn" => status[p] = "none" /\ status'[p] = "asked" /\ to = "provider"
  PROVE  IInv'
<1>1. /\ pc[t] = "idle" /\ pc' = [pc EXCEPT ![t] = to] /\ UNCHANGED lock
      /\ job' = [job EXCEPT ![t] = [how |-> how, change |-> c, proposal |-> p]] /\ TypeOK
  BY DEF Start, Goto, IInv
<1>2. pc'[t] = to /\ job'[t] = [how |-> how, change |-> c, proposal |-> p]
      /\ \A u \in Txs : u # t => Keeps(u)
  BY <1>1 DEF TypeOK, Keeps
<1>3. /\ How(t)' = how /\ Proposal(t)' = p /\ Change(t)' = c
      /\ job'[t] \in Jobs /\ What(t)' = c.what
  BY <1>2 DEF How, Proposal, Change, What, Jobs, StepsOf
<1>4. Began(t)'
  BY <1>2, <1>3 DEF Began, StepsOf
<1>5. ProposalIsHeld(t)' /\ ObjectiveIsHeld(t)' /\ ItemIsHeld(t)'
  BY <1>2, <1>3 DEF ProposalIsHeld, ObjectiveIsHeld, ItemIsHeld, HasLogged, StepsOf
<1>6. TxInv(t)'
  BY <1>2, <1>4, <1>5 DEF TxInv
<1>7. ASSUME how = "turn", NEW u \in Txs, u # t, pc[u] # "idle", How(u) = "turn"
      PROVE  Proposal(u) # p
  BY <1>7 DEF IInv, TxInv, ProposalIsHeld
<1> QED
  BY <1>2, <1>3, <1>6, <1>7, OwnStep

LEMMA CallSteps ==
  ASSUME IInv, NEW t \in Txs,
         \/ \E c \in Changes : CallDirectly(t, c)
         \/ \E k \in Items : CallDiscover(t, k)
         \/ \E p \in Proposals :
              AskProvider(t, p) \/ CallReview(t, p, "approve") \/ CallReview(t, p, "reject")
  PROVE  IInv'
<1>0. TypeOK /\ TxTypes /\ pc[t] = "idle"
  BY TypesOfWork DEF IInv, CallDirectly, CallDiscover, AskProvider, CallReview, Start, Goto
<1>1. ASSUME NEW to \in Steps, NEW how \in DOMAIN StepsOf,
             NEW c \in Changes \cup {None}, NEW p \in Proposals \cup {None}, Start(t, to, how, c, p)
      PROVE  pc' \in [Txs -> Steps] /\ job' \in [Txs -> Jobs \cup {None}]
             /\ lock' \in [Rows -> Txs \cup {None}]
  <2>1. [how |-> how, change |-> c, proposal |-> p] \in Jobs
    BY DEF Jobs, StepsOf
  <2> QED
    BY <1>0, <1>1, <2>1 DEF Start, Goto, TxTypes
<1>2. ASSUME NEW c \in Changes, CallDirectly(t, c) PROVE IInv'
  <2>1. Start(t, "validate", "direct", c, None) /\ UNCHANGED db /\ UNCHANGED context
        /\ "validate" \in Steps \ {"idle", "commit"} /\ "direct" \in DOMAIN StepsOf
        /\ "validate" \in StepsOf["direct"]
    BY <1>2 DEF CallDirectly, Steps, StepsOf
  <2>2. TypeOK'
    BY <1>0, <1>1, <2>1, TypesOfWork DEF TxTypes
  <2>3. UNCHANGED status
    BY <2>1 DEF db, decisions
  <2> QED
    BY <2>1, <2>2, <2>3, CallStep, UnchangedIsQuiet
<1>3. ASSUME NEW k \in Items, CallDiscover(t, k) PROVE IInv'
  <2> DEFINE c == [what |-> k, scope |-> "party", to |-> "known"]
  <2>0. c \in Changes /\ c.what = k
    BY DEF Changes
  <2>1. Start(t, "read", "discover", c, None) /\ UNCHANGED db /\ UNCHANGED context
        /\ "read" \in Steps \ {"idle", "commit"} /\ "discover" \in DOMAIN StepsOf
        /\ "read" \in StepsOf["discover"]
    BY <1>3 DEF CallDiscover, Steps, StepsOf
  <2> HIDE DEF c
  <2>2. TypeOK'
    BY <1>0, <1>1, <2>0, <2>1, TypesOfWork DEF TxTypes
  <2>3. UNCHANGED status
    BY <2>1 DEF db, decisions
  <2> QED
    BY <2>0, <2>1, <2>2, <2>3, CallStep, UnchangedIsQuiet
<1>4. ASSUME NEW p \in Proposals, NEW decision \in {"approve", "reject"}, CallReview(t, p, decision)
      PROVE  IInv'
  <2>1. Start(t, "proposal", decision, None, p) /\ UNCHANGED db /\ UNCHANGED context
        /\ "proposal" \in Steps \ {"idle", "commit"} /\ decision \in DOMAIN StepsOf
        /\ "proposal" \in StepsOf[decision]
    BY <1>4 DEF CallReview, Steps, StepsOf
  <2>2. TypeOK'
    BY <1>0, <1>1, <2>1, TypesOfWork DEF TxTypes
  <2>3. UNCHANGED status
    BY <2>1 DEF db, decisions
  <2> QED
    BY <2>1, <2>2, <2>3, CallStep, UnchangedIsQuiet
<1>5. ASSUME NEW p \in Proposals, AskProvider(t, p) PROVE IInv'
  <2>1. /\ Start(t, "provider", "turn", None, p) /\ status[p] = "none"
        /\ status' = [status EXCEPT ![p] = "asked"]
        /\ context' = [context EXCEPT ![t] =
             (Items \ known) \cup IF participates THEN {o \in Objectives : Open(o)} ELSE {}]
        /\ UNCHANGED story /\ UNCHANGED <<member, participates, proposed, reviews>>
        /\ "provider" \in Steps \ {"idle", "commit"} /\ "turn" \in DOMAIN StepsOf
        /\ "provider" \in StepsOf["turn"]
    BY <1>5 DEF AskProvider, people, Steps, StepsOf
  <2>2. status' \in [Proposals -> {"none", "asked", "pending", "applied", "rejected"}]
        /\ status'[p] = "asked" /\ \A q \in Proposals : q # p => status'[q] = status[q]
    BY <1>0, <2>1 DEF TypeOK
  <2>3. context' \in [Txs -> SUBSET (Objectives \cup Items)]
    BY <1>0, <2>1 DEF TxTypes
  <2>4. pc' \in [Txs -> Steps] /\ job' \in [Txs -> Jobs \cup {None}]
        /\ lock' \in [Rows -> Txs \cup {None}]
    BY <1>1, <2>1
  <2>5. TypeOK'
    BY <1>0, <2>1, <2>2, <2>3, <2>4 DEF TypeOK, story
  <2>6. Quiet
    BY <2>1, <2>2 DEF Quiet
  <2> QED
    BY <2>1, <2>2, <2>5, <2>6, CallStep
<1> QED
  BY <1>2, <1>3, <1>4, <1>5

\* The party or the NPC leaves.
LEMMA LeaveStep ==
  ASSUME IInv, PartyLeaves \/ NpcLeaves
  PROVE  IInv'
<1>1. /\ Quiet /\ UNCHANGED status /\ UNCHANGED <<lock, pc, job, context>>
      /\ TypeOK' /\ \A u \in Txs : Keeps(u)
  BY DEF IInv, TypeOK, PartyLeaves, NpcLeaves, Quiet, story, decisions, Keeps
<1>2. \A u \in Txs : TxInv(u)'
  BY <1>1, Frame DEF IInv
<1>3. \A u \in Txs : /\ pc'[u] = pc[u] /\ How(u)' = How(u) /\ Proposal(u)' = Proposal(u)
                      /\ \A k \in Items : HasLogged(u, k)' = HasLogged(u, k)
  BY <1>1, Same DEF Keeps, HasLogged
<1>4. Apart'
  BY <1>3 DEF IInv, Apart
<1> QED
  BY <1>1, <1>2, <1>4, QuietTables DEF IInv

LEMMA Running ==
  ASSUME IInv, NEW t \in Txs, pc[t] # "idle"
  PROVE  /\ TypeOK /\ TxTypes /\ Began(t) /\ ProposalIsHeld(t) /\ ObjectiveIsHeld(t) /\ ItemIsHeld(t)
  BY TypesOfWork DEF IInv, TxInv

\* A transaction takes the one row that its next statement locks, when it is free.
Takes(t, row) ==
  /\ lock[row] = None
  /\ lock' = [lock EXCEPT ![row] = t]

LEMMA TakesRow ==
  ASSUME IInv, NEW t \in Txs, NEW row \in Rows, Wanted(t) = {row}, Take(t)
  PROVE  Takes(t, row)
<1>1. TxTypes
  BY TypesOfWork DEF IInv
<1>2. lock[row] \in Txs \cup {None} /\ \A u \in Txs : lock[row] # u
  BY <1>1 DEF TxTypes, Take, WaitsFor
<1>3. lock' = [lock EXCEPT ![row] = t]
  BY <1>1 DEF TxTypes, Take
<1> QED
  BY <1>2, <1>3 DEF Takes

LEMMA TakesWhatItWants ==
  ASSUME IInv, NEW t \in Txs, Take(t)
  PROVE  /\ pc[t] = "proposal" /\ Proposal(t) \in Rows => Takes(t, Proposal(t))
         /\ pc[t] = "party" => Takes(t, "party")
         /\ pc[t] = "participant" => Takes(t, "participant")
         /\ pc[t] \in {"objective", "item"} /\ What(t) \in Rows => Takes(t, What(t))
<1>1. {"party", "participant"} \subseteq Rows
  BY DEF Rows
<1>2. /\ pc[t] = "proposal" /\ Proposal(t) \in Rows => Wanted(t) = {Proposal(t)}
      /\ pc[t] = "party" => Wanted(t) = {"party"}
      /\ pc[t] = "participant" => Wanted(t) = {"participant"}
      /\ pc[t] \in {"objective", "item"} /\ What(t) \in Rows => Wanted(t) = {What(t)}
  BY <1>1 DEF Wanted
<1> QED
  BY <1>1, <1>2, TakesRow

\* A step of a transaction under way that may take a row.
Moves(t, to) ==
  /\ pc[t] # "idle" /\ pc' = [pc EXCEPT ![t] = to]
  /\ UNCHANGED db
  /\ UNCHANGED lock \/ \E row \in Rows : Takes(t, row)

LEMMA MoveLocks ==
  ASSUME IInv, NEW t \in Txs, NEW to \in Steps, Moves(t, to),
         \A u \in Txs : u # t => job'[u] = job[u]
  PROVE  /\ pc' \in [Txs -> Steps] /\ lock' \in [Rows -> Txs \cup {None}]
         /\ \A u \in Txs : u # t => Keeps(u)
         /\ pc'[t] = to /\ \A r \in Rows : lock[r] = t => lock'[r] = t
         /\ \A row \in Rows : Takes(t, row) => lock'[row] = t
<1>1. TxTypes
  BY TypesOfWork DEF IInv
<1>2. lock' \in [Rows -> Txs \cup {None}]
      /\ \A r \in Rows : \A u \in Txs : u # t => (lock'[r] = u <=> lock[r] = u)
  BY <1>1 DEF Moves, Takes, TxTypes
<1>3. /\ \A r \in Rows : lock[r] = t => lock'[r] = t
      /\ \A row \in Rows : Takes(t, row) => lock'[row] = t
  BY <1>1 DEF Moves, Takes, TxTypes
<1>4. pc' \in [Txs -> Steps] /\ pc'[t] = to /\ \A u \in Txs : u # t => pc'[u] = pc[u]
  BY <1>1 DEF Moves, TxTypes
<1> QED
  BY <1>2, <1>3, <1>4 DEF Keeps

\* The step keeps the job: what is new is what the row that it locked tells.
LEMMA MoveStep ==
  ASSUME IInv, NEW t \in Txs, NEW to \in Steps \ {"idle"}, Moves(t, to), UNCHANGED <<job, context>>,
         to \in StepsOf[How(t)], pc[t] \notin {"provider", "proposal"}, to \notin {"provider", "proposal", "validate"},
         to \in {"item", "log", "read"} => What(t) \in Items,
         to \in {"party", "objective", "participant", "advance"} => What(t) \in Objectives,
         How(t) = "turn" => What(t) \in Public,
         Quiet => ObjectiveIsHeld(t)' /\ ItemIsHeld(t)',
         to \in {"share", "commit"} =>
           \A u \in Txs : u # t => \A k \in Items : ~(Logs(t, k) /\ HasLogged(u, k))
  PROVE  IInv'
<1>1. UNCHANGED db /\ Quiet /\ pc[t] # "idle" /\ job'[t] = job[t]
  BY UnchangedIsQuiet DEF Moves
<1>2. TypeOK /\ TxTypes /\ Began(t) /\ ProposalIsHeld(t)
  BY <1>1, Running
<1>3. /\ pc' \in [Txs -> Steps] /\ lock' \in [Rows -> Txs \cup {None}]
      /\ \A u \in Txs : u # t => Keeps(u)
      /\ pc'[t] = to /\ \A r \in Rows : lock[r] = t => lock'[r] = t
  BY MoveLocks
<1>4. TypeOK'
  BY <1>1, <1>2, <1>3, TypesOfWork DEF TxTypes
<1>5. Began(t)'
  BY <1>1, <1>2, <1>3, Same DEF Began
<1>6. ProposalIsHeld(t)'
  <2>1. How(t) \in {"approve", "reject"} => lock'[Proposal(t)] = t
    BY <1>2, <1>3, JobRows DEF ProposalIsHeld, Began
  <2> QED
    BY <1>1, <1>2, <1>3, <2>1, Same DEF ProposalIsHeld, db, decisions
<1>7. TxInv(t)'
  BY <1>1, <1>3, <1>5, <1>6 DEF TxInv
<1>8. ASSUME How(t) = "turn", NEW u \in Txs, u # t, pc[u] # "idle", How(u) = "turn"
      PROVE  Proposal(u) # Proposal(t)
  BY <1>1, <1>8 DEF IInv, Apart
<1> QED
  BY <1>1, <1>3, <1>4, <1>7, <1>8, Same, OwnStep

\* The party is looked up.
LEMMA ValidateStep ==
  ASSUME IInv, NEW t \in Txs, Validate(t)
  PROVE  IInv'
<1> DEFINE to == IF What(t) \in Items THEN "item" ELSE "objective"
<1>1. Moves(t, to) /\ pc[t] = "validate" /\ UNCHANGED <<job, context>>
  BY DEF Validate, Moves
<1>2. Began(t) /\ TypeOK
  BY <1>1, Running
<1>3. to \in Steps \ {"idle"} /\ to \in {"item", "objective"} /\ What(t) \in Items \cup Objectives
      /\ (to = "item" <=> What(t) \in Items)
  BY <1>1, <1>2, JobRows DEF Steps
<1> HIDE DEF to
<1>4. /\ to \in StepsOf[How(t)] /\ (How(t) = "turn" => What(t) \in Public)
      /\ (How(t) = "approve" => What(t) \in Items)
      /\ pc'[t] = to
  <2>1. How(t) = "approve" => What(t) \in Items
    BY <1>1, <1>2 DEF Began
  <2>2. pc'[t] = to
    BY <1>1, <1>2, <1>3 DEF Moves, TypeOK
  <2>3. How(t) \in DOMAIN StepsOf /\ pc[t] \in StepsOf[How(t)]
        /\ (How(t) = "turn" => What(t) \in Public)
    BY <1>1, <1>2 DEF Began
  <2>4. How(t) \in {"direct", "turn", "approve"}
    BY <1>1, <2>3 DEF StepsOf
  <2>5. How(t) = "turn" => What(t) \in Items
    BY <2>3
  <2> QED
    BY <1>3, <2>1, <2>2, <2>3, <2>4, <2>5 DEF StepsOf
<1>5. Quiet => ObjectiveIsHeld(t)' /\ ItemIsHeld(t)'
  BY <1>1, <1>3, <1>4, Same DEF ObjectiveIsHeld, ItemIsHeld, HasLogged
<1> QED
  BY <1>1, <1>3, <1>4, <1>5, MoveStep

\* The rows that an advance depends on.
LEMMA PartyStep ==
  ASSUME IInv, NEW t \in Txs, LockParty(t)
  PROVE  IInv'
<1>1. Moves(t, "objective") /\ pc[t] = "party" /\ UNCHANGED <<job, context>> /\ member
      /\ Takes(t, "party") /\ "objective" \in Steps \ {"idle"} /\ "party" \in Rows
  BY TakesWhatItWants DEF LockParty, Goto, Moves, Steps, Rows
<1>2. Began(t)
  BY <1>1, Running
<1>3. /\ How(t) = "approve" /\ What(t) \in Objectives
      /\ "objective" \in StepsOf[How(t)]
  BY <1>1, <1>2 DEF Began, StepsOf
<1>4. pc'[t] = "objective" /\ lock'["party"] = t
  BY <1>1, MoveLocks
<1>5. Quiet => ObjectiveIsHeld(t)' /\ ItemIsHeld(t)'
  BY <1>1, <1>3, <1>4, Same DEF ObjectiveIsHeld, ItemIsHeld, HasLogged, Moves, db, people
<1> QED
  BY <1>1, <1>3, <1>5, MoveStep

LEMMA ObjectiveStep ==
  ASSUME IInv, NEW t \in Txs, LockObjective(t)
  PROVE  IInv'
<1> DEFINE to == IF How(t) = "approve" THEN "participant" ELSE "advance"
<1>1. /\ Moves(t, to) \/ ~(What(t) \in Rows)
      /\ pc[t] = "objective" /\ UNCHANGED <<job, context>>
      /\ (What(t) \in Rows => Takes(t, What(t))) /\ to \in Steps \ {"idle"} /\ to \in {"participant", "advance"}
  BY TakesWhatItWants DEF LockObjective, Goto, Moves, Steps
<1>2. Began(t) /\ ObjectiveIsHeld(t)
  BY <1>1, Running
<1>3. /\ How(t) \in {"direct", "approve"} /\ What(t) \in Objectives /\ What(t) \in Rows
      /\ to \in StepsOf[How(t)] /\ (to = "advance" => How(t) = "direct")
  BY <1>1, <1>2, JobRows DEF Began, StepsOf
<1> HIDE DEF to
<1>4. /\ Moves(t, to) /\ pc'[t] = to /\ lock'[What(t)] = t
      /\ \A r \in Rows : lock[r] = t => lock'[r] = t
  BY <1>1, <1>3, MoveLocks
<1>5. How(t) = "approve" => lock'["party"] = t /\ member'
  <2>1. Applies(t) /\ "party" \in Rows
    BY <1>3 DEF Applies, Rows
  <2> QED
    BY <1>1, <1>2, <1>3, <1>4, <2>1 DEF ObjectiveIsHeld, Moves, db, people
<1>6. Quiet => ObjectiveIsHeld(t)' /\ ItemIsHeld(t)'
  BY <1>1, <1>3, <1>4, <1>5, Same DEF ObjectiveIsHeld, ItemIsHeld, HasLogged
<1> QED
  BY <1>1, <1>3, <1>4, <1>6, MoveStep

LEMMA ParticipantStep ==
  ASSUME IInv, NEW t \in Txs, LockParticipant(t)
  PROVE  IInv'
<1>1. /\ Moves(t, "advance") /\ pc[t] = "participant" /\ UNCHANGED <<job, context>>
      /\ participates /\ Open(What(t)) /\ Takes(t, "participant")
      /\ "advance" \in Steps \ {"idle"} /\ {"participant", "party"} \subseteq Rows
  BY TakesWhatItWants DEF LockParticipant, Goto, Moves, Steps, Rows
<1>2. Began(t) /\ ObjectiveIsHeld(t)
  BY <1>1, Running
<1>3. /\ How(t) = "approve" /\ What(t) \in Objectives /\ What(t) \in Rows /\ Applies(t)
      /\ "advance" \in StepsOf[How(t)]
  BY <1>1, <1>2, JobRows DEF Began, StepsOf, Applies
<1>4. /\ pc'[t] = "advance" /\ lock'["participant"] = t
      /\ \A r \in Rows : lock[r] = t => lock'[r] = t
  BY <1>1, MoveLocks
<1>5. lock'[What(t)] = t /\ lock'["party"] = t /\ member' /\ participates'
  BY <1>1, <1>2, <1>3, <1>4 DEF ObjectiveIsHeld, Moves, db, people
<1>6. Quiet => ObjectiveIsHeld(t)' /\ ItemIsHeld(t)'
  BY <1>1, <1>3, <1>4, <1>5, Same DEF ObjectiveIsHeld, ItemIsHeld, HasLogged
<1> QED
  BY <1>1, <1>3, <1>6, MoveStep

LEMMA AdvanceStep ==
  ASSUME IInv, NEW t \in Txs, Advance(t)
  PROVE  IInv'
<1>1. /\ Moves(t, "commit") /\ pc[t] = "advance" /\ UNCHANGED <<job, context>> /\ UNCHANGED lock
      /\ objective[Place(t)] \notin Decided /\ "commit" \in Steps \ {"idle"}
  BY DEF Advance, Goto, Moves, Steps
<1>2. Began(t) /\ ObjectiveIsHeld(t)
  BY <1>1, Running
<1>3. /\ How(t) \in {"direct", "approve"} /\ What(t) \in Objectives /\ Applies(t)
      /\ "commit" \in StepsOf[How(t)] /\ pc'[t] = "commit"
  BY <1>1, <1>2, MoveLocks DEF Began, StepsOf, Applies
<1>4. Quiet => ObjectiveIsHeld(t)' /\ ItemIsHeld(t)'
  <2>1. \A k \in Items : Quiet => ~HasLogged(t, k)'
    BY <1>1, <1>3, Same DEF HasLogged, Logs
  <2>2. Quiet => ObjectiveIsHeld(t)'
    BY <1>1, <1>2, <1>3, Same DEF ObjectiveIsHeld, Quiet, Moves, db, people
  <2>3. Quiet => What(t)' = What(t) /\ What(t) \notin Items
    BY <1>1, <1>3, Same
  <2> QED
    BY <2>1, <2>2, <2>3 DEF ItemIsHeld
<1>5. \A k \in Items : ~Logs(t, k)
  BY <1>3 DEF Logs
<1> QED
  BY <1>1, <1>3, <1>4, <1>5, MoveStep

\* The item is locked by a reveal, and looked for without a lock by a check.
LEMMA ItemStep ==
  ASSUME IInv, NEW t \in Txs, LockItem(t)
  PROVE  IInv'
<1> DEFINE to == IF What(t) \in known THEN "commit" ELSE "log"
<1>1. /\ Moves(t, to) \/ ~(What(t) \in Rows)
      /\ pc[t] = "item" /\ UNCHANGED <<job, context>>
      /\ (What(t) \in Rows => Takes(t, What(t))) /\ to \in Steps \ {"idle"} /\ to \in {"commit", "log"}
      /\ (to = "log" <=> What(t) \notin known)
  BY TakesWhatItWants DEF LockItem, Goto, Moves, Steps
<1>2. Began(t)
  BY <1>1, Running
<1>3. /\ How(t) \in {"direct", "turn", "approve"} /\ What(t) \in Items /\ What(t) \in Rows
      /\ to \in StepsOf[How(t)] /\ (How(t) = "turn" => What(t) \in Public)
  BY <1>1, <1>2, JobRows DEF Began, StepsOf
<1> HIDE DEF to
<1>4. Moves(t, to) /\ pc'[t] = to /\ lock'[What(t)] = t
  BY <1>1, <1>3, MoveLocks
<1>5. to = "commit" => \A k \in Items : ~Logs(t, k)
  BY <1>1, <1>3 DEF Logs
<1>6. Quiet => ObjectiveIsHeld(t)' /\ ItemIsHeld(t)'
  BY <1>1, <1>3, <1>4, <1>5, Same DEF ObjectiveIsHeld, ItemIsHeld, HasLogged
<1> QED
  BY <1>1, <1>3, <1>4, <1>5, <1>6, MoveStep

LEMMA ReadLogStep ==
  ASSUME IInv, NEW t \in Txs, ReadLog(t)
  PROVE  IInv'
<1>1. /\ Moves(t, "log") /\ pc[t] = "read" /\ UNCHANGED <<job, context>>
      /\ "log" \in Steps \ {"idle"}
  BY DEF ReadLog, Goto, Moves, Steps
<1>2. Began(t)
  BY <1>1, Running
<1>3. /\ How(t) = "discover" /\ What(t) \in Items /\ "log" \in StepsOf[How(t)]
      /\ pc'[t] = "log"
  BY <1>1, <1>2, MoveLocks DEF Began, StepsOf
<1>4. Quiet => ObjectiveIsHeld(t)' /\ ItemIsHeld(t)'
  BY <1>1, <1>3, Same DEF ObjectiveIsHeld, ItemIsHeld, HasLogged
<1> QED
  BY <1>1, <1>3, <1>4, MoveStep

\* The unique index lets one entry of an item in.
LEMMA LogStep ==
  ASSUME IInv, NEW t \in Txs, InsertLog(t)
  PROVE  IInv'
<1> DEFINE to == IF How(t) = "discover" THEN "share" ELSE "commit"
<1>1. /\ Moves(t, to) /\ pc[t] = "log" /\ UNCHANGED <<job, context>> /\ UNCHANGED lock
      /\ What(t) \notin logged /\ (\A u \in Txs : ~HasLogged(u, What(t)))
      /\ to \in Steps \ {"idle"} /\ to \in {"share", "commit"}
      /\ (to = "share" <=> How(t) = "discover")
  BY DEF InsertLog, WaitsFor, Goto, Moves, Steps
<1>2. Began(t) /\ ItemIsHeld(t)
  BY <1>1, Running
<1> HIDE DEF to
<1>3. /\ How(t) \in {"direct", "discover", "turn", "approve"} /\ What(t) \in Items
      /\ to \in StepsOf[How(t)] /\ pc'[t] = to
      /\ (How(t) = "turn" => What(t) \in Public)
  BY <1>1, <1>2, MoveLocks DEF Began, StepsOf
<1>4. Quiet => ObjectiveIsHeld(t)'
  BY <1>1, <1>3, Same DEF ObjectiveIsHeld
<1>5. Quiet => ItemIsHeld(t)'
  BY <1>1, <1>2, <1>3, Same DEF ItemIsHeld, HasLogged, Logs
<1>6. \A u \in Txs : u # t => \A k \in Items : ~(Logs(t, k) /\ HasLogged(u, k))
  BY <1>1 DEF Logs
<1> QED
  BY <1>1, <1>3, <1>4, <1>5, <1>6, MoveStep

\* What a check has entered stays entered while it refers to the item.
LEMMA ReferStep ==
  ASSUME IInv, NEW t \in Txs, ReferToItem(t)
  PROVE  IInv'
<1>1. /\ Moves(t, "commit") /\ pc[t] = "share" /\ UNCHANGED <<job, context>> /\ UNCHANGED lock
      /\ "commit" \in Steps \ {"idle"}
  BY DEF ReferToItem, Goto, Moves, Steps
<1>2. Began(t) /\ ItemIsHeld(t)
  BY <1>1, Running
<1>3. /\ How(t) = "discover" /\ What(t) \in Items /\ "commit" \in StepsOf[How(t)]
      /\ pc'[t] = "commit"
  BY <1>1, <1>2, MoveLocks DEF Began, StepsOf
<1>4. What(t) \notin Objectives /\ \A k : Logs(t, k) => k = What(t)
  BY <1>3 DEF Logs
<1>5. Quiet => ObjectiveIsHeld(t)' /\ ItemIsHeld(t)'
  BY <1>1, <1>2, <1>3, <1>4, Same DEF ObjectiveIsHeld, ItemIsHeld, HasLogged
<1>6. \A u \in Txs : u # t => \A k \in Items : ~(Logs(t, k) /\ HasLogged(u, k))
  BY <1>1 DEF IInv, Apart, HasLogged
<1> QED
  BY <1>1, <1>3, <1>5, <1>6, MoveStep

\* A turn learns of the change from the answer, a review from the proposal.
LEMMA LearnStep ==
  ASSUME IInv, NEW t \in Txs, NEW to \in {"validate", "party", "commit"}, Moves(t, to),
         NEW c \in Changes, job' = [job EXCEPT ![t].change = c],
         context' \in [Txs -> SUBSET (Objectives \cup Items)],
         to \in StepsOf[How(t)], How(t) \in {"turn", "approve", "reject"},
         How(t) = "turn" => c.scope = "party" /\ (to = "validate" => c.what \in Public),
         How(t) \in {"approve", "reject"} =>
           /\ lock'[Proposal(t)] = t /\ status[Proposal(t)] = "pending" /\ c = proposed[Proposal(t)],
         How(t) = "approve" /\ to = "validate" => c.what \in Items,
         to = "party" => c.what \in Objectives,
         to = "commit" => ~(How(t) = "approve" \/ (How(t) = "turn" /\ c.what \in Public)),
         to = "party" => How(t) = "approve"
  PROVE  IInv'
<1>1. UNCHANGED db /\ Quiet /\ pc[t] # "idle" /\ to \in Steps \ {"idle"}
  BY UnchangedIsQuiet DEF Moves, Steps
<1>2. TypeOK /\ TxTypes /\ Began(t) /\ ProposalIsHeld(t)
  BY <1>1, Running
<1> DEFINE j == [job[t] EXCEPT !.change = c]
<1>3. j \in Jobs /\ j.how = job[t].how /\ j.proposal = job[t].proposal /\ j.change = c
  BY <1>2 DEF Began, Jobs
<1>4. job' = [job EXCEPT ![t] = j]
  BY <1>2 DEF TxTypes
<1> HIDE DEF j
<1>5. job' \in [Txs -> Jobs \cup {None}] /\ job'[t] = j /\ \A u \in Txs : u # t => job'[u] = job[u]
  BY <1>2, <1>3, <1>4 DEF TxTypes
<1>6. /\ pc' \in [Txs -> Steps] /\ lock' \in [Rows -> Txs \cup {None}]
      /\ \A u \in Txs : u # t => Keeps(u)
      /\ pc'[t] = to
  BY <1>1, <1>5, MoveLocks
<1>7. TypeOK'
  BY <1>1, <1>2, <1>5, <1>6, TypesOfWork DEF TxTypes
<1>8. How(t)' = How(t) /\ Proposal(t)' = Proposal(t) /\ Change(t)' = c /\ What(t)' = c.what
  BY <1>3, <1>5 DEF How, Proposal, Change, What
<1>9. Began(t)'
  BY <1>2, <1>3, <1>5, <1>6, <1>8 DEF Began
<1>10. ProposalIsHeld(t)'
  BY <1>1, <1>2, <1>6, <1>8 DEF ProposalIsHeld, db, decisions
<1>11. to = "commit" => ~Applies(t)'
  BY <1>8 DEF Applies
<1>12. ObjectiveIsHeld(t)' /\ ItemIsHeld(t)'
  BY <1>6, <1>11 DEF ObjectiveIsHeld, ItemIsHeld, HasLogged, Logs
<1>13. TxInv(t)'
  BY <1>1, <1>6, <1>9, <1>10, <1>12 DEF TxInv
<1>14. ASSUME How(t) = "turn", NEW u \in Txs, u # t, pc[u] # "idle", How(u) = "turn"
       PROVE  Proposal(u) # Proposal(t)
  BY <1>1, <1>14 DEF IInv, Apart
<1>15. to = "commit" => \A k \in Items : ~Logs(t, k)'
  BY <1>11 DEF Logs
<1> QED
  BY <1>1, <1>6, <1>7, <1>8, <1>13, <1>14, <1>15, OwnStep

LEMMA AnswerStep ==
  ASSUME IInv, NEW t \in Txs, NEW c \in Changes, Answer(t, c)
  PROVE  IInv'
<1> DEFINE to == IF c.what \in Public THEN "validate" ELSE "commit"
<1>1. /\ Moves(t, to) /\ pc[t] = "provider" /\ job' = [job EXCEPT ![t].change = c]
      /\ c.scope = "party" /\ to \in {"validate", "commit"} /\ context' = [context EXCEPT ![t] = {}]
      /\ (to = "validate" <=> c.what \in Public)
  BY DEF Answer, Goto, Moves
<1> HIDE DEF to
<1>2. Began(t) /\ TxTypes
  BY <1>1, Running
<1>3. How(t) = "turn" /\ to \in StepsOf[How(t)]
  BY <1>1, <1>2 DEF Began, StepsOf
<1>4. context' \in [Txs -> SUBSET (Objectives \cup Items)]
  BY <1>1, <1>2 DEF TxTypes
<1>5. /\ How(t) \notin {"approve", "reject"} /\ to \in {"validate", "party", "commit"} /\ to # "party"
      /\ (to = "validate" => c.what \in Public)
      /\ (to = "commit" => ~(How(t) = "turn" /\ c.what \in Public))
  BY <1>1, <1>3
<1> QED
  BY <1>1, <1>3, <1>4, <1>5, LearnStep

LEMMA ProposalStep ==
  ASSUME IInv, NEW t \in Txs, LockProposal(t)
  PROVE  IInv'
<1> DEFINE c == proposed[Proposal(t)]
           to == IF How(t) = "reject" THEN "commit" ELSE IF c.what \in Items THEN "validate" ELSE "party"
<1>1. /\ pc[t] = "proposal" /\ job' = [job EXCEPT ![t].change = c] /\ UNCHANGED context
      /\ (Proposal(t) \in Rows => Takes(t, Proposal(t))) /\ status[Proposal(t)] = "pending"
      /\ pc' = [pc EXCEPT ![t] = to] /\ UNCHANGED db
  BY TakesWhatItWants DEF LockProposal, Goto
<1>2. Began(t) /\ TxTypes
  BY <1>1, Running
<1>3. How(t) \in {"approve", "reject"} /\ Proposal(t) \in Proposals /\ Proposal(t) \in Rows
  BY <1>1, <1>2, JobRows DEF Began, StepsOf
<1>4. c \in Changes /\ c.what \in Items \cup Objectives
  BY <1>1, <1>3 DEF IInv, ProposedIsKnown, Changes
<1>5. Moves(t, to)
  BY <1>1, <1>3 DEF Moves
<1>6. /\ to \in {"validate", "party", "commit"} /\ to \in StepsOf[How(t)]
      /\ (to = "commit" <=> How(t) = "reject") /\ (to = "validate" => c.what \in Items)
      /\ (to = "party" => c.what \in Objectives)
  BY <1>3, <1>4 DEF StepsOf
<1> HIDE DEF to
<1>7. lock'[Proposal(t)] = t
  BY <1>1, <1>2, <1>3 DEF Takes, TxTypes
<1>8. context' \in [Txs -> SUBSET (Objectives \cup Items)]
  BY <1>1, <1>2 DEF TxTypes
<1> HIDE DEF c
<1> QED
  BY <1>1, <1>3, <1>4, <1>5, <1>6, <1>7, <1>8, LearnStep DEF c

\* What a commit does to the tables, row by row.
Decides(t) == Applies(t) /\ What(t) \in Objectives
LogsItem(t) == What(t) \in Items /\ Logs(t, What(t))
Tells(t) == LogsItem(t) /\ How(t) # "discover"
Decision(t) == [from |-> objective[Place(t)], to |-> Change(t).to, by |-> Proposal(t)]
Result(t) ==
  IF How(t) = "turn" THEN IF What(t) \in Public THEN "applied" ELSE "pending" ELSE Verdict(How(t))

WroteStory(t) ==
  /\ \A x \in Objectives \X Scopes :
       IF Decides(t) /\ x = Place(t)
       THEN objective'[x] = Change(t).to /\ history'[x] = Append(history[x], Decision(t))
       ELSE objective'[x] = objective[x] /\ history'[x] = history[x]
  /\ logged' = IF LogsItem(t) THEN logged \cup {What(t)} ELSE logged
  /\ \A k \in Items : logEvents'[k] = IF LogsItem(t) /\ k = What(t) THEN logEvents[k] + 1 ELSE logEvents[k]
  /\ known' = IF Tells(t) THEN known \cup {What(t)} ELSE known
  /\ \A k \in Items : knowEvents'[k] = IF Tells(t) /\ k = What(t) THEN knowEvents[k] + 1 ELSE knowEvents[k]

WroteDecision(t) ==
  \A p \in Proposals :
    /\ status'[p] = IF p = Proposal(t) THEN Result(t) ELSE status[p]
    /\ proposed'[p] = IF p = Proposal(t) /\ How(t) = "turn" THEN Change(t) ELSE proposed[p]
    /\ reviews'[p] = IF p = Proposal(t) /\ How(t) # "turn" THEN reviews[p] + 1 ELSE reviews[p]

Histories == [from : {"none", "active"} \cup Decided, to : Decided, by : Proposals \cup {None}]

LEMMA DecisionType ==
  ASSUME NEW t \in Txs, TypeOK, Began(t), pc[t] = "commit", What(t) \in Objectives
  PROVE  /\ Decision(t) \in Histories /\ Change(t).to \in Decided /\ Place(t) \in Objectives \X Scopes
         /\ Decision(t).from = objective[Place(t)] /\ Decision(t).to = Change(t).to
         /\ Decision(t).by = Proposal(t)
<1>1. Change(t).to \in Decided /\ Place(t) \in Objectives \X Scopes
  BY JobRows
<1>2. objective[Place(t)] \in {"none", "active"} \cup Decided /\ Proposal(t) \in Proposals \cup {None}
  BY <1>1 DEF TypeOK, Began
<1> QED
  BY <1>1, <1>2 DEF Decision, Histories

LEMMA StoryWrites ==
  ASSUME IInv, NEW t \in Txs, pc[t] = "commit", CommitStory(t)
  PROVE  /\ WroteStory(t)
         /\ objective' \in [Objectives \X Scopes -> {"none", "active"} \cup Decided]
         /\ history' \in [Objectives \X Scopes -> Seq(Histories)]
         /\ logged' \subseteq Items /\ known' \subseteq Items
         /\ logEvents' \in [Items -> Nat] /\ knowEvents' \in [Items -> Nat]
<1>1. Began(t) /\ TypeOK
  BY Running
<1>2. /\ objective \in [Objectives \X Scopes -> {"none", "active"} \cup Decided]
      /\ history \in [Objectives \X Scopes -> Seq(Histories)]
      /\ logged \subseteq Items /\ known \subseteq Items
      /\ logEvents \in [Items -> Nat] /\ knowEvents \in [Items -> Nat]
  BY <1>1 DEF TypeOK, Histories
<1>3. /\ objective' \in [Objectives \X Scopes -> {"none", "active"} \cup Decided]
      /\ history' \in [Objectives \X Scopes -> Seq(Histories)]
      /\ \A x \in Objectives \X Scopes :
           IF Decides(t) /\ x = Place(t)
           THEN objective'[x] = Change(t).to /\ history'[x] = Append(history[x], Decision(t))
           ELSE objective'[x] = objective[x] /\ history'[x] = history[x]
  <2>1. CASE ~Decides(t)
    <3>1. UNCHANGED <<objective, history>>
      BY <2>1 DEF CommitStory, Decides
    <3> QED
      BY <1>2, <2>1, <3>1
  <2>2. CASE Decides(t)
    <3>1. /\ objective' = [objective EXCEPT ![Place(t)] = Change(t).to]
          /\ history' = [history EXCEPT ![Place(t)] = Append(@, Decision(t))]
      BY <2>2 DEF CommitStory, Decides, Decision
    <3>2. /\ Decision(t) \in Histories /\ Change(t).to \in Decided
          /\ Place(t) \in Objectives \X Scopes
      BY <1>1, <2>2, DecisionType DEF Decides
    <3>3. objective' \in [Objectives \X Scopes -> {"none", "active"} \cup Decided]
      BY <1>2, <3>1, <3>2
    <3>4. Append(history[Place(t)], Decision(t)) \in Seq(Histories)
      BY <1>2, <3>2, AppendProperties
    <3>5. history' \in [Objectives \X Scopes -> Seq(Histories)]
      BY <1>2, <3>1, <3>2, <3>4
    <3>6. \A x \in Objectives \X Scopes :
           IF x = Place(t)
           THEN objective'[x] = Change(t).to /\ history'[x] = Append(history[x], Decision(t))
           ELSE objective'[x] = objective[x] /\ history'[x] = history[x]
      BY <1>2, <3>1
    <3> QED
      BY <2>2, <3>3, <3>5, <3>6
  <2> QED
    BY <2>1, <2>2
<1>4. /\ logged' \subseteq Items /\ logEvents' \in [Items -> Nat]
      /\ logged' = IF LogsItem(t) THEN logged \cup {What(t)} ELSE logged
      /\ \A k \in Items : logEvents'[k] = IF LogsItem(t) /\ k = What(t) THEN logEvents[k] + 1 ELSE logEvents[k]
  <2>1. CASE ~LogsItem(t)
    BY <1>2, <2>1 DEF CommitStory, LogsItem
  <2>2. CASE LogsItem(t)
    <3>1. /\ logged' = logged \cup {What(t)} /\ logEvents' = [logEvents EXCEPT ![What(t)] = @ + 1]
          /\ What(t) \in Items
      BY <2>2 DEF CommitStory, LogsItem
    <3> QED
      BY <1>2, <2>2, <3>1
  <2> QED
    BY <2>1, <2>2
<1>5. /\ known' \subseteq Items /\ knowEvents' \in [Items -> Nat]
      /\ known' = IF Tells(t) THEN known \cup {What(t)} ELSE known
      /\ \A k \in Items : knowEvents'[k] = IF Tells(t) /\ k = What(t) THEN knowEvents[k] + 1 ELSE knowEvents[k]
  <2>1. CASE ~Tells(t)
    BY <1>2, <2>1 DEF CommitStory, Tells, LogsItem
  <2>2. CASE Tells(t)
    <3>1. /\ known' = known \cup {What(t)} /\ knowEvents' = [knowEvents EXCEPT ![What(t)] = @ + 1]
          /\ What(t) \in Items
      BY <2>2 DEF CommitStory, Tells, LogsItem
    <3> QED
      BY <1>2, <2>2, <3>1
  <2> QED
    BY <2>1, <2>2
<1> QED
  BY <1>3, <1>4, <1>5 DEF WroteStory

LEMMA DecisionWrites ==
  ASSUME IInv, NEW t \in Txs, pc[t] = "commit", CommitDecision(t)
  PROVE  /\ WroteDecision(t)
         /\ status' \in [Proposals -> {"none", "asked", "pending", "applied", "rejected"}]
         /\ proposed' \in [Proposals -> Changes \cup {None}] /\ reviews' \in [Proposals -> Nat]
<1>1. /\ Began(t) /\ Change(t) \in Changes
      /\ status \in [Proposals -> {"none", "asked", "pending", "applied", "rejected"}]
      /\ proposed \in [Proposals -> Changes \cup {None}] /\ reviews \in [Proposals -> Nat]
  BY Running DEF Began, TypeOK
<1>2. CASE How(t) = "turn"
  <2>1. /\ status' = [status EXCEPT ![Proposal(t)] = Result(t)]
        /\ proposed' = [proposed EXCEPT ![Proposal(t)] = Change(t)] /\ UNCHANGED reviews
    BY <1>2 DEF CommitDecision, Result
  <2>2. Result(t) \in {"applied", "pending"} /\ Proposal(t) \in Proposals
    BY <1>1, <1>2 DEF Result, Began
  <2> QED
    BY <1>1, <1>2, <2>1, <2>2 DEF WroteDecision
<1>3. CASE How(t) \in {"approve", "reject"}
  <2>1. /\ status' = [status EXCEPT ![Proposal(t)] = Result(t)]
        /\ reviews' = [reviews EXCEPT ![Proposal(t)] = @ + 1] /\ UNCHANGED proposed
    BY <1>3 DEF CommitDecision, Result
  <2>2. Result(t) \in {"applied", "rejected"} /\ Proposal(t) \in Proposals /\ How(t) # "turn"
    BY <1>1, <1>3 DEF Result, Verdict, Began
  <2> QED
    BY <1>1, <1>3, <2>1, <2>2 DEF WroteDecision
<1>4. CASE How(t) \in {"direct", "discover"}
  <2>1. UNCHANGED <<status, proposed, reviews>> /\ Proposal(t) \notin Proposals
    BY <1>1, <1>4 DEF CommitDecision, decisions, Began
  <2> QED
    BY <1>1, <2>1 DEF WroteDecision
<1>5. How(t) \in {"direct", "discover", "turn", "approve", "reject"}
  BY <1>1 DEF Began, StepsOf
<1> QED
  BY <1>2, <1>3, <1>4, <1>5

\* The names that a job gives stay the same while the job does.
LEMMA SameJob ==
  ASSUME NEW t \in Txs, job'[t] = job[t]
  PROVE  /\ How(t)' = How(t) /\ Proposal(t)' = Proposal(t) /\ Change(t)' = Change(t)
         /\ What(t)' = What(t) /\ Place(t)' = Place(t) /\ Applies(t)' = Applies(t)
<1>1. How(t)' = How(t) /\ Proposal(t)' = Proposal(t) /\ Change(t)' = Change(t)
  BY DEF How, Proposal, Change
<1>2. What(t)' = What(t) /\ Place(t)' = Place(t)
  BY <1>1 DEF What, Place
<1>3. Applies(t)' = Applies(t)
  BY <1>1, <1>2 DEF Applies
<1> QED
  BY <1>1, <1>2, <1>3

\* What is known of a transaction that commits.
LEMMA AtCommit ==
  ASSUME IInv, NEW t \in Txs, pc[t] = "commit"
  PROVE  /\ TypeOK /\ Began(t) /\ How(t) \in {"direct", "discover", "turn", "approve", "reject"}
         /\ Change(t) \in Changes /\ What(t) \in Objectives \cup Items
         /\ Decides(t) => /\ lock[What(t)] = t /\ objective[Place(t)] \notin Decided
                          /\ Place(t) \in Objectives \X Scopes /\ Change(t).to \in Decided
                          /\ What(t) \notin Items /\ How(t) \in {"direct", "approve"}
         /\ Tells(t) => lock[What(t)] = t
         /\ LogsItem(t) => What(t) \notin logged
         /\ How(t) = "turn" => status[Proposal(t)] = "asked" /\ Proposal(t) \in Proposals
                               /\ Change(t).scope = "party"
         /\ How(t) \in {"approve", "reject"} =>
              /\ lock[Proposal(t)] = t /\ status[Proposal(t)] = "pending"
              /\ Proposal(t) \in Proposals /\ Change(t) = proposed[Proposal(t)]
         /\ How(t) \in {"direct", "discover"} => Proposal(t) = None /\ Proposal(t) \notin Proposals
<1>1. TypeOK /\ Began(t) /\ ProposalIsHeld(t) /\ ObjectiveIsHeld(t) /\ ItemIsHeld(t)
  BY Running
<1>2. /\ How(t) \in {"direct", "discover", "turn", "approve", "reject"} /\ Change(t) \in Changes
      /\ What(t) \in Objectives \cup Items
  BY <1>1, JobRows DEF Began, StepsOf
<1>3. Decides(t) => /\ lock[What(t)] = t /\ objective[Place(t)] \notin Decided
                    /\ Place(t) \in Objectives \X Scopes /\ Change(t).to \in Decided
  BY <1>1, JobRows DEF Decides, ObjectiveIsHeld
<1>4. Decides(t) => What(t) \notin Items /\ How(t) \in {"direct", "approve"}
  BY <1>1, <1>2 DEF Decides, Applies, Began
<1>5. Tells(t) => lock[What(t)] = t
  BY <1>1 DEF Tells, LogsItem, Logs, ItemIsHeld
<1>6. LogsItem(t) => What(t) \notin logged
  BY <1>1 DEF LogsItem, ItemIsHeld, HasLogged
<1>7. /\ How(t) = "turn" => status[Proposal(t)] = "asked" /\ Proposal(t) \in Proposals
                               /\ Change(t).scope = "party"
      /\ How(t) \in {"approve", "reject"} =>
              /\ lock[Proposal(t)] = t /\ status[Proposal(t)] = "pending"
              /\ Proposal(t) \in Proposals /\ Change(t) = proposed[Proposal(t)]
      /\ How(t) \in {"direct", "discover"} => Proposal(t) = None /\ Proposal(t) \notin Proposals
  BY <1>1 DEF ProposalIsHeld, Began
<1> QED
  BY <1>1, <1>2, <1>3, <1>4, <1>5, <1>6, <1>7

\* A commit takes nothing from what the other transactions rely on.
LEMMA CommitOthers ==
  ASSUME IInv, NEW t \in Txs, pc[t] = "commit", NEW u \in Txs, u # t, Keeps(u),
         WroteStory(t), WroteDecision(t), UNCHANGED people
  PROVE  TxInv(u)' /\ \A k \in Items : Logs(u, k)' => Logs(u, k)
<1>1. /\ How(u)' = How(u) /\ Proposal(u)' = Proposal(u) /\ Change(u)' = Change(u)
      /\ What(u)' = What(u) /\ Place(u)' = Place(u) /\ Applies(u)' = Applies(u)
      /\ pc'[u] = pc[u] /\ job'[u] = job[u] /\ UNCHANGED <<member, participates>>
  BY SameJob DEF Keeps, people
<1>2. \A k \in Items : Logs(u, k)' => Logs(u, k)
  BY <1>1 DEF Logs, WroteStory
<1>3. CASE pc[u] = "idle"
  BY <1>1, <1>2, <1>3 DEF IInv, TxInv, Keeps
<1>4. CASE pc[u] # "idle"
  <2>1. Began(u) /\ ProposalIsHeld(u) /\ ObjectiveIsHeld(u) /\ ItemIsHeld(u)
    BY <1>4, Running
  <2>2. Began(u)'
    BY <1>1, <2>1 DEF Began
  <2>3. ProposalIsHeld(u)'
    <3>1. ASSUME How(u) = "turn" PROVE status'[Proposal(u)] = "asked"
      <4>1. Proposal(u) \in Proposals /\ status[Proposal(u)] = "asked"
        BY <2>1, <3>1 DEF Began, ProposalIsHeld
      <4>2. Proposal(u) # Proposal(t)
        <5>1. How(t) = "turn" => Proposal(u) # Proposal(t)
          BY <1>4, <3>1 DEF IInv, Apart
        <5> QED
          BY <4>1, <5>1, AtCommit
      <4> QED
        BY <4>1, <4>2 DEF WroteDecision
    <3>2. ASSUME How(u) \in {"approve", "reject"}, pc[u] # "proposal"
          PROVE  /\ lock'[Proposal(u)] = u /\ status'[Proposal(u)] = "pending"
                 /\ proposed'[Proposal(u)] = proposed[Proposal(u)]
      <4>1. /\ Proposal(u) \in Proposals /\ Proposal(u) \in Rows /\ status[Proposal(u)] = "pending"
            /\ lock[Proposal(u)] = u
        BY <2>1, <3>2, JobRows DEF Began, ProposalIsHeld
      <4>2. Proposal(u) # Proposal(t)
        BY <4>1, AtCommit
      <4> QED
        BY <4>1, <4>2 DEF WroteDecision, Keeps
    <3> QED
      BY <1>1, <2>1, <3>1, <3>2 DEF ProposalIsHeld
  <2>4. ObjectiveIsHeld(u)'
    <3> SUFFICES ASSUME pc[u] \in {"objective", "participant", "advance", "commit"},
                        Applies(u), What(u) \in Objectives
                 PROVE  ObjectiveIsHeld(u)'
      BY <1>1 DEF ObjectiveIsHeld
    <3>1. /\ lock'[What(u)] = u <=> lock[What(u)] = u
          /\ lock'["party"] = u <=> lock["party"] = u
          /\ lock'["participant"] = u <=> lock["participant"] = u
          /\ Place(u) \in Objectives \X Scopes
      BY <2>1, JobRows DEF Keeps
    <3>2. ASSUME pc[u] # "objective"
          PROVE  objective'[Place(u)] = objective[Place(u)] /\ Open(What(u))' = Open(What(u))
      <4>1. lock[What(u)] = u
        BY <2>1, <3>2 DEF ObjectiveIsHeld
      <4>2. Decides(t) => What(t) # What(u)
        BY <4>1, AtCommit
      <4>3. \A s \in Scopes : objective'[<<What(u), s>>] = objective[<<What(u), s>>]
        BY <4>2 DEF WroteStory, Place
      <4>4. Place(u) = <<What(u), Change(u).scope>> /\ Change(u).scope \in Scopes
        BY <3>1 DEF Place
      <4>5. Open(What(u))' = Open(What(u))
        BY <1>1, <4>3 DEF Open, Scopes
      <4> QED
        BY <4>3, <4>4, <4>5
    <3> QED
      BY <1>1, <2>1, <3>1, <3>2 DEF ObjectiveIsHeld
  <2>5. ItemIsHeld(u)'
    <3>1. ASSUME pc[u] \in {"log", "commit"}, Applies(u), What(u) \in Items, How(u) # "discover"
          PROVE  lock'[What(u)] = u /\ (pc[u] = "log" => What(u) \notin known')
      <4>1. /\ lock[What(u)] = u /\ (pc[u] = "log" => What(u) \notin known) /\ What(u) \in Rows
        BY <2>1, <3>1, JobRows DEF ItemIsHeld
      <4>2. Tells(t) => What(t) # What(u)
        BY <4>1, AtCommit
      <4> QED
        BY <4>1, <4>2 DEF WroteStory, Keeps
    <3>2. ASSUME NEW k \in Items, HasLogged(u, k)'
          PROVE  k \notin logged'
      <4>1. HasLogged(u, k) /\ k \notin logged
        BY <1>1, <1>2, <2>1, <3>2 DEF HasLogged, ItemIsHeld
      <4>2. LogsItem(t) => What(t) # k
        BY <4>1 DEF IInv, Apart, LogsItem, HasLogged
      <4> QED
        BY <4>1, <4>2 DEF WroteStory
    <3> QED
      BY <1>1, <3>1, <3>2 DEF ItemIsHeld
  <2> QED
    BY <1>1, <1>2, <1>4, <2>2, <2>3, <2>4, <2>5 DEF TxInv
<1> QED
  BY <1>3, <1>4

\* An objective is decided when it has no history yet.
LEMMA FirstEntry ==
  ASSUME IInv, NEW t \in Txs, pc[t] = "commit", WroteStory(t), Decides(t)
  PROVE  /\ DOMAIN history[Place(t)] = {} /\ DOMAIN history'[Place(t)] = {1}
         /\ Len(history'[Place(t)]) = 1 /\ history'[Place(t)][1] = Decision(t)
<1>1. /\ Place(t) \in Objectives \X Scopes /\ objective[Place(t)] \notin Decided
      /\ What(t) \in Objectives /\ TypeOK /\ Began(t)
  BY AtCommit DEF Decides
<1>2. Decision(t) \in Histories
  BY <1>1, DecisionType
<1>3. history[Place(t)] = <<>>
  <2>1. Place(t) = <<What(t), Change(t).scope>> /\ Change(t).scope \in Scopes
    BY <1>1 DEF Place
  <2>2. \/ history[<<What(t), Change(t).scope>>] = <<>>
        \/ /\ Len(history[<<What(t), Change(t).scope>>]) = 1
           /\ history[<<What(t), Change(t).scope>>][1].to = objective[<<What(t), Change(t).scope>>]
    BY <1>1, <2>1 DEF IInv, DecidedOnce
  <2>3. history[Place(t)] \in Seq(Histories)
    BY <1>1 DEF TypeOK, Histories
  <2>4. Len(history[Place(t)]) = 1 => history[Place(t)][1].to \in Decided
    <3> SUFFICES ASSUME Len(history[Place(t)]) = 1 PROVE history[Place(t)][1].to \in Decided
      OBVIOUS
    <3>1. history[Place(t)][1] \in Histories
      BY <2>3
    <3> QED
      BY <3>1 DEF Histories
  <2> QED
    BY <1>1, <2>1, <2>2, <2>4
<1>4. history'[Place(t)] = Append(<<>>, Decision(t))
  BY <1>1, <1>3 DEF WroteStory
<1>5. <<>> \in Seq(Histories)
  BY EmptySeq
<1>6. /\ Append(<<>>, Decision(t)) \in Seq(Histories) /\ Len(Append(<<>>, Decision(t))) = 1
      /\ Append(<<>>, Decision(t))[1] = Decision(t)
  BY <1>2, <1>5, AppendProperties
<1>7. DOMAIN Append(<<>>, Decision(t)) = {1}
  <2>1. DOMAIN Append(<<>>, Decision(t)) = 1 .. Len(Append(<<>>, Decision(t)))
    BY <1>6, LenProperties
  <2> QED
    BY <1>6, <2>1
<1> QED
  BY <1>3, <1>4, <1>6, <1>7, NothingInEmpty

LEMMA CommitDecidesOnce ==
  ASSUME IInv, NEW t \in Txs, pc[t] = "commit", WroteStory(t)
  PROVE  DecidedOnce'
<1> SUFFICES ASSUME NEW o \in Objectives, NEW s \in Scopes
             PROVE  \/ history'[<<o, s>>] = <<>> /\ objective'[<<o, s>>] \notin Decided
                    \/ /\ Len(history'[<<o, s>>]) = 1
                       /\ history'[<<o, s>>][1].from \notin Decided
                       /\ history'[<<o, s>>][1].to = objective'[<<o, s>>]
  BY DEF DecidedOnce
<1>1. <<o, s>> \in Objectives \X Scopes
  OBVIOUS
<1>2. CASE Decides(t) /\ <<o, s>> = Place(t)
  <2>1. objective'[Place(t)] = Change(t).to
    BY <1>1, <1>2 DEF WroteStory
  <2>2. Len(history'[Place(t)]) = 1 /\ history'[Place(t)][1] = Decision(t)
    BY <1>2, FirstEntry
  <2>3. Decision(t).from \notin Decided /\ Decision(t).to = Change(t).to
    BY <1>2, AtCommit, DecisionType DEF Decides
  <2> QED
    BY <1>2, <2>1, <2>2, <2>3
<1>3. CASE ~(Decides(t) /\ <<o, s>> = Place(t))
  <2>1. objective'[<<o, s>>] = objective[<<o, s>>] /\ history'[<<o, s>>] = history[<<o, s>>]
    BY <1>1, <1>3 DEF WroteStory
  <2> QED
    BY <2>1 DEF IInv, DecidedOnce
<1> QED
  BY <1>2, <1>3

LEMMA CommitTellsOnce ==
  ASSUME IInv, NEW t \in Txs, pc[t] = "commit", WroteStory(t)
  PROVE  KnownOnce'
<1>1. /\ TypeOK /\ (LogsItem(t) => What(t) \notin logged)
  BY AtCommit
<1> SUFFICES ASSUME NEW k \in Items
             PROVE  /\ logEvents'[k] = IF k \in logged' THEN 1 ELSE 0
                    /\ knowEvents'[k] = IF k \in known' THEN 1 ELSE 0
                    /\ k \in known' => k \in logged'
  BY DEF KnownOnce
<1>2. /\ logEvents[k] = IF k \in logged THEN 1 ELSE 0
      /\ knowEvents[k] = IF k \in known THEN 1 ELSE 0
      /\ k \in known => k \in logged
  BY DEF IInv, KnownOnce
<1>3. Tells(t) => LogsItem(t)
  BY DEF Tells
<1>4. logEvents'[k] = IF k \in logged' THEN 1 ELSE 0
  BY <1>1, <1>2 DEF WroteStory
<1>5. knowEvents'[k] = IF k \in known' THEN 1 ELSE 0
  BY <1>1, <1>2, <1>3 DEF WroteStory
<1>6. k \in known' => k \in logged'
  BY <1>2, <1>3 DEF WroteStory
<1> QED
  BY <1>4, <1>5, <1>6

LEMMA CommitProposes ==
  ASSUME IInv, NEW t \in Txs, pc[t] = "commit", WroteDecision(t)
  PROVE  ProposedIsKnown'
<1> SUFFICES ASSUME NEW p \in Proposals
             PROVE  /\ status'[p] \notin {"none", "asked"} =>
                         proposed'[p] \in Changes /\ proposed'[p].scope = "party"
                    /\ status'[p] = "pending" => proposed'[p].what \notin Public
  BY DEF ProposedIsKnown
<1>1. /\ status[p] \notin {"none", "asked"} => proposed[p] \in Changes /\ proposed[p].scope = "party"
      /\ status[p] = "pending" => proposed[p].what \notin Public
  BY DEF IInv, ProposedIsKnown
<1>2. CASE p # Proposal(t)
  <2>1. status'[p] = status[p] /\ proposed'[p] = proposed[p]
    BY <1>2 DEF WroteDecision
  <2> QED
    BY <1>1, <2>1
<1>3. CASE p = Proposal(t) /\ How(t) = "turn"
  <2>1. /\ status'[p] = (IF What(t) \in Public THEN "applied" ELSE "pending")
        /\ proposed'[p] = Change(t)
    BY <1>3 DEF WroteDecision, Result
  <2>2. Change(t) \in Changes /\ Change(t).scope = "party"
    BY <1>3, AtCommit
  <2> QED
    BY <2>1, <2>2 DEF What
<1>4. CASE p = Proposal(t) /\ How(t) # "turn"
  <2>1. How(t) \in {"approve", "reject"} /\ status[p] = "pending"
    BY <1>4, AtCommit
  <2>2. status'[p] \in {"applied", "rejected"} /\ proposed'[p] = proposed[p]
    BY <1>4, <2>1 DEF WroteDecision, Result, Verdict
  <2> QED
    BY <1>1, <2>1, <2>2
<1> QED
  BY <1>2, <1>3, <1>4

\* The objectives that were decided in the name of a proposal.
MadeBy(p) ==
  {o \in Objectives : \E n \in DOMAIN history[<<o, "party">>] : history[<<o, "party">>][n].by = p}

\* The part of AppliedIsTrue about one proposal.
IsTrue(p) ==
  /\ status[p] = "applied" =>
       IF proposed[p].what \in Items THEN proposed[p].what \in known
       ELSE MadeBy(p) = {proposed[p].what}
            /\ objective[<<proposed[p].what, "party">>] = proposed[p].to
  /\ status[p] # "applied" => MadeBy(p) = {}
  /\ reviews[p] = IF \/ status[p] = "rejected"
                     \/ status[p] = "applied" /\ proposed[p].what \notin Public
                  THEN 1 ELSE 0

LEMMA TrueOfEach == AppliedIsTrue <=> \A p \in Proposals : IsTrue(p)
  BY DEF AppliedIsTrue, IsTrue, MadeBy

\* A commit decides an objective in the name of its own proposal only.
LEMMA CommitMakes ==
  ASSUME IInv, NEW t \in Txs, pc[t] = "commit", WroteStory(t), NEW p \in Proposals
  PROVE  MadeBy(p)' = IF Decides(t) /\ Proposal(t) = p THEN MadeBy(p) \cup {What(t)} ELSE MadeBy(p)
<1>1. \A o \in Objectives : <<o, "party">> \in Objectives \X Scopes
  BY DEF Scopes
<1>2. CASE ~Decides(t)
  <2>1. \A o \in Objectives : history'[<<o, "party">>] = history[<<o, "party">>]
    BY <1>1, <1>2 DEF WroteStory
  <2> QED
    BY <1>2, <2>1 DEF MadeBy
<1>3. CASE Decides(t)
  <2>1. /\ Change(t) \in Changes /\ What(t) \in Objectives /\ TypeOK /\ Began(t)
        /\ Place(t) = <<What(t), Change(t).scope>>
        /\ Decision(t).by = Proposal(t)
    BY <1>3, AtCommit, DecisionType DEF Decides, Place
  <2>2. /\ DOMAIN history[Place(t)] = {} /\ DOMAIN history'[Place(t)] = {1}
        /\ history'[Place(t)][1].by = Proposal(t)
    BY <1>3, <2>1, FirstEntry
  <2>3. \A o \in Objectives : <<o, "party">> # Place(t) => history'[<<o, "party">>] = history[<<o, "party">>]
    BY <1>1 DEF WroteStory
  <2>4. CASE Change(t).scope = "party"
    <3>1. Place(t) = <<What(t), "party">>
      BY <2>1, <2>4
    <3>2. \A o \in Objectives : o # What(t) => history'[<<o, "party">>] = history[<<o, "party">>]
      BY <2>3, <3>1
    <3>3. /\ DOMAIN history[<<What(t), "party">>] = {} /\ DOMAIN history'[<<What(t), "party">>] = {1}
          /\ history'[<<What(t), "party">>][1].by = Proposal(t)
      BY <2>2, <3>1
    <3>4. \A o \in Objectives :
            o \in MadeBy(p)' <=> o \in MadeBy(p) \/ (o = What(t) /\ Proposal(t) = p)
      BY <3>2, <3>3 DEF MadeBy
    <3>5. MadeBy(p)' \subseteq Objectives /\ MadeBy(p) \subseteq Objectives
      BY DEF MadeBy
    <3> QED
      BY <1>3, <2>1, <3>4, <3>5
  <2>5. CASE Change(t).scope # "party"
    <3>1. \A o \in Objectives : history'[<<o, "party">>] = history[<<o, "party">>]
      <4>1. ASSUME NEW o \in Objectives, <<o, "party">> = Place(t) PROVE FALSE
        <5>1. <<o, "party">> = <<What(t), Change(t).scope>>
          BY <2>1, <4>1
        <5>2. <<o, "party">>[2] = "party" /\ <<What(t), Change(t).scope>>[2] = Change(t).scope
          OBVIOUS
        <5> QED
          BY <2>5, <5>1, <5>2
      <4> QED
        BY <2>3, <4>1
    <3>2. MadeBy(p)' = MadeBy(p)
      BY <3>1 DEF MadeBy
    <3>3. Proposal(t) # p
      <4>1. How(t) \in {"direct", "approve"}
        BY <1>3, AtCommit
      <4>2. How(t) = "approve" => Change(t).scope = "party"
        BY AtCommit DEF IInv, ProposedIsKnown
      <4> QED
        BY <2>5, <4>1, <4>2, AtCommit
    <3> QED
      BY <3>2, <3>3
  <2> QED
    BY <2>4, <2>5
<1> QED
  BY <1>2, <1>3

LEMMA CommitIsTrue ==
  ASSUME IInv, NEW t \in Txs, pc[t] = "commit", WroteStory(t), WroteDecision(t)
  PROVE  AppliedIsTrue'
<1> SUFFICES ASSUME NEW p \in Proposals PROVE IsTrue(p)'
  BY DEF AppliedIsTrue, IsTrue, MadeBy
<1>1. IsTrue(p) /\ TypeOK
  BY TrueOfEach DEF IInv
<1>2. known \subseteq known'
  BY DEF WroteStory
<1>3. CASE p # Proposal(t)
  <2>1. status'[p] = status[p] /\ proposed'[p] = proposed[p] /\ reviews'[p] = reviews[p]
    BY <1>3 DEF WroteDecision
  <2>2. MadeBy(p)' = MadeBy(p)
    BY <1>3, CommitMakes
  <2>3. ASSUME status[p] = "applied", proposed[p].what \notin Items
        PROVE  objective'[<<proposed[p].what, "party">>] = objective[<<proposed[p].what, "party">>]
    <3>1. proposed[p] \in Changes
      BY <2>3 DEF IInv, ProposedIsKnown
    <3>2. proposed[p].what \in Objectives /\ proposed[p].to \in Decided
      BY <2>3, <3>1 DEF Changes
    <3>3. <<proposed[p].what, "party">> \in Objectives \X Scopes
      BY <3>2 DEF Scopes
    <3>4. objective[<<proposed[p].what, "party">>] \in Decided
      BY <1>1, <2>3, <3>2 DEF IsTrue
    <3>5. Decides(t) => Place(t) # <<proposed[p].what, "party">>
      BY <3>4, AtCommit
    <3> QED
      BY <3>3, <3>5 DEF WroteStory
  <2>4. status[p] = "applied" =>
       IF proposed[p].what \in Items THEN proposed[p].what \in known'
       ELSE MadeBy(p)' = {proposed[p].what}
            /\ objective'[<<proposed[p].what, "party">>] = proposed[p].to
    BY <1>1, <1>2, <2>2, <2>3 DEF IsTrue
  <2> QED
    BY <1>1, <2>1, <2>2, <2>4 DEF IsTrue
<1>4. CASE p = Proposal(t) /\ How(t) = "turn"
  <2>1. /\ status'[p] = (IF What(t) \in Public THEN "applied" ELSE "pending")
        /\ proposed'[p] = Change(t) /\ reviews'[p] = reviews[p]
    BY <1>4 DEF WroteDecision, Result
  <2>2. status[p] = "asked" /\ ~Decides(t) /\ How(t) = "turn"
    BY <1>4, AtCommit
  <2>3. MadeBy(p)' = {} /\ reviews[p] = 0
    BY <1>1, <2>2, CommitMakes DEF IsTrue
  <2>4. What(t) \in Public => What(t) \in known'
    BY <2>2 DEF WroteStory, Tells, LogsItem, Logs, Applies
  <2>5. What(t) = Change(t).what
    BY DEF What
  <2>6. Public \subseteq Items
    OBVIOUS
  <2> QED
    BY <2>1, <2>3, <2>4, <2>5, <2>6 DEF IsTrue
<1>5. CASE p = Proposal(t) /\ How(t) # "turn"
  <2>1. /\ How(t) \in {"approve", "reject"} /\ status[p] = "pending" /\ Change(t) = proposed[p]
        /\ Change(t) \in Changes /\ What(t) \in Objectives \cup Items /\ Began(t)
    BY <1>5, AtCommit
  <2>2. /\ status'[p] = Verdict(How(t)) /\ proposed'[p] = proposed[p] /\ reviews'[p] = reviews[p] + 1
    BY <1>5, <2>1 DEF WroteDecision, Result
  <2>3. MadeBy(p) = {} /\ reviews[p] = 0
    BY <1>1, <2>1 DEF IsTrue
  <2>4. proposed[p].what = What(t) /\ What(t) \notin Public /\ Change(t).scope = "party"
    BY <2>1 DEF IInv, ProposedIsKnown, What
  <2>5. CASE How(t) = "reject"
    <3>1. ~Decides(t)
      BY <2>5, AtCommit
    <3>2. MadeBy(p)' = {}
      BY <2>3, <3>1, CommitMakes
    <3> QED
      BY <2>2, <2>3, <2>5, <3>2 DEF IsTrue, Verdict
  <2>6. CASE How(t) = "approve"
    <3>1. status'[p] = "applied" /\ Applies(t)
      BY <2>2, <2>6 DEF Verdict, Applies
    <3>2. CASE What(t) \in Items
      <4>1. What(t) \in known'
        BY <2>6, <3>1, <3>2 DEF WroteStory, Tells, LogsItem, Logs
      <4> QED
        BY <2>2, <2>3, <2>4, <3>1, <3>2, <4>1 DEF IsTrue
    <3>3. CASE What(t) \notin Items
      <4>1. Decides(t)
        BY <2>1, <3>1, <3>3 DEF Decides
      <4>2. MadeBy(p)' = {What(t)}
        BY <1>5, <2>3, <4>1, CommitMakes
      <4>3. Place(t) = <<What(t), "party">> /\ Place(t) \in Objectives \X Scopes
        BY <2>4, <4>1, AtCommit DEF Place
      <4>4. objective'[<<What(t), "party">>] = Change(t).to
        BY <4>1, <4>3 DEF WroteStory
      <4> QED
        BY <2>1, <2>2, <2>3, <2>4, <3>1, <3>3, <4>2, <4>4 DEF IsTrue
    <3> QED
      BY <3>2, <3>3
  <2> QED
    BY <2>1, <2>5, <2>6
<1> QED
  BY <1>3, <1>4, <1>5

LEMMA CommitStep ==
  ASSUME IInv, NEW t \in Txs, Commit(t)
  PROVE  IInv'
<1>1. /\ pc[t] = "commit" /\ CommitStory(t) /\ CommitDecision(t) /\ End(t) /\ UNCHANGED people
      /\ t \in Txs
  BY DEF Commit
<1>2. /\ WroteStory(t) /\ WroteDecision(t)
      /\ objective' \in [Objectives \X Scopes -> {"none", "active"} \cup Decided]
      /\ history' \in [Objectives \X Scopes -> Seq(Histories)]
      /\ logged' \subseteq Items /\ known' \subseteq Items
      /\ logEvents' \in [Items -> Nat] /\ knowEvents' \in [Items -> Nat]
      /\ status' \in [Proposals -> {"none", "asked", "pending", "applied", "rejected"}]
      /\ proposed' \in [Proposals -> Changes \cup {None}] /\ reviews' \in [Proposals -> Nat]
  BY <1>1, StoryWrites, DecisionWrites
<1>3. /\ TxTypes' /\ \A u \in Txs : u # t => Keeps(u)
      /\ pc'[t] = "idle" /\ \A r \in Rows : lock'[r] # t
  BY <1>1, EndStep
<1>4. member' \in BOOLEAN /\ participates' \in BOOLEAN
  BY <1>1 DEF IInv, TypeOK, people
<1>5. TypeOK'
  BY <1>2, <1>3, <1>4 DEF TypeOK, TxTypes, Histories
<1>6. \A u \in Txs : u # t => TxInv(u)' /\ \A k \in Items : Logs(u, k)' => Logs(u, k)
  BY <1>1, <1>2, <1>3, CommitOthers
<1>7. TxInv(t)'
  BY <1>3 DEF TxInv
<1>8. Apart'
  <2>1. \A u \in Txs : u # t => pc'[u] = pc[u] /\ How(u)' = How(u) /\ Proposal(u)' = Proposal(u)
    BY <1>3, SameJob DEF Keeps
  <2>2. \A u \in Txs, k \in Items : HasLogged(u, k)' => u # t /\ HasLogged(u, k)
    BY <1>3, <1>6, <2>1 DEF HasLogged
  <2> QED
    BY <1>3, <2>1, <2>2 DEF IInv, Apart
<1>9. ProposedIsKnown' /\ DecidedOnce' /\ KnownOnce' /\ AppliedIsTrue'
  BY <1>1, <1>2, CommitProposes, CommitDecidesOnce, CommitTellsOnce, CommitIsTrue
<1> QED
  BY <1>5, <1>6, <1>7, <1>8, <1>9 DEF IInv

LEMMA NextStep == IInv /\ [Next]_vars => IInv'
<1> SUFFICES ASSUME IInv, [Next]_vars PROVE IInv'
  OBVIOUS
<1>1. CASE UNCHANGED vars
  <2>1. UNCHANGED db /\ UNCHANGED <<lock, pc, job, context>>
    BY <1>1 DEF vars
  <2>2. TypeOK' /\ Quiet /\ \A u \in Txs : Keeps(u)
    BY <2>1, TypesOfWork, UnchangedIsQuiet DEF IInv, TxTypes, Keeps
  <2>3. \A u \in Txs : TxInv(u)'
    BY <2>2, Frame DEF IInv
  <2>4. \A u \in Txs : /\ pc'[u] = pc[u] /\ How(u)' = How(u) /\ Proposal(u)' = Proposal(u)
                        /\ \A k \in Items : HasLogged(u, k)' = HasLogged(u, k)
    BY <2>2, Same DEF Keeps, HasLogged
  <2>5. Apart'
    BY <2>4 DEF IInv, Apart
  <2> QED
    BY <2>2, <2>3, <2>5, QuietTables DEF IInv
<1>2. CASE \E t \in Txs, c \in Changes : CallDirectly(t, c) \/ (pc[t] = "provider" /\ Answer(t, c))
  BY <1>2, CallSteps, AnswerStep
<1>3. CASE \E t \in Txs, k \in Items : CallDiscover(t, k)
  BY <1>3, CallSteps
<1>4. CASE \E t \in Txs, p \in Proposals :
             AskProvider(t, p) \/ CallReview(t, p, "approve") \/ CallReview(t, p, "reject")
  BY <1>4, CallSteps
<1>5. CASE PartyLeaves \/ NpcLeaves
  BY <1>5, LeaveStep
<1>6. ASSUME NEW t \in Txs, Progress(t) PROVE IInv'
  <2>1. CASE AnswerNothing(t) \/ DiscoverConflicts(t) \/ RevealConflicts(t) \/ Refuse(t)
    BY <2>1, AbortStep DEF AnswerNothing, DiscoverConflicts, RevealConflicts, Refuse
  <2>2. CASE LockProposal(t) \/ LockParty(t) \/ LockObjective(t) \/ LockParticipant(t) \/ LockItem(t)
    BY <2>2, ProposalStep, PartyStep, ObjectiveStep, ParticipantStep, ItemStep
  <2>3. CASE Validate(t) \/ Advance(t)
    BY <2>3, ValidateStep, AdvanceStep
  <2>4. CASE ReadLog(t) \/ InsertLog(t) \/ ReferToItem(t)
    BY <2>4, ReadLogStep, LogStep, ReferStep
  <2>5. CASE Commit(t)
    BY <2>5, CommitStep
  <2> QED
    BY <1>6, <2>1, <2>2, <2>3, <2>4, <2>5 DEF Progress
<1>7. ASSUME NEW t \in Txs, Rollback(t) PROVE IInv'
  BY <1>7, AbortStep DEF Rollback
<1> QED
  BY <1>1, <1>2, <1>3, <1>4, <1>5, <1>6, <1>7 DEF Next

\* Only the review that holds a proposal applies it after it was pending.
LEMMA Eligible ==
  ASSUME IInv, [Next]_vars, NEW p \in Proposals,
         status[p] = "pending", status'[p] = "applied", proposed[p].what \in Objectives
  PROVE  member /\ participates /\ Open(proposed[p].what)
<1>1. \/ UNCHANGED status
      \/ \E t \in Txs, q \in Proposals : AskProvider(t, q)
      \/ \E t \in Txs : Commit(t)
  BY DEF Next, Progress, CallDirectly, CallDiscover, CallReview, PartyLeaves, NpcLeaves, Answer,
     AnswerNothing, LockProposal, LockParty, LockObjective, LockParticipant, LockItem, Validate,
     Advance, ReadLog, InsertLog, ReferToItem, DiscoverConflicts, RevealConflicts, Refuse, Rollback,
     db, decisions, vars
<1>2. ASSUME NEW t \in Txs, NEW q \in Proposals, AskProvider(t, q) PROVE status'[p] # "applied"
  BY <1>2 DEF AskProvider, IInv, TypeOK
<1>3. ASSUME NEW t \in Txs, Commit(t) PROVE member /\ participates /\ Open(proposed[p].what)
  <2>1. pc[t] = "commit" /\ WroteDecision(t)
    BY <1>3, DecisionWrites DEF Commit
  <2>2. p = Proposal(t)
    BY <2>1 DEF WroteDecision
  <2>3. How(t) = "approve" /\ Change(t) = proposed[p]
    BY <2>1, <2>2, AtCommit DEF WroteDecision, Result, Verdict
  <2>4. What(t) = proposed[p].what /\ Applies(t)
    BY <2>3 DEF What, Applies
  <2>5. ObjectiveIsHeld(t)
    BY <2>1, Running
  <2> QED
    BY <2>1, <2>3, <2>4, <2>5 DEF ObjectiveIsHeld
<1> QED
  BY <1>1, <1>2, <1>3

\* The inductive invariant holds in every reachable state.
THEOREM ProposalsInvariant == Spec => []IInv
BY InitIInv, NextStep, PTL DEF Spec

\* Every variable keeps its type.
THEOREM TypeCorrect == Spec => []TypeOK
<1>1. IInv => TypeOK
  BY DEF IInv
<1> QED
  BY <1>1, ProposalsInvariant, PTL

\* An objective is decided once from each perspective, however many commands,
\* turns and reviews try.
THEOREM ObjectiveOnce == Spec => []DecidedOnce
<1>1. IInv => DecidedOnce
  BY DEF IInv
<1> QED
  BY <1>1, ProposalsInvariant, PTL

\* An item is logged once and made known once.
THEOREM ItemOnce == Spec => []KnownOnce
<1>1. IInv => KnownOnce
  BY DEF IInv
<1> QED
  BY <1>1, ProposalsInvariant, PTL

\* The status of a proposal is true of the objectives and the items.
THEOREM ProposalIsTrue == Spec => []AppliedIsTrue
<1>1. IInv => AppliedIsTrue
  BY DEF IInv
<1> QED
  BY <1>1, ProposalsInvariant, PTL

\* An advance is applied by a review only while it may be.
THEOREM AppliedEligibly == Spec => AppliedWhileEligible
<1>1. IInv /\ [Next]_vars =>
        \A p \in Proposals :
          status[p] = "pending" /\ status'[p] = "applied" /\ proposed[p].what \in Objectives =>
            member /\ participates /\ Open(proposed[p].what)
  BY Eligible
<1> QED
  BY <1>1, ProposalsInvariant, PTL DEF Spec, AppliedWhileEligible

\* The transactions that hold rows are where LocksFit says.
LEMMA LocksInit == Init => LocksFit
  BY DEF Init, LocksFit

\* The rows of different tables are different rows.
LEMMA Places ==
  /\ \A r \in Proposals :
       StepsAfter(r) = Steps \ {"idle", "provider", "proposal", "read", "share"}
  /\ StepsAfter("party") = {"objective", "participant", "advance", "commit"}
  /\ \A r \in Objectives : StepsAfter(r) = {"participant", "advance", "commit"}
  /\ StepsAfter("participant") = {"advance", "commit"}
  /\ \A r \in Items : StepsAfter(r) = {"log", "commit"}
  /\ StepsAfter("campaign") = {}
  BY DEF StepsAfter

\* Steps lead on from where a row may be held.
Onward(from, to) == \A r \in Rows : from \in StepsAfter(r) => to \in StepsAfter(r)

LEMMA StepsLeadOnward ==
  /\ \A from \in {"idle", "provider", "proposal", "read", "share"}, to \in Steps : Onward(from, to)
  /\ Onward("validate", "item") /\ Onward("validate", "objective") /\ Onward("party", "objective")
  /\ Onward("objective", "participant") /\ Onward("objective", "advance")
  /\ Onward("participant", "advance") /\ Onward("advance", "commit")
  /\ Onward("item", "log") /\ Onward("item", "commit") /\ Onward("log", "commit")
  BY Places DEF Onward, Rows, Steps

\* A step that takes no row leads from where the rows may be held to where they
\* may be held too; one that takes a row leads to where that row may be held.  A
\* check, which holds no row, leads anywhere.
LEMMA HeldOnward ==
  ASSUME IInv, LocksFit, NEW t \in Txs, NEW to \in Steps, Moves(t, to),
         \A u \in Txs : u # t => job'[u] = job[u],
         How(t)' = How(t),
         How(t) = "discover" \/ Onward(pc[t], to),
         \A r \in Wanted(t) : to \in StepsAfter(r),
         UNCHANGED lock \/ Take(t)
  PROVE  LocksFit'
<1>1. /\ \A u \in Txs : u # t => Keeps(u)
      /\ pc'[t] = to
  BY MoveLocks
<1>2. \A r \in Rows : lock'[r] = t => lock[r] = t \/ r \in Wanted(t)
  BY DEF Take
<1>3. Wanted(t) # {} => How(t) # "discover"
  <2>1. Began(t)
    BY Running DEF Moves
  <2> QED
    BY <2>1 DEF Began, StepsOf, Wanted
<1> SUFFICES ASSUME NEW r \in Rows, NEW u \in Txs, lock'[r] = u
             PROVE  pc'[u] \in StepsAfter(r) /\ How(u)' # "discover"
  BY DEF LocksFit, StepsAfter, How
<1>4. CASE u = t
  BY <1>1, <1>2, <1>3, <1>4 DEF LocksFit, Onward
<1>5. CASE u # t
  <2>1. lock[r] = u /\ pc'[u] = pc[u] /\ How(u)' = How(u)
    BY <1>1, <1>5 DEF Keeps, How
  <2> QED
    BY <2>1 DEF LocksFit
<1> QED
  BY <1>4, <1>5

\* What a turn or a review learns is the change.
LEMMA KeepsHow ==
  ASSUME NEW t \in Txs, TypeOK, Began(t), NEW c, job' = [job EXCEPT ![t].change = c]
  PROVE  How(t)' = How(t)
<1>1. job'[t] = [job[t] EXCEPT !.change = c]
  BY DEF TypeOK
<1> QED
  BY <1>1 DEF Began, Jobs, How

\* The statements that lock a row.
LEMMA LockingStep ==
  ASSUME IInv, LocksFit, NEW t \in Txs,
         \/ LockProposal(t) \/ LockParty(t) \/ LockObjective(t) \/ LockParticipant(t) \/ LockItem(t)
  PROVE  LocksFit'
<1>1. pc[t] \in {"proposal", "party", "objective", "participant", "item"} /\ Take(t)
  BY DEF LockProposal, LockParty, LockObjective, LockParticipant, LockItem, Goto
<1>2. TypeOK /\ Began(t)
  BY <1>1, Running
<1>3. /\ pc[t] = "proposal" => Proposal(t) \in Proposals /\ Proposal(t) \in Rows
      /\ pc[t] = "objective" => What(t) \in Objectives /\ What(t) \in Rows
      /\ pc[t] = "item" => What(t) \in Items /\ What(t) \in Rows
      /\ {"party", "participant"} \subseteq Rows
  BY <1>1, <1>2 DEF Began, StepsOf, Rows
<1>4. UNCHANGED lock \/ \E row \in Rows : Takes(t, row)
  BY <1>1, <1>3, TakesWhatItWants
<1>5. ASSUME LockProposal(t) PROVE LocksFit'
  <2> DEFINE c == proposed[Proposal(t)]
             to == IF How(t) = "reject" THEN "commit" ELSE IF c.what \in Items THEN "validate" ELSE "party"
  <2>1. /\ pc[t] = "proposal" /\ pc' = [pc EXCEPT ![t] = to] /\ UNCHANGED db
        /\ job' = [job EXCEPT ![t].change = c]
    BY <1>5 DEF LockProposal, Goto
  <2>2. to \in {"commit", "validate", "party"} /\ to \in Steps
    BY DEF Steps
  <2> HIDE DEF to
  <2>3. Moves(t, to) /\ \A u \in Txs : u # t => job'[u] = job[u]
    BY <1>2, <1>4, <2>1 DEF Moves, TypeOK
  <2>4. \A r \in Wanted(t) : to \in StepsAfter(r)
    BY <1>3, <2>1, <2>2, Places DEF Wanted, Steps
  <2>5. How(t)' = How(t)
    BY <1>2, <2>1, KeepsHow
  <2> QED
    BY <1>1, <2>1, <2>2, <2>3, <2>4, <2>5, StepsLeadOnward, HeldOnward
<1>6. ASSUME LockParty(t) PROVE LocksFit'
  <2>1. /\ pc[t] = "party" /\ Moves(t, "objective") /\ UNCHANGED job /\ "objective" \in Steps
    BY <1>4, <1>6 DEF LockParty, Goto, Moves, Steps
  <2>2. \A r \in Wanted(t) : "objective" \in StepsAfter(r)
    BY <2>1, Places DEF Wanted
  <2> QED
    BY <1>1, <2>1, <2>2, StepsLeadOnward, HeldOnward DEF How
<1>7. ASSUME LockObjective(t) PROVE LocksFit'
  <2> DEFINE to == IF How(t) = "approve" THEN "participant" ELSE "advance"
  <2>1. /\ pc[t] = "objective" /\ Moves(t, to) /\ UNCHANGED job
        /\ to \in Steps /\ to \in {"participant", "advance"}
    BY <1>4, <1>7 DEF LockObjective, Goto, Moves, Steps
  <2> HIDE DEF to
  <2>2. \A r \in Wanted(t) : to \in StepsAfter(r)
    BY <1>3, <2>1, Places DEF Wanted
  <2> QED
    BY <1>1, <2>1, <2>2, StepsLeadOnward, HeldOnward DEF How
<1>8. ASSUME LockParticipant(t) PROVE LocksFit'
  <2>1. /\ pc[t] = "participant" /\ Moves(t, "advance") /\ UNCHANGED job /\ "advance" \in Steps
    BY <1>4, <1>8 DEF LockParticipant, Goto, Moves, Steps
  <2>2. \A r \in Wanted(t) : "advance" \in StepsAfter(r)
    BY <2>1, Places DEF Wanted
  <2> QED
    BY <1>1, <2>1, <2>2, StepsLeadOnward, HeldOnward DEF How
<1>9. ASSUME LockItem(t) PROVE LocksFit'
  <2> DEFINE to == IF What(t) \in known THEN "commit" ELSE "log"
  <2>1. /\ pc[t] = "item" /\ Moves(t, to) /\ UNCHANGED job
        /\ to \in Steps /\ to \in {"commit", "log"}
    BY <1>4, <1>9 DEF LockItem, Goto, Moves, Steps
  <2> HIDE DEF to
  <2>2. \A r \in Wanted(t) : to \in StepsAfter(r)
    BY <1>3, <2>1, Places DEF Wanted
  <2> QED
    BY <1>1, <2>1, <2>2, StepsLeadOnward, HeldOnward DEF How
<1> QED
  BY <1>5, <1>6, <1>7, <1>8, <1>9

\* The statements that lock none.
LEMMA LocklessStep ==
  ASSUME IInv, LocksFit, NEW t \in Txs,
         \/ Validate(t) \/ Advance(t) \/ ReadLog(t) \/ InsertLog(t) \/ ReferToItem(t)
         \/ \E c \in Changes : pc[t] = "provider" /\ Answer(t, c)
  PROVE  LocksFit'
<1>1. PICK to \in Steps :
        /\ Moves(t, to) /\ (How(t) = "discover" \/ Onward(pc[t], to))
        /\ Wanted(t) = {} /\ UNCHANGED lock
        /\ How(t)' = How(t) /\ \A u \in Txs : u # t => job'[u] = job[u]
  <2>1. CASE Validate(t)
    <3> DEFINE to == IF What(t) \in Items THEN "item" ELSE "objective"
    <3>1. /\ Moves(t, to) /\ pc[t] = "validate" /\ UNCHANGED <<lock, job>>
          /\ to \in {"item", "objective"} /\ to \in Steps
      BY <2>1 DEF Validate, Moves, Steps
    <3> HIDE DEF to
    <3>2. Onward(pc[t], to) /\ Wanted(t) = {}
      BY <3>1, StepsLeadOnward DEF Wanted
    <3> QED
      BY <3>1, <3>2 DEF How
  <2>2. CASE Advance(t)
    <3>1. Moves(t, "commit") /\ pc[t] = "advance" /\ UNCHANGED <<lock, job>>
      BY <2>2 DEF Advance, Goto, Moves
    <3>2. Onward(pc[t], "commit") /\ Wanted(t) = {} /\ "commit" \in Steps
      BY <3>1, StepsLeadOnward DEF Wanted, Steps
    <3> QED
      BY <3>1, <3>2 DEF How
  <2>3. CASE InsertLog(t)
    <3> DEFINE to == IF How(t) = "discover" THEN "share" ELSE "commit"
    <3>1. /\ Moves(t, to) /\ pc[t] = "log" /\ UNCHANGED <<lock, job>>
          /\ (How(t) # "discover" => to = "commit") /\ to \in Steps
      BY <2>3 DEF InsertLog, Goto, Moves, Steps
    <3> HIDE DEF to
    <3>2. (How(t) = "discover" \/ Onward(pc[t], to)) /\ Wanted(t) = {}
      BY <3>1, StepsLeadOnward DEF Wanted
    <3> QED
      BY <3>1, <3>2 DEF How
  <2>4. CASE ReferToItem(t)
    <3>1. Moves(t, "commit") /\ pc[t] = "share" /\ UNCHANGED <<lock, job>> /\ "commit" \in Steps
      BY <2>4 DEF ReferToItem, Goto, Moves, Steps
    <3>2. Onward(pc[t], "commit") /\ Wanted(t) = {}
      BY <3>1, StepsLeadOnward DEF Wanted
    <3> QED
      BY <3>1, <3>2 DEF How
  <2>5. CASE ReadLog(t)
    <3>1. Moves(t, "log") /\ pc[t] = "read" /\ UNCHANGED <<lock, job>> /\ "log" \in Steps
      BY <2>5 DEF ReadLog, Goto, Moves, Steps
    <3>2. Onward(pc[t], "log") /\ Wanted(t) = {}
      BY <3>1, StepsLeadOnward DEF Wanted
    <3> QED
      BY <3>1, <3>2 DEF How
  <2>6. ASSUME NEW c \in Changes, pc[t] = "provider", Answer(t, c)
        PROVE  \E to \in Steps :
                 /\ Moves(t, to) /\ (How(t) = "discover" \/ Onward(pc[t], to))
                 /\ Wanted(t) = {} /\ UNCHANGED lock
                 /\ How(t)' = How(t) /\ \A u \in Txs : u # t => job'[u] = job[u]
    <3> DEFINE to == IF c.what \in Public THEN "validate" ELSE "commit"
    <3>1. /\ Moves(t, to) /\ UNCHANGED lock /\ job' = [job EXCEPT ![t].change = c]
          /\ to \in Steps
      BY <2>6 DEF Answer, Goto, Moves, Steps
    <3> HIDE DEF to
    <3>2. Onward(pc[t], to) /\ Wanted(t) = {}
      BY <2>6, <3>1, StepsLeadOnward DEF Wanted
    <3>3. How(t)' = How(t) /\ \A u \in Txs : u # t => job'[u] = job[u]
      <4>1. TypeOK /\ Began(t)
        BY <2>6, Running
      <4> QED
        BY <3>1, <4>1, KeepsHow DEF TypeOK
    <3> QED
      BY <3>1, <3>2, <3>3
  <2> QED
    BY <2>1, <2>2, <2>3, <2>4, <2>5, <2>6
<1> QED
  BY <1>1, HeldOnward

LEMMA LocksStep == IInv /\ LocksFit /\ [Next]_vars => LocksFit'
<1> SUFFICES ASSUME IInv, LocksFit, [Next]_vars PROVE LocksFit'
  OBVIOUS
<1>1. CASE UNCHANGED <<lock, pc, job>>
  BY <1>1 DEF LocksFit, StepsAfter, How
<1>2. ASSUME NEW t \in Txs, End(t) PROVE LocksFit'
  <2>1. \A u \in Txs, r \in Rows : lock'[r] = u => u # t /\ lock[r] = u /\ pc'[u] = pc[u] /\ How(u)' = How(u)
    BY <1>2, EndStep DEF Keeps, How
  <2> QED
    BY <2>1 DEF LocksFit, StepsAfter
<1>3. ASSUME NEW t \in Txs, NEW to \in Steps, NEW how, NEW c, NEW p, Start(t, to, how, c, p)
      PROVE  LocksFit'
  <2>1. TypeOK /\ pc[t] = "idle" /\ \A r \in Rows : lock[r] # t
    BY <1>3 DEF Start, Goto, IInv, TxInv
  <2>2. \A u \in Txs, r \in Rows : lock'[r] = u => u # t /\ lock[r] = u /\ pc'[u] = pc[u] /\ How(u)' = How(u)
    BY <1>3, <2>1 DEF Start, Goto, TypeOK, How
  <2> QED
    BY <2>2 DEF LocksFit, StepsAfter
<1>4. CASE \/ \E t \in Txs, c \in Changes : CallDirectly(t, c)
           \/ \E t \in Txs, k \in Items : CallDiscover(t, k)
           \/ \E t \in Txs, p \in Proposals :
                AskProvider(t, p) \/ CallReview(t, p, "approve") \/ CallReview(t, p, "reject")
  <2>1. {"validate", "read", "provider", "proposal"} \subseteq Steps
    BY DEF Steps
  <2> QED
    BY <1>3, <1>4, <2>1 DEF CallDirectly, CallDiscover, AskProvider, CallReview
<1>5. CASE PartyLeaves \/ NpcLeaves \/ UNCHANGED vars
  BY <1>1, <1>5 DEF PartyLeaves, NpcLeaves, vars
<1>6. CASE \E t \in Txs, c \in Changes : pc[t] = "provider" /\ Answer(t, c)
  BY <1>6, LocklessStep
<1>7. ASSUME NEW t \in Txs, Progress(t) \/ Rollback(t) PROVE LocksFit'
  <2>1. CASE AnswerNothing(t) \/ DiscoverConflicts(t) \/ RevealConflicts(t) \/ Refuse(t)
             \/ Commit(t) \/ Rollback(t)
    BY <1>2, <2>1 DEF AnswerNothing, DiscoverConflicts, RevealConflicts, Refuse, Commit, Rollback
  <2> QED
    BY <1>7, <2>1, LockingStep, LocklessStep DEF Progress
<1> QED
  BY <1>4, <1>5, <1>6, <1>7 DEF Next

\* Whoever is waited for is past the row or the key that it is waited for; a
\* discovery waits for a reveal that has locked its item.
LEMMA WaitsForOneAhead ==
  ASSUME IInv, LocksFit, NEW t \in Txs, NEW u \in Txs, u \in WaitsFor(t)
  PROVE  \/ pc[t] = "proposal" /\ pc[u] \in Steps \ {"idle", "provider", "proposal", "read", "share"}
         \/ pc[t] = "party" /\ pc[u] \in {"objective", "participant", "advance", "commit"}
         \/ pc[t] = "objective" /\ pc[u] \in {"participant", "advance", "commit"}
         \/ pc[t] = "participant" /\ pc[u] \in {"advance", "commit"}
         \/ pc[t] = "item" /\ pc[u] \in {"log", "commit"}
         \/ pc[t] = "log" /\ pc[u] \in {"share", "commit"} /\ HasLogged(u, What(t))
         \/ pc[t] = "share" /\ pc[u] \in {"log", "commit"} /\ lock[What(t)] = u
<1>1. pc[t] \in {"proposal", "party", "objective", "participant", "advance", "item", "log", "share"}
  BY DEF WaitsFor, Wanted, Referred
<1>2. Began(t)
  BY <1>1, Running
<1>3. /\ pc[t] = "proposal" => Proposal(t) \in Proposals
      /\ pc[t] = "objective" => What(t) \in Objectives
      /\ pc[t] \in {"item", "share"} => What(t) \in Items
  BY <1>1, <1>2 DEF Began, StepsOf
<1>4. "campaign" \in Rows /\ \A w \in Txs : lock["campaign"] # w
  BY <1>2, JobRows, Places DEF LocksFit
<1>5. CASE pc[t] \in {"advance", "log"}
  BY <1>4, <1>5 DEF WaitsFor, Wanted, Referred, HasLogged
<1>6. CASE pc[t] = "share"
  <2>1. lock[What(t)] = u /\ What(t) \in Rows
    BY <1>3, <1>6 DEF WaitsFor, Wanted, Referred
  <2> QED
    BY <1>3, <1>6, <2>1, Places DEF LocksFit
<1>7. CASE pc[t] = "item" /\ SharesItem(u, What(t))
  BY <1>7 DEF SharesItem
<1>8. CASE pc[t] \notin {"advance", "log", "share"} /\ ~(pc[t] = "item" /\ SharesItem(u, What(t)))
  <2>1. PICK r \in Wanted(t) : pc[u] \in StepsAfter(r)
    BY <1>8 DEF WaitsFor, Wanted, Referred, LocksFit
  <2> QED
    BY <1>1, <1>3, <1>8, <2>1, Places DEF Wanted
<1> QED
  BY <1>5, <1>6, <1>7, <1>8

\* Of the transactions that wait for each other in a circle, one that refers to
\* an item and the one that has locked it wait for each other.
LEMMA CircleAtShare ==
  ASSUME IInv, LocksFit, NEW S \in SUBSET OpenTxs, NEW t \in S, pc[t] = "share",
         \A v \in S : \E u \in S : u \in WaitsFor(v)
  PROVE  \E v, u \in S : WaitForEachOther(v, u)
<1>1. S \subseteq Txs
  BY DEF OpenTxs
<1>2. PICK u \in S : u \in WaitsFor(t)
  OBVIOUS
<1>3. pc[u] \in {"log", "commit"} /\ lock[What(t)] = u
  BY <1>1, <1>2, WaitsForOneAhead
<1>4. PICK w \in S : w \in WaitsFor(u)
  OBVIOUS
<1>5. pc[u] = "log" /\ pc[w] \in {"share", "commit"} /\ HasLogged(w, What(u))
  BY <1>1, <1>3, <1>4, WaitsForOneAhead
<1>6. pc[w] = "share"
  <2>1. PICK v \in S : v \in WaitsFor(w)
    OBVIOUS
  <2> QED
    BY <1>1, <1>5, <2>1, WaitsForOneAhead
<1>7. Began(u) /\ ItemIsHeld(u) /\ Began(t)
  BY <1>1, <1>5, Running
<1>8. How(u) # "discover"
  <2>1. What(t) \in Rows
    BY <1>1, <1>7, JobRows
  <2> QED
    BY <1>1, <1>3, <2>1 DEF LocksFit
<1>9. What(u) \in Items /\ Applies(u)
  BY <1>5, <1>7 DEF Began, StepsOf, Applies
<1>10. lock[What(u)] = u
  BY <1>5, <1>7, <1>8, <1>9 DEF ItemIsHeld
<1>11. What(w) = What(u)
  BY <1>5 DEF HasLogged, Logs
<1> QED
  BY <1>5, <1>6, <1>10, <1>11 DEF WaitForEachOther

\* Of transactions without such a pair, the one that is furthest on waits for
\* none of the others.
LEMMA SomebodyIsAhead == IInv /\ LocksFit => DeadlockNeedsDiscovery
<1> SUFFICES ASSUME IInv, LocksFit, NEW S \in SUBSET OpenTxs, S # {},
                    ~\E t, u \in S : WaitForEachOther(t, u)
             PROVE  \E t \in S : WaitsFor(t) \subseteq OpenTxs \ S
  BY DEF DeadlockNeedsDiscovery
<1>1. S \subseteq Txs
  BY DEF OpenTxs
<1>2. \A t \in S : WaitsFor(t) \subseteq OpenTxs
  <2> SUFFICES ASSUME NEW t \in S, NEW u \in WaitsFor(t) PROVE pc[u] # "idle"
    BY DEF OpenTxs, WaitsFor
  <2> QED
    BY <1>1, WaitsForOneAhead DEF WaitsFor
<1>3. SUFFICES \E t \in S : \A u \in S : u \notin WaitsFor(t)
  BY <1>2
<1> DEFINE At(steps) == {t \in S : pc[t] \in steps}
<1>4. CASE \E t \in S : pc[t] = "share"
  BY <1>4, CircleAtShare
<1>5. CASE /\ At({"share"}) = {}
           /\ At({"proposal", "party", "objective", "participant", "item", "log"}) # S
  BY <1>1, <1>5, WaitsForOneAhead
<1>6. CASE /\ At({"proposal", "party", "objective", "participant", "item", "log"}) = S
           /\ At({"participant", "log"}) # {}
  BY <1>1, <1>6, WaitsForOneAhead
<1>7. CASE /\ At({"proposal", "party", "objective", "item"}) = S
           /\ At({"objective", "item"}) # {}
  BY <1>1, <1>7, WaitsForOneAhead
<1>8. CASE At({"proposal", "party"}) = S /\ At({"party"}) # {}
  BY <1>1, <1>8, WaitsForOneAhead
<1>9. CASE At({"proposal"}) = S
  BY <1>1, <1>9, WaitsForOneAhead
<1> QED
  BY <1>4, <1>5, <1>6, <1>7, <1>8, <1>9

\* Commands, checks, turns and reviews wait for each other in a circle only if a
\* check that has discovered an item is among them and a reveal of that item.
THEOREM DeadlockOfDiscoveries == Spec => []DeadlockNeedsDiscovery
BY LocksInit, LocksStep, SomebodyIsAhead, ProposalsInvariant, PTL DEF Spec
=============================================================================
