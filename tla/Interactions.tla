----------------------------- MODULE Interactions -----------------------------
(***************************************************************************)
(* Interactions and ability checks (src/dnd_ai/commands/interactions.py    *)
(* with the triggers of migrations 061, 067, 070, 071 and 072).  An        *)
(* interaction asks for checks; resolving a check records its result,      *)
(* moves the interaction on, changes the state of the target and may       *)
(* reveal the target to a party, all in one transaction.                   *)
(*                                                                         *)
(* Transactions run at READ COMMITTED.  What a transaction wrote shows at  *)
(* its commit; a row lock and an uncommitted INSERT of a unique key make   *)
(* the others wait.  The INSERT of an effect locks the row of its target   *)
(* FOR KEY SHARE (its foreign key), which waits for FOR UPDATE and makes   *)
(* it wait.  So do those of a new interaction, which nobody that it waits  *)
(* for waits for in turn; they are left out.  Other foreign keys refer to  *)
(* rows that nothing here locks, or only the transaction itself.           *)
(***************************************************************************)
EXTENDS Naturals, Sequences

CONSTANTS
  Txs,            \* transactions that may be open at the same time
  Interactions,
  Requests,       \* check requests
  Targets,
  Parties,
  InteractionOf,  \* the interaction of a check request
  TargetOf,       \* its target
  TypeOf,         \* the type of an interaction
  KindOf,         \* what a target is
  Discoverable,   \* targets that are hidden, or entities, with a knowledge item
  None

Kinds == {"connection", "hazard", "interactable", "other"}
Terminal == {"resolved", "failed", "cancelled"}

ASSUME InteractionsAssumption ==
  /\ InteractionOf \in [Requests -> Interactions]
  /\ TargetOf \in [Requests -> Targets]
  /\ TypeOf \in [Interactions -> STRING]
  /\ KindOf \in [Targets -> Kinds]
  /\ Discoverable \subseteq Targets
  /\ None \notin Txs \cup Requests \cup Parties

VARIABLES
  status,      \* of an interaction; "absent" before it is performed
  answered,    \* check requests with a result
  state,       \* status of a target, None when it has no state row
  effects,     \* event effects on a target, oldest first
  discovered,  \* party_discoveries
  reveals,     \* the interactions whose events revealed a target to a party
  iLock,       \* the transaction that holds the row of an interaction
  tLock,       \* the transaction that holds the row of a target
  pc, call,
  next,        \* status the trigger gave the interaction
  change,      \* state change of the target that was written
  found        \* whether a discovery was inserted

db == <<status, answered, state, effects, discovered, reveals>>
work == <<next, change, found>>
vars == <<db, iLock, tLock, pc, call, work>>

\* Only a success on a connection can fit its requirement.
Calls ==
  {c \in [request : Requests, won : BOOLEAN, fits : BOOLEAN, party : Parties \cup {None}] :
     c.fits => c.won /\ KindOf[TargetOf[c.request]] = "connection"}
Codes == {"open", "triggered", "disarmed", "activated"}
Statuses == {"absent", "initiated", "resolving"} \cup Terminal
Changes == [from : Codes \cup {None}, to : Codes]

TypeOK ==
  /\ status \in [Interactions -> Statuses]
  /\ answered \subseteq Requests
  /\ state \in [Targets -> Codes \cup {None}]
  /\ effects \in [Targets -> Seq([from : Codes \cup {None}, to : Codes, by : Interactions])]
  /\ discovered \subseteq Parties \X Targets
  /\ reveals \in [Parties \X Targets -> Seq(Interactions)]
  /\ iLock \in [Interactions -> Txs \cup {None}]
  /\ tLock \in [Targets -> Txs \cup {None}]
  /\ pc \in [Txs -> {"idle", "select", "insert", "advance", "react", "discover", "record",
                 "effect", "commit"}]
  /\ call \in [Txs -> Calls \cup {None}]
  /\ next \in [Txs -> Statuses]
  /\ change \in [Txs -> Changes \cup {None}]
  /\ found \in [Txs -> BOOLEAN]

Init ==
  /\ status = [i \in Interactions |-> "absent"]
  /\ answered = {}
  /\ state = [x \in Targets |-> None]
  /\ effects = [x \in Targets |-> <<>>]
  /\ discovered = {}
  /\ reveals = [d \in Parties \X Targets |-> <<>>]
  /\ iLock = [i \in Interactions |-> None]
  /\ tLock = [x \in Targets |-> None]
  /\ pc = [t \in Txs |-> "idle"]
  /\ call = [t \in Txs |-> None]
  /\ next = [t \in Txs |-> "absent"]
  /\ change = [t \in Txs |-> None]
  /\ found = [t \in Txs |-> FALSE]
-----------------------------------------------------------------------------
Request(t) == call[t].request
Interaction(t) == InteractionOf[Request(t)]
Target(t) == TargetOf[Request(t)]
Discovery(t) == <<call[t].party, Target(t)>>

\* The status a check gives its target, None when it leaves it alone.
Outcome(t) ==
  LET type == TypeOf[Interaction(t)]
      kind == KindOf[Target(t)]
      won == call[t].won
  IN IF kind = "connection" /\ won /\ call[t].fits THEN "open"
     ELSE IF kind = "hazard" /\ type = "disarm_trap" THEN IF won THEN "disarmed" ELSE "triggered"
     ELSE IF kind = "hazard" /\ type = "trigger_trap" /\ won THEN "triggered"
     ELSE IF kind = "interactable" /\ type = "activate_mechanism" /\ won THEN "activated"
     ELSE None

\* Mutant of LocksTarget: a trap is locked to be disarmed, not to be triggered.
LocksTargetToDisarm(t) ==
  \/ Outcome(t) # None /\ TypeOf[Interaction(t)] # "trigger_trap"
  \/ KindOf[Target(t)] = "connection"

\* A connection is locked before its requirement is looked at.
LocksTarget(t) == Outcome(t) # None \/ KindOf[Target(t)] = "connection"

\* The discovery and the INSERT of the result are uncommitted until the end.
Writing == {"advance", "react", "discover", "record", "effect", "commit"}
Open == {t \in Txs : pc[t] # "idle"}

\* The row of the target is locked FOR KEY SHARE by the effect that reveals it.
SharesTarget(t) == found[t] /\ pc[t] = "commit"

\* The transactions that the next statement of t waits for: the holders of the
\* row it locks, or of the unique key it inserts.
WaitsFor(t) ==
  {u \in Txs :
     \/ pc[t] = "select" /\ iLock[Interaction(t)] = u
     \/ pc[t] = "insert" /\ pc[u] \in Writing /\ Request(u) = Request(t)
     \/ pc[t] = "advance" /\ iLock[Interaction(t)] = u /\ u # t
     \/ /\ pc[t] = "react" /\ LocksTarget(t)
        /\ tLock[Target(t)] = u \/ (SharesTarget(u) /\ Target(u) = Target(t))
     \/ pc[t] = "record" /\ found[u] /\ Discovery(u) = Discovery(t)
     \/ pc[t] = "effect" /\ tLock[Target(t)] = u /\ u # t}

Goto(t, from, to) ==
  /\ pc[t] = from
  /\ pc' = [pc EXCEPT ![t] = to]

End(t) ==
  /\ pc' = [pc EXCEPT ![t] = "idle"]
  /\ call' = [call EXCEPT ![t] = None]
  /\ next' = [next EXCEPT ![t] = "absent"]
  /\ change' = [change EXCEPT ![t] = None]
  /\ found' = [found EXCEPT ![t] = FALSE]
  /\ iLock' = [i \in Interactions |-> IF iLock[i] = t THEN None ELSE iLock[i]]
  /\ tLock' = [x \in Targets |-> IF tLock[x] = t THEN None ELSE tLock[x]]

Perform(i) ==
  /\ status[i] = "absent"
  /\ status' = [status EXCEPT ![i] = "initiated"]
  /\ UNCHANGED <<answered, state, effects, discovered, reveals, iLock, tLock, pc, call, work>>

\* An administrator cancels an interaction, or marks it failed, which is as
\* terminal; a terminal status is irreversible.
Close(i) ==
  /\ status[i] \in {"initiated", "resolving"}
  /\ iLock[i] = None
  /\ status' = [status EXCEPT ![i] = "cancelled"]
  /\ UNCHANGED <<answered, state, effects, discovered, reveals, iLock, tLock, pc, call, work>>

ResolveCheck(t, c) ==
  /\ status[InteractionOf[c.request]] # "absent"
  /\ Goto(t, "idle", "select")
  /\ call' = [call EXCEPT ![t] = c]
  /\ UNCHANGED <<db, iLock, tLock, work>>

SelectInteraction(t) ==
  /\ Goto(t, "select", "insert")
  /\ WaitsFor(t) = {}
  /\ status[Interaction(t)] \notin Terminal
  /\ iLock' = [iLock EXCEPT ![Interaction(t)] = t]
  /\ UNCHANGED <<db, tLock, call, work>>

Refuse(t) ==
  /\ pc[t] = "select"
  /\ WaitsFor(t) = {}
  /\ status[Interaction(t)] \in Terminal
  /\ End(t)
  /\ UNCHANGED db

\* The BEFORE trigger reads the status once more.
InsertResult(t) ==
  /\ Goto(t, "insert", "advance")
  /\ status[Interaction(t)] \in {"initiated", "resolving"}
  /\ Request(t) \notin answered
  /\ WaitsFor(t) = {}
  /\ UNCHANGED <<db, iLock, tLock, call, work>>

\* The request has its result: ux_check_results_one_per_request.
InsertFails(t) ==
  /\ pc[t] = "insert"
  /\ status[Interaction(t)] \in Terminal \/ Request(t) \in answered
  /\ End(t)
  /\ UNCHANGED db

\* Mutant of Advanced: the trigger fires before the INSERT.
AdvancedBefore(i, r) ==
  IF status[i] \in Terminal THEN status[i]
  ELSE IF \A q \in Requests : InteractionOf[q] = i => q \in answered
  THEN "resolved"
  ELSE "resolving"

Advanced(i, r) ==
  IF status[i] \in Terminal THEN status[i]
  ELSE IF \A q \in Requests : InteractionOf[q] = i => q \in answered \cup {r}
  THEN "resolved"
  ELSE "resolving"

\* The AFTER trigger locks the interaction before it counts.
Advance(t) ==
  /\ Goto(t, "advance", "react")
  /\ WaitsFor(t) = {}
  /\ iLock' = [iLock EXCEPT ![Interaction(t)] = t]
  /\ next' = [next EXCEPT ![t] = Advanced(Interaction(t), Request(t))]
  /\ UNCHANGED <<db, tLock, call, change, found>>

\* Mutant of React: the row of the target is not locked.
ReactUnlocked(t) ==
  /\ Goto(t, "react", "discover")
  /\ change' = [change EXCEPT ![t] =
       IF Outcome(t) \in {None, state[Target(t)]} THEN None
       ELSE [from |-> state[Target(t)], to |-> Outcome(t)]]
  /\ UNCHANGED <<db, iLock, tLock, call, next, found>>

React(t) ==
  /\ Goto(t, "react", "discover")
  /\ WaitsFor(t) = {}
  /\ tLock' = IF LocksTarget(t) THEN [tLock EXCEPT ![Target(t)] = t] ELSE tLock
  /\ change' = [change EXCEPT ![t] =
       IF Outcome(t) \in {None, state[Target(t)]} THEN None
       ELSE [from |-> state[Target(t)], to |-> Outcome(t)]]
  /\ UNCHANGED <<db, iLock, call, next, found>>

\* Whether the party has discovered the target is read without a lock.
Finds(t) ==
  /\ call[t].won /\ call[t].party # None
  /\ Target(t) \in Discoverable
  /\ Discovery(t) \notin discovered

Discover(t) ==
  /\ \/ Goto(t, "discover", "record") /\ Finds(t)
     \/ Goto(t, "discover", "commit") /\ ~Finds(t)
  /\ UNCHANGED <<db, iLock, tLock, call, work>>

\* Mutant of RecordDiscovery: ON CONFLICT DO NOTHING.
RecordDiscoveryQuietly(t) ==
  /\ Goto(t, "record", "effect")
  /\ found' = [found EXCEPT ![t] = TRUE]
  /\ UNCHANGED <<db, iLock, tLock, call, next, change>>

RecordDiscovery(t) ==
  /\ Goto(t, "record", "effect")
  /\ Discovery(t) \notin discovered
  /\ WaitsFor(t) = {}
  /\ found' = [found EXCEPT ![t] = TRUE]
  /\ UNCHANGED <<db, iLock, tLock, call, next, change>>

\* Another check got there first: ux_party_discoveries_party fails the whole
\* request, the result of the check with it.
DiscoveryConflicts(t) ==
  /\ pc[t] = "record"
  /\ Discovery(t) \in discovered
  /\ End(t)
  /\ UNCHANGED db

\* The effect 'discovered' of the target is inserted.
RecordEffect(t) ==
  /\ Goto(t, "effect", "commit")
  /\ WaitsFor(t) = {}
  /\ UNCHANGED <<db, iLock, tLock, call, work>>

Commit(t) ==
  /\ pc[t] = "commit"
  /\ status' = [status EXCEPT ![Interaction(t)] = next[t]]
  /\ answered' = answered \cup {Request(t)}
  /\ IF change[t] = None
     THEN UNCHANGED <<state, effects>>
     ELSE /\ state' = [state EXCEPT ![Target(t)] = change[t].to]
          /\ effects' = [effects EXCEPT ![Target(t)] = Append(@,
               [from |-> change[t].from, to |-> change[t].to, by |-> Interaction(t)])]
  /\ IF found[t]
     THEN /\ discovered' = discovered \cup {Discovery(t)}
          /\ reveals' = [reveals EXCEPT ![Discovery(t)] = Append(@, Interaction(t))]
     ELSE UNCHANGED <<discovered, reveals>>
  /\ End(t)

\* A statement fails or the connection breaks.
Rollback(t) ==
  /\ pc[t] # "idle"
  /\ End(t)
  /\ UNCHANGED db

Progress(t) ==
  \/ SelectInteraction(t) \/ Refuse(t)
  \/ InsertResult(t) \/ InsertFails(t) \/ Advance(t)
  \/ React(t)
  \/ Discover(t) \/ RecordDiscovery(t) \/ DiscoveryConflicts(t) \/ RecordEffect(t)
  \/ Commit(t)

Next ==
  \/ \E i \in Interactions : Perform(i) \/ Close(i)
  \/ \E t \in Txs, c \in Calls : ResolveCheck(t, c)
  \/ \E t \in Txs : Progress(t) \/ Rollback(t)

Spec == Init /\ [][Next]_vars
-----------------------------------------------------------------------------
\* An interaction that the checks resolved has all its answers, one that still
\* waits lacks some, and one that has an answer takes no further request: two
\* checks resolved at once never count past each other (migration 072).
StatusCountsAnswers ==
  \A i \in Interactions :
    LET asked == {r \in Requests : InteractionOf[r] = i}
    IN /\ status[i] = "resolved" => asked \subseteq answered
       /\ status[i] = "resolving" => asked \cap answered # {} /\ ~(asked \subseteq answered)
       /\ status[i] \in {"absent", "initiated"} => asked \cap answered = {}

\* The event effects of a target form a chain from no state to its state, and
\* none of them changes nothing: of two checks that open one route, or fail to
\* disarm one trap, one records an event.
EffectsExplainState ==
  \A x \in Targets :
    LET es == effects[x]
    IN /\ \A n \in 1 .. Len(es) :
            /\ es[n].from = IF n = 1 THEN None ELSE es[n - 1].to
            /\ es[n].from # es[n].to
       /\ state[x] = IF es = <<>> THEN None ELSE es[Len(es)].to

\* A target is revealed to a party by one event, the one whose discovery is
\* recorded, although nothing is locked when the discovery is looked for.
RevealedOnce ==
  \A p \in Parties, x \in Targets :
    Len(reveals[<<p, x>>]) = IF <<p, x>> \in discovered THEN 1 ELSE 0

\* Nothing happens on behalf of an interaction after it ended.
EffectsBy(i) ==
  UNION {{<<x, n>> : n \in {m \in DOMAIN effects[x] : effects[x][m].by = i}} : x \in Targets}

NoEffectOfEndedInteraction ==
  [][\A i \in Interactions :
       status[i] \in Terminal =>
         status'[i] = status[i] /\ EffectsBy(i)' = EffectsBy(i)]_vars

\* A check that succeeded and changes nothing has claimed the discovery of its
\* target without a lock on it; another one has locked the target to change it
\* and waits for that discovery, and the first now waits for the lock.
WaitForEachOther(t, u) ==
  /\ pc[t] = "effect" /\ Outcome(t) = None /\ KindOf[Target(t)] # "connection"
  /\ pc[u] = "record" /\ Discovery(u) = Discovery(t)
  /\ tLock[Target(t)] = u

\* Any open transactions that wait for each other in a circle have two of that
\* shape among them.  Otherwise the rows are taken in the order interaction,
\* target, discovery, and the checks of a connection, which all lock it, never
\* deadlock.
DeadlockNeedsBystander ==
  \A S \in (SUBSET Open) \ {{}} :
    \/ \E t \in S : WaitsFor(t) \subseteq Open \ S
    \/ \E t, u \in S : WaitForEachOther(t, u)
-----------------------------------------------------------------------------
(* The inductive invariant that the proofs rest on. *)

\* The interaction belongs to the transaction that locked it, so that what the
\* transaction read of it still stands.
HoldsInteraction(t) ==
  /\ iLock[Interaction(t)] = t
  /\ status[Interaction(t)] \notin Terminal \cup {"absent"}

\* What a transaction wrote fits the rows it will be committed to.
Fits(t) ==
  /\ Request(t) \notin answered
  /\ pc[t] \in {"react", "discover", "record", "effect", "commit"} =>
       next[t] = Advanced(Interaction(t), Request(t))
  /\ pc[t] \in {"discover", "record", "effect", "commit"} /\ change[t] # None =>
       /\ change[t].from = state[Target(t)] /\ change[t].from # change[t].to
       /\ tLock[Target(t)] = t

TxInv(t) ==
  /\ pc[t] = "idle" =>
       /\ \A i \in Interactions : iLock[i] # t
       /\ \A x \in Targets : tLock[x] # t
  /\ pc[t] # "idle" => call[t] \in Calls /\ status[Interaction(t)] # "absent"
  /\ pc[t] \in Writing \cup {"insert"} => HoldsInteraction(t)
  /\ pc[t] \in Writing => Fits(t)
  /\ pc[t] = "record" => call[t].party \in Parties
  /\ found[t] => /\ pc[t] \in {"effect", "commit"} /\ call[t].party \in Parties
                 /\ Discovery(t) \notin discovered

FindsApart ==
  \A t, u \in Txs : found[t] /\ found[u] /\ t # u => Discovery(t) # Discovery(u)

IInv ==
  /\ TypeOK /\ FindsApart
  /\ \A t \in Txs : TxInv(t)
  /\ StatusCountsAnswers /\ EffectsExplainState /\ RevealedOnce

\* Where a transaction is once it has locked a row, and which rows those are.
Reacted == {"discover", "record", "effect", "commit"}

LocksOf(t) ==
  /\ \A i \in Interactions : iLock[i] = t => pc[t] \in Writing \cup {"insert"}
  /\ \A x \in Targets : tLock[x] = t => pc[t] \in Reacted /\ x = Target(t)
  /\ pc[t] \in Reacted /\ LocksTarget(t) => tLock[Target(t)] = t
  /\ pc[t] = "effect" => found[t]

LocksFit == \A t \in Txs : LocksOf(t)
=============================================================================
