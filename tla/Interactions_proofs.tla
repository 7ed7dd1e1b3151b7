-------------------------- MODULE Interactions_proofs --------------------------
(* Checks resolved at the same time neither count past each other nor act    *)
(* twice, for any number of interactions, checks, targets, parties and       *)
(* transactions.                                                             *)
EXTENDS Interactions, SequenceTheorems, TLAPS

USE InteractionsAssumption

\* The initial state satisfies the inductive invariant.
LEMMA InitIInv == Init => IInv
<1> SUFFICES ASSUME Init PROVE IInv
  OBVIOUS
<1>1. TypeOK
  BY DEF Init, TypeOK, Statuses
<1>2. FindsApart /\ \A t \in Txs : TxInv(t)
  BY DEF Init, FindsApart, TxInv, Writing
<1>3. StatusCountsAnswers
  BY DEF Init, StatusCountsAnswers
<1>4. EffectsExplainState
  BY DEF Init, EffectsExplainState
<1>5. RevealedOnce
  BY DEF Init, RevealedOnce
<1> QED
  BY <1>1, <1>2, <1>3, <1>4, <1>5 DEF IInv

\* The types of what the transactions have under way.
TxTypes ==
  /\ iLock \in [Interactions -> Txs \cup {None}]
  /\ tLock \in [Targets -> Txs \cup {None}]
  /\ pc \in [Txs -> {"idle", "select", "insert", "advance", "react", "discover", "record",
                 "effect", "commit"}]
  /\ call \in [Txs -> Calls \cup {None}]
  /\ next \in [Txs -> Statuses]
  /\ change \in [Txs -> Changes \cup {None}]
  /\ found \in [Txs -> BOOLEAN]

LEMMA TypesOfWork ==
  /\ TypeOK => TxTypes
  /\ TypeOK /\ UNCHANGED db /\ TxTypes' => TypeOK'
  BY DEF TypeOK, TxTypes, db

\* A call names a request, and through it an interaction and a target.
LEMMA CallParts ==
  ASSUME NEW t \in Txs, call[t] \in Calls
  PROVE  /\ Request(t) \in Requests /\ Interaction(t) \in Interactions /\ Target(t) \in Targets
         /\ call[t].party \in Parties \cup {None}
  BY DEF Calls, Request, Interaction, Target

\* What the other transactions have and know is as before: a step of t gives
\* and takes no lock but its own.
OthersKeep(t) ==
  /\ \A u \in Txs : u # t =>
       /\ pc'[u] = pc[u] /\ call'[u] = call[u]
       /\ next'[u] = next[u] /\ change'[u] = change[u] /\ found'[u] = found[u]
  /\ \A i \in Interactions : \A u \in Txs : u # t => (iLock'[i] = u <=> iLock[i] = u)
  /\ \A x \in Targets : \A u \in Txs : u # t => (tLock'[x] = u <=> tLock[x] = u)

\* A transaction knows what it knew if nothing but the locks of others change.
LEMMA Frame ==
  ASSUME NEW t \in Txs, NEW u \in Txs, u # t, OthersKeep(t), UNCHANGED db, TxInv(u)
  PROVE  TxInv(u)'
<1>1. /\ pc'[u] = pc[u] /\ call'[u] = call[u]
      /\ next'[u] = next[u] /\ change'[u] = change[u] /\ found'[u] = found[u]
      /\ UNCHANGED <<status, answered, state, effects, discovered, reveals>>
  BY DEF OthersKeep, db
<1>2. /\ Request(u)' = Request(u) /\ Interaction(u)' = Interaction(u)
      /\ Target(u)' = Target(u) /\ Discovery(u)' = Discovery(u)
  BY <1>1 DEF Request, Interaction, Target, Discovery
<1>3. ASSUME pc[u] = "idle" PROVE TxInv(u)'
  BY <1>1, <1>3 DEF TxInv, OthersKeep, Writing
<1>4. ASSUME pc[u] # "idle" PROVE TxInv(u)'
  <2>1. Interaction(u) \in Interactions /\ Target(u) \in Targets
    BY <1>4, CallParts DEF TxInv
  <2>2. iLock'[Interaction(u)] = u <=> iLock[Interaction(u)] = u
    BY <2>1 DEF OthersKeep
  <2>3. tLock'[Target(u)] = u <=> tLock[Target(u)] = u
    BY <2>1 DEF OthersKeep
  <2>4. HoldsInteraction(u) => HoldsInteraction(u)'
    BY <1>1, <1>2, <2>2 DEF HoldsInteraction
  <2>5. Fits(u) => Fits(u)'
    BY <1>1, <1>2, <2>3 DEF Fits, Advanced
  <2> QED
    BY <1>1, <1>2, <1>4, <2>4, <2>5 DEF TxInv
<1> QED
  BY <1>3, <1>4

\* A step of one transaction that commits nothing preserves the invariant if
\* what the transaction itself knows is right.
LEMMA OwnStep ==
  ASSUME IInv, TypeOK', NEW t \in Txs, OthersKeep(t), UNCHANGED db, TxInv(t)',
         found'[t] => \A u \in Txs : u # t /\ found[u] => Discovery(u) # Discovery(t)'
  PROVE  IInv'
<1>1. \A u \in Txs : TxInv(u)'
  BY Frame DEF IInv
<1>2. \A u \in Txs : u # t => found'[u] = found[u] /\ Discovery(u)' = Discovery(u)
  BY DEF OthersKeep, Discovery, Target, Request
<1>3. FindsApart'
  BY <1>2 DEF IInv, FindsApart
<1>4. StatusCountsAnswers'
  BY DEF IInv, StatusCountsAnswers, db
<1>5. EffectsExplainState'
  BY DEF IInv, EffectsExplainState, db
<1>6. RevealedOnce'
  BY DEF IInv, RevealedOnce, db
<1> QED
  BY <1>1, <1>3, <1>4, <1>5, <1>6 DEF IInv

\* What is known of a transaction under way.
LEMMA Running ==
  ASSUME IInv, NEW t \in Txs, pc[t] # "idle"
  PROVE  /\ TypeOK /\ TxInv(t) /\ call[t] \in Calls
         /\ Request(t) \in Requests /\ Interaction(t) \in Interactions /\ Target(t) \in Targets
         /\ Advanced(Interaction(t), Request(t)) \in Statuses \ {"absent"}
<1>1. TypeOK /\ TxInv(t) /\ call[t] \in Calls
  BY DEF IInv, TxInv
<1>2. Request(t) \in Requests /\ Interaction(t) \in Interactions /\ Target(t) \in Targets
  BY <1>1, CallParts
<1>3. Advanced(Interaction(t), Request(t)) \in Statuses \ {"absent"}
  BY <1>1, <1>2 DEF TypeOK, Advanced, Statuses, Terminal
<1> QED
  BY <1>1, <1>2, <1>3

\* The end of a transaction gives back its locks.
LEMMA EndStep ==
  ASSUME IInv, NEW t \in Txs, End(t)
  PROVE  /\ OthersKeep(t) /\ pc'[t] = "idle" /\ ~found'[t]
         /\ \A i \in Interactions : iLock'[i] # t
         /\ \A x \in Targets : tLock'[x] # t
         /\ iLock' \in [Interactions -> Txs \cup {None}]
         /\ tLock' \in [Targets -> Txs \cup {None}]
         /\ pc' \in [Txs -> {"idle", "select", "insert", "advance", "react", "discover",
                             "record", "effect", "commit"}]
         /\ call' \in [Txs -> Calls \cup {None}] /\ next' \in [Txs -> Statuses]
         /\ change' \in [Txs -> Changes \cup {None}] /\ found' \in [Txs -> BOOLEAN]
  BY DEF IInv, TypeOK, End, OthersKeep, Statuses

LEMMA AbortStep ==
  ASSUME IInv, NEW t \in Txs, End(t), UNCHANGED db
  PROVE  IInv'
<1>1. TypeOK'
  BY EndStep DEF IInv, TypeOK, db
<1>2. TxInv(t)'
  BY EndStep DEF TxInv, Writing
<1> QED
  BY <1>1, <1>2, EndStep, OwnStep

\* What a transaction finds when it does not wait.
LEMMA Unblocked ==
  ASSUME IInv, NEW t \in Txs, pc[t] # "idle", WaitsFor(t) = {}
  PROVE  /\ pc[t] = "select" => iLock[Interaction(t)] = None
         /\ pc[t] = "react" /\ LocksTarget(t) => tLock[Target(t)] = None
         /\ pc[t] = "record" => \A u \in Txs : found[u] => Discovery(u) # Discovery(t)
<1>1. TypeOK /\ Interaction(t) \in Interactions /\ Target(t) \in Targets
  BY Running
<1>2. iLock[Interaction(t)] \in Txs \cup {None} /\ tLock[Target(t)] \in Txs \cup {None}
  BY <1>1 DEF TypeOK
<1>3. \A u \in Txs : u \notin WaitsFor(t)
  OBVIOUS
<1> QED
  BY <1>2, <1>3 DEF WaitsFor

LEMMA CallStep ==
  ASSUME IInv, NEW t \in Txs, NEW c \in Calls, ResolveCheck(t, c)
  PROVE  IInv'
<1>1. /\ TypeOK /\ TxInv(t) /\ pc[t] = "idle" /\ pc' = [pc EXCEPT ![t] = "select"]
      /\ call' = [call EXCEPT ![t] = c] /\ UNCHANGED <<iLock, tLock, next, change, found>>
      /\ UNCHANGED db /\ status[InteractionOf[c.request]] # "absent"
  BY DEF IInv, ResolveCheck, Goto, work
<1>2. TypeOK' /\ OthersKeep(t)
  BY <1>1 DEF TypeOK, OthersKeep, db
<1>3. pc'[t] = "select" /\ call'[t] = c /\ found'[t] = FALSE /\ Interaction(t)' = InteractionOf[c.request]
  BY <1>1 DEF TypeOK, TxInv, Interaction, Request
<1>4. TxInv(t)'
  BY <1>1, <1>3 DEF TxInv, Writing, db
<1> QED
  BY <1>1, <1>2, <1>3, <1>4, OwnStep

LEMMA SelectStep ==
  ASSUME IInv, NEW t \in Txs, SelectInteraction(t)
  PROVE  IInv'
<1>1. /\ pc[t] = "select" /\ pc' = [pc EXCEPT ![t] = "insert"]
      /\ iLock[Interaction(t)] = None /\ status[Interaction(t)] \notin Terminal
      /\ iLock' = [iLock EXCEPT ![Interaction(t)] = t]
      /\ UNCHANGED <<tLock, call, next, change, found>> /\ UNCHANGED db
  BY Unblocked DEF SelectInteraction, Goto, work
<1>2. TypeOK /\ TxInv(t) /\ call[t] \in Calls /\ Interaction(t) \in Interactions
  BY <1>1, Running
<1>3. TypeOK' /\ OthersKeep(t)
  BY <1>1, <1>2 DEF TypeOK, OthersKeep, db
<1>4. pc'[t] = "insert" /\ call'[t] = call[t] /\ found'[t] = FALSE
      /\ Interaction(t)' = Interaction(t) /\ iLock'[Interaction(t)] = t
      /\ UNCHANGED status
  BY <1>1, <1>2 DEF TypeOK, TxInv, Interaction, Request, db
<1>5. TxInv(t)'
  BY <1>1, <1>2, <1>4 DEF TxInv, Writing, HoldsInteraction
<1> QED
  BY <1>1, <1>3, <1>4, <1>5, OwnStep

LEMMA InsertStep ==
  ASSUME IInv, NEW t \in Txs, InsertResult(t)
  PROVE  IInv'
<1>1. /\ pc[t] = "insert" /\ pc' = [pc EXCEPT ![t] = "advance"] /\ Request(t) \notin answered
      /\ UNCHANGED <<iLock, tLock, call, next, change, found>> /\ UNCHANGED db
  BY DEF InsertResult, Goto, work
<1>2. TypeOK /\ TxInv(t) /\ call[t] \in Calls
  BY <1>1, Running
<1>3. TypeOK' /\ OthersKeep(t)
  BY <1>1, <1>2 DEF TypeOK, OthersKeep, db
<1>4. pc'[t] = "advance" /\ found'[t] = FALSE /\ Request(t)' = Request(t)
      /\ Interaction(t)' = Interaction(t) /\ UNCHANGED <<status, answered>>
  BY <1>1, <1>2 DEF TypeOK, TxInv, Interaction, Request, db
<1>5. TxInv(t)'
  BY <1>1, <1>2, <1>4 DEF TxInv, Writing, HoldsInteraction, Fits
<1> QED
  BY <1>1, <1>3, <1>4, <1>5, OwnStep

LEMMA AdvanceStep ==
  ASSUME IInv, NEW t \in Txs, Advance(t)
  PROVE  IInv'
<1>1. /\ pc[t] = "advance" /\ pc' = [pc EXCEPT ![t] = "react"]
      /\ iLock' = [iLock EXCEPT ![Interaction(t)] = t]
      /\ next' = [next EXCEPT ![t] = Advanced(Interaction(t), Request(t))]
      /\ UNCHANGED <<tLock, call, change, found>> /\ UNCHANGED db
  BY DEF Advance, Goto
<1>2. /\ TypeOK /\ TxInv(t) /\ call[t] \in Calls /\ Interaction(t) \in Interactions
      /\ Advanced(Interaction(t), Request(t)) \in Statuses
  BY <1>1, Running
<1>3. iLock[Interaction(t)] = t /\ HoldsInteraction(t) /\ Fits(t)
  BY <1>1, <1>2 DEF TxInv, Writing, HoldsInteraction
<1>4. UNCHANGED iLock
  BY <1>1, <1>2, <1>3 DEF TypeOK
<1>5. OthersKeep(t)
  BY <1>1, <1>2, <1>4 DEF TypeOK, OthersKeep
<1>a. TypeOK'
  <2>1. TxTypes'
    BY <1>1, <1>2, <1>4, TypesOfWork DEF TxTypes
  <2> QED
    BY <1>1, <1>2, <2>1, TypesOfWork
<1>6. /\ pc'[t] = "react" /\ found'[t] = FALSE /\ Request(t)' = Request(t)
      /\ Interaction(t)' = Interaction(t) /\ UNCHANGED <<status, answered>>
      /\ next'[t] = Advanced(Interaction(t), Request(t))
  BY <1>1, <1>2 DEF TypeOK, TxInv, Interaction, Request, db
<1>7. Advanced(Interaction(t), Request(t))' = Advanced(Interaction(t), Request(t))
  BY <1>6 DEF Advanced
<1>8. TxInv(t)'
  BY <1>1, <1>2, <1>3, <1>4, <1>6, <1>7 DEF TxInv, Writing, HoldsInteraction, Fits
<1> QED
  BY <1>1, <1>5, <1>a, <1>6, <1>8, OwnStep

\* The reaction locks a target whose state it writes.
LEMMA ReactStep ==
  ASSUME IInv, NEW t \in Txs, React(t)
  PROVE  IInv'
<1> DEFINE w == IF Outcome(t) \in {None, state[Target(t)]} THEN None
                ELSE [from |-> state[Target(t)], to |-> Outcome(t)]
<1>1. /\ pc[t] = "react" /\ pc' = [pc EXCEPT ![t] = "discover"]
      /\ tLock' = IF LocksTarget(t) THEN [tLock EXCEPT ![Target(t)] = t] ELSE tLock
      /\ LocksTarget(t) => tLock[Target(t)] = None
      /\ change' = [change EXCEPT ![t] = w]
      /\ UNCHANGED <<iLock, call, next, found>> /\ UNCHANGED db
  BY Unblocked DEF React, Goto
<1>2. /\ TypeOK /\ TxInv(t) /\ call[t] \in Calls /\ Interaction(t) \in Interactions
      /\ Target(t) \in Targets
  BY <1>1, Running
<1>3. /\ w \in Changes \cup {None}
      /\ w # None => /\ w.from = state[Target(t)] /\ w.from # w.to /\ LocksTarget(t)
  <2>1. state[Target(t)] \in Codes \cup {None} /\ Outcome(t) \in Codes \cup {None}
    BY <1>2 DEF TypeOK, Outcome, Codes
  <2>2. CASE Outcome(t) \in {None, state[Target(t)]}
    BY <2>2
  <2>3. CASE Outcome(t) \notin {None, state[Target(t)]}
    <3>1. w = [from |-> state[Target(t)], to |-> Outcome(t)] /\ Outcome(t) # state[Target(t)]
          /\ Outcome(t) \in Codes /\ LocksTarget(t)
      BY <2>1, <2>3 DEF LocksTarget
    <3> QED
      BY <2>1, <3>1 DEF Changes
  <2> QED
    BY <2>2, <2>3
<1> HIDE DEF w
<1>4. TypeOK'
  <2>a. tLock' \in [Targets -> Txs \cup {None}]
    <3>1. tLock \in [Targets -> Txs \cup {None}]
      BY <1>2 DEF TypeOK
    <3>2. CASE LocksTarget(t)
      BY <1>1, <3>1, <3>2
    <3>3. CASE ~LocksTarget(t)
      BY <1>1, <3>1, <3>3
    <3> QED
      BY <3>2, <3>3
  <2>b. change' \in [Txs -> Changes \cup {None}]
    <3>1. change \in [Txs -> Changes \cup {None}] /\ change' = [change EXCEPT ![t] = w]
      BY <1>1, <1>2 DEF TypeOK
    <3> QED
      BY <1>3, <3>1
  <2>1. tLock' \in [Targets -> Txs \cup {None}] /\ change' \in [Txs -> Changes \cup {None}]
    BY <2>a, <2>b
  <2>2. pc' \in [Txs -> {"idle", "select", "insert", "advance", "react", "discover", "record",
                 "effect", "commit"}]
        /\ UNCHANGED <<iLock, call, next, found>>
    BY <1>1, <1>2 DEF TypeOK
  <2>3. TxTypes
    BY <1>2, TypesOfWork
  <2>4. TxTypes'
    BY <2>1, <2>2, <2>3 DEF TxTypes
  <2> QED
    BY <1>1, <1>2, <2>4, TypesOfWork
<1>5. OthersKeep(t)
  BY <1>1, <1>2 DEF TypeOK, OthersKeep
<1>6. /\ pc'[t] = "discover" /\ found'[t] = FALSE /\ Request(t)' = Request(t)
      /\ Interaction(t)' = Interaction(t) /\ UNCHANGED <<status, answered, state>>
      /\ change'[t] = w /\ Target(t)' = Target(t)
      /\ (LocksTarget(t) => tLock'[Target(t)] = t)
  BY <1>1, <1>2 DEF TypeOK, TxInv, Interaction, Request, Target, db
<1>7. Advanced(Interaction(t), Request(t))' = Advanced(Interaction(t), Request(t))
  BY <1>6 DEF Advanced
<1>8. HoldsInteraction(t) /\ Fits(t)
  BY <1>1, <1>2 DEF TxInv, Writing
<1>9. HoldsInteraction(t)' /\ Fits(t)'
  BY <1>1, <1>3, <1>6, <1>7, <1>8 DEF HoldsInteraction, Fits
<1>10. TxInv(t)'
  BY <1>1, <1>2, <1>6, <1>9 DEF TxInv, Writing
<1> QED
  BY <1>1, <1>4, <1>5, <1>6, <1>10, OwnStep

LEMMA DiscoverStep ==
  ASSUME IInv, NEW t \in Txs, Discover(t)
  PROVE  IInv'
<1>1. /\ pc[t] = "discover" /\ (pc' = [pc EXCEPT ![t] = "record"] \/ pc' = [pc EXCEPT ![t] = "commit"])
      /\ (pc'[t] = "record" /\ pc' = [pc EXCEPT ![t] = "record"] => call[t].party # None)
      /\ UNCHANGED <<iLock, tLock, call, next, change, found>> /\ UNCHANGED db
  BY DEF Discover, Goto, Finds, work, IInv, TypeOK
<1>2. /\ TypeOK /\ TxInv(t) /\ call[t] \in Calls
  BY <1>1, Running
<1>3. TypeOK' /\ OthersKeep(t)
  BY <1>1, <1>2 DEF TypeOK, OthersKeep, db
<1>4. /\ pc'[t] \in {"record", "commit"} /\ found'[t] = FALSE /\ Request(t)' = Request(t)
      /\ Interaction(t)' = Interaction(t) /\ Target(t)' = Target(t)
      /\ UNCHANGED <<status, answered, state>>
      /\ pc'[t] = "record" => call[t].party \in Parties
  BY <1>1, <1>2, CallParts DEF TypeOK, TxInv, Interaction, Request, Target, db
<1>5. Advanced(Interaction(t), Request(t))' = Advanced(Interaction(t), Request(t))
  BY <1>4 DEF Advanced
<1>6. HoldsInteraction(t) /\ Fits(t)
  BY <1>1, <1>2 DEF TxInv, Writing
<1>7. HoldsInteraction(t)' /\ Fits(t)'
  BY <1>1, <1>4, <1>5, <1>6 DEF HoldsInteraction, Fits
<1>8. TxInv(t)'
  BY <1>1, <1>2, <1>4, <1>7 DEF TxInv, Writing
<1> QED
  BY <1>1, <1>3, <1>4, <1>8, OwnStep

\* The unique index lets one discovery of a target by a party in.
LEMMA RecordStep ==
  ASSUME IInv, NEW t \in Txs, RecordDiscovery(t)
  PROVE  IInv'
<1>1. /\ pc[t] = "record" /\ pc' = [pc EXCEPT ![t] = "effect"] /\ found' = [found EXCEPT ![t] = TRUE]
      /\ UNCHANGED <<iLock, tLock, call, next, change>> /\ UNCHANGED db
      /\ Discovery(t) \notin discovered /\ \A u \in Txs : found[u] => Discovery(u) # Discovery(t)
  BY Unblocked DEF RecordDiscovery, Goto
<1>2. /\ TypeOK /\ TxInv(t) /\ call[t] \in Calls
  BY <1>1, Running
<1>3. TypeOK' /\ OthersKeep(t)
  BY <1>1, <1>2 DEF TypeOK, OthersKeep, db
<1>4. /\ pc'[t] = "effect" /\ Request(t)' = Request(t) /\ Discovery(t)' = Discovery(t)
      /\ Interaction(t)' = Interaction(t) /\ Target(t)' = Target(t)
      /\ UNCHANGED <<status, answered, state, discovered>> /\ call[t].party \in Parties
  BY <1>1, <1>2 DEF TypeOK, TxInv, Interaction, Request, Target, Discovery, db
<1>5. Advanced(Interaction(t), Request(t))' = Advanced(Interaction(t), Request(t))
  BY <1>4 DEF Advanced
<1>6. HoldsInteraction(t) /\ Fits(t)
  BY <1>1, <1>2 DEF TxInv, Writing
<1>7. HoldsInteraction(t)' /\ Fits(t)'
  BY <1>1, <1>4, <1>5, <1>6 DEF HoldsInteraction, Fits
<1>8. TxInv(t)'
  BY <1>1, <1>2, <1>4, <1>7 DEF TxInv, Writing
<1> QED
  BY <1>1, <1>3, <1>4, <1>8, OwnStep

\* The effect of the discovery takes a lock that nobody else relies on.
LEMMA EffectStep ==
  ASSUME IInv, NEW t \in Txs, RecordEffect(t)
  PROVE  IInv'
<1>1. /\ pc[t] = "effect" /\ pc' = [pc EXCEPT ![t] = "commit"]
      /\ UNCHANGED <<iLock, tLock, call, next, change, found>> /\ UNCHANGED db
  BY DEF RecordEffect, Goto, work
<1>2. /\ TypeOK /\ TxInv(t) /\ call[t] \in Calls
  BY <1>1, Running
<1>3. TypeOK' /\ OthersKeep(t)
  BY <1>1, <1>2 DEF TypeOK, OthersKeep, db
<1>4. /\ pc'[t] = "commit" /\ Request(t)' = Request(t) /\ Discovery(t)' = Discovery(t)
      /\ Interaction(t)' = Interaction(t) /\ Target(t)' = Target(t)
      /\ UNCHANGED <<status, answered, state, discovered>>
  BY <1>1, <1>2 DEF TypeOK, Interaction, Request, Target, Discovery, db
<1>5. Advanced(Interaction(t), Request(t))' = Advanced(Interaction(t), Request(t))
  BY <1>4 DEF Advanced
<1>6. HoldsInteraction(t) /\ Fits(t)
  BY <1>1, <1>2 DEF TxInv, Writing
<1>7. HoldsInteraction(t)' /\ Fits(t)'
  BY <1>1, <1>4, <1>5, <1>6 DEF HoldsInteraction, Fits
<1>8. TxInv(t)'
  BY <1>1, <1>2, <1>4, <1>7 DEF TxInv, Writing
<1>9. \A u \in Txs : u # t /\ found[t] /\ found[u] => Discovery(u) # Discovery(t)'
  BY <1>4 DEF IInv, FindsApart
<1> QED
  BY <1>1, <1>3, <1>8, <1>9, OwnStep

\* The status of an interaction that no transaction holds is set.
LEMMA StatusStep ==
  ASSUME IInv, NEW i \in Interactions, NEW s \in Statuses \ {"absent"},
         status' = [status EXCEPT ![i] = s], status[i] = "absent" \/ iLock[i] = None,
         UNCHANGED <<answered, state, effects, discovered, reveals, iLock, tLock, pc, call>>,
         UNCHANGED <<next, change, found>>, StatusCountsAnswers'
  PROVE  IInv'
<1>1. TypeOK
  BY DEF IInv
<1>2. TxTypes' /\ TypeOK'
  BY <1>1 DEF TypeOK, TxTypes
<1>3. ASSUME NEW u \in Txs PROVE TxInv(u)'
  <2>1. /\ Request(u)' = Request(u) /\ Interaction(u)' = Interaction(u)
        /\ Target(u)' = Target(u) /\ Discovery(u)' = Discovery(u)
    BY DEF Request, Interaction, Target, Discovery
  <2>2. CASE pc[u] = "idle"
    BY <2>1, <2>2 DEF IInv, TxInv, Writing
  <2>3. CASE pc[u] # "idle"
    <3>1. TxInv(u) /\ Interaction(u) \in Interactions
      BY <2>3, Running
    <3>2. status'[Interaction(u)] # "absent"
      BY <1>1, <2>3, <3>1 DEF TypeOK, TxInv
    <3>3. ASSUME HoldsInteraction(u) PROVE status'[Interaction(u)] = status[Interaction(u)]
      BY <1>1, <3>1, <3>3 DEF HoldsInteraction, TypeOK
    <3>4. HoldsInteraction(u) => HoldsInteraction(u)'
      BY <2>1, <3>3 DEF HoldsInteraction
    <3>5. HoldsInteraction(u) /\ Fits(u) => Fits(u)'
      BY <2>1, <3>3 DEF Fits, Advanced
    <3> QED
      BY <2>1, <2>3, <3>1, <3>2, <3>4, <3>5 DEF TxInv
  <2> QED
    BY <2>2, <2>3
<1>4. FindsApart'
  BY DEF IInv, FindsApart, Discovery, Target, Request
<1>5. EffectsExplainState'
  BY DEF IInv, EffectsExplainState
<1>6. RevealedOnce'
  BY DEF IInv, RevealedOnce
<1> QED
  BY <1>2, <1>3, <1>4, <1>5, <1>6 DEF IInv

LEMMA PerformStep ==
  ASSUME IInv, NEW i \in Interactions, Perform(i)
  PROVE  IInv'
<1>1. /\ status' = [status EXCEPT ![i] = "initiated"] /\ status[i] = "absent"
      /\ UNCHANGED <<answered, state, effects, discovered, reveals, iLock, tLock, pc, call>>
      /\ UNCHANGED <<next, change, found>>
  BY DEF Perform, work
<1>2. StatusCountsAnswers'
  BY <1>1 DEF IInv, TypeOK, StatusCountsAnswers
<1>3. "initiated" \in Statuses \ {"absent"}
  BY DEF Statuses
<1> QED
  BY <1>1, <1>2, <1>3, StatusStep

LEMMA CloseStep ==
  ASSUME IInv, NEW i \in Interactions, Close(i)
  PROVE  IInv'
<1>1. /\ status' = [status EXCEPT ![i] = "cancelled"] /\ iLock[i] = None
      /\ UNCHANGED <<answered, state, effects, discovered, reveals, iLock, tLock, pc, call>>
      /\ UNCHANGED <<next, change, found>>
  BY DEF Close, work
<1>2. StatusCountsAnswers'
  BY <1>1 DEF IInv, TypeOK, StatusCountsAnswers
<1>3. "cancelled" \in Statuses \ {"absent"}
  BY DEF Statuses, Terminal
<1> QED
  BY <1>1, <1>2, <1>3, StatusStep

\* What a commit does to the tables.
Wrote(t) ==
  /\ \A i \in Interactions :
       status'[i] = IF i = Interaction(t) THEN next[t] ELSE status[i]
  /\ answered' = answered \cup {Request(t)}
  /\ \A x \in Targets :
       IF x = Target(t) /\ change[t] # None
       THEN /\ state'[x] = change[t].to
            /\ effects'[x] = Append(effects[x],
                 [from |-> change[t].from, to |-> change[t].to, by |-> Interaction(t)])
       ELSE state'[x] = state[x] /\ effects'[x] = effects[x]
  /\ discovered' = IF found[t] THEN discovered \cup {Discovery(t)} ELSE discovered
  /\ \A p \in Parties, x \in Targets :
       IF found[t] /\ <<p, x>> = Discovery(t)
       THEN reveals'[<<p, x>>] = Append(reveals[<<p, x>>], Interaction(t))
       ELSE reveals'[<<p, x>>] = reveals[<<p, x>>]

LEMMA Effect ==
  ASSUME NEW w \in Changes, NEW i \in Interactions
  PROVE  /\ [from |-> w.from, to |-> w.to, by |-> i]
              \in [from : Codes \cup {None}, to : Codes, by : Interactions]
         /\ w.to \in Codes
  BY DEF Changes

LEMMA CommitWrites ==
  ASSUME IInv, NEW t \in Txs, Commit(t)
  PROVE  Wrote(t) /\ TypeOK'
<1>1. /\ pc[t] = "commit" /\ End(t)
      /\ status' = [status EXCEPT ![Interaction(t)] = next[t]]
      /\ answered' = answered \cup {Request(t)}
  BY DEF Commit
<1>2. /\ TypeOK /\ TxInv(t) /\ Request(t) \in Requests /\ Interaction(t) \in Interactions
      /\ Target(t) \in Targets /\ next[t] \in Statuses /\ change[t] \in Changes \cup {None}
      /\ found[t] \in BOOLEAN
  BY <1>1, Running DEF TypeOK
<1> DEFINE Es == [from : Codes \cup {None}, to : Codes, by : Interactions]
           e == [from |-> change[t].from, to |-> change[t].to, by |-> Interaction(t)]
<1>3. TxTypes'
  BY <1>1, EndStep DEF TxTypes
<1>4. /\ status' \in [Interactions -> Statuses] /\ answered' \subseteq Requests
      /\ \A i \in Interactions :
           status'[i] = IF i = Interaction(t) THEN next[t] ELSE status[i]
  BY <1>1, <1>2 DEF TypeOK
<1>5. /\ state' \in [Targets -> Codes \cup {None}] /\ effects' \in [Targets -> Seq(Es)]
      /\ \A x \in Targets :
           IF x = Target(t) /\ change[t] # None
           THEN state'[x] = change[t].to /\ effects'[x] = Append(effects[x], e)
           ELSE state'[x] = state[x] /\ effects'[x] = effects[x]
  <2>0. state \in [Targets -> Codes \cup {None}] /\ effects \in [Targets -> Seq(Es)]
    BY <1>2 DEF TypeOK
  <2>1. CASE change[t] = None
    <3>1. UNCHANGED <<state, effects>>
      BY <2>1 DEF Commit
    <3> QED
      BY <2>0, <2>1, <3>1
  <2>2. CASE change[t] # None
    <3>1. /\ state' = [state EXCEPT ![Target(t)] = change[t].to]
          /\ effects' = [effects EXCEPT ![Target(t)] = Append(@, e)]
      BY <2>2 DEF Commit
    <3>2. e \in Es /\ change[t].to \in Codes
      BY <1>2, <2>2, Effect
    <3> HIDE DEF e, Es
    <3>3. state' \in [Targets -> Codes \cup {None}]
      BY <2>0, <3>1, <3>2
    <3>4. effects' \in [Targets -> Seq(Es)]
      BY <1>2, <2>0, <3>1, <3>2
    <3>5. \A x \in Targets :
           IF x = Target(t)
           THEN state'[x] = change[t].to /\ effects'[x] = Append(effects[x], e)
           ELSE state'[x] = state[x] /\ effects'[x] = effects[x]
      BY <2>0, <3>1
    <3> QED
      BY <2>2, <3>3, <3>4, <3>5
  <2> QED
    BY <2>1, <2>2
<1>6. /\ discovered' \subseteq Parties \X Targets /\ reveals' \in [Parties \X Targets -> Seq(Interactions)]
      /\ discovered' = IF found[t] THEN discovered \cup {Discovery(t)} ELSE discovered
      /\ \A d \in Parties \X Targets :
           IF found[t] /\ d = Discovery(t)
           THEN reveals'[d] = Append(reveals[d], Interaction(t))
           ELSE reveals'[d] = reveals[d]
  <2>0. discovered \subseteq Parties \X Targets /\ reveals \in [Parties \X Targets -> Seq(Interactions)]
    BY <1>2 DEF TypeOK
  <2>1. CASE ~found[t]
    <3>1. UNCHANGED <<discovered, reveals>>
      BY <2>1 DEF Commit
    <3> QED
      BY <2>0, <2>1, <3>1
  <2>2. CASE found[t]
    <3>1. /\ discovered' = discovered \cup {Discovery(t)}
          /\ reveals' = [reveals EXCEPT ![Discovery(t)] = Append(@, Interaction(t))]
      BY <2>2 DEF Commit
    <3>2. Discovery(t) \in Parties \X Targets
      BY <1>2, <2>2 DEF TxInv, Discovery
    <3> QED
      BY <1>2, <2>0, <2>2, <3>1, <3>2
  <2> QED
    BY <1>2, <2>1, <2>2
<1>7. \A p \in Parties, x \in Targets : <<p, x>> \in Parties \X Targets
  OBVIOUS
<1>8. TypeOK'
  BY <1>3, <1>4, <1>5, <1>6 DEF TypeOK, TxTypes
<1>9. Wrote(t)
  BY <1>1, <1>4, <1>5, <1>6, <1>7 DEF Wrote
<1> QED
  BY <1>8, <1>9

\* The commit leaves alone what the other transactions hold.
LEMMA CommitOthers ==
  ASSUME IInv, NEW t \in Txs, pc[t] = "commit", End(t), Wrote(t), NEW u \in Txs, u # t
  PROVE  TxInv(u)'
<1>1. /\ pc'[u] = pc[u] /\ call'[u] = call[u]
      /\ next'[u] = next[u] /\ change'[u] = change[u] /\ found'[u] = found[u]
  BY EndStep DEF OthersKeep
<1>2. /\ Request(u)' = Request(u) /\ Interaction(u)' = Interaction(u)
      /\ Target(u)' = Target(u) /\ Discovery(u)' = Discovery(u)
  BY <1>1 DEF Request, Interaction, Target, Discovery
<1>3. /\ TxInv(t) /\ HoldsInteraction(t) /\ Fits(t) /\ TypeOK
      /\ Request(t) \in Requests /\ Interaction(t) \in Interactions /\ Target(t) \in Targets
      /\ next[t] \in Statuses \ {"absent"}
  BY Running DEF TxInv, Writing, Fits
<1>4. ASSUME pc[u] = "idle" PROVE TxInv(u)'
  <2>1. TxInv(u)
    BY DEF IInv
  <2>2. /\ \A i \in Interactions : iLock'[i] # u
        /\ \A x \in Targets : tLock'[x] # u
    <3>1. /\ \A i \in Interactions : iLock[i] # u
          /\ \A x \in Targets : tLock[x] # u
      BY <1>4, <2>1 DEF TxInv
    <3>2. OthersKeep(t)
      BY EndStep
    <3>3. /\ \A i \in Interactions : iLock'[i] = u <=> iLock[i] = u
          /\ \A x \in Targets : tLock'[x] = u <=> tLock[x] = u
      BY <3>2 DEF OthersKeep
    <3> QED
      BY <3>1, <3>3
  <2>3. pc'[u] = "idle" /\ ~found'[u]
    BY <1>1, <1>4, <2>1 DEF TxInv
  <2> QED
    BY <2>2, <2>3 DEF TxInv, Writing
<1>5. ASSUME pc[u] # "idle" PROVE TxInv(u)'
  <2>1. /\ TxInv(u) /\ call[u] \in Calls /\ Request(u) \in Requests
        /\ Interaction(u) \in Interactions /\ Target(u) \in Targets
    BY <1>5, Running
  <2>2. status'[Interaction(u)] # "absent"
    BY <1>3, <1>5, <2>1 DEF TxInv, Wrote
  <2>3. ASSUME HoldsInteraction(u)
        PROVE  Interaction(u) # Interaction(t) /\ HoldsInteraction(u)'
    <3>1. Interaction(u) # Interaction(t)
      BY <1>3, <2>3 DEF HoldsInteraction
    <3>2. iLock'[Interaction(u)] = u
      BY <2>1, <2>3, EndStep DEF HoldsInteraction, OthersKeep
    <3>3. status'[Interaction(u)] = status[Interaction(u)]
      BY <2>1, <3>1 DEF Wrote
    <3> QED
      BY <1>2, <2>3, <3>1, <3>2, <3>3 DEF HoldsInteraction
  <2>4. ASSUME HoldsInteraction(u), Fits(u) PROVE Fits(u)'
    <3>1. Request(u) # Request(t) /\ Request(u) \notin answered'
      BY <2>3, <2>4 DEF Interaction, Fits, Wrote
    <3>2. \A r \in Requests : InteractionOf[r] = Interaction(u) => (r \in answered' <=> r \in answered)
      BY <2>3, <2>4 DEF Wrote, Interaction
    <3>3. status'[Interaction(u)] = status[Interaction(u)]
      BY <2>1, <2>3, <2>4 DEF Wrote
    <3>4. Advanced(Interaction(u), Request(u))' = Advanced(Interaction(u), Request(u))
      BY <1>2, <3>2, <3>3 DEF Advanced
    <3>5. ASSUME pc[u] \in Reacted, change[u] # None
          PROVE  tLock'[Target(u)] = u /\ state'[Target(u)] = state[Target(u)]
      <4>1. tLock[Target(u)] = u
        BY <2>4, <3>5 DEF Fits, Reacted
      <4>2. ~(Target(u) = Target(t) /\ change[t] # None)
        BY <1>3, <4>1 DEF Fits
      <4> QED
        BY <2>1, <4>1, <4>2, EndStep DEF OthersKeep, Wrote
    <3> QED
      BY <1>1, <1>2, <2>4, <3>1, <3>4, <3>5 DEF Fits, Reacted
  <2>5. ASSUME found[u] PROVE Discovery(u) \notin discovered'
    BY <2>1, <2>5 DEF IInv, FindsApart, TxInv, Wrote
  <2> QED
    BY <1>1, <1>2, <1>5, <2>1, <2>2, <2>3, <2>4, <2>5 DEF TxInv
<1> QED
  BY <1>4, <1>5

\* The answers are counted under the lock of the interaction.
LEMMA CommitCounts ==
  ASSUME IInv, NEW t \in Txs, pc[t] = "commit", Wrote(t)
  PROVE  StatusCountsAnswers'
<1>1. /\ TxInv(t) /\ HoldsInteraction(t) /\ Request(t) \in Requests
      /\ Interaction(t) \in Interactions /\ StatusCountsAnswers
      /\ next[t] = Advanced(Interaction(t), Request(t)) /\ InteractionOf[Request(t)] = Interaction(t)
  BY Running DEF IInv, TxInv, Writing, Fits, Interaction
<1> SUFFICES ASSUME NEW i \in Interactions
             PROVE  LET asked == {r \in Requests : InteractionOf[r] = i}
                    IN /\ status'[i] = "resolved" => asked \subseteq answered'
                       /\ status'[i] = "resolving" =>
                            asked \cap answered' # {} /\ ~(asked \subseteq answered')
                       /\ status'[i] \in {"absent", "initiated"} => asked \cap answered' = {}
  BY DEF StatusCountsAnswers
<1>2. CASE i = Interaction(t)
  <2>1. next[t] = IF \A q \in Requests : InteractionOf[q] = i => q \in answered \cup {Request(t)}
                  THEN "resolved" ELSE "resolving"
    BY <1>1, <1>2 DEF HoldsInteraction, Advanced
  <2>2. status'[i] = next[t] /\ answered' = answered \cup {Request(t)}
    BY <1>2 DEF Wrote
  <2> QED
    BY <1>1, <1>2, <2>1, <2>2
<1>3. CASE i # Interaction(t)
  <2>1. status'[i] = status[i] /\ answered' = answered \cup {Request(t)}
    BY <1>3 DEF Wrote
  <2>2. \A r \in Requests : InteractionOf[r] = i => (r \in answered' <=> r \in answered)
    BY <1>1, <1>3, <2>1
  <2>3. LET asked == {r \in Requests : InteractionOf[r] = i}
        IN /\ status[i] = "resolved" => asked \subseteq answered
           /\ status[i] = "resolving" => asked \cap answered # {} /\ ~(asked \subseteq answered)
           /\ status[i] \in {"absent", "initiated"} => asked \cap answered = {}
    BY <1>1 DEF StatusCountsAnswers
  <2> QED
    BY <2>1, <2>2, <2>3
<1> QED
  BY <1>2, <1>3

\* The event records the state that the target was in.
LEMMA CommitExplains ==
  ASSUME IInv, NEW t \in Txs, pc[t] = "commit", Wrote(t)
  PROVE  EffectsExplainState'
<1>1. Fits(t) /\ EffectsExplainState /\ TypeOK
  BY Running DEF IInv, TxInv, Writing
<1> SUFFICES ASSUME NEW x \in Targets
             PROVE  LET es == effects'[x]
                    IN /\ \A n \in 1 .. Len(es) :
                            /\ es[n].from = IF n = 1 THEN None ELSE es[n - 1].to
                            /\ es[n].from # es[n].to
                       /\ state'[x] = IF es = <<>> THEN None ELSE es[Len(es)].to
  BY DEF EffectsExplainState
<1> DEFINE es == effects[x]
           e == [from |-> change[t].from, to |-> change[t].to, by |-> Interaction(t)]
<1>2. /\ \A n \in 1 .. Len(es) :
           /\ es[n].from = IF n = 1 THEN None ELSE es[n - 1].to
           /\ es[n].from # es[n].to
      /\ state[x] = IF es = <<>> THEN None ELSE es[Len(es)].to
      /\ es \in Seq([from : Codes \cup {None}, to : Codes, by : Interactions])
  BY <1>1 DEF EffectsExplainState, TypeOK
<1>3. CASE ~(x = Target(t) /\ change[t] # None)
  <2>1. state'[x] = state[x] /\ effects'[x] = es
    BY <1>3 DEF Wrote
  <2> QED
    BY <1>2, <2>1
<1>4. CASE x = Target(t) /\ change[t] # None
  <2>1. state'[x] = change[t].to /\ effects'[x] = Append(es, e)
    BY <1>4 DEF Wrote
  <2>2. change[t].from = state[x] /\ change[t].from # change[t].to
    BY <1>1, <1>4 DEF Fits
  <2>3. e.from = state[x] /\ e.to = change[t].to /\ e.from # e.to
    BY <2>2
  <2>a. e \in [from : Codes \cup {None}, to : Codes, by : Interactions]
    BY <1>1, <1>4, Running, Effect DEF TypeOK
  <2> HIDE DEF e, es
  <2>4. /\ Len(Append(es, e)) = Len(es) + 1 /\ Append(es, e)[Len(es) + 1] = e
        /\ \A n \in 1 .. Len(es) : Append(es, e)[n] = es[n]
        /\ Len(es) \in Nat /\ (es = <<>> <=> Len(es) = 0) /\ Append(es, e) # <<>>
    BY <1>2, <2>a, EmptySeq, AppendProperties
  <2>5. \A n \in 1 .. Len(es) + 1 :
          /\ Append(es, e)[n].from = IF n = 1 THEN None ELSE Append(es, e)[n - 1].to
          /\ Append(es, e)[n].from # Append(es, e)[n].to
    <3> SUFFICES ASSUME NEW n \in 1 .. Len(es) + 1
                 PROVE  /\ Append(es, e)[n].from = IF n = 1 THEN None ELSE Append(es, e)[n - 1].to
                        /\ Append(es, e)[n].from # Append(es, e)[n].to
      OBVIOUS
    <3>1. CASE n = Len(es) + 1
      BY <1>2, <2>3, <2>4, <3>1
    <3>2. CASE n \in 1 .. Len(es)
      <4>1. n = 1 \/ n - 1 \in 1 .. Len(es)
        BY <2>4, <3>2
      <4> QED
        BY <1>2, <2>4, <3>2, <4>1
    <3> QED
      BY <2>4, <3>1, <3>2
  <2> QED
    BY <2>1, <2>3, <2>4, <2>5
<1> QED
  BY <1>3, <1>4

LEMMA CommitReveals ==
  ASSUME IInv, NEW t \in Txs, pc[t] = "commit", Wrote(t)
  PROVE  RevealedOnce'
<1>1. TxInv(t) /\ RevealedOnce /\ TypeOK
  BY Running DEF IInv
<1> SUFFICES ASSUME NEW p \in Parties, NEW x \in Targets
             PROVE  Len(reveals'[<<p, x>>]) = IF <<p, x>> \in discovered' THEN 1 ELSE 0
  BY DEF RevealedOnce
<1>2. Len(reveals[<<p, x>>]) = (IF <<p, x>> \in discovered THEN 1 ELSE 0)
      /\ reveals[<<p, x>>] \in Seq(Interactions)
  BY <1>1 DEF RevealedOnce, TypeOK
<1>3. CASE found[t] /\ <<p, x>> = Discovery(t)
  <2>1. reveals'[<<p, x>>] = Append(reveals[<<p, x>>], Interaction(t)) /\ <<p, x>> \in discovered'
        /\ <<p, x>> \notin discovered
    BY <1>1, <1>3 DEF Wrote, TxInv
  <2> QED
    BY <1>2, <2>1
<1>4. CASE ~(found[t] /\ <<p, x>> = Discovery(t))
  <2>1. reveals'[<<p, x>>] = reveals[<<p, x>>] /\ (<<p, x>> \in discovered' <=> <<p, x>> \in discovered)
    BY <1>4 DEF Wrote
  <2> QED
    BY <1>2, <2>1
<1> QED
  BY <1>3, <1>4

LEMMA CommitStep ==
  ASSUME IInv, NEW t \in Txs, Commit(t)
  PROVE  IInv'
<1>1. pc[t] = "commit" /\ End(t) /\ Wrote(t) /\ TypeOK'
  BY CommitWrites DEF Commit
<1>2. TxInv(t)'
  BY <1>1, EndStep DEF TxInv, Writing
<1>3. \A u \in Txs : u # t => TxInv(u)'
  BY <1>1, CommitOthers
<1>4. FindsApart'
  <2>1. \A u \in Txs : u # t => found'[u] = found[u] /\ Discovery(u)' = Discovery(u)
    BY <1>1, EndStep DEF OthersKeep, Discovery, Target, Request
  <2> QED
    BY <1>1, <2>1, EndStep DEF IInv, FindsApart
<1>5. StatusCountsAnswers' /\ EffectsExplainState' /\ RevealedOnce'
  BY <1>1, CommitCounts, CommitExplains, CommitReveals
<1> QED
  BY <1>1, <1>2, <1>3, <1>4, <1>5 DEF IInv

\* Every step of the system preserves the inductive invariant.
LEMMA NextStep == IInv /\ [Next]_vars => IInv'
<1> SUFFICES ASSUME IInv, [Next]_vars PROVE IInv'
  OBVIOUS
<1>1. CASE UNCHANGED vars
  <2>1. UNCHANGED <<db, iLock, tLock, pc, call, next, change, found>>
    BY <1>1 DEF vars, work
  <2>2. TypeOK' /\ \A t \in Txs : OthersKeep(t)
    BY <2>1 DEF IInv, TypeOK, OthersKeep, db
  <2>3. \A t \in Txs : TxInv(t)'
    BY <2>1 DEF IInv, TxInv, HoldsInteraction, Fits, Advanced, Request, Interaction, Target,
                Discovery, db
  <2>4. FindsApart'
    BY <2>1 DEF IInv, FindsApart, Discovery, Target, Request
  <2>5. StatusCountsAnswers'
    BY <2>1 DEF IInv, StatusCountsAnswers, db
  <2>6. EffectsExplainState'
    BY <2>1 DEF IInv, EffectsExplainState, db
  <2>7. RevealedOnce'
    BY <2>1 DEF IInv, RevealedOnce, db
  <2> QED
    BY <2>2, <2>3, <2>4, <2>5, <2>6, <2>7 DEF IInv
<1>2. ASSUME NEW t \in Txs, Progress(t) \/ Rollback(t) PROVE IInv'
  <2>1. CASE Refuse(t) \/ InsertFails(t) \/ DiscoveryConflicts(t) \/ Rollback(t)
    BY <2>1, AbortStep DEF Refuse, InsertFails, DiscoveryConflicts, Rollback
  <2> QED
    BY <1>2, <2>1, SelectStep, InsertStep, AdvanceStep, ReactStep, DiscoverStep, RecordStep,
       EffectStep, CommitStep DEF Progress
<1> QED
  BY <1>1, <1>2, PerformStep, CloseStep, CallStep DEF Next

\* The inductive invariant holds in every reachable state.
THEOREM ChecksInvariant == Spec => []IInv
BY InitIInv, NextStep, PTL DEF Spec

\* Every variable keeps its type.
THEOREM TypeCorrect == Spec => []TypeOK
<1>1. IInv => TypeOK
  BY DEF IInv
<1> QED
  BY <1>1, ChecksInvariant, PTL

\* The status of an interaction says which of its checks have been answered,
\* however many are resolved at once.
THEOREM StatusIsCounted == Spec => []StatusCountsAnswers
<1>1. IInv => StatusCountsAnswers
  BY DEF IInv
<1> QED
  BY <1>1, ChecksInvariant, PTL

\* The events of a target explain its state.
THEOREM StateIsExplained == Spec => []EffectsExplainState
<1>1. IInv => EffectsExplainState
  BY DEF IInv
<1> QED
  BY <1>1, ChecksInvariant, PTL

\* One event reveals a target to a party.
THEOREM RevealIsRecorded == Spec => []RevealedOnce
<1>1. IInv => RevealedOnce
  BY DEF IInv
<1> QED
  BY <1>1, ChecksInvariant, PTL

\* A commit adds no effect of another interaction.
LEMMA EffectsOfOthers ==
  ASSUME IInv, NEW t \in Txs, pc[t] = "commit", Wrote(t),
         NEW i \in Interactions, i # Interaction(t), NEW x \in Targets
  PROVE  {n \in DOMAIN effects'[x] : effects'[x][n].by = i}
           = {n \in DOMAIN effects[x] : effects[x][n].by = i}
<1> DEFINE Es == [from : Codes \cup {None}, to : Codes, by : Interactions]
           es == effects[x]
           e == [from |-> change[t].from, to |-> change[t].to, by |-> Interaction(t)]
<1>1. es \in Seq(Es)
  BY DEF IInv, TypeOK
<1>2. CASE ~(x = Target(t) /\ change[t] # None)
  <2>1. effects'[x] = effects[x]
    BY <1>2 DEF Wrote
  <2> QED
    BY <2>1
<1>3. CASE x = Target(t) /\ change[t] # None
  <2>1. effects'[x] = Append(es, e)
    BY <1>3 DEF Wrote
  <2>2. e \in Es /\ e.by # i
    BY <1>3, Running, Effect DEF TypeOK
  <2> HIDE DEF es, e, Es
  <2>3. /\ DOMAIN es = 1 .. Len(es) /\ DOMAIN Append(es, e) = 1 .. Len(es) + 1 /\ Len(es) \in Nat
        /\ \A n \in 1 .. Len(es) : Append(es, e)[n] = es[n]
        /\ Append(es, e)[Len(es) + 1] = e
    BY <1>1, <2>2, AppendProperties, LenProperties
  <2>4. {n \in DOMAIN Append(es, e) : Append(es, e)[n].by = i} = {n \in DOMAIN es : es[n].by = i}
    BY <2>2, <2>3
  <2> QED
    BY <2>1, <2>4 DEF es
<1> QED
  BY <1>2, <1>3

LEMMA EndedStep ==
  ASSUME IInv, [Next]_vars, NEW i \in Interactions, status[i] \in Terminal
  PROVE  status'[i] = status[i] /\ EffectsBy(i)' = EffectsBy(i)
<1>1. TypeOK
  BY DEF IInv
<1>2. CASE UNCHANGED <<status, effects>>
  BY <1>2 DEF EffectsBy
<1>3. ASSUME NEW j \in Interactions, Perform(j) \/ Close(j)
      PROVE  status'[i] = status[i] /\ UNCHANGED effects
  BY <1>1, <1>3 DEF Perform, Close, TypeOK, Terminal
<1>4. ASSUME NEW t \in Txs, Commit(t)
      PROVE  status'[i] = status[i] /\ EffectsBy(i)' = EffectsBy(i)
  <2>1. pc[t] = "commit" /\ Wrote(t)
    BY <1>4, CommitWrites DEF Commit
  <2>2. i # Interaction(t)
    BY <2>1, Running DEF TxInv, Writing, HoldsInteraction
  <2>3. status'[i] = status[i]
    BY <2>1, <2>2 DEF Wrote
  <2>4. EffectsBy(i)' = EffectsBy(i)
    BY <2>1, <2>2, EffectsOfOthers DEF EffectsBy
  <2> QED
    BY <2>3, <2>4
<1>5. CASE \E t \in Txs : (\E c \in Calls : ResolveCheck(t, c)) \/ Rollback(t)
                         \/ (Progress(t) /\ ~Commit(t))
  BY <1>2, <1>5 DEF ResolveCheck, Rollback, Progress, SelectInteraction, Refuse, InsertResult,
     InsertFails, Advance, React, Discover, RecordDiscovery, DiscoveryConflicts, RecordEffect, db
<1>6. CASE UNCHANGED vars
  BY <1>2, <1>6 DEF vars, db
<1> QED
  BY <1>3, <1>4, <1>5, <1>6 DEF Next, Progress, EffectsBy

\* What happened on behalf of an interaction is final once the interaction has
\* ended: a check that is still being resolved then is refused.
THEOREM EndedStaysEnded == Spec => NoEffectOfEndedInteraction
<1>1. IInv /\ [Next]_vars =>
        \A i \in Interactions :
          status[i] \in Terminal => status'[i] = status[i] /\ EffectsBy(i)' = EffectsBy(i)
  BY EndedStep
<1> QED
  BY <1>1, ChecksInvariant, PTL DEF Spec, NoEffectOfEndedInteraction

\* The transactions that hold rows are where LocksFit says.
LEMMA LocksInit == Init => LocksFit
<1> SUFFICES ASSUME Init, NEW t \in Txs PROVE LocksOf(t)
  BY DEF LocksFit
<1>1. pc[t] = "idle" /\ t # None
  BY DEF Init
<1>2. /\ \A i \in Interactions : iLock[i] # t
      /\ \A x \in Targets : tLock[x] # t
  BY <1>1 DEF Init
<1> QED
  BY <1>1, <1>2 DEF LocksOf, Reacted

\* A transaction holds what it held when another one makes a step.
LEMMA LocksFrame ==
  ASSUME IInv, NEW t \in Txs, NEW u \in Txs, u # t, OthersKeep(t), LocksOf(u)
  PROVE  LocksOf(u)'
<1>1. pc'[u] = pc[u] /\ call'[u] = call[u] /\ found'[u] = found[u]
  BY DEF OthersKeep
<1>2. Target(u)' = Target(u) /\ (LocksTarget(u)' <=> LocksTarget(u))
  BY <1>1 DEF Target, Request, LocksTarget, Outcome, Interaction
<1>3. pc[u] \in Reacted => Target(u) \in Targets
  BY Running DEF Reacted
<1> QED
  BY <1>1, <1>2, <1>3 DEF LocksOf, OthersKeep

LEMMA LocksStep == IInv /\ LocksFit /\ [Next]_vars => LocksFit'
<1> SUFFICES ASSUME IInv, LocksFit, [Next]_vars PROVE LocksFit'
  OBVIOUS
<1>0. TypeOK
  BY DEF IInv
<1>1. CASE UNCHANGED <<iLock, tLock, pc, call, found>>
  BY <1>1 DEF LocksFit, LocksOf, Target, Request, LocksTarget, Outcome, Interaction
<1>2. ASSUME NEW t \in Txs, OthersKeep(t), LocksOf(t)' PROVE LocksFit'
  BY <1>2, LocksFrame DEF LocksFit
<1>3. ASSUME NEW t \in Txs, End(t) PROVE LocksFit'
  <2>1. LocksOf(t)'
    BY <1>3, EndStep DEF LocksOf, Reacted
  <2> QED
    BY <1>2, <1>3, <2>1, EndStep
<1>4. ASSUME NEW t \in Txs, NEW c \in Calls, ResolveCheck(t, c) PROVE LocksFit'
  <2>1. OthersKeep(t) /\ pc'[t] = "select" /\ UNCHANGED <<iLock, tLock>> /\ pc[t] = "idle"
    BY <1>0, <1>4 DEF ResolveCheck, Goto, OthersKeep, TypeOK, work
  <2>2. LocksOf(t)'
    BY <2>1 DEF LocksFit, LocksOf, Reacted, Writing
  <2> QED
    BY <1>2, <2>1, <2>2
<1>5. ASSUME NEW t \in Txs, SelectInteraction(t) PROVE LocksFit'
  <2>1. /\ pc[t] = "select" /\ pc'[t] = "insert" /\ UNCHANGED <<tLock, call, found>>
        /\ iLock[Interaction(t)] = None /\ iLock' = [iLock EXCEPT ![Interaction(t)] = t]
        /\ Interaction(t) \in Interactions
    BY <1>0, <1>5, Unblocked, Running DEF SelectInteraction, Goto, TypeOK, work
  <2>2. OthersKeep(t)
    BY <1>0, <1>5, <2>1 DEF SelectInteraction, Goto, OthersKeep, TypeOK, work
  <2>3. LocksOf(t)'
    BY <2>1 DEF LocksFit, LocksOf, Reacted
  <2> QED
    BY <1>2, <2>2, <2>3
<1>6. ASSUME NEW t \in Txs, InsertResult(t) PROVE LocksFit'
  <2>1. OthersKeep(t) /\ pc[t] = "insert" /\ pc'[t] = "advance" /\ UNCHANGED <<iLock, tLock>>
    BY <1>0, <1>6 DEF InsertResult, Goto, OthersKeep, TypeOK, work
  <2>2. LocksOf(t)'
    BY <2>1 DEF LocksFit, LocksOf, Reacted, Writing
  <2> QED
    BY <1>2, <2>1, <2>2
<1>7. ASSUME NEW t \in Txs, Advance(t) PROVE LocksFit'
  <2>1. iLock[Interaction(t)] = t
    BY <1>7, Running DEF Advance, Goto, TxInv, HoldsInteraction, Writing
  <2>2. /\ OthersKeep(t) /\ pc[t] = "advance" /\ pc'[t] = "react" /\ UNCHANGED <<iLock, tLock>>
    BY <1>0, <1>7, <2>1 DEF Advance, Goto, OthersKeep, TypeOK
  <2>3. LocksOf(t)'
    BY <2>2 DEF LocksFit, LocksOf, Reacted, Writing
  <2> QED
    BY <1>2, <2>2, <2>3
<1>8. ASSUME NEW t \in Txs, React(t) PROVE LocksFit'
  <2>1. /\ pc[t] = "react" /\ pc'[t] = "discover" /\ UNCHANGED <<iLock, call, found>>
        /\ tLock' = IF LocksTarget(t) THEN [tLock EXCEPT ![Target(t)] = t] ELSE tLock
        /\ LocksTarget(t) => tLock[Target(t)] = None
        /\ Target(t) \in Targets
    BY <1>0, <1>8, Unblocked, Running DEF React, Goto, TypeOK
  <2>2. OthersKeep(t)
    BY <1>0, <1>8, <2>1 DEF React, Goto, OthersKeep, TypeOK
  <2>3. Target(t)' = Target(t) /\ (LocksTarget(t)' <=> LocksTarget(t))
    BY <2>1 DEF Target, Request, LocksTarget, Outcome, Interaction
  <2>4. LocksOf(t)'
    BY <1>0, <2>1, <2>3 DEF LocksFit, LocksOf, Reacted, Writing, TypeOK
  <2> QED
    BY <1>2, <2>2, <2>4
<1>9. ASSUME NEW t \in Txs, Discover(t) \/ RecordDiscovery(t) \/ RecordEffect(t) PROVE LocksFit'
  <2>1. /\ OthersKeep(t) /\ pc[t] \in Reacted /\ pc'[t] \in Reacted /\ UNCHANGED <<iLock, tLock, call>>
        /\ pc'[t] = "effect" => found'[t]
    BY <1>0, <1>9 DEF Discover, RecordDiscovery, RecordEffect, Goto, OthersKeep, TypeOK, work, Reacted
  <2>2. Target(t)' = Target(t) /\ (LocksTarget(t)' <=> LocksTarget(t))
    BY <2>1 DEF Target, Request, LocksTarget, Outcome, Interaction
  <2>3. LocksOf(t)'
    BY <2>1, <2>2 DEF LocksFit, LocksOf, Reacted, Writing
  <2> QED
    BY <1>2, <2>1, <2>3
<1> QED
  BY <1>1, <1>3, <1>4, <1>5, <1>6, <1>7, <1>8, <1>9
     DEF Next, Progress, Perform, Close, Refuse, InsertFails, DiscoveryConflicts, Commit, Rollback,
         vars, work

\* Whoever is waited for is open, and further on than the one who waits but for
\* the holder of a target's row that an effect refers to.
LEMMA WaitsForOneAhead ==
  ASSUME IInv, LocksFit, NEW t \in Txs, NEW u \in Txs, u \in WaitsFor(t)
  PROVE  \/ pc[t] = "select" /\ pc[u] \in Writing \cup {"insert"}
         \/ pc[t] = "react" /\ pc[u] \in Reacted
         \/ /\ pc[t] = "record" /\ pc[u] \in {"effect", "commit"} /\ Discovery(u) = Discovery(t)
         \/ /\ pc[t] = "effect" /\ pc[u] \in Reacted /\ u # t
            /\ tLock[Target(t)] = u /\ Target(u) = Target(t)
<1>1. pc[t] \in {"select", "insert", "advance", "react", "record", "effect"}
  BY DEF WaitsFor
<1>2. TypeOK /\ TxInv(t) /\ TxInv(u) /\ Interaction(t) \in Interactions /\ Target(t) \in Targets
      /\ LocksOf(t) /\ LocksOf(u)
  BY <1>1, Running DEF IInv, LocksFit
<1>3. pc[t] \notin {"insert", "advance"}
  <2>1. SUFFICES ASSUME pc[t] \in {"insert", "advance"} PROVE FALSE
    OBVIOUS
  <2>2. iLock[Interaction(t)] = t
    BY <1>2, <2>1 DEF TxInv, HoldsInteraction, Writing
  <2>3. pc[u] \in Writing /\ Request(u) = Request(t) /\ u # t
    BY <2>1, <2>2 DEF WaitsFor, Writing
  <2>4. iLock[Interaction(t)] = u
    BY <1>2, <2>3 DEF TxInv, HoldsInteraction, Interaction
  <2> QED
    BY <2>2, <2>3, <2>4
<1>4. pc[t] = "select" => pc[u] \in Writing \cup {"insert"}
  BY <1>2 DEF WaitsFor, LocksOf
<1>5. pc[t] = "react" => pc[u] \in Reacted
  BY <1>2 DEF WaitsFor, LocksOf, SharesTarget, Reacted
<1>6. pc[t] = "record" => pc[u] \in {"effect", "commit"} /\ Discovery(u) = Discovery(t)
  BY <1>2 DEF WaitsFor, TxInv
<1>7. pc[t] = "effect" => /\ pc[u] \in Reacted /\ u # t
                          /\ tLock[Target(t)] = u /\ Target(u) = Target(t)
  BY <1>2 DEF WaitsFor, LocksOf
<1> QED
  BY <1>1, <1>3, <1>4, <1>5, <1>6, <1>7

\* Of those that wait for each other, who inserts an effect waits for one that
\* inserts a discovery, and that one for an effect of the same target.
LEMMA EffectInCircle ==
  ASSUME IInv, LocksFit, NEW S \in SUBSET Open,
         \A t \in S : \E u \in S : u \in WaitsFor(t),
         NEW v \in S, pc[v] = "effect"
  PROVE  \E t, u \in S : WaitForEachOther(t, u)
<1>1. S \subseteq Txs
  BY DEF Open
<1>2. \A t \in S : pc[t] \in {"select", "react", "record", "effect"}
  BY <1>1, WaitsForOneAhead
<1>3. PICK u \in S : u \in WaitsFor(v)
  OBVIOUS
<1>4. /\ pc[u] \in Reacted /\ u # v
      /\ tLock[Target(v)] = u /\ Target(u) = Target(v)
  BY <1>1, <1>3, WaitsForOneAhead
<1>5. PICK w \in S : w \in WaitsFor(u)
  OBVIOUS
<1>6. pc[u] = "record"
  BY <1>1, <1>2, <1>4, <1>5, WaitsForOneAhead DEF Reacted
<1>7. pc[w] = "effect" /\ Discovery(w) = Discovery(u)
  BY <1>1, <1>2, <1>5, <1>6, WaitsForOneAhead
<1>8. Target(w) = Target(u) /\ w # u
  BY <1>6, <1>7 DEF Discovery
<1>9. tLock[Target(w)] = u
  BY <1>4, <1>8
<1>10. ~LocksTarget(w)
  BY <1>1, <1>7, <1>8, <1>9 DEF LocksFit, LocksOf, Reacted
<1>11. WaitForEachOther(w, u)
  BY <1>6, <1>7, <1>9, <1>10 DEF WaitForEachOther, LocksTarget
<1> QED
  BY <1>11

\* Without such an effect the one that is furthest on waits for none of the
\* others.
LEMMA SomebodyIsAhead == IInv /\ LocksFit => DeadlockNeedsBystander
<1> SUFFICES ASSUME IInv, LocksFit, NEW S \in SUBSET Open, S # {},
                    ~\E t \in S : WaitsFor(t) \subseteq Open \ S
             PROVE  \E t, u \in S : WaitForEachOther(t, u)
  BY DEF DeadlockNeedsBystander
<1>1. S \subseteq Txs /\ \A t \in S : WaitsFor(t) \subseteq Open
  BY WaitsForOneAhead DEF Open, Writing, Reacted, WaitsFor
<1>2. \A t \in S : \E u \in S : u \in WaitsFor(t)
  BY <1>1
<1>3. \A t \in S : pc[t] \in {"select", "react", "record", "effect"}
  BY <1>1, <1>2, WaitsForOneAhead
<1>4. SUFFICES ASSUME \A t \in S : pc[t] # "effect" PROVE FALSE
  BY <1>2, EffectInCircle
<1>5. \A t \in S : pc[t] # "record"
  BY <1>1, <1>2, <1>3, <1>4, WaitsForOneAhead
<1>6. \A t \in S : pc[t] # "react"
  BY <1>1, <1>2, <1>3, <1>4, <1>5, WaitsForOneAhead DEF Reacted
<1> QED
  BY <1>1, <1>2, <1>3, <1>4, <1>5, <1>6, WaitsForOneAhead DEF Writing

\* Checks wait for each other in a circle only when one that changes nothing of
\* its target and one that has locked it reveal it to the same party.
THEOREM DeadlockOfBystanders == Spec => []DeadlockNeedsBystander
BY LocksInit, LocksStep, SomebodyIsAhead, ChecksInvariant, PTL DEF Spec
=============================================================================
