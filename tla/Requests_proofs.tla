-------------------------- MODULE Requests_proofs --------------------------
(***************************************************************************)
(* Proofs about requests: the keys of idempotent ones (Idempotency), the   *)
(* connections they need (RequestPool), and the client that sends them     *)
(* again (FoundryClient).                                                  *)
(*                                                                         *)
(* The store of idempotent requests is exactly-once for any number of      *)
(* concurrent requests, keys, failures and crashes, in both orders of      *)
(* commit and response, but for the successes told before the commit.      *)
(***************************************************************************)
EXTENDS Idempotency, RequestPool, FoundryClient, FiniteSetTheorems, SequenceTheorems, TLAPS

\* The initial state satisfies the inductive invariant.
LEMMA InitIInv == Init => IInv
  BY ConstantsAssumption, NoneAssumption
  DEF Init, IInv, TypeOK, RequestInv, KeyInv, KeyIsOneExecution,
      AnswersAreJustified, Steps, Results

\* Every step keeps the state well typed.
LEMMA TypeStep == TypeOK /\ RequestInv /\ [Next]_vars => TypeOK'
<1> SUFFICES ASSUME TypeOK, RequestInv, [Next]_vars PROVE TypeOK'
  OBVIOUS
<1>0. responseFirst' = responseFirst
  BY DEF Next, vars
<1> USE <1>0, ConstantsAssumption DEF TypeOK, Steps, Results, Goto, Forget
<1>1. CASE UNCHANGED vars
  BY <1>1 DEF vars
<1>2. ASSUME NEW r \in Requests, NEW k \in Keys, NEW p \in Prints, Arrive(r, k, p)
      PROVE  TypeOK'
  BY <1>2 DEF Arrive
<1>3. ASSUME NEW r \in Requests, Progress(r) \/ Refuse(r) PROVE TypeOK'
  <2> USE DEF RequestInv
  <2>0. Send(r, "replayed") \/ Send(r, "conflict") \/ Send(r, "error") \/ Send(r, result[r]) =>
          (pc[r] # "idle" => answers' \in SUBSET [op : Keys, arg : Prints, result : Results])
    BY DEF Send
  <2>1. CASE Reserve(r)
    BY <2>1 DEF Reserve
  <2>2. CASE Replay(r)
    BY <2>0, <2>2 DEF Replay, KeySettled
  <2>3. CASE Conflict(r)
    BY <2>0, <2>3 DEF Conflict, KeySettled
  <2>4. CASE Execute(r)
    BY <2>4 DEF Execute
  <2>5. CASE Refuse(r)
    BY <2>0, <2>5 DEF Refuse, EndTransaction
  <2>6. CASE Respond(r)
    BY <2>0, <2>6 DEF Respond
  <2>7. CASE Commit(r)
    BY <2>7 DEF Commit, EndTransaction
  <2> QED
    BY <1>3, <2>1, <2>2, <2>3, <2>4, <2>5, <2>6, <2>7 DEF Progress
<1>4. ASSUME NEW r \in Requests, CommitRaises(r) PROVE TypeOK'
  BY <1>4 DEF CommitRaises, EndTransaction, RequestInv
<1>5. CASE ProcessCrashes
  BY <1>5 DEF ProcessCrashes
<1> QED
  BY <1>1, <1>2, <1>3, <1>4, <1>5 DEF Next

\* The reservation of a key belongs to the one request that is executing
\* under it; a step of another request cannot touch it, because it waits.
LEMMA RequestStep ==
  ASSUME TypeOK, TypeOK', RequestInv, KeyInv, [Next]_vars
  PROVE  RequestInv' /\ KeyInv'
<1>0. responseFirst' = responseFirst
  BY DEF Next, vars
<1> USE <1>0, NoneAssumption DEF TypeOK, Goto, Forget, RequestInv, KeyInv
<1>1. CASE UNCHANGED vars
  BY <1>1 DEF vars
<1>2. ASSUME NEW r \in Requests, NEW k \in Keys, NEW p \in Prints, Arrive(r, k, p)
      PROVE  RequestInv' /\ KeyInv'
  BY <1>2 DEF Arrive
<1>3. ASSUME NEW r \in Requests, Progress(r) \/ Refuse(r) PROVE RequestInv' /\ KeyInv'
  <2>1. CASE Reserve(r)
    BY <2>1 DEF Reserve, KeySettled
  <2>2. CASE Replay(r)
    BY <2>2 DEF Replay, KeySettled
  <2>3. CASE Conflict(r)
    BY <2>3 DEF Conflict, KeySettled
  <2>4. CASE Execute(r)
    BY <2>4 DEF Execute
  <2>5. CASE Refuse(r)
    BY <2>5 DEF Refuse, EndTransaction
  <2>6. CASE Respond(r)
    <3>1. UNCHANGED <<reserver, rowOwner, stored>>
      BY <2>6 DEF Respond
    <3>2. \A q \in Requests : q # r =>
            pc'[q] = pc[q] /\ key'[q] = key[q] /\ print'[q] = print[q] /\ result'[q] = result[q]
      BY <2>6 DEF Respond
    <3>3. IF responseFirst
            THEN /\ pc[r] = "respond" /\ pc'[r] = "commit" /\ result[r] = "applied"
                 /\ UNCHANGED <<key, print, result>>
            ELSE pc'[r] = "idle"
      BY <2>6 DEF Respond
    <3> QED
      BY <3>1, <3>2, <3>3
  <2>7. CASE Commit(r)
    BY <2>7 DEF Commit, EndTransaction
  <2> QED
    BY <1>3, <2>1, <2>2, <2>3, <2>4, <2>5, <2>6, <2>7 DEF Progress
<1>4. ASSUME NEW r \in Requests, CommitRaises(r) PROVE RequestInv' /\ KeyInv'
  BY <1>4 DEF CommitRaises, EndTransaction
<1>5. CASE ProcessCrashes
  BY <1>5 DEF ProcessCrashes
<1> QED
  BY <1>1, <1>2, <1>3, <1>4, <1>5 DEF Next

\* A step leaves the stored keys alone or commits one command under a key
\* that was free.
LEMMA StoreStep ==
  ASSUME TypeOK, RequestInv, KeyInv, KeyIsOneExecution, [Next]_vars
  PROVE  \/ UNCHANGED <<stored, executed>>
         \/ \E k \in Keys, p \in Prints :
              /\ stored[k] = None /\ executed[k] = 0
              /\ stored' = [stored EXCEPT ![k] = p]
              /\ executed' = [executed EXCEPT ![k] = 1]
              /\ answers' = answers
<1> USE NoneAssumption DEF TypeOK, RequestInv, KeyInv, KeyIsOneExecution
<1>1. ASSUME NEW r \in Requests, pc[r] = "commit"
      PROVE  /\ key[r] \in Keys /\ print[r] \in Prints
             /\ stored[key[r]] = None /\ executed[key[r]] = 0
  BY <1>1
<1>2. ASSUME NEW r \in Requests, Commit(r)
      PROVE  \E k \in Keys, p \in Prints :
              /\ stored[k] = None /\ executed[k] = 0
              /\ stored' = [stored EXCEPT ![k] = p]
              /\ executed' = [executed EXCEPT ![k] = 1]
              /\ answers' = answers
  <2>1. pc[r] = "commit" /\ answers' = answers
    BY <1>2 DEF Commit
  <2>2. stored' = [stored EXCEPT ![key[r]] = print[r]]
    BY <1>2 DEF Commit
  <2>3. executed' = [executed EXCEPT ![key[r]] = executed[key[r]] + 1]
    BY <1>2 DEF Commit
  <2>4. executed[key[r]] + 1 = 1
    BY <1>1, <2>1
  <2>5. executed' = [executed EXCEPT ![key[r]] = 1]
    BY <2>3, <2>4, Zenon
  <2> QED
    BY <1>1, <2>1, <2>2, <2>5
<1>3. ASSUME NEW r \in Requests, CommitRaises(r), ~UNCHANGED <<stored, executed>>
      PROVE  \E k \in Keys, p \in Prints :
              /\ stored[k] = None /\ executed[k] = 0
              /\ stored' = [stored EXCEPT ![k] = p]
              /\ executed' = [executed EXCEPT ![k] = 1]
              /\ answers' = answers
  BY <1>1, <1>3 DEF CommitRaises
<1>4. ASSUME NEW r \in Requests, Progress(r) \/ Refuse(r), ~Commit(r)
      PROVE  UNCHANGED <<stored, executed>>
  BY <1>4 DEF Progress, Reserve, Replay, Conflict, Execute, Refuse, Respond
<1>5. ASSUME NEW r \in Requests, NEW k \in Keys, NEW p \in Prints, Arrive(r, k, p)
      PROVE  UNCHANGED <<stored, executed>>
  BY <1>5 DEF Arrive
<1>6. CASE ProcessCrashes
  BY <1>6 DEF ProcessCrashes
<1>7. CASE UNCHANGED vars
  BY <1>7 DEF vars
<1> QED
  BY <1>2, <1>3, <1>4, <1>5, <1>6, <1>7 DEF Next

\* A step adds at most one answer, and the answer agrees with the store.
LEMMA AnswerStep ==
  ASSUME TypeOK, RequestInv, [Next]_vars
  PROVE  \/ answers' = answers
         \/ \E k \in Keys, p \in Prints, res \in Results \ {"none"} :
              /\ answers' = answers \cup {[op |-> k, arg |-> p, result |-> res]}
              /\ UNCHANGED <<stored, executed>>
              /\ res = "replayed" => stored[k] = p
              /\ res = "conflict" => stored[k] \notin {None, p}
              /\ res = "applied" /\ ~responseFirst => stored[k] = p
<1> USE DEF TypeOK, RequestInv, Results
<1>1. ASSUME NEW r \in Requests, Progress(r) \/ Refuse(r)
      PROVE  \/ answers' = answers
             \/ \E k \in Keys, p \in Prints, res \in Results \ {"none"} :
                  /\ answers' = answers \cup {[op |-> k, arg |-> p, result |-> res]}
                  /\ UNCHANGED <<stored, executed>>
                  /\ res = "replayed" => stored[k] = p
                  /\ res = "conflict" => stored[k] \notin {None, p}
                  /\ res = "applied" /\ ~responseFirst => stored[k] = p
  <2>1. CASE Replay(r)
    BY <2>1, NoneAssumption DEF Replay, KeySettled, Send
  <2>2. CASE Conflict(r)
    BY <2>2 DEF Conflict, KeySettled, Send
  <2>3. CASE Refuse(r)
    BY <2>3 DEF Refuse, Send
  <2>4. CASE Respond(r)
    BY <2>4 DEF Respond, Send
  <2>5. CASE Reserve(r) \/ Execute(r) \/ Commit(r)
    BY <2>5 DEF Reserve, Execute, Commit
  <2> QED
    BY <1>1, <2>1, <2>2, <2>3, <2>4, <2>5 DEF Progress
<1>2. ASSUME NEW r \in Requests, CommitRaises(r) PROVE answers' = answers
  BY <1>2 DEF CommitRaises
<1>3. ASSUME NEW r \in Requests, NEW k \in Keys, NEW p \in Prints, Arrive(r, k, p)
      PROVE  answers' = answers
  BY <1>3 DEF Arrive
<1>4. CASE ProcessCrashes
  BY <1>4 DEF ProcessCrashes
<1>5. CASE UNCHANGED vars
  BY <1>5 DEF vars
<1> QED
  BY <1>1, <1>2, <1>3, <1>4, <1>5 DEF Next

\* The inductive invariant is preserved: a stored key never changes again, so
\* the answers given stay justified.
LEMMA IInvStep == IInv /\ [Next]_vars => IInv'
<1> SUFFICES ASSUME IInv, [Next]_vars PROVE IInv'
  OBVIOUS
<1>1. TypeOK /\ RequestInv /\ KeyInv /\ KeyIsOneExecution /\ AnswersAreJustified
  BY DEF IInv
<1>2. TypeOK'
  BY <1>1, TypeStep
<1>3. RequestInv' /\ KeyInv'
  BY <1>1, <1>2, RequestStep
<1>4. KeyIsOneExecution'
  BY <1>1, StoreStep, NoneAssumption DEF KeyIsOneExecution, TypeOK
<1>5. \A k \in Keys : stored[k] # None => stored'[k] = stored[k]
  BY <1>1, StoreStep DEF TypeOK
<1>6. AnswersAreJustified'
  <2>1. CASE answers' = answers
    <3> SUFFICES ASSUME NEW a \in answers
                 PROVE  /\ a.result = "replayed" => stored'[a.op] = a.arg
                        /\ a.result = "conflict" => stored'[a.op] \notin {None, a.arg}
      BY <2>1 DEF AnswersAreJustified
    <3>1. a.op \in Keys /\ a.arg \in Prints
      BY <1>1 DEF TypeOK
    <3> QED
      BY <1>1, <1>5, <3>1, NoneAssumption DEF AnswersAreJustified
  <2>2. CASE answers' # answers
    BY <1>1, <2>2, AnswerStep DEF AnswersAreJustified
  <2> QED
    BY <2>1, <2>2
<1> QED
  BY <1>2, <1>3, <1>4, <1>6 DEF IInv

\* The inductive invariant always holds.
THEOREM Invariance == Spec => []IInv
  BY InitIInv, IInvStep, PTL DEF Spec

\* Every reachable state is well typed.
THEOREM TypeCorrect == Spec => []TypeOK
<1>1. IInv => TypeOK
  BY DEF IInv
<1> QED
  BY <1>1, Invariance, PTL

\* A key stands for exactly one committed execution of its command, whatever
\* is retried, refused, interrupted or sent twice at the same time.
THEOREM OneExecution == Spec => []KeyIsOneExecution
<1>1. IInv => KeyIsOneExecution
  BY DEF IInv
<1> QED
  BY <1>1, Invariance, PTL

\* Replays and conflicts are justified by what was committed.
THEOREM JustifiedAnswers == Spec => []AnswersAreJustified
<1>1. IInv => AnswersAreJustified
  BY DEF IInv
<1> QED
  BY <1>1, Invariance, PTL

\* With a framework that commits before it responds, a success that a client
\* has seen is committed.
THEOREM CommitFirst == Spec => []DurableIfCommitFirst
<1>1. Init => DurableIfCommitFirst
  BY DEF Init, DurableIfCommitFirst, SuccessIsCommitted
<1>2. IInv /\ DurableIfCommitFirst /\ [Next]_vars => DurableIfCommitFirst'
  <2> SUFFICES ASSUME IInv, DurableIfCommitFirst, [Next]_vars, ~responseFirst'
               PROVE  SuccessIsCommitted'
    BY DEF DurableIfCommitFirst
  <2>1. TypeOK /\ RequestInv /\ KeyInv /\ KeyIsOneExecution
    BY DEF IInv
  <2>2. ~responseFirst /\ SuccessIsCommitted
    BY DEF Next, vars, DurableIfCommitFirst
  <2>3. \A k \in Keys : stored[k] # None => stored'[k] = stored[k]
    BY <2>1, StoreStep DEF TypeOK
  <2>4. CASE answers' = answers
    <3> SUFFICES ASSUME NEW a \in answers, a.result = "applied"
                 PROVE  stored'[a.op] = a.arg
      BY <2>4 DEF SuccessIsCommitted
    <3>1. a.op \in Keys /\ a.arg \in Prints
      BY <2>1 DEF TypeOK
    <3> QED
      BY <2>2, <2>3, <3>1, NoneAssumption DEF SuccessIsCommitted
  <2>5. CASE answers' # answers
    BY <2>1, <2>2, <2>5, AnswerStep DEF SuccessIsCommitted
  <2> QED
    BY <2>4, <2>5
<1> QED
  BY <1>1, <1>2, Invariance, PTL DEF Spec

\* The answers the ledger accounts for: all of them, or all but the successes
\* told before the commit.
Told == IF responseFirst THEN {a \in answers : a.result # "applied"} ELSE answers

\* A step of the service is a step of the exactly-once ledger, or one the
\* ledger does not see.
LEMMA RefinementStep ==
  ASSUME IInv, [Next]_vars
  PROVE  [Abstract!Next]_(Abstract!vars)
<1>1. TypeOK /\ RequestInv /\ KeyInv /\ KeyIsOneExecution
  BY DEF IInv
<1>2. responseFirst' = responseFirst
  BY DEF Next, vars
<1>3. answers' = answers => Told' = Told
  BY <1>2 DEF Told
<1>4. CASE UNCHANGED <<stored, executed>> /\ Told' = Told
  BY <1>4 DEF Abstract!vars, Told
<1>5. CASE ~UNCHANGED <<stored, executed>>
  <2>1. PICK k \in Keys, p \in Prints :
              /\ stored[k] = None /\ executed[k] = 0
              /\ stored' = [stored EXCEPT ![k] = p]
              /\ executed' = [executed EXCEPT ![k] = 1]
              /\ answers' = answers
    BY <1>1, <1>5, StoreStep
  <2>2. [o \in Keys |-> executed'[o] > 0]
          = [[o \in Keys |-> executed[o] > 0] EXCEPT ![k] = TRUE]
    <3>1. (executed'[k] > 0) = TRUE
      BY <1>1, <2>1 DEF TypeOK
    <3>2. \A o \in Keys : o # k => executed'[o] = executed[o]
      BY <1>1, <2>1 DEF TypeOK
    <3> QED
      BY <3>1, <3>2, Zenon
  <2>3. [o \in Keys |-> executed[o] > 0][k] = FALSE
    <3>1. (executed[k] > 0) = FALSE
      BY <2>1
    <3> QED
      BY <3>1, Zenon
  <2>4. Told' = Told
    BY <1>3, <2>1
  <2>5. Abstract!BindAndApply(k, p)
    BY <2>1, <2>2, <2>3, <2>4, Zenon DEF Abstract!BindAndApply, Told
  <2> QED
    BY <2>5 DEF Abstract!Next
<1>6. CASE UNCHANGED <<stored, executed>> /\ Told' # Told
  <2>1. PICK k \in Keys, p \in Prints, res \in Results \ {"none"} :
              /\ answers' = answers \cup {[op |-> k, arg |-> p, result |-> res]}
              /\ UNCHANGED <<stored, executed>>
              /\ res = "replayed" => stored[k] = p
              /\ res = "conflict" => stored[k] \notin {None, p}
              /\ res = "applied" /\ ~responseFirst => stored[k] = p
    BY <1>1, <1>3, <1>6, AnswerStep
  <2>2. ~(res = "applied" /\ responseFirst)
    <3> SUFFICES ASSUME res = "applied", responseFirst PROVE FALSE
      OBVIOUS
    <3> DEFINE a == [op |-> k, arg |-> p, result |-> res]
    <3>1. a.result = "applied"
      OBVIOUS
    <3> HIDE DEF a
    <3>2. answers' = answers \cup {a}
      BY <2>1 DEF a
    <3> QED
      BY <1>2, <1>6, <3>1, <3>2 DEF Told
  <2>3. Told' = Told \cup {[op |-> k, arg |-> p, result |-> res]}
    <3> DEFINE a == [op |-> k, arg |-> p, result |-> res]
    <3>1. a.result = res
      OBVIOUS
    <3> HIDE DEF a
    <3>2. answers' = answers \cup {a}
      BY <2>1 DEF a
    <3>3. Told' = Told \cup {a}
      BY <1>2, <2>2, <3>1, <3>2 DEF Told
    <3> QED
      BY <3>3 DEF a
  <2>4. stored[k] = p => executed[k] > 0
    BY <1>1, NoneAssumption DEF KeyIsOneExecution
  <2>5. Abstract!MayAnswer(k, p, res)
    BY <2>1, <2>2, <2>4 DEF Abstract!MayAnswer, Results
  <2>6. Abstract!Answer(k, p, res)
    BY <2>1, <2>3, <2>5 DEF Abstract!Answer, Told
  <2> QED
    BY <2>6 DEF Abstract!Next, Results
<1> QED
  BY <1>4, <1>5, <1>6

\* The service implements the exactly-once ledger.
THEOREM Implements == Spec => ImplementsExactlyOnce
<1>1. Init => Abstract!Init
  <2> SUFFICES ASSUME Init PROVE Abstract!Init
    OBVIOUS
  <2>1. \A k \in Keys : (executed[k] > 0) = FALSE
    BY DEF Init
  <2>2. [k \in Keys |-> executed[k] > 0] = [k \in Keys |-> FALSE]
    BY <2>1, Zenon
  <2>3. Told = {}
    BY DEF Init, Told
  <2> QED
    BY <2>2, <2>3 DEF Init, Abstract!Init, Told
<1>2. IInv /\ [Next]_vars => [Abstract!Next]_(Abstract!vars)
  BY RefinementStep
<1> QED
  BY <1>1, <1>2, Invariance, PTL DEF Spec, ImplementsExactlyOnce, Abstract!Spec
-----------------------------------------------------------------------------
(* How many connections rule the deadlock of RequestPool out.               *)

\* Who is inside the synchronization has a lock to ask for, and a lock is left
\* in quarantine only by a connection that is counted there.
AskedAndCounted ==
  /\ \A r \in Served : at[r] \in {"second", "lock", "sync"} => asks[r] \in Locks
  /\ (\E k \in Locks : left[k] = "quarantine") => quarantined > 0

PoolIInv == PoolTypeOK /\ AskedAndCounted

\* Every step keeps the state well typed, in particular the connections that
\* are never given back within their bound, and accounts for the locks.
THEOREM PoolTypeCorrect == PoolSpec => []PoolIInv
<1>1. PoolInit => PoolIInv
  BY SizesAssumption DEF PoolInit, PoolIInv, AskedAndCounted, PoolTypeOK, PoolSteps
<1>2. PoolIInv /\ [PoolNext]_poolVars => PoolIInv'
  <2> SUFFICES ASSUME PoolIInv, [PoolNext]_poolVars PROVE PoolIInv'
    OBVIOUS
  <2> USE SizesAssumption
      DEF PoolIInv, AskedAndCounted, PoolTypeOK, PoolSteps, Step, EndCall
  <2>1. CASE UNCHANGED poolVars
    BY <2>1 DEF poolVars
  <2>2. ASSUME NEW r \in Served, Accept(r) PROVE PoolIInv'
    BY <2>2 DEF Accept
  <2>3. ASSUME NEW r \in Served, Advance(r) PROVE PoolIInv'
    <3>1. CASE SyncReturns(r)
      <4>1. asks[r] \in Locks
        BY <3>1 DEF SyncReturns
      <4> QED
        BY <3>1, <4>1 DEF SyncReturns, Quarantine
    <3>2. ASSUME NEW k \in Locks, CallSync(r, k) PROVE PoolIInv'
      BY <3>2 DEF CallSync
    <3>3. CASE AcquireLock(r) \/ CheckoutSecond(r)
      BY <3>3 DEF AcquireLock, CheckoutSecond
    <3>4. CASE EnterConnection(r) \/ CheckoutFirst(r) \/ RunHandler(r)
      BY <3>4 DEF EnterConnection, CheckoutFirst, RunHandler
    <3>5. CASE LeaveHandler(r) \/ Close(r)
      BY <3>5 DEF LeaveHandler, Close
    <3> QED
      BY <2>3, <3>1, <3>2, <3>3, <3>4, <3>5 DEF Advance
  <2>4. ASSUME NEW r \in Served, TimeOut(r) PROVE PoolIInv'
    BY <2>4 DEF TimeOut, FirstTimesOut, SecondTimesOut
  <2>5. ASSUME NEW r \in Served, LockFails(r) PROVE PoolIInv'
    BY <2>5 DEF LockFails, Quarantine
  <2>6. ASSUME NEW k \in Locks, ServerNotices(k) PROVE PoolIInv'
    BY <2>6 DEF ServerNotices
  <2> QED
    BY <2>1, <2>2, <2>3, <2>4, <2>5, <2>6 DEF PoolNext
<1> QED
  BY <1>1, <1>2, PTL DEF PoolSpec

\* The set of requests at some steps is finite, and no larger than the set of
\* all requests.
LEMMA AtIsFinite ==
  ASSUME IsFiniteSet(Served), NEW S
  PROVE  /\ IsFiniteSet(At(S))
         /\ Cardinality(At(S)) \in Nat
         /\ Cardinality(At(S)) <= Cardinality(Served)
<1>1. At(S) \subseteq Served
  BY DEF At
<1>2. IsFiniteSet(At(S)) /\ Cardinality(At(S)) <= Cardinality(Served)
  BY <1>1, FS_Subset
<1> QED
  BY <1>2, FS_CardinalityType

\* A request at the advisory lock waits for one that is inside, which does not
\* wait, or is stuck.
LEMMA WaitsForLockOnlyWhenStuck ==
  ASSUME PoolIInv, PoolDeadlock, NEW s \in At({"lock", "sync"})
  PROVE  Stuck(s)
<1>1. \A r \in At({"sync"}) : FALSE
  BY DEF PoolDeadlock, Waiting, At, PoolSteps
<1>2. s \in Served /\ at[s] = "lock" /\ Waiting(s)
  BY <1>1 DEF PoolDeadlock, At, PoolSteps
<1>3. asks[s] \in Locks /\ left[asks[s]] \in {"nobody", "orphan", "quarantine"}
  BY <1>2 DEF PoolIInv, AskedAndCounted, PoolTypeOK
<1>4. ~LockFree(asks[s]) /\ left[asks[s]] # "orphan"
  BY <1>2 DEF Waiting
<1> QED
  BY <1>1, <1>2, <1>3, <1>4 DEF LockFree, Stuck

\* When every request under way waits and none is stuck, the pool is empty:
\* were there room in it, all of them would wait for a thread, and nobody would
\* be on a thread.
LEMMA DeadlockEmptiesPool ==
  ASSUME PoolIInv, IsFiniteSet(Served), PoolDeadlock, \A q \in Served : ~Stuck(q)
  PROVE  ~PoolHasRoom
<1> SUFFICES ASSUME PoolHasRoom PROVE FALSE
  OBVIOUS
<1>1. PICK r \in At(HoldsFirst) : TRUE
  BY DEF PoolDeadlock
<1>2. r \in Served /\ r \in At(PoolSteps \ {"idle"}) /\ r \notin At({"lock", "sync"})
  BY <1>1, WaitsForLockOnlyWhenStuck DEF At, HoldsFirst, PoolSteps
<1>3. ~ThreadFree
  BY <1>2 DEF PoolDeadlock, Waiting, At
<1>4. Cardinality(At(OnThread)) # 0
  BY <1>3, SizesAssumption DEF ThreadFree
<1>5. At(OnThread) # {}
  BY <1>4, FS_EmptySet
<1>6. PICK s \in At(OnThread) : TRUE
  BY <1>5
<1>7. s \in Served /\ s \in At(PoolSteps \ {"idle"}) /\ at[s] \in OnThread
  BY <1>6 DEF At, OnThread, PoolSteps
<1>8. Waiting(s) /\ s \notin At({"lock", "sync"})
  BY <1>7, WaitsForLockOnlyWhenStuck DEF PoolDeadlock
<1> QED
  BY <1>7, <1>8 DEF Waiting, OnThread, At

\* Requests wait for each other only when one is stuck, or the open requests and
\* the quarantined connections are as many as the connections of the engine: a
\* request that waits for its second connection holds only one.
LEMMA FullLoad ==
  ASSUME PoolIInv, IsFiniteSet(Served), PoolDeadlock, \A q \in Served : ~Stuck(q)
  PROVE  Cardinality(At(HoldsFirst)) + MaxQuarantined >= Capacity
<1>1. At(HoldsSecond) = {}
  BY WaitsForLockOnlyWhenStuck DEF At, HoldsSecond
<1>2. Cardinality(At(HoldsSecond)) = 0
  BY <1>1, FS_EmptySet
<1>3. Cardinality(At(HoldsFirst)) \in Nat
  BY AtIsFinite
<1>4. quarantined \in Nat /\ quarantined <= MaxQuarantined
  BY SizesAssumption DEF PoolIInv, PoolTypeOK
<1>5. CheckedOut >= Capacity
  BY <1>2, <1>3, <1>4, DeadlockEmptiesPool, SizesAssumption
  DEF PoolHasRoom, CheckedOut
<1> QED
  BY <1>2, <1>3, <1>4, <1>5, SizesAssumption DEF CheckedOut

\* The pool is a bottleneck of the whole load, never of a part of it, unless a
\* request waits for the lock of a quarantined connection.
THEOREM OnlyUnderFullLoad ==
  ASSUME IsFiniteSet(Served)
  PROVE  PoolSpec => []DeadlockNeedsFullLoad
<1>1. PoolIInv => DeadlockNeedsFullLoad
  BY FullLoad DEF DeadlockNeedsFullLoad
<1> QED
  BY <1>1, PoolTypeCorrect, PTL

\* A server that admits fewer requests than the engine has connections never
\* deadlocks as long as no cleanup fails so badly that a connection is
\* quarantined.  The engine of deps.get_engine has 15 connections, and nothing
\* limits the number of requests.
THEOREM DeadlockFree ==
  ASSUME IsFiniteSet(Served), Cardinality(Served) < Capacity, MaxQuarantined = 0
  PROVE  PoolSpec => []NoPoolDeadlock
<1>1. PoolIInv => NoPoolDeadlock
  <2> SUFFICES ASSUME PoolIInv, PoolDeadlock PROVE FALSE
    BY DEF NoPoolDeadlock
  <2>1. /\ Cardinality(At(HoldsFirst)) \in Nat
        /\ Cardinality(At(HoldsFirst)) <= Cardinality(Served)
    BY AtIsFinite
  <2>2. Cardinality(Served) \in Nat
    BY FS_CardinalityType
  <2>3. ASSUME NEW q \in Served PROVE ~Stuck(q)
    <3>1. ~(quarantined > 0)
      BY SizesAssumption DEF PoolIInv, PoolTypeOK
    <3> QED
      BY <3>1 DEF Stuck, PoolIInv, AskedAndCounted
  <2> QED
    BY <2>1, <2>2, <2>3, FullLoad, SizesAssumption
<1> QED
  BY <1>1, PoolTypeCorrect, PTL
-----------------------------------------------------------------------------
(* FoundryClient: a submission is applied once, the actor converges, and     *)
(* what the module writes is not taken for an edit.                          *)

\* A step that leaves what was submitted and the ledger alone.
LEMMA AsideStep ==
  ASSUME ClientAssumption, ClientIInv, UNCHANGED <<sub, ledger, applied, server, late>>
  PROVE  /\ Remembered' /\ (LateFits => LateFits')
         /\ Busy' <=> Busy
         /\ \A s \in DOMAIN sub : OperationId(s)' = OperationId(s) /\ Earlier(s)' = Earlier(s)
                                  /\ (Pending(s)' <=> Pending(s))
<1>1. \A s \in DOMAIN sub : /\ OperationId(s)' = OperationId(s) /\ Earlier(s)' = Earlier(s)
                            /\ Pending(s)' <=> Pending(s)
  BY DEF OperationId, Earlier, Pending
<1>2. Remembered'
  BY <1>1 DEF Remembered, ClientIInv
<1>3. LateFits => LateFits'
  BY <1>1 DEF LateFits
<1> QED
  BY <1>1, <1>2, <1>3 DEF Busy

LEMMA EditStep ==
  ASSUME ClientAssumption, ClientIInv, NEW value \in 0 .. MaxHp, Edit(value)
  PROVE  ClientIInv'
<1> USE DEF ClientAssumption, ClientIInv
<1>1. /\ UNCHANGED <<sub, ledger, applied, server, late, hp, self, timers, time, page, restored, reloads>>
      /\ updates' = Append(updates, [value |-> value, by |-> "user"])
      /\ stash' = hp /\ hp # value /\ (orderly' <=> orderly /\ Quiet)
  BY DEF Edit, service, ClientTypeOK
<1>2. ClientTypeOK'
  <2>1. [value |-> value, by |-> "user"] \in Updates
    BY DEF Updates
  <2>2. updates' \in Seq(Updates)
    BY <1>1, <2>1 DEF ClientTypeOK
  <2>3. orderly' \in BOOLEAN
    BY DEF Edit, ClientTypeOK
  <2> QED
    BY <1>1, <2>2, <2>3 DEF ClientTypeOK
<1>3. Remembered' /\ (LateFits => LateFits') /\ (Busy' <=> Busy)
  BY <1>1, AsideStep
<1>5. AnswersFit'
  BY <1>1 DEF AnswersFit
<1>4. OneAtATime'
  <2> SUFFICES ASSUME orderly' PROVE OneAtATime'
    BY DEF OneAtATime
  <2>1. orderly /\ Quiet /\ LateFits
    BY <1>1 DEF OneAtATime
  <2>2. Settled
    BY <2>1 DEF OneAtATime, Quiet, Edited, Submitted,
                Writing, Written, Reloading, Busy, Ended
  <2>3. updates' = <<[value |-> value, by |-> "user"]>>
    BY <1>1, <2>2 DEF Settled, Still
  <2>4. Len(updates') = 1 /\ updates'[1].by = "user" /\ updates'[1].value = value
    BY <2>3
  <2>5. Edited'
    BY <1>1, <1>3, <2>2, <2>4 DEF Edited, Settled, Still
  <2> QED
    BY <1>3, <2>1, <2>5 DEF OneAtATime
<1> QED
  BY <1>2, <1>3, <1>4, <1>5

\* A submission with an id of its own is the only thing under way.
LEMMA SubmitStep ==
  ASSUME ClientAssumption, ClientIInv, NEW what \in {"hp", "turn"}, NEW delta \in -MaxHp .. MaxHp,
         NEW by \in {"user", "module"}, NEW inOrder \in BOOLEAN, Submit(what, delta, by, inOrder)
  PROVE  /\ sub' \in Seq(Submissions) /\ Len(sub') = Len(sub) + 1
         /\ late' \in Seq(Nat) /\ applied' \in Seq(Nat)
         /\ Len(late') = Len(sub') /\ Len(applied') = Len(sub')
         /\ time' \in 0 .. MaxTime /\ orderly' \in BOOLEAN
         /\ sub'[Len(sub')].by = by
         /\ \A s \in DOMAIN sub' : /\ sub'[s].at = "answered" => sub'[s].answer # Null
                                   /\ sub'[s].at = "sending" => sub'[s].tries < MaxTries
         /\ Remembered' /\ (LateFits => LateFits')
         /\ orderly' => orderly /\ inOrder
         /\ orderly' /\ ~Busy /\ page' = "up" /\ Still' => Submitted'
<1> USE DEF ClientAssumption, ClientIInv
<1> DEFINE new == [kind |-> what, delta |-> delta, time |-> time', by |-> by,
                   tries |-> 0, at |-> "sending", answer |-> Null]
<1>1. /\ time' \in 0 .. MaxTime /\ UNCHANGED <<server, ledger>>
      /\ sub' = Append(sub, new) /\ late' = Append(late, 0) /\ applied' = Append(applied, 0)
  BY DEF Submit, ClientTypeOK
<1>2. orderly' \in BOOLEAN /\ (orderly' => orderly /\ inOrder /\ ~Repeats(what, delta, time'))
  BY DEF Submit, ClientTypeOK
<1>3. new \in Submissions
  BY <1>1 DEF Submissions
<1> HIDE DEF new
<1>4. /\ sub \in Seq(Submissions) /\ late \in Seq(Nat) /\ applied \in Seq(Nat)
      /\ Len(sub) \in Nat /\ Len(late) = Len(sub) /\ Len(applied) = Len(sub)
  BY DEF ClientTypeOK
<1>0. PICK n \in Nat : n = Len(sub) + 1
  BY <1>4
<1>5. /\ sub' \in Seq(Submissions) /\ late' \in Seq(Nat) /\ applied' \in Seq(Nat)
      /\ Len(sub') = n /\ Len(late') = n /\ Len(applied') = n
      /\ DOMAIN sub' = DOMAIN sub \cup {n} /\ n \notin DOMAIN sub
      /\ \A s \in DOMAIN sub : sub'[s] = sub[s] /\ late'[s] = late[s] /\ applied'[s] = applied[s]
      /\ sub'[n] = new /\ late'[n] = 0 /\ applied'[n] = 0
  <2>1. /\ sub' \in Seq(Submissions) /\ Len(sub') = n /\ DOMAIN sub = 1 .. Len(sub)
        /\ DOMAIN sub' = 1 .. n /\ sub'[n] = new /\ \A s \in 1 .. Len(sub) : sub'[s] = sub[s]
    BY <1>0, <1>1, <1>3, <1>4
  <2>2. /\ late' \in Seq(Nat) /\ Len(late') = n /\ late'[n] = 0
        /\ \A s \in 1 .. Len(sub) : late'[s] = late[s]
    BY <1>0, <1>1, <1>4
  <2>3. /\ applied' \in Seq(Nat) /\ Len(applied') = n /\ applied'[n] = 0
        /\ \A s \in 1 .. Len(sub) : applied'[s] = applied[s]
    BY <1>0, <1>1, <1>4
  <2>4. 1 .. n = (1 .. Len(sub)) \cup {n} /\ n \notin 1 .. Len(sub)
    BY <1>0, <1>4
  <2> QED
    BY <2>1, <2>2, <2>3, <2>4
<1>6. \A s \in DOMAIN sub : /\ OperationId(s)' = OperationId(s) /\ Earlier(s)' = Earlier(s)
                            /\ Pending(s)' <=> Pending(s)
  <2> SUFFICES ASSUME NEW s \in DOMAIN sub
               PROVE  /\ OperationId(s)' = OperationId(s) /\ Earlier(s)' = Earlier(s)
                      /\ Pending(s)' <=> Pending(s)
    OBVIOUS
  <2>1. sub'[s] = sub[s] /\ ledger' = ledger
    BY <1>1, <1>5
  <2> QED
    BY <2>1 DEF OperationId, Earlier, Pending
<1>7. Remembered'
  <2>1. \A s \in DOMAIN sub' : /\ applied'[s] <= 1
                               /\ applied'[s] = 1 \/ sub'[s].at \in {"answered", "refused"} => Earlier(s)' # {}
    <3>1. sub'[n].at = "sending"
      BY <1>5 DEF new
    <3>2. \A s \in DOMAIN sub :
            /\ applied[s] <= 1
            /\ applied[s] = 1 \/ sub[s].at \in {"answered", "refused"} => Earlier(s) # {}
      BY DEF Remembered
    <3>3. ASSUME NEW s \in DOMAIN sub
          PROVE  /\ applied'[s] <= 1
                 /\ applied'[s] = 1 \/ sub'[s].at \in {"answered", "refused"} => Earlier(s)' # {}
      BY <1>5, <1>6, <3>2
    <3>4. applied'[n] = 0
      BY <1>5
    <3> QED
      BY <1>5, <3>1, <3>3, <3>4
  <2>2. \A done \in ledger' : done.answer \in 0 .. MaxHp
                             /\ \E s \in DOMAIN sub' : done.id = OperationId(s)'
    <3> SUFFICES ASSUME NEW done \in ledger
                 PROVE  done.answer \in 0 .. MaxHp
                        /\ \E s \in DOMAIN sub' : done.id = OperationId(s)'
      BY <1>1
    <3>1. PICK s \in DOMAIN sub : done.id = OperationId(s)
      BY DEF Remembered
    <3>2. s \in DOMAIN sub' /\ done.id = OperationId(s)'
      BY <1>5, <1>6, <3>1
    <3>3. done.answer \in 0 .. MaxHp
      BY DEF Remembered
    <3> QED
      BY <3>2, <3>3
  <2> QED
    BY <2>1, <2>2 DEF Remembered
<1>8. ASSUME LateFits PROVE LateFits'
  <2>1. ASSUME NEW s \in DOMAIN sub, late'[s] > 0 PROVE Pending(s)' \/ Earlier(s)' # {}
    BY <1>5, <1>6, <1>8, <2>1 DEF LateFits
  <2>2. late'[n] = 0 /\ DOMAIN sub' = DOMAIN sub \cup {n}
    BY <1>5
  <2> QED
    BY <2>1, <2>2 DEF LateFits
<1>9. ASSUME orderly', ~Busy, page' = "up", Still'
      PROVE  Submitted'
  <2>1. \A u \in DOMAIN sub : OperationId(u)' # OperationId(n)'
    <3> SUFFICES ASSUME NEW u \in DOMAIN sub, OperationId(u)' = OperationId(n)' PROVE FALSE
      OBVIOUS
    <3>1. sub'[u].kind \in {"hp", "turn"} /\ sub'[n].kind \in {"hp", "turn"}
      <4>1. sub'[u] \in Submissions /\ sub'[n] \in Submissions
        BY <1>3, <1>4, <1>5
      <4> QED
        BY <4>1 DEF Submissions
    <3>2. /\ sub'[u].kind = sub'[n].kind /\ sub'[u].delta = sub'[n].delta
          /\ sub'[u].kind = "hp" => sub'[u].time = sub'[n].time
      <4>1. \A d, e, m : <<"hp", d, m>> # <<"turn", e>>
        OBVIOUS
      <4>4. \A d, e, i, j : <<"hp", d, i>> = <<"hp", e, j>> => d = e /\ i = j
        OBVIOUS
      <4>5. \A d, e : <<"turn", d>> = <<"turn", e>> => d = e
        OBVIOUS
      <4>2. OperationId(u)' = IF sub'[u].kind = "hp" THEN <<"hp", sub'[u].delta, sub'[u].time>>
                              ELSE <<"turn", sub'[u].delta>>
        BY DEF OperationId
      <4>3. OperationId(n)' = IF sub'[n].kind = "hp" THEN <<"hp", sub'[n].delta, sub'[n].time>>
                              ELSE <<"turn", sub'[n].delta>>
        BY DEF OperationId
      <4> QED
        <5>1. CASE sub'[u].kind = "hp" /\ sub'[n].kind = "hp"
          <6>1. <<"hp", sub'[u].delta, sub'[u].time>> = <<"hp", sub'[n].delta, sub'[n].time>>
            BY <4>2, <4>3, <5>1
          <6>2. sub'[u].delta = sub'[n].delta /\ sub'[u].time = sub'[n].time
            BY <4>4, <6>1, Zenon
          <6> QED
            BY <5>1, <6>2
        <5>2. CASE sub'[u].kind = "hp" /\ sub'[n].kind = "turn"
          BY <4>1, <4>2, <4>3, <5>2
        <5>3. CASE sub'[u].kind = "turn" /\ sub'[n].kind = "hp"
          BY <4>1, <4>2, <4>3, <5>3
        <5>4. CASE sub'[u].kind = "turn" /\ sub'[n].kind = "turn"
          BY <4>2, <4>3, <4>5, <5>4
        <5> QED
          BY <3>1, <5>1, <5>2, <5>3, <5>4
    <3> QED
      BY <1>2, <1>5, <1>9, <3>2 DEF Repeats, new
  <2>2. \A done \in ledger' : done.id # OperationId(n)'
    <3> SUFFICES ASSUME NEW done \in ledger PROVE done.id # OperationId(n)'
      BY <1>1
    <3>1. PICK s \in DOMAIN sub : done.id = OperationId(s)
      BY DEF Remembered
    <3> QED
      BY <1>6, <2>1, <3>1
  <2>3. Earlier(n)' = {}
    BY <2>2 DEF Earlier
  <2>4. \A u \in DOMAIN sub' \ {n} : ~Pending(u)' /\ OperationId(u)' # OperationId(n)'
    BY <1>5, <1>6, <1>9, <2>1 DEF Busy, Pending
  <2>5. sub'[n].at = "sending"
    BY <1>5 DEF new
  <2> QED
    BY <1>5, <1>9, <2>3, <2>4, <2>5 DEF Submitted
<1>10. sub'[Len(sub')].by = by
  BY <1>5 DEF new
<1>11. \A s \in DOMAIN sub' : /\ sub'[s].at = "answered" => sub'[s].answer # Null
                              /\ sub'[s].at = "sending" => sub'[s].tries < MaxTries
  <2>1. sub'[n].at = "sending" /\ sub'[n].tries = 0
    BY <1>5 DEF new
  <2> QED
    BY <1>5, <2>1 DEF AnswersFit
<1> QED
  BY <1>0, <1>1, <1>2, <1>5, <1>7, <1>8, <1>9, <1>10, <1>11

\* applyHitPoints writes what is not there already.
LEMMA ApplyStep ==
  ASSUME ClientAssumption, ClientTypeOK, NEW value \in 0 .. MaxHp, ApplyHitPoints(value)
  PROVE  /\ self' \in BOOLEAN /\ stash' \in 0 .. MaxHp \cup {Null} /\ updates' \in Seq(Updates)
         /\ value = hp => UNCHANGED <<self, stash, updates>>
         /\ value # hp /\ updates = <<>> =>
              self' /\ updates' = <<[value |-> value, by |-> "module"]>>
<1> USE DEF ClientAssumption
<1>1. [value |-> value, by |-> "module"] \in Updates
  BY DEF Updates
<1>2. CASE value = hp
  BY <1>2 DEF ApplyHitPoints, ClientTypeOK
<1>3. CASE value # hp
  <2>1. self' = TRUE /\ stash' = hp /\ updates' = Append(updates, [value |-> value, by |-> "module"])
    BY <1>3 DEF ApplyHitPoints
  <2>2. updates' \in Seq(Updates) /\ hp \in 0 .. MaxHp
    BY <1>1, <2>1 DEF ClientTypeOK
  <2>3. updates = <<>> => updates' = <<[value |-> value, by |-> "module"]>>
    BY <2>1
  <2> QED
    BY <1>3, <2>1, <2>2, <2>3
<1> QED
  BY <1>2, <1>3

\* An update arrives.  While one thing happens at a time it is the edit of a
\* person, which is submitted, or what the module has written.
LEMMA UpdatedStep ==
  ASSUME ClientAssumption, ClientIInv, Updated
  PROVE  ClientIInv' /\ (orderly => \A s \in DOMAIN sub' \ DOMAIN sub : sub'[s].by = "user")
<1> USE DEF ClientAssumption, ClientIInv
<1> DEFINE next == Head(updates)
           hooked == next.value # hp
           heeded == hooked /\ ~self /\ stash \notin {Null, next.value}
<1>1. /\ updates # <<>> /\ updates' = Tail(updates) /\ hp' = next.value
      /\ stash' = IF hooked THEN Null ELSE stash
      /\ timers' = IF next.by = "module" THEN timers + 1 ELSE timers
      /\ heeded => Submit("hp", next.value - stash, next.by, TRUE)
      /\ ~heeded => UNCHANGED <<time, sub, server, ledger, late, applied, orderly>>
      /\ UNCHANGED <<self, page, restored, reloads>>
  BY DEF Updated, SelfUpdating, service
<1>2. next \in Updates /\ next.value \in 0 .. MaxHp /\ next.by \in {"user", "module"}
      /\ updates' \in Seq(Updates) /\ (Len(updates) = 1 => updates' = <<>> /\ next = updates[1])
  <2>1. updates \in Seq(Updates) /\ updates # <<>>
    BY <1>1 DEF ClientTypeOK
  <2>2. next \in Updates /\ updates' \in Seq(Updates)
    BY <1>1, <2>1
  <2>3. Len(updates) = 1 => updates' = <<>> /\ next = updates[1]
    BY <1>1, <2>1
  <2> QED
    BY <2>2, <2>3 DEF Updates
<1> HIDE DEF next
<1>3. CASE heeded
  <2>1. next.value - stash \in -MaxHp .. MaxHp
    BY <1>2, <1>3 DEF ClientTypeOK
  <2>2. /\ sub' \in Seq(Submissions) /\ Len(sub') = Len(sub) + 1
        /\ late' \in Seq(Nat) /\ applied' \in Seq(Nat)
        /\ Len(late') = Len(sub') /\ Len(applied') = Len(sub')
        /\ time' \in 0 .. MaxTime /\ orderly' \in BOOLEAN
        /\ sub'[Len(sub')].by = next.by
        /\ Remembered' /\ (LateFits => LateFits')
        /\ \A s \in DOMAIN sub' : /\ sub'[s].at = "answered" => sub'[s].answer # Null
                                  /\ sub'[s].at = "sending" => sub'[s].tries < MaxTries
        /\ orderly' => orderly
        /\ orderly' /\ ~Busy /\ page' = "up" /\ Still' => Submitted'
    BY <1>1, <1>2, <1>3, <2>1, SubmitStep
  <2>3. UNCHANGED server
    BY <1>1, <1>3 DEF Submit
  <2>4. ClientTypeOK'
    <3>1. stash' \in 0 .. MaxHp \cup {Null} /\ timers' \in Nat /\ hp' \in 0 .. MaxHp
      BY <1>1, <1>2 DEF ClientTypeOK
    <3> QED
      BY <1>1, <1>2, <2>2, <2>3, <3>1 DEF ClientTypeOK
  <2>5. orderly => Edited
    BY <1>1, <1>3 DEF OneAtATime, Settled, Submitted, Writing,
                      Written, Reloading, Still
  <2>6. orderly => Len(updates) = 1 /\ next.by = "user" /\ ~Busy /\ page' = "up" /\ Still'
    BY <1>1, <1>2, <1>3, <2>5 DEF Edited, Still
  <2>7. OneAtATime'
    BY <2>2, <2>6 DEF OneAtATime
  <2>9. AnswersFit'
    BY <1>1, <2>2 DEF AnswersFit
  <2>8. DOMAIN sub' \ DOMAIN sub = {Len(sub')}
    <3>1. sub \in Seq(Submissions)
      BY DEF ClientIInv, ClientTypeOK
    <3>2. Len(sub) \in Nat /\ DOMAIN sub = 1 .. Len(sub) /\ DOMAIN sub' = 1 .. Len(sub) + 1
      BY <2>2, <3>1
    <3> QED
      BY <2>2, <3>2
  <2> QED
    BY <2>2, <2>4, <2>6, <2>7, <2>8, <2>9
<1>4. CASE ~heeded
  <2>1. UNCHANGED <<time, sub, server, ledger, late, applied, orderly>>
    BY <1>1, <1>4
  <2>2. ClientTypeOK'
    <3>1. stash' \in 0 .. MaxHp \cup {Null} /\ timers' \in Nat /\ hp' \in 0 .. MaxHp
      BY <1>1, <1>2 DEF ClientTypeOK
    <3> QED
      BY <1>1, <1>2, <2>1, <3>1 DEF ClientTypeOK
  <2>3. Remembered' /\ (LateFits => LateFits') /\ (Busy' <=> Busy)
    BY <2>1, AsideStep
  <2>4. orderly => Writing
    <3>1. ~Edited
      BY <1>1, <1>2, <1>4 DEF Edited, ClientTypeOK
    <3> QED
      BY <1>1, <3>1 DEF OneAtATime, Settled, Submitted, Written,
                        Reloading, Still
  <2>5. ASSUME orderly
        PROVE  Written'
    <3>1. next = [value |-> server, by |-> "module"] /\ updates' = <<>>
      BY <1>2, <2>4, <2>5 DEF Writing
    <3>2. next.value = server /\ next.by = "module" /\ hooked
      BY <2>4, <2>5, <3>1 DEF Writing
    <3> QED
      BY <1>1, <2>1, <2>3, <2>4, <2>5, <3>1, <3>2 DEF Writing, Written
  <2>6. OneAtATime'
    BY <2>1, <2>3, <2>5 DEF OneAtATime
  <2>7. AnswersFit'
    BY <1>1, <2>1 DEF AnswersFit
  <2> QED
    BY <2>1, <2>2, <2>3, <2>6, <2>7
<1> QED
  BY <1>3, <1>4

\* The timer, and the restoration after a reload.
LEMMA PageStep ==
  ASSUME ClientAssumption, ClientIInv, Timer \/ GetCharacter \/ Restore \/ RestoreFails
  PROVE  ClientIInv' /\ UNCHANGED sub
<1> USE DEF ClientAssumption, ClientIInv
<1>1. UNCHANGED <<sub, time, server, ledger, late, applied, hp, reloads>>
  BY DEF Timer, GetCharacter, Restore, RestoreFails, service
<1>2. Remembered' /\ (LateFits => LateFits') /\ (Busy' <=> Busy)
  BY <1>1, AsideStep
<1>3. CASE Timer
  <2>1. timers' = timers - 1 /\ timers > 0 /\ self' = FALSE
        /\ UNCHANGED <<stash, updates, page, restored, orderly>>
    BY <1>3 DEF Timer
  <2>5. timers' \in Nat
    BY <2>1 DEF ClientTypeOK
  <2>2. ClientTypeOK'
    BY <1>1, <2>1, <2>5 DEF ClientTypeOK
  <2>3. orderly => Written
    BY <2>1 DEF OneAtATime, Settled, Edited, Submitted,
                Writing, Reloading, Still
  <2>4. orderly => Settled'
    BY <1>1, <1>2, <2>1, <2>3 DEF Written, Settled, Still
  <2> QED
    BY <1>1, <1>2, <2>1, <2>2, <2>4 DEF OneAtATime, AnswersFit, ClientTypeOK
<1>4. CASE GetCharacter
  <2>1. page = "loading" /\ page' = "restoring" /\ restored' = server
        /\ UNCHANGED <<stash, updates, self, timers, orderly>>
    BY <1>4 DEF GetCharacter
  <2>2. ClientTypeOK'
    BY <1>1, <2>1 DEF ClientTypeOK
  <2>3. orderly => Reloading
    BY <2>1 DEF OneAtATime, Settled, Edited, Submitted,
                Writing, Written
  <2>4. orderly => Reloading'
    BY <1>1, <1>2, <2>1, <2>3 DEF Reloading, Still
  <2> QED
    BY <1>1, <1>2, <2>1, <2>2, <2>4 DEF OneAtATime, AnswersFit, ClientTypeOK
<1>5. CASE Restore
  <2>1. /\ page = "restoring" /\ page' = "up" /\ restored' = Null /\ ApplyHitPoints(restored)
        /\ UNCHANGED <<timers, orderly>>
    BY <1>5 DEF Restore
  <2>2. restored \in 0 .. MaxHp
    BY <2>1 DEF ClientTypeOK, AnswersFit
  <2>3. /\ self' \in BOOLEAN /\ stash' \in 0 .. MaxHp \cup {Null} /\ updates' \in Seq(Updates)
        /\ restored = hp => UNCHANGED <<self, stash, updates>>
        /\ restored # hp /\ updates = <<>> =>
             self' /\ updates' = <<[value |-> restored, by |-> "module"]>>
    BY <2>1, <2>2, ApplyStep
  <2>4. ClientTypeOK'
    BY <1>1, <2>1, <2>3 DEF ClientTypeOK
  <2>5. orderly => Reloading
    BY <2>1 DEF OneAtATime, Settled, Edited, Submitted,
                Writing, Written
  <2>6. orderly => Settled' \/ Writing'
    BY <1>1, <1>2, <2>1, <2>3, <2>5 DEF Reloading, Still, Settled,
                                        Writing
  <2> QED
    BY <1>1, <1>2, <2>1, <2>4, <2>6 DEF OneAtATime, AnswersFit
<1>6. CASE RestoreFails
  <2>1. page' = "up" /\ restored' = Null /\ orderly' = FALSE
        /\ UNCHANGED <<stash, updates, self, timers>>
    BY <1>6 DEF RestoreFails
  <2>2. ClientTypeOK'
    BY <1>1, <2>1 DEF ClientTypeOK
  <2> QED
    BY <1>1, <1>2, <2>1, <2>2 DEF OneAtATime, AnswersFit
<1> QED
  BY <1>3, <1>4, <1>5, <1>6

\* What a submission is of stays, whatever becomes of it.
LEMMA IdsStay ==
  ASSUME ClientAssumption, ClientTypeOK, sub' \in Seq(Submissions), Len(sub') = Len(sub),
         \A s \in DOMAIN sub : /\ sub'[s].kind = sub[s].kind /\ sub'[s].delta = sub[s].delta
                               /\ sub'[s].time = sub[s].time
  PROVE  DOMAIN sub' = DOMAIN sub /\ \A s \in DOMAIN sub : OperationId(s)' = OperationId(s)
<1>1. DOMAIN sub' = DOMAIN sub
  BY DEF ClientTypeOK
<1> QED
  BY <1>1 DEF OperationId

\* One submission changes.
LEMMA OneChanges ==
  ASSUME sub \in Seq(Submissions), NEW s \in DOMAIN sub, NEW r \in Submissions,
         sub' = [sub EXCEPT ![s] = r]
  PROVE  /\ sub' \in Seq(Submissions) /\ Len(sub') = Len(sub) /\ DOMAIN sub' = DOMAIN sub
         /\ sub'[s] = r /\ \A u \in DOMAIN sub : u # s => sub'[u] = sub[u]
OBVIOUS

\* A submission is sent, or the module gives up waiting or hears the answer.
LEMMA EngineStep ==
  ASSUME ClientAssumption, ClientIInv, NEW s \in DOMAIN sub, SendRequest(s) \/ Fail(s) \/ Receive(s)
  PROVE  ClientIInv' /\ DOMAIN sub' = DOMAIN sub
<1> USE DEF ClientAssumption, ClientIInv
<1> DEFINE Heard == UNCHANGED <<self, stash, updates>>
           Given == late' = late \/ late' = [late EXCEPT ![s] = @ + 1]
<1>0. /\ sub[s] \in Submissions /\ Len(sub) \in Nat /\ DOMAIN sub = 1 .. Len(sub)
      /\ DOMAIN late = DOMAIN sub /\ late \in Seq(Nat) /\ sub \in Seq(Submissions)
      /\ orderly \in BOOLEAN
  BY DEF ClientTypeOK
<1>1. UNCHANGED <<time, server, ledger, applied, hp, timers, page, restored, reloads>>
  BY DEF SendRequest, Fail, Receive, client, service
<1>2. PICK r \in Submissions :
        /\ sub' = [sub EXCEPT ![s] = r]
        /\ r.kind = sub[s].kind /\ r.delta = sub[s].delta /\ r.time = sub[s].time
        /\ r.at = "sending" => r.tries < MaxTries
        /\ Pending(s) /\ orderly' \in BOOLEAN /\ (orderly' => orderly)
        /\ \/ r.at \in {"sending", "sent"} /\ Heard /\ Given
           \/ r.at = "failed" /\ ~orderly' /\ Heard /\ Given
           \/ /\ r.at = "done" /\ sub[s].at = "answered"
              /\ ApplyHitPoints(sub[s].answer) /\ late' = late
  <2>1. CASE SendRequest(s)
    <3> DEFINE r == [sub[s] EXCEPT !.at = "sent", !.tries = @ + 1]
    <3>1. sub[s].at = "sending" /\ sub' = [sub EXCEPT ![s] = r]
      BY <1>0, <2>1 DEF SendRequest
    <3>2. r \in Submissions /\ r.at = "sent"
          /\ r.kind = sub[s].kind /\ r.delta = sub[s].delta /\ r.time = sub[s].time
      <4>1. sub[s].tries \in 0 .. MaxTries /\ sub[s].tries < MaxTries
        BY <1>0, <3>1 DEF Submissions, AnswersFit
      <4>2. sub[s].tries + 1 \in 0 .. MaxTries
        BY <4>1
      <4> QED
        BY <1>0, <4>2 DEF Submissions
    <3>3. Heard /\ Given /\ orderly' = orderly /\ Pending(s)
      BY <2>1, <3>1 DEF SendRequest, client, service, Pending, Ended
    <3> HIDE DEF r, Heard, Given
    <3> QED
      BY <1>0, <3>1, <3>2, <3>3
  <2>2. CASE Fail(s)
    <3> DEFINE to == IF MayRetry(s) THEN "sending" ELSE "failed"
               r == [sub[s] EXCEPT !.at = to, !.answer = Null]
    <3>1. sub[s].at \in {"sent", "answered", "refused"} /\ sub' = [sub EXCEPT ![s] = r]
      BY <1>0, <2>2 DEF Fail
    <3>2. r \in Submissions /\ r.at = to /\ r.tries = sub[s].tries
          /\ r.kind = sub[s].kind /\ r.delta = sub[s].delta /\ r.time = sub[s].time
      BY <1>0, <3>1 DEF Submissions, Ended
    <3>3. Heard /\ Given /\ Pending(s) /\ orderly' = (orderly /\ MayRetry(s))
      BY <2>2, <3>1 DEF Fail, client, Pending, Ended
    <3> HIDE DEF r, Heard, Given
    <3>4. CASE MayRetry(s)
      BY <1>0, <3>1, <3>2, <3>3, <3>4 DEF MayRetry
    <3>5. CASE ~MayRetry(s)
      BY <1>0, <3>1, <3>2, <3>3, <3>5
    <3> QED
      BY <3>4, <3>5
  <2>3. CASE Receive(s) /\ sub[s].at = "refused"
    <3> DEFINE r == [sub[s] EXCEPT !.at = "failed"]
    <3>1. sub' = [sub EXCEPT ![s] = r]
      BY <1>0, <2>3 DEF Receive
    <3>2. r \in Submissions /\ r.at = "failed"
          /\ r.kind = sub[s].kind /\ r.delta = sub[s].delta /\ r.time = sub[s].time
      BY <1>0 DEF Submissions, Ended
    <3>3. Heard /\ Given /\ Pending(s) /\ orderly' = FALSE
      BY <2>3 DEF Receive, service, Pending, Ended
    <3> HIDE DEF r, Heard, Given
    <3> QED
      BY <1>0, <3>1, <3>2, <3>3
  <2>4. CASE Receive(s) /\ sub[s].at = "answered"
    <3> DEFINE r == [sub[s] EXCEPT !.at = "done", !.answer = Null]
    <3>1. sub' = [sub EXCEPT ![s] = r]
      BY <1>0, <2>4 DEF Receive
    <3>2. r \in Submissions /\ r.at = "done"
          /\ r.kind = sub[s].kind /\ r.delta = sub[s].delta /\ r.time = sub[s].time
      BY <1>0 DEF Submissions, Ended
    <3>3. ApplyHitPoints(sub[s].answer) /\ late' = late /\ Pending(s) /\ orderly' = orderly
      BY <2>4 DEF Receive, service, Pending, Ended
    <3> HIDE DEF r
    <3> QED
      BY <1>0, <2>4, <3>1, <3>2, <3>3
  <2> QED
    BY <2>1, <2>2, <2>3, <2>4 DEF Receive
<1>3. /\ sub' \in Seq(Submissions) /\ Len(sub') = Len(sub) /\ DOMAIN sub' = DOMAIN sub
      /\ sub'[s] = r /\ \A u \in DOMAIN sub : u # s => sub'[u] = sub[u]
  BY <1>0, <1>2, OneChanges
<1>4. \A u \in DOMAIN sub : OperationId(u)' = OperationId(u) /\ Earlier(u)' = Earlier(u)
  <2>1. \A u \in DOMAIN sub : OperationId(u)' = OperationId(u)
    BY <1>0, <1>2, <1>3, IdsStay DEF ClientTypeOK
  <2> QED
    BY <1>1, <2>1 DEF Earlier
<1>5. ClientTypeOK'
  <2>1. late' \in Seq(Nat) /\ Len(late') = Len(late)
    <3>1. CASE late' = late
      BY <1>0, <3>1
    <3>2. CASE late' = [late EXCEPT ![s] = @ + 1]
      <4>1. late[s] \in Nat
        BY <1>0
      <4> QED
        BY <1>0, <3>2, <4>1
    <3> QED
      BY <1>2, <3>1, <3>2
  <2>2. stash' \in 0 .. MaxHp \cup {Null} /\ updates' \in Seq(Updates) /\ self' \in BOOLEAN
    <3>1. CASE Heard
      BY <3>1 DEF ClientTypeOK
    <3>2. CASE sub[s].at = "answered" /\ ApplyHitPoints(sub[s].answer)
      <4>1. sub[s].answer \in 0 .. MaxHp
        <5>1. sub[s].answer \in 0 .. MaxHp \cup {Null}
          BY <1>0 DEF Submissions
        <5>2. sub[s].answer # Null
          BY <3>2 DEF AnswersFit
        <5> QED
          BY <5>1, <5>2
      <4> QED
        BY <3>2, <4>1, ApplyStep
    <3> QED
      BY <1>2, <3>1, <3>2
  <2> QED
    BY <1>1, <1>2, <1>3, <2>1, <2>2 DEF ClientTypeOK
<1>6. Remembered'
  BY <1>1, <1>2, <1>3, <1>4 DEF Remembered
<1>7. AnswersFit'
  BY <1>1, <1>2, <1>3 DEF AnswersFit
<1>8. ASSUME orderly' PROVE OneAtATime'
  <2>1. orderly /\ LateFits /\ page = "up" /\ Still
        /\ (sub[s].at = "answered" => sub[s].answer = server)
        /\ (\A u \in DOMAIN sub \ {s} : ~Pending(u) /\ OperationId(u) # OperationId(s))
        /\ \A done \in Earlier(s) : done.time = sub[s].time /\ done.answer = server
    <3>1. Submitted /\ LateFits
      BY <1>2, <1>8 DEF OneAtATime, Settled, Edited, Writing,
                        Written, Reloading, Busy, Pending
    <3> QED
      BY <1>2, <1>8, <3>1 DEF Submitted
  <2>2. \A u \in DOMAIN sub : u # s => ~Pending(u)' /\ OperationId(u)' # OperationId(s)'
    BY <1>3, <1>4, <2>1 DEF Pending
  <2>3. CASE r.at \in {"sending", "sent"} /\ Heard /\ Given
    <3>1. \A u \in DOMAIN sub : u # s => late'[u] = late[u]
      BY <1>0, <2>3
    <3>2. Submitted'
      BY <1>1, <1>2, <1>3, <1>4, <2>1, <2>2, <2>3 DEF Submitted, Still
    <3>3. LateFits'
      <4>1. Pending(s)'
        BY <1>3, <2>3 DEF Pending, Ended
      <4>2. \A u \in DOMAIN sub : u # s => (late[u] > 0 => Earlier(u)' # {})
        BY <1>4, <2>1 DEF LateFits
      <4> QED
        BY <1>3, <3>1, <4>1, <4>2 DEF LateFits
    <3> QED
      BY <3>2, <3>3 DEF OneAtATime
  <2>4. CASE /\ r.at = "done" /\ sub[s].at = "answered"
             /\ ApplyHitPoints(sub[s].answer) /\ late' = late
    <3>1. LateFits'
      <4>1. Earlier(s) # {}
        BY <2>4 DEF Remembered
      <4> QED
        BY <1>3, <1>4, <2>1, <2>4, <4>1 DEF LateFits
    <3>2. ~Busy'
      BY <1>3, <2>2, <2>4 DEF Busy, Pending, Ended
    <3>3. /\ server = hp => UNCHANGED <<self, stash, updates>>
          /\ server # hp => self' /\ updates' = <<[value |-> server, by |-> "module"]>>
      BY <2>1, <2>4, ApplyStep DEF Still, ClientTypeOK
    <3>4. Settled' \/ Writing'
      BY <1>1, <2>1, <3>2, <3>3 DEF Settled, Writing, Still
    <3> QED
      BY <3>1, <3>4 DEF OneAtATime
  <2> QED
    BY <1>2, <1>8, <2>3, <2>4
<1> QED
  BY <1>3, <1>5, <1>6, <1>7, <1>8 DEF OneAtATime

\* The service does an operation, unless it has done it: it remembers it then.
LEMMA DoStep ==
  ASSUME ClientAssumption, ClientTypeOK, Remembered, NEW s \in DOMAIN sub, Do(s), DOMAIN sub' = DOMAIN sub,
         \A u \in DOMAIN sub : OperationId(u)' = OperationId(u)
  PROVE  /\ server' \in 0 .. MaxHp /\ applied' \in Seq(Nat) /\ Len(applied') = Len(applied)
         /\ Earlier(s) # {} => UNCHANGED <<server, ledger, applied>>
         /\ Earlier(s) = {} =>
              Earlier(s)' = {[id |-> OperationId(s), time |-> sub[s].time, answer |-> server']}
         /\ \A u \in DOMAIN sub : /\ Earlier(u) \subseteq Earlier(u)'
                                  /\ applied'[u] <= 1 /\ (applied'[u] = 1 => Earlier(u)' # {})
         /\ Earlier(s)' # {}
         /\ \A done \in ledger' : done.answer \in 0 .. MaxHp
                                  /\ \E u \in DOMAIN sub' : done.id = OperationId(u)'
<1> USE DEF ClientAssumption
<1>1. /\ applied \in Seq(Nat) /\ DOMAIN applied = DOMAIN sub /\ server \in 0 .. MaxHp
      /\ \A done \in ledger : done.answer \in 0 .. MaxHp
                              /\ \E u \in DOMAIN sub : done.id = OperationId(u)
      /\ \A u \in DOMAIN sub : applied[u] <= 1 /\ (applied[u] = 1 => Earlier(u) # {})
  BY DEF ClientTypeOK, Remembered
<1>2. CASE Earlier(s) # {}
  <2>1. UNCHANGED <<server, ledger, applied>>
    BY <1>2 DEF Do
  <2>2. \A u \in DOMAIN sub : Earlier(u)' = Earlier(u)
    BY <2>1 DEF Earlier
  <2> QED
    BY <1>1, <1>2, <2>1, <2>2
<1>3. CASE Earlier(s) = {}
  <2> DEFINE entry == [id |-> OperationId(s), time |-> sub[s].time, answer |-> Result(s)]
  <2>1. server' = Result(s) /\ ledger' = ledger \cup {entry} /\ applied' = [applied EXCEPT ![s] = @ + 1]
    BY <1>3 DEF Do
  <2>2. Result(s) \in 0 .. MaxHp
    <3>1. sub[s] \in Submissions
      BY DEF ClientTypeOK
    <3>2. server + sub[s].delta \in Int
      BY <1>1, <3>1 DEF Submissions
    <3> QED
      BY <3>2 DEF Result, Clamp
  <2>3. entry.id = OperationId(s) /\ entry.answer = Result(s)
    OBVIOUS
  <2> HIDE DEF entry
  <2>4. Earlier(s)' = {entry}
    BY <1>3, <2>1, <2>3 DEF Earlier
  <2>5. \A u \in DOMAIN sub : Earlier(u) \subseteq Earlier(u)'
    BY <2>1 DEF Earlier
  <2>6. applied[s] = 0
    BY <1>1, <1>3
  <2>7. /\ applied' \in Seq(Nat) /\ Len(applied') = Len(applied) /\ applied'[s] = 1
        /\ \A u \in DOMAIN sub : u # s => applied'[u] = applied[u]
    BY <1>1, <2>1, <2>6
  <2>8. \A u \in DOMAIN sub : applied'[u] <= 1 /\ (applied'[u] = 1 => Earlier(u)' # {})
    <3>1. applied'[s] <= 1 /\ Earlier(s)' # {}
      BY <2>4, <2>7
    <3>2. \A u \in DOMAIN sub : Earlier(u) # {} => Earlier(u)' # {}
      BY <2>5
    <3> QED
      BY <1>1, <2>7, <3>1, <3>2
  <2>9. \A done \in ledger' : done.answer \in 0 .. MaxHp
                              /\ \E u \in DOMAIN sub' : done.id = OperationId(u)'
    BY <1>1, <2>1, <2>2, <2>3
  <2>10. entry = [id |-> OperationId(s), time |-> sub[s].time, answer |-> server']
    BY <2>1 DEF entry
  <2> QED
    BY <1>3, <2>1, <2>2, <2>4, <2>5, <2>7, <2>8, <2>9, <2>10
<1> QED
  BY <1>2, <1>3

\* The service answers, with what the hit points are now while one thing happens
\* at a time.
LEMMA ServeStep ==
  ASSUME ClientAssumption, ClientIInv, NEW s \in DOMAIN sub, Serve(s)
  PROVE  ClientIInv' /\ DOMAIN sub' = DOMAIN sub
<1> USE DEF ClientAssumption, ClientIInv
<1>1. /\ UNCHANGED <<hp, stash, updates, self, timers, page, restored, reloads, time, late, orderly>>
      /\ sub[s].at = "sent" /\ Do(s)
      /\ sub[s] \in Submissions /\ sub \in Seq(Submissions)
  BY DEF Serve, client, ClientTypeOK
<1> DEFINE wrong == \E done \in Earlier(s) : done.time # sub[s].time
           told == IF Earlier(s) = {} THEN Result(s) ELSE (CHOOSE done \in Earlier(s) : TRUE).answer
<1>2. Result(s) \in 0 .. MaxHp
  <2>1. server + sub[s].delta \in Int
    BY <1>1 DEF ClientTypeOK, Submissions
  <2> QED
    BY <2>1 DEF Result, Clamp
<1>3. told \in 0 .. MaxHp /\ (Earlier(s) # {} => \E done \in Earlier(s) : told = done.answer)
  BY <1>2 DEF Remembered, Earlier
<1>4. PICK r \in Submissions :
        /\ sub' = [sub EXCEPT ![s] = r]
        /\ r.kind = sub[s].kind /\ r.delta = sub[s].delta /\ r.time = sub[s].time
        /\ r.at = IF wrong THEN "refused" ELSE "answered"
        /\ ~wrong => r.answer = told
  <2>1. CASE wrong
    <3> DEFINE r == [sub[s] EXCEPT !.at = "refused"]
    <3>1. sub' = [sub EXCEPT ![s] = r]
      BY <1>1, <2>1 DEF Serve
    <3>2. r \in Submissions /\ r.at = "refused"
          /\ r.kind = sub[s].kind /\ r.delta = sub[s].delta /\ r.time = sub[s].time
      BY <1>1 DEF Submissions
    <3> HIDE DEF r, wrong
    <3> QED
      BY <2>1, <3>1, <3>2
  <2>2. CASE ~wrong
    <3> DEFINE r == [sub[s] EXCEPT !.at = "answered", !.answer = told]
    <3>1. sub' = [sub EXCEPT ![s] = r]
      BY <1>1, <2>2 DEF Serve
    <3> HIDE DEF told
    <3>2. r \in Submissions /\ r.at = "answered" /\ r.answer = told
          /\ r.kind = sub[s].kind /\ r.delta = sub[s].delta /\ r.time = sub[s].time
      BY <1>1, <1>3 DEF Submissions
    <3> HIDE DEF r, wrong
    <3> QED
      BY <2>2, <3>1, <3>2
  <2> QED
    BY <2>1, <2>2
<1> HIDE DEF told
<1>5. /\ sub' \in Seq(Submissions) /\ Len(sub') = Len(sub) /\ DOMAIN sub' = DOMAIN sub
      /\ sub'[s] = r /\ \A u \in DOMAIN sub : u # s => sub'[u] = sub[u]
  BY <1>1, <1>4, OneChanges
<1>6. \A u \in DOMAIN sub : OperationId(u)' = OperationId(u)
  BY <1>4, <1>5, IdsStay
<1>7. /\ server' \in 0 .. MaxHp /\ applied' \in Seq(Nat) /\ Len(applied') = Len(applied)
      /\ Earlier(s) # {} => UNCHANGED <<server, ledger, applied>>
      /\ Earlier(s) = {} =>
           Earlier(s)' = {[id |-> OperationId(s), time |-> sub[s].time, answer |-> server']}
      /\ \A u \in DOMAIN sub : /\ Earlier(u) \subseteq Earlier(u)'
                               /\ applied'[u] <= 1 /\ (applied'[u] = 1 => Earlier(u)' # {})
      /\ Earlier(s)' # {}
      /\ \A done \in ledger' : done.answer \in 0 .. MaxHp
                               /\ \E u \in DOMAIN sub' : done.id = OperationId(u)'
  BY <1>1, <1>5, <1>6, DoStep
<1>8. ClientTypeOK'
  BY <1>1, <1>5, <1>7 DEF ClientTypeOK
<1>9. Remembered'
  <2>1. \A u \in DOMAIN sub' : sub'[u].at \in {"answered", "refused"} => Earlier(u)' # {}
    <3> SUFFICES ASSUME NEW u \in DOMAIN sub, u # s, sub'[u].at \in {"answered", "refused"}
                 PROVE  Earlier(u)' # {}
      BY <1>5, <1>7
    <3>1. Earlier(u) # {}
      BY <1>5 DEF Remembered
    <3> QED
      BY <1>7, <3>1
  <2> QED
    BY <1>5, <1>7, <2>1 DEF Remembered
<1>10. AnswersFit'
  BY <1>1, <1>3, <1>4, <1>5 DEF AnswersFit
<1>11. ASSUME orderly' PROVE OneAtATime'
  <2>1. orderly /\ LateFits /\ page = "up" /\ Still
        /\ (\A u \in DOMAIN sub \ {s} : ~Pending(u) /\ OperationId(u) # OperationId(s))
        /\ \A done \in Earlier(s) : done.time = sub[s].time /\ done.answer = server
    <3>1. Busy
      BY <1>1 DEF Busy, Ended
    <3>2. Submitted /\ LateFits
      BY <1>1, <1>11, <3>1 DEF OneAtATime, Settled, Edited,
                               Writing, Written, Reloading
    <3>3. Pending(s)
      BY <1>1 DEF Pending, Ended
    <3> QED
      BY <1>1, <1>11, <3>2, <3>3 DEF Submitted
  <2>2. r.at = "answered" /\ r.answer = server'
    <3>1. ~wrong
      BY <2>1
    <3>2. told = server'
      <4>1. CASE Earlier(s) = {}
        BY <1>1, <4>1 DEF told, Do
      <4>2. CASE Earlier(s) # {}
        BY <1>3, <1>7, <2>1, <4>2
      <4> QED
        BY <4>1, <4>2
    <3> QED
      BY <1>4, <3>1, <3>2
  <2>3. \A done \in Earlier(s)' : done.time = sub'[s].time /\ done.answer = server'
    <3>1. CASE Earlier(s) = {}
      BY <1>4, <1>5, <1>7, <3>1
    <3>2. CASE Earlier(s) # {}
      <4>1. Earlier(s)' = Earlier(s)
        BY <1>6, <1>7, <3>2 DEF Earlier
      <4> QED
        BY <1>4, <1>5, <1>7, <2>1, <3>2, <4>1
    <3> QED
      BY <3>1, <3>2
  <2>4. \A u \in DOMAIN sub' \ {s} : ~Pending(u)' /\ OperationId(u)' # OperationId(s)'
    BY <1>5, <1>6, <2>1 DEF Pending
  <2>5. Submitted'
    BY <1>1, <1>5, <2>1, <2>2, <2>3, <2>4 DEF Submitted, Still
  <2>6. LateFits'
    <3>1. \A u \in DOMAIN sub : u # s => (late[u] > 0 => Earlier(u)' # {})
      BY <1>7, <2>1 DEF LateFits
    <3> QED
      BY <1>1, <1>5, <1>7, <3>1 DEF LateFits
  <2> QED
    BY <2>5, <2>6 DEF OneAtATime
<1> QED
  BY <1>5, <1>8, <1>9, <1>10, <1>11 DEF OneAtATime

\* A late request does nothing that has been done, or what is waited for.
LEMMA LateStep ==
  ASSUME ClientAssumption, ClientIInv, NEW s \in DOMAIN sub, ServeLate(s)
  PROVE  ClientIInv' /\ UNCHANGED sub
<1> USE DEF ClientAssumption, ClientIInv
<1>1. /\ UNCHANGED <<hp, stash, updates, self, timers, page, restored, reloads, time, sub, orderly>>
      /\ late[s] > 0 /\ late' = [late EXCEPT ![s] = @ - 1] /\ Do(s)
      /\ late \in Seq(Nat) /\ DOMAIN late = DOMAIN sub
  BY DEF ServeLate, client, ClientTypeOK
<1>2. late' \in Seq(Nat) /\ Len(late') = Len(late) /\ \A u \in DOMAIN sub : late'[u] > 0 => late[u] > 0
  <2>1. late[s] - 1 \in Nat
    BY <1>1
  <2> QED
    BY <1>1, <2>1
<1>3. \A u \in DOMAIN sub : OperationId(u)' = OperationId(u) /\ (Pending(u)' <=> Pending(u))
  BY <1>1 DEF OperationId, Pending
<1>4. /\ server' \in 0 .. MaxHp /\ applied' \in Seq(Nat) /\ Len(applied') = Len(applied)
      /\ Earlier(s) # {} => UNCHANGED <<server, ledger, applied>>
      /\ Earlier(s) = {} =>
           Earlier(s)' = {[id |-> OperationId(s), time |-> sub[s].time, answer |-> server']}
      /\ \A u \in DOMAIN sub : /\ Earlier(u) \subseteq Earlier(u)'
                               /\ applied'[u] <= 1 /\ (applied'[u] = 1 => Earlier(u)' # {})
      /\ Earlier(s)' # {}
      /\ \A done \in ledger' : done.answer \in 0 .. MaxHp
                               /\ \E u \in DOMAIN sub' : done.id = OperationId(u)'
  BY <1>1, <1>3, DoStep
<1>5. ClientTypeOK'
  BY <1>1, <1>2, <1>4 DEF ClientTypeOK
<1>6. Remembered'
  <2>1. \A u \in DOMAIN sub : Earlier(u) # {} => Earlier(u)' # {}
    BY <1>4
  <2> QED
    BY <1>1, <1>4, <2>1 DEF Remembered
<1>7. AnswersFit'
  BY <1>1 DEF AnswersFit
<1>8. ASSUME orderly' PROVE OneAtATime'
  <2>1. LateFits'
    <3>1. LateFits
      BY <1>1, <1>8 DEF OneAtATime
    <3>2. \A u \in DOMAIN sub : late[u] > 0 /\ ~Pending(u) => Earlier(u)' # {}
      BY <1>4, <3>1 DEF LateFits
    <3> QED
      BY <1>1, <1>2, <1>3, <3>2 DEF LateFits
  <2>2. CASE Earlier(s) # {}
    <3>1. UNCHANGED <<server, ledger>>
      BY <1>4, <2>2
    <3>2. \A u \in DOMAIN sub : Earlier(u)' = Earlier(u)
      BY <1>3, <3>1 DEF Earlier
    <3>3. Busy' <=> Busy
      BY <1>1 DEF Busy
    <3>4. Submitted => Submitted'
      BY <1>1, <1>3, <3>1, <3>2 DEF Submitted, Still
    <3>5. /\ Settled => Settled'
          /\ Edited => Edited'
      BY <1>1, <3>1, <3>3 DEF Settled, Edited, Still
    <3>6. /\ Writing => Writing'
          /\ Written => Written'
          /\ Reloading => Reloading'
      BY <1>1, <3>1, <3>3 DEF Writing, Written, Reloading, Still
    <3> QED
      BY <1>1, <1>8, <2>1, <3>4, <3>5, <3>6 DEF OneAtATime
  <2>3. CASE Earlier(s) = {}
    <3>1. Pending(s)
      BY <1>1, <1>8, <2>3 DEF OneAtATime, LateFits
    <3>2. Submitted
      BY <1>1, <1>8, <3>1 DEF OneAtATime, Settled, Edited,
                              Writing, Written, Reloading, Busy,
                              Pending
    <3>3. page = "up" /\ Still /\ sub[s].at \in {"sending", "sent", "answered"}
          /\ \A u \in DOMAIN sub \ {s} : ~Pending(u) /\ OperationId(u) # OperationId(s)
      BY <3>1, <3>2 DEF Submitted
    <3>4. sub[s].at # "answered"
      BY <2>3 DEF Remembered
    <3>5. \A done \in Earlier(s)' : done.time = sub[s].time /\ done.answer = server'
      BY <1>4, <2>3
    <3>6. Submitted'
      BY <1>1, <1>3, <3>3, <3>4, <3>5 DEF Submitted, Still
    <3> QED
      BY <2>1, <3>6 DEF OneAtATime
  <2> QED
    BY <2>2, <2>3
<1> QED
  BY <1>1, <1>5, <1>6, <1>7, <1>8 DEF OneAtATime

\* A reload forgets what was under way.
LEMMA ReloadStep ==
  ASSUME ClientAssumption, ClientIInv, Reload
  PROVE  ClientIInv' /\ DOMAIN sub' = DOMAIN sub
<1> USE DEF ClientAssumption, ClientIInv
<1>1. /\ UNCHANGED <<time, server, ledger, applied>> /\ reloads' = reloads + 1 /\ reloads < MaxReloads
      /\ hp' \in {hp} \cup {updates[k].value : k \in DOMAIN updates}
      /\ stash' = Null /\ updates' = <<>> /\ self' = FALSE /\ timers' = 0
      /\ page' = "loading" /\ restored' = Null
      /\ sub' = [s \in DOMAIN sub |->
           IF Pending(s) THEN [sub[s] EXCEPT !.at = "lost", !.answer = Null] ELSE sub[s]]
      /\ \/ late' = late
         \/ late' = [s \in DOMAIN late |-> IF sub[s].at = "sent" THEN late[s] + 1 ELSE late[s]]
      /\ orderly' = (\A s \in DOMAIN late' : late'[s] = 0)
  BY DEF Reload
<1>2. /\ sub \in Seq(Submissions) /\ late \in Seq(Nat) /\ Len(sub) \in Nat
      /\ DOMAIN sub = 1 .. Len(sub) /\ DOMAIN late = 1 .. Len(sub) /\ updates \in Seq(Updates)
  BY DEF ClientTypeOK
<1>3. \A s \in DOMAIN sub :
        /\ sub'[s] \in Submissions /\ sub'[s].kind = sub[s].kind /\ sub'[s].delta = sub[s].delta
        /\ sub'[s].time = sub[s].time /\ sub'[s].at \in Ended
  <2> SUFFICES ASSUME NEW s \in DOMAIN sub
               PROVE  /\ sub'[s] \in Submissions /\ sub'[s].kind = sub[s].kind
                      /\ sub'[s].delta = sub[s].delta
                      /\ sub'[s].time = sub[s].time /\ sub'[s].at \in Ended
    OBVIOUS
  <2>1. sub[s] \in Submissions
    BY <1>2
  <2>2. CASE Pending(s)
    <3>1. sub'[s] = [sub[s] EXCEPT !.at = "lost", !.answer = Null]
      BY <1>1, <2>2
    <3> QED
      BY <2>1, <3>1 DEF Submissions, Ended
  <2>3. CASE ~Pending(s)
    BY <1>1, <2>1, <2>3 DEF Pending
  <2> QED
    BY <2>2, <2>3
<1>4. sub' \in Seq(Submissions) /\ Len(sub') = Len(sub) /\ DOMAIN sub' = DOMAIN sub
  <2>1. sub' \in [1 .. Len(sub) -> Submissions]
    BY <1>1, <1>2, <1>3
  <2> QED
    BY <1>2, <2>1
<1>5. late' \in Seq(Nat) /\ Len(late') = Len(late)
  <2>1. CASE late' = late
    BY <1>2, <2>1
  <2>2. CASE late' = [s \in DOMAIN late |-> IF sub[s].at = "sent" THEN late[s] + 1 ELSE late[s]]
    BY <1>2, <2>2
  <2> QED
    BY <1>1, <2>1, <2>2
<1>6. hp' \in 0 .. MaxHp /\ reloads' \in 0 .. MaxReloads
  <2>1. \A k \in DOMAIN updates : updates[k].value \in 0 .. MaxHp
    <3>1. \A k \in DOMAIN updates : updates[k] \in Updates
      BY <1>2
    <3> QED
      BY <3>1 DEF Updates
  <2>2. hp \in 0 .. MaxHp /\ reloads \in 0 .. MaxReloads
    BY DEF ClientTypeOK
  <2>3. hp' \in 0 .. MaxHp
    <3>1. hp' = hp \/ \E k \in DOMAIN updates : hp' = updates[k].value
      BY <1>1
    <3> QED
      BY <2>1, <2>2, <3>1
  <2>4. reloads' = reloads + 1 /\ reloads < MaxReloads
    BY <1>1
  <2> QED
    BY <2>2, <2>3, <2>4
<1>7. ClientTypeOK'
  <2>1. orderly' \in BOOLEAN
    BY <1>1, Zenon
  <2>2. updates' \in Seq(Updates) /\ timers' \in Nat
    <3>1. updates' = <<>> /\ timers' = 0
      BY <1>1
    <3> QED
      BY <3>1
  <2>3. self' = FALSE /\ stash' = Null /\ page' = "loading" /\ restored' = Null
    BY <1>1
  <2>4. UNCHANGED <<time, server, applied>>
    BY <1>1
  <2> QED
    BY <1>4, <1>5, <1>6, <2>1, <2>2, <2>3, <2>4 DEF ClientTypeOK
<1>8. \A s \in DOMAIN sub : OperationId(s)' = OperationId(s) /\ Earlier(s)' = Earlier(s)
  <2>1. \A s \in DOMAIN sub : OperationId(s)' = OperationId(s)
    BY <1>3, <1>4, IdsStay
  <2> QED
    BY <1>1, <2>1 DEF Earlier
<1>9. Remembered' /\ AnswersFit'
  BY <1>1, <1>3, <1>4, <1>8 DEF Remembered, AnswersFit, Ended
<1>10. ~Busy'
  BY <1>3, <1>4 DEF Busy, Ended
<1>11. Reloading'
  BY <1>1, <1>10 DEF Reloading, Still
<1>12. orderly' => LateFits'
  <2>1. DOMAIN late' = DOMAIN sub'
    BY <1>2, <1>4, <1>5
  <2>2. ASSUME orderly' PROVE \A s \in DOMAIN late' : late'[s] = 0
    BY <1>1, <2>2, Zenon
  <2> QED
    BY <2>1, <2>2 DEF LateFits
<1> QED
  BY <1>4, <1>7, <1>9, <1>11, <1>12 DEF OneAtATime

\* Every step keeps the inductive invariant, and what is submitted while one
\* thing happens at a time comes from a person.
LEMMA ClientStep ==
  ASSUME ClientAssumption, ClientIInv, [ClientNext]_clientVars
  PROVE  ClientIInv' /\ (orderly => \A s \in DOMAIN sub' \ DOMAIN sub : sub'[s].by = "user")
<1>1. CASE \E value \in 0 .. MaxHp : Edit(value)
  <2>1. UNCHANGED sub
    BY <1>1 DEF Edit
  <2> QED
    BY <1>1, <2>1, EditStep
<1>2. ASSUME NEW damage \in 1 .. MaxHp, SubmitCombatTurn(damage)
      PROVE  ClientIInv' /\ (orderly => \A s \in DOMAIN sub' \ DOMAIN sub : sub'[s].by = "user")
  <2>1. Submit("turn", -damage, "user", Quiet) /\ UNCHANGED client /\ UNCHANGED server
    BY <1>2 DEF SubmitCombatTurn, Submit
  <2>2. -damage \in -MaxHp .. MaxHp /\ Quiet \in BOOLEAN
    BY DEF ClientAssumption, Quiet, Busy
  <2>3. /\ sub' \in Seq(Submissions) /\ Len(sub') = Len(sub) + 1
        /\ late' \in Seq(Nat) /\ applied' \in Seq(Nat)
        /\ Len(late') = Len(sub') /\ Len(applied') = Len(sub')
        /\ time' \in 0 .. MaxTime /\ orderly' \in BOOLEAN
        /\ sub'[Len(sub')].by = "user"
        /\ \A s \in DOMAIN sub' : /\ sub'[s].at = "answered" => sub'[s].answer # Null
                                  /\ sub'[s].at = "sending" => sub'[s].tries < MaxTries
        /\ Remembered' /\ (LateFits => LateFits')
        /\ orderly' => orderly /\ Quiet
        /\ orderly' /\ ~Busy /\ page' = "up" /\ Still' => Submitted'
    BY <2>1, <2>2, SubmitStep
  <2>4. ClientTypeOK' /\ AnswersFit'
    BY <2>1, <2>3 DEF ClientIInv, ClientTypeOK, AnswersFit, client
  <2>5. ASSUME orderly' PROVE LateFits' /\ Submitted'
    <3>1. orderly /\ Quiet /\ LateFits
      BY <2>3, <2>5 DEF ClientIInv, OneAtATime
    <3>2. Settled
      BY <3>1 DEF ClientIInv, OneAtATime, Quiet, Edited,
                  Submitted, Writing, Written, Reloading,
                  Busy, Ended
    <3>3. page' = "up" /\ Still' /\ ~Busy
      BY <2>1, <3>2 DEF Settled, Still, client
    <3> QED
      BY <2>3, <2>5, <3>1, <3>3
  <2>6. DOMAIN sub' \ DOMAIN sub = {Len(sub')}
    <3>1. sub \in Seq(Submissions)
      BY DEF ClientIInv, ClientTypeOK
    <3>2. Len(sub) \in Nat /\ DOMAIN sub = 1 .. Len(sub) /\ DOMAIN sub' = 1 .. Len(sub) + 1
      BY <2>3, <3>1
    <3> QED
      BY <2>3, <3>2
  <2> QED
    BY <2>3, <2>4, <2>5, <2>6 DEF ClientIInv, OneAtATime
<1>3. CASE Updated
  BY <1>3, UpdatedStep
<1>4. CASE Timer \/ GetCharacter \/ Restore \/ RestoreFails
  BY <1>4, PageStep
<1>5. ASSUME NEW s \in DOMAIN sub, SendRequest(s) \/ Fail(s) \/ Receive(s) \/ Serve(s) \/ ServeLate(s)
      PROVE  ClientIInv' /\ DOMAIN sub' = DOMAIN sub
  <2>1. CASE SendRequest(s) \/ Fail(s) \/ Receive(s)
    BY <2>1, EngineStep
  <2>2. CASE Serve(s)
    BY <2>2, ServeStep
  <2>3. CASE ServeLate(s)
    BY <2>3, LateStep
  <2> QED
    BY <1>5, <2>1, <2>2, <2>3
<1>6. CASE Reload
  BY <1>6, ReloadStep
<1>7. CASE UNCHANGED clientVars
  <2>1. UNCHANGED <<hp, stash, updates, self, timers, page, restored, reloads, time, sub, server,
                    ledger, late, applied, orderly>>
    BY <1>7 DEF clientVars, client, service
  <2>2. Remembered' /\ (LateFits => LateFits') /\ (Busy' <=> Busy)
        /\ \A s \in DOMAIN sub : OperationId(s)' = OperationId(s) /\ Earlier(s)' = Earlier(s)
                                 /\ (Pending(s)' <=> Pending(s))
    BY <2>1, AsideStep
  <2>3. ClientTypeOK' /\ AnswersFit'
    BY <2>1 DEF ClientIInv, ClientTypeOK, AnswersFit
  <2>4. Submitted => Submitted'
    BY <2>1, <2>2 DEF Submitted, Still
  <2>5. /\ Settled => Settled'
        /\ Edited => Edited'
    BY <2>1, <2>2 DEF Settled, Edited, Still
  <2>6. /\ Writing => Writing'
        /\ Written => Written'
        /\ Reloading => Reloading'
    BY <2>1, <2>2 DEF Writing, Written, Reloading, Still
  <2>7. OneAtATime'
    BY <2>1, <2>2, <2>4, <2>5, <2>6 DEF ClientIInv, OneAtATime
  <2> QED
    BY <2>1, <2>2, <2>3, <2>7 DEF ClientIInv
<1> QED
  BY <1>1, <1>2, <1>3, <1>4, <1>5, <1>6, <1>7 DEF ClientNext

\* The inductive invariant of the client always holds.
LEMMA ClientInvariance == ASSUME ClientAssumption PROVE ClientSpec => []ClientIInv
<1>1. ClientInit => ClientIInv
  <2> SUFFICES ASSUME ClientInit PROVE ClientIInv
    OBVIOUS
  <2> USE DEF ClientInit, ClientAssumption
  <2>1. ClientTypeOK
    <3>1. /\ hp \in 0 .. MaxHp /\ server \in 0 .. MaxHp /\ time \in 0 .. MaxTime
          /\ reloads \in 0 .. MaxReloads /\ timers \in Nat
      OBVIOUS
    <3>2. /\ updates \in Seq(Updates) /\ sub \in Seq(Submissions)
          /\ late \in Seq(Nat) /\ applied \in Seq(Nat)
          /\ Len(late) = Len(sub) /\ Len(applied) = Len(sub)
      OBVIOUS
    <3> QED
      BY <3>1, <3>2 DEF ClientTypeOK
  <2>2. DOMAIN sub = {}
    OBVIOUS
  <2>3. Remembered /\ AnswersFit /\ LateFits /\ ~Busy
    BY <2>2 DEF Remembered, AnswersFit, LateFits, Busy
  <2>4. Settled
    BY <2>3 DEF Settled, Still
  <2> QED
    BY <2>1, <2>3, <2>4 DEF ClientIInv, OneAtATime
<1>2. ASSUME ClientIInv, [ClientNext]_clientVars PROVE ClientIInv'
  BY <1>2, ClientStep
<1> QED
  BY <1>1, <1>2, PTL DEF ClientSpec

\* However often a request is sent, lost and delivered late, one submission
\* changes the hit points at most once.
THEOREM SubmissionsApplyOnce == ASSUME ClientAssumption PROVE ClientSpec => []AppliedOnce
<1>1. ClientIInv => AppliedOnce
  BY DEF ClientIInv, Remembered, AppliedOnce
<1> QED
  BY <1>1, ClientInvariance, PTL

\* At rest the actor shows what the service holds, if one thing happened at a time.
THEOREM ClientConverges == ASSUME ClientAssumption PROVE ClientSpec => []Converges
<1>1. ClientIInv => Converges
  BY DEF ClientIInv, OneAtATime, Converges, Quiet, Settled,
         Edited, Submitted, Writing, Written,
         Reloading, Busy, Ended
<1> QED
  BY <1>1, ClientInvariance, PTL

\* Then the module never takes what it has written for the edit of a person.
THEOREM WritesAreNoEdits == ASSUME ClientAssumption PROVE ClientSpec => NoEcho
<1>1. ClientIInv /\ [ClientNext]_clientVars =>
        [orderly => \A s \in DOMAIN sub' \ DOMAIN sub : sub'[s].by = "user"]_clientVars
  BY ClientStep
<1> QED
  BY <1>1, ClientInvariance, PTL DEF ClientSpec, NoEcho
=============================================================================
