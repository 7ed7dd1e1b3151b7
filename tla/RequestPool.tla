---------------------------- MODULE RequestPool ----------------------------
(***************************************************************************)
(* Threads and database connections of the API process                     *)
(* (src/dnd_ai/api/deps.py, api/access.py, api/integration.py).            *)
(*                                                                         *)
(* Every request checks one connection out for its whole life              *)
(* (get_connection).  The handler of the Foundry combat sync, authorised   *)
(* on that connection, checks a second one out (engine.connect() in        *)
(* apply_foundry_combat_sync) while the first one is held.  The functions  *)
(* of a request are synchronous: the server runs each on a thread of a     *)
(* bounded pool and gives the thread back in between, the connection not.  *)
(*                                                                         *)
(* The synchronization waits for the advisory lock of its operation with   *)
(* both connections and a thread in its hands, and nothing limits that     *)
(* wait.  The other waits of a handler, for rows, are the matter of        *)
(* CharacterState and CombatSync.                                          *)
(***************************************************************************)
EXTENDS Naturals, FiniteSets

CONSTANTS
  Served,          \* requests the server may be handling at the same time
  Threads,         \* threads that run synchronous functions
  Capacity,        \* pool_size + max_overflow of the engine
  Locks,            \* advisory locks, one per hash of an operation's id
  MaxQuarantined   \* bound: connections that are never given back

ASSUME SizesAssumption ==
  /\ Threads \in Nat \ {0}
  /\ Capacity \in Nat \ {0}
  /\ MaxQuarantined \in Nat
  /\ "none" \notin Locks

VARIABLES
  at,           \* what a request is doing
  asks,         \* the lock it synchronizes under, "none" outside
  quarantined,  \* connections kept by _quarantine_lock_connection
  left          \* what a lock was left with by a request that is gone

poolVars == <<at, asks, quarantined, left>>

PoolSteps ==
  {"idle", "arrived", "first", "opened", "handler", "second", "lock", "sync", "done"}

PoolTypeOK ==
  /\ at \in [Served -> PoolSteps]
  /\ asks \in [Served -> Locks \cup {"none"}]
  /\ quarantined \in 0 .. MaxQuarantined
  /\ left \in [Locks -> {"nobody", "orphan", "quarantine"}]

PoolInit ==
  /\ at = [r \in Served |-> "idle"]
  /\ asks = [r \in Served |-> "none"]
  /\ quarantined = 0
  /\ left = [k \in Locks |-> "nobody"]
-----------------------------------------------------------------------------
At(S) == {r \in Served : at[r] \in S}

\* The requests that hold the connection of get_connection, the ones that
\* hold the second connection, and the ones that occupy a thread.
HoldsFirst == {"opened", "handler", "second", "lock", "sync", "done"}
HoldsSecond == {"lock", "sync"}
OnThread == {"first", "handler", "second", "lock", "sync"}

CheckedOut == Cardinality(At(HoldsFirst)) + Cardinality(At(HoldsSecond)) + quarantined
PoolHasRoom == CheckedOut < Capacity
ThreadFree == Cardinality(At(OnThread)) < Threads

\* Nobody holds the lock: no request inside its synchronization, no backend
\* that outlived its client, no quarantined connection.
LockFree(k) == left[k] = "nobody" /\ \A r \in At({"sync"}) : asks[r] # k

\* apply_foundry_combat_sync is over, well or not.
EndCall(r) == asks' = [asks EXCEPT ![r] = "none"]

Step(r, from, to) ==
  /\ at[r] = from
  /\ at' = [at EXCEPT ![r] = to]

Accept(r) ==
  /\ Step(r, "idle", "arrived")
  /\ UNCHANGED <<asks, quarantined, left>>

\* get_connection starts on a thread ...
EnterConnection(r) ==
  /\ ThreadFree
  /\ Step(r, "arrived", "first")
  /\ UNCHANGED <<asks, quarantined, left>>

\* ... and leaves it with an open transaction.
CheckoutFirst(r) ==
  /\ PoolHasRoom
  /\ Step(r, "first", "opened")
  /\ UNCHANGED <<asks, quarantined, left>>

\* require_campaign_capability and the handler.
RunHandler(r) ==
  /\ ThreadFree
  /\ Step(r, "opened", "handler")
  /\ UNCHANGED <<asks, quarantined, left>>

\* The principal is refused, or another handler returns or raises.
LeaveHandler(r) ==
  /\ Step(r, "handler", "done")
  /\ UNCHANGED <<asks, quarantined, left>>

CallSync(r, k) ==
  /\ Step(r, "handler", "second")
  /\ asks' = [asks EXCEPT ![r] = k]
  /\ UNCHANGED <<quarantined, left>>

CheckoutSecond(r) ==
  /\ PoolHasRoom
  /\ Step(r, "second", "lock")
  /\ UNCHANGED <<asks, quarantined, left>>

\* pg_advisory_lock returns.
AcquireLock(r) ==
  /\ Step(r, "lock", "sync")
  /\ LockFree(asks[r])
  /\ UNCHANGED <<asks, quarantined, left>>

\* A connection is quarantined, within the bound.
Quarantine ==
  /\ quarantined < MaxQuarantined
  /\ quarantined' = quarantined + 1

\* pg_advisory_lock raises: the session does not hold the lock, but what
\* _release_lock_connection does with it may fail.
LockFails(r) ==
  /\ Step(r, "lock", "done")
  /\ UNCHANGED quarantined \/ Quarantine
  /\ EndCall(r)
  /\ UNCHANGED left

\* Mutant of SyncReturns: the lock connection is never closed.
SyncReturnsLeaking(r) ==
  /\ Step(r, "sync", "done")
  /\ quarantined' = quarantined + 1
  /\ EndCall(r)
  /\ UNCHANGED left

\* _release_lock_connection unlocks and closes the second connection, or
\* invalidates or detaches one whose backend lives on for a while, or
\* quarantines it, whether the unlock took place or not.
SyncReturns(r) ==
  /\ Step(r, "sync", "done")
  /\ \/ UNCHANGED <<quarantined, left>>
     \/ left' = [left EXCEPT ![asks[r]] = "orphan"] /\ UNCHANGED quarantined
     \/ Quarantine /\ left' \in {left, [left EXCEPT ![asks[r]] = "quarantine"]}
  /\ EndCall(r)

\* PostgreSQL ends the session of a client that is gone.
ServerNotices(k) ==
  /\ left[k] = "orphan"
  /\ left' = [left EXCEPT ![k] = "nobody"]
  /\ UNCHANGED <<at, asks, quarantined>>

\* The dependency commits or rolls back and closes its connection, on a
\* thread the server keeps for that.
Close(r) ==
  /\ Step(r, "done", "idle")
  /\ UNCHANGED <<asks, quarantined, left>>

\* engine.connect() raises after pool_timeout.
FirstTimesOut(r) ==
  /\ ~PoolHasRoom
  /\ Step(r, "first", "idle")
  /\ UNCHANGED <<asks, quarantined, left>>

\* Mutant of SecondTimesOut: the checkout is tried again while the first
\* connection is still held.
SecondTriesAgain(r) ==
  /\ ~PoolHasRoom
  /\ Step(r, "second", "handler")
  /\ EndCall(r)
  /\ UNCHANGED <<quarantined, left>>

SecondTimesOut(r) ==
  /\ ~PoolHasRoom
  /\ Step(r, "second", "done")
  /\ EndCall(r)
  /\ UNCHANGED <<quarantined, left>>

\* What a request does without waiting for pool_timeout.
Advance(r) ==
  \/ EnterConnection(r) \/ CheckoutFirst(r) \/ RunHandler(r) \/ LeaveHandler(r)
  \/ \E k \in Locks : CallSync(r, k)
  \/ CheckoutSecond(r) \/ AcquireLock(r) \/ SyncReturns(r) \/ Close(r)

TimeOut(r) == FirstTimesOut(r) \/ SecondTimesOut(r)

PoolNext ==
  \/ \E r \in Served : Accept(r) \/ Advance(r) \/ TimeOut(r) \/ LockFails(r)
  \/ \E k \in Locks : ServerNotices(k)

\* A thread whose wait is over continues, a thread or a lock that becomes free
\* is given to each waiting request in turn, and PostgreSQL notices a client
\* that is gone.  Nothing ends the wait for a lock otherwise.
PoolFairness ==
  /\ \A r \in Served :
       /\ WF_poolVars(Advance(r) \/ TimeOut(r))
       /\ SF_poolVars(EnterConnection(r)) /\ SF_poolVars(RunHandler(r))
       /\ SF_poolVars(AcquireLock(r))
  /\ \A k \in Locks : WF_poolVars(ServerNotices(k))

PoolSpec == PoolInit /\ [][PoolNext]_poolVars
FairPoolSpec == PoolSpec /\ PoolFairness
-----------------------------------------------------------------------------
\* The request waits for a lock that a quarantined connection keeps until the
\* process ends.
Stuck(r) == at[r] = "lock" /\ left[asks[r]] = "quarantine"

\* A request that cannot go on: it needs a connection while none is left, a
\* thread while all are taken, or a lock that is neither free nor kept by a
\* backend whose end is near.
Waiting(r) ==
  \/ at[r] \in {"first", "second"} /\ ~PoolHasRoom
  \/ at[r] \in {"arrived", "opened"} /\ ~ThreadFree
  \/ at[r] = "lock" /\ ~LockFree(asks[r]) /\ left[asks[r]] # "orphan"

\* The requests under way wait for each other, or for what is not given back,
\* and nothing but pool_timeout lets any of them go on.
PoolDeadlock ==
  /\ At(HoldsFirst) # {}
  /\ \A r \in At(PoolSteps \ {"idle"}) : Waiting(r)

\* Holding the connection of the authorisation while apply_foundry_combat_sync
\* waits for a second one never makes requests wait for each other (docstring
\* of api/integration.py, "introduces no new deadlock risk").  Refuted when the
\* requests are as many as the connections: README, section 6.
NoPoolDeadlock == ~PoolDeadlock

\* Unless one waits for the lock of a quarantined connection, it takes as many
\* requests as there are connections left to make requests wait for each
\* other: who waits for a live lock waits for a request that goes on, and who
\* waits for a connection holds one only.
DeadlockNeedsFullLoad ==
  PoolDeadlock => \/ Cardinality(At(HoldsFirst)) + MaxQuarantined >= Capacity
                  \/ \E r \in Served : Stuck(r)

\* Every request is answered, at the latest by a pool timeout, unless one waits
\* for the lock of a quarantined connection: that one is never answered, and
\* with its thread and its connections it may keep others from being.
EveryRequestIsAnsweredUnlessStuck ==
  \A r \in Served : at[r] = "arrived" ~> (at[r] = "idle" \/ \E q \in Served : Stuck(q))
=============================================================================
