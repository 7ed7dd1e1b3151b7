----------------------------- MODULE CombatSync -----------------------------
(***************************************************************************)
(* The exactly-once delivery of Foundry combat turns                       *)
(* (src/dnd_ai/commands/integration.py, apply_foundry_combat_sync).        *)
(*                                                                         *)
(* A caller is one thread of the API process executing one call.  It       *)
(* checks a database session out of the connection pool, takes a           *)
(* session-scoped PostgreSQL advisory lock named by a hash of the          *)
(* operation id, and runs up to three transactions on that session: claim  *)
(* the sync_jobs row, do the combat turn together with the completion of   *)
(* the job, and, when that raised, mark the job failed.  It then releases  *)
(* the lock and gives the session back, or destroys it when it cannot be   *)
(* sure that the lock is gone.                                             *)
(*                                                                         *)
(* A transaction that no other transaction can observe half way is one     *)
(* step.  The work transaction is two, Execute and Commit, because the row *)
(* locks it takes are held between them.                                   *)
(***************************************************************************)
EXTENDS Naturals, Sequences, FiniteSets

CONSTANTS
  Callers,       \* threads that may be inside apply_foundry_combat_sync
  Ops,           \* (external_system_id, external_operation_id) pairs
  Payloads,      \* canonical payloads
  Slots,         \* (encounter round, participant) pairs: one turn each
  Encounters,
  Keys,          \* values of (hashtext(system), hashtext(operation))
  Sessions,      \* PostgreSQL backend sessions
  LockKey,       \* the advisory lock key of an operation, maybe shared
  SlotOf,        \* the turn a payload describes
  EncounterOf,   \* the encounter a turn belongs to
  PoolSize,      \* connections the engine may have checked out
  MaxCalls,      \* bound: calls made in a behaviour
  MaxFaults,     \* bound: failures injected in a behaviour
  None           \* SQL NULL, and "no session"

Direct == "direct"     \* a turn recorded by resolve_combat_turn, not a sync

ASSUME ConstantsAssumption ==
  /\ LockKey \in [Ops -> Keys]
  /\ SlotOf \in [Payloads -> Slots]
  /\ EncounterOf \in [Slots -> Encounters]
  /\ PoolSize \in Nat \ {0}
  /\ MaxCalls \in Nat
  /\ MaxFaults \in Nat

ASSUME NoneAssumption ==
  /\ None \notin Ops /\ None \notin Payloads /\ None \notin Slots
  /\ None \notin Sessions
  /\ Direct \notin Ops /\ None # Direct

VARIABLES
  \* The callers.
  pc,          \* the next step of a caller
  op, arg,     \* the operation and payload of its current call
  conn,        \* the session its Connection wraps; None: none, or invalidated
  result,      \* what its call will return
  \* The connection pool of the process.
  place,       \* where the pool has put a session
  \* PostgreSQL: sessions and locks.
  alive,       \* the sessions whose backend runs
  lockOwner,   \* the holder of an advisory lock
  rowOwner,    \* the session whose open transaction locks an encounter row
  jobOwner,    \* the session whose open transaction locks a sync_jobs row
  \* PostgreSQL: committed tables.
  status, payload, turn,   \* columns of integration.sync_jobs
  attempts,    \* integration.delivery_attempts of a job, by attempt_number
  turns,       \* narrative.encounter_turns: who recorded the turn of a slot
  active,      \* the encounters whose status is 'active'
  syncState,   \* integration.sync_state.last_sync_job_id of an encounter
  \* History and bounds.
  applied,     \* how often the combat turn of an operation was committed
  answers,     \* what the finished calls returned
  calls, faults

callerVars == <<pc, op, arg, conn, result>>
sessionVars == <<place, alive, lockOwner, rowOwner, jobOwner>>
jobVars == <<status, payload, turn, attempts>>
domainVars == <<turns, active, syncState, applied>>
vars == <<pc, op, arg, conn, result, place, alive, lockOwner, rowOwner,
          jobOwner, status, payload, turn, attempts, turns, active, syncState,
          applied, answers, calls, faults>>

Status == {"absent", "in_progress", "failed", "completed"}
Results == {"none", "applied", "replayed", "conflict", "error"}
Steps == {"idle", "connect", "lock", "claim", "work", "commit", "fail",
          "unlock", "invalidate", "detach"}
Places == {"nowhere", "pool", "out", "orphan", "quarantine"}

TypeOK ==
  /\ pc \in [Callers -> Steps]
  /\ op \in [Callers -> Ops \cup {None}]
  /\ arg \in [Callers -> Payloads \cup {None}]
  /\ conn \in [Callers -> Sessions \cup {None}]
  /\ result \in [Callers -> Results]
  /\ place \in [Sessions -> Places]
  /\ alive \in SUBSET Sessions
  /\ lockOwner \in [Keys -> Sessions \cup {None}]
  /\ rowOwner \in [Encounters -> Sessions \cup {None}]
  /\ jobOwner \in [Ops -> Sessions \cup {None}]
  /\ status \in [Ops -> Status]
  /\ payload \in [Ops -> Payloads \cup {None}]
  /\ turn \in [Ops -> Slots \cup {None}]
  /\ attempts \in [Ops -> Seq(BOOLEAN)]
  /\ turns \in [Slots -> Ops \cup {Direct, None}]
  /\ active \in SUBSET Encounters
  /\ syncState \in [Encounters -> Ops \cup {None}]
  /\ applied \in [Ops -> Nat]
  /\ answers \in SUBSET [op : Ops, arg : Payloads, result : Results]
  /\ calls \in Nat
  /\ faults \in Nat

Init ==
  /\ pc = [c \in Callers |-> "idle"]
  /\ op = [c \in Callers |-> None]
  /\ arg = [c \in Callers |-> None]
  /\ conn = [c \in Callers |-> None]
  /\ result = [c \in Callers |-> "none"]
  /\ place = [s \in Sessions |-> "nowhere"]
  /\ alive = {}
  /\ lockOwner = [k \in Keys |-> None]
  /\ rowOwner = [e \in Encounters |-> None]
  /\ jobOwner = [o \in Ops |-> None]
  /\ status = [o \in Ops |-> "absent"]
  /\ payload = [o \in Ops |-> None]
  /\ turn = [o \in Ops |-> None]
  /\ attempts = [o \in Ops |-> <<>>]
  /\ turns = [t \in Slots |-> None]
  /\ active = Encounters
  /\ syncState = [e \in Encounters |-> None]
  /\ applied = [o \in Ops |-> 0]
  /\ answers = {}
  /\ calls = 0
  /\ faults = 0
-----------------------------------------------------------------------------
KeyOf(c) == LockKey[op[c]]
SlotOfCall(c) == SlotOf[arg[c]]
EncounterOfCall(c) == EncounterOf[SlotOfCall(c)]

\* The Connection of c still reaches a running backend.
Connected(c) == conn[c] \in alive

\* Connections the engine has handed out: the pool counts a quarantined
\* one for ever, an invalidated or detached one no longer.
CheckedOut ==
  {c \in Callers : conn[c] # None} \cup {s \in Sessions : place[s] = "quarantine"}
PoolHasRoom == Cardinality(CheckedOut) < PoolSize

Goto(c, step) == pc' = [pc EXCEPT ![c] = step]

\* The backend of s ends: PostgreSQL drops its advisory locks and rolls
\* its open transaction back.
EndBackends(S) ==
  /\ alive' = alive \ S
  /\ lockOwner' = [k \in Keys |-> IF lockOwner[k] \in S THEN None ELSE lockOwner[k]]
  /\ rowOwner' = [e \in Encounters |-> IF rowOwner[e] \in S THEN None ELSE rowOwner[e]]
  /\ jobOwner' = [o \in Ops |-> IF jobOwner[o] \in S THEN None ELSE jobOwner[o]]

\* s is handed to a caller: taken from the pool, or newly opened.
Opens(s) ==
  \/ place[s] = "pool"
  \/ place[s] = "nowhere" /\ \A r \in Sessions : place[r] # "pool"

\* The call of c returns: the result reaches its client.
Return(c) ==
  /\ pc' = [pc EXCEPT ![c] = "idle"]
  /\ conn' = [conn EXCEPT ![c] = None]
  /\ op' = [op EXCEPT ![c] = None]
  /\ arg' = [arg EXCEPT ![c] = None]
  /\ result' = [result EXCEPT ![c] = "none"]
  /\ answers' = answers \cup {[op |-> op[c], arg |-> arg[c], result |-> result[c]]}

-----------------------------------------------------------------------------
(* The steps of a call. *)

Call(c, o, p) ==
  /\ pc[c] = "idle"
  /\ calls < MaxCalls
  /\ calls' = calls + 1
  /\ op' = [op EXCEPT ![c] = o]
  /\ arg' = [arg EXCEPT ![c] = p]
  /\ result' = [result EXCEPT ![c] = "error"]
  /\ Goto(c, "connect")
  /\ UNCHANGED <<conn, sessionVars, jobVars, domainVars, answers, faults>>

\* engine.connect()
Connect(c, s) ==
  /\ pc[c] = "connect"
  /\ PoolHasRoom
  /\ Opens(s)
  /\ place' = [place EXCEPT ![s] = "out"]
  /\ alive' = IF place[s] = "pool" THEN alive ELSE alive \cup {s}
  /\ conn' = [conn EXCEPT ![c] = s]
  /\ Goto(c, "lock")
  /\ UNCHANGED <<op, arg, result, lockOwner, rowOwner, jobOwner, jobVars,
                 domainVars, answers, calls, faults>>

\* engine.connect() gives up after pool_timeout.
ConnectTimesOut(c) ==
  /\ pc[c] = "connect"
  /\ ~PoolHasRoom
  /\ Return(c)
  /\ UNCHANGED <<sessionVars, jobVars, domainVars, calls, faults>>

\* pg_advisory_lock: waits until no other session holds the key.
AcquireLock(c) ==
  /\ pc[c] = "lock"
  /\ Connected(c)
  /\ lockOwner[KeyOf(c)] \in {None, conn[c]}
  /\ lockOwner' = [lockOwner EXCEPT ![KeyOf(c)] = conn[c]]
  /\ Goto(c, "claim")
  /\ UNCHANGED <<op, arg, conn, result, place, alive, rowOwner, jobOwner, jobVars,
                 domainVars, answers, calls, faults>>

\* SELECT ... FOR UPDATE and UPDATE of the job wait for an open work
\* transaction that changed the same row.
JobRowFree(c) == jobOwner[op[c]] = None

\* Transaction 1.  The payload is compared before the status is looked at.
ClaimConflicts(c) ==
  /\ pc[c] = "claim" /\ Connected(c) /\ JobRowFree(c)
  /\ status[op[c]] # "absent"
  /\ payload[op[c]] # arg[c]
  /\ result' = [result EXCEPT ![c] = "conflict"]
  /\ Goto(c, "unlock")
  /\ UNCHANGED <<op, arg, conn, sessionVars, jobVars, domainVars, answers,
                 calls, faults>>

\* Mutant of ClaimReplays: the status is looked at before the payload.
ClaimReplaysAnyPayload(c) ==
  /\ pc[c] = "claim" /\ Connected(c) /\ JobRowFree(c)
  /\ status[op[c]] = "completed"
  /\ result' = [result EXCEPT ![c] = "replayed"]
  /\ Goto(c, "unlock")
  /\ UNCHANGED <<op, arg, conn, sessionVars, jobVars, domainVars, answers,
                 calls, faults>>

\* Mutant of ClaimReplays: the early return is not covered by the finally.
ClaimReplaysWithoutRelease(c) ==
  /\ pc[c] = "claim" /\ Connected(c) /\ JobRowFree(c)
  /\ payload[op[c]] = arg[c]
  /\ status[op[c]] = "completed"
  /\ Return(c)
  /\ UNCHANGED <<sessionVars, jobVars, domainVars, calls, faults>>

ClaimReplays(c) ==
  /\ pc[c] = "claim" /\ Connected(c) /\ JobRowFree(c)
  /\ payload[op[c]] = arg[c]
  /\ status[op[c]] = "completed"
  /\ result' = [result EXCEPT ![c] = "replayed"]
  /\ Goto(c, "unlock")
  /\ UNCHANGED <<op, arg, conn, sessionVars, jobVars, domainVars, answers,
                 calls, faults>>

ClaimRetries(c) ==
  /\ pc[c] = "claim" /\ Connected(c) /\ JobRowFree(c)
  /\ payload[op[c]] = arg[c]
  /\ status[op[c]] \in {"failed", "in_progress"}
  /\ status' = [status EXCEPT ![op[c]] = "in_progress"]
  /\ Goto(c, "work")
  /\ UNCHANGED <<op, arg, conn, result, sessionVars, payload, turn, attempts,
                 domainVars, answers, calls, faults>>

ClaimInserts(c) ==
  /\ pc[c] = "claim" /\ Connected(c) /\ JobRowFree(c)
  /\ status[op[c]] = "absent"
  /\ status' = [status EXCEPT ![op[c]] = "in_progress"]
  /\ payload' = [payload EXCEPT ![op[c]] = arg[c]]
  /\ Goto(c, "work")
  /\ UNCHANGED <<op, arg, conn, result, sessionVars, turn, attempts,
                 domainVars, answers, calls, faults>>

\* Mutant of CanExecute: encounter_turns without its unique index.
CanExecuteAgain(c) == EncounterOfCall(c) \in active

\* Transaction 2: _resolve_combat_turn_impl locks the encounter and inserts
\* the turn, _complete_sync_job updates the job.  One turn per participant
\* and round is a unique index, an encounter that is not active is refused.
CanExecute(c) ==
  /\ EncounterOfCall(c) \in active
  /\ turns[SlotOfCall(c)] = None

Execute(c) ==
  /\ pc[c] = "work" /\ Connected(c)
  /\ rowOwner[EncounterOfCall(c)] = None
  /\ CanExecute(c)
  /\ JobRowFree(c)
  /\ rowOwner' = [rowOwner EXCEPT ![EncounterOfCall(c)] = conn[c]]
  /\ jobOwner' = [jobOwner EXCEPT ![op[c]] = conn[c]]
  /\ Goto(c, "commit")
  /\ UNCHANGED <<op, arg, conn, result, place, alive, lockOwner, jobVars,
                 domainVars, answers, calls, faults>>

ExecuteRaises(c) ==
  /\ pc[c] = "work" /\ Connected(c)
  /\ rowOwner[EncounterOfCall(c)] = None
  /\ ~CanExecute(c)
  /\ Goto(c, "fail")
  /\ UNCHANGED <<op, arg, conn, result, sessionVars, jobVars, domainVars,
                 answers, calls, faults>>

\* What the commit of transaction 2 makes visible, all at once.
CommitWork(c) ==
  /\ turns' = [turns EXCEPT ![SlotOfCall(c)] = op[c]]
  /\ applied' = [applied EXCEPT ![op[c]] = @ + 1]
  /\ status' = [status EXCEPT ![op[c]] = "completed"]
  /\ turn' = [turn EXCEPT ![op[c]] = SlotOfCall(c)]
  /\ attempts' = [attempts EXCEPT ![op[c]] = Append(@, TRUE)]
  /\ syncState' = [syncState EXCEPT ![EncounterOfCall(c)] = op[c]]
  /\ rowOwner' = [rowOwner EXCEPT ![EncounterOfCall(c)] = None]
  /\ jobOwner' = [jobOwner EXCEPT ![op[c]] = None]
  /\ UNCHANGED <<payload, active>>

Commit(c) ==
  /\ pc[c] = "commit" /\ Connected(c)
  /\ CommitWork(c)
  /\ result' = [result EXCEPT ![c] = "applied"]
  /\ Goto(c, "unlock")
  /\ UNCHANGED <<op, arg, conn, place, alive, lockOwner, answers, calls, faults>>

\* PostgreSQL commits, but the connection breaks before the client hears it:
\* the COMMIT raises in the client although nothing was rolled back.
CommitUnacknowledged(c) ==
  /\ pc[c] = "commit" /\ Connected(c)
  /\ faults < MaxFaults
  /\ faults' = faults + 1
  /\ CommitWork(c)
  /\ place' = [place EXCEPT ![conn[c]] = "orphan"]
  /\ conn' = [conn EXCEPT ![c] = None]
  /\ Goto(c, "fail")
  /\ UNCHANGED <<op, arg, result, alive, lockOwner, answers, calls>>

\* The work transaction raises on a session that stays up: it is rolled back.
Abort(c) ==
  /\ pc[c] \in {"work", "commit"} /\ Connected(c)
  /\ faults < MaxFaults
  /\ faults' = faults + 1
  /\ rowOwner' = [e \in Encounters |-> IF rowOwner[e] = conn[c] THEN None ELSE rowOwner[e]]
  /\ jobOwner' = [o \in Ops |-> IF jobOwner[o] = conn[c] THEN None ELSE jobOwner[o]]
  /\ Goto(c, "fail")
  /\ UNCHANGED <<op, arg, conn, result, place, alive, lockOwner, jobVars,
                 domainVars, answers, calls>>

\* A statement finds the connection broken: SQLAlchemy invalidates it.  Only
\* an exception of the work transaction leads to transaction 3.
Raises(c) ==
  Goto(c, CASE pc[c] \in {"lock", "claim"} -> "unlock"
            [] pc[c] \in {"work", "commit"} -> "fail"
            [] pc[c] = "fail" -> "unlock"
            [] pc[c] = "unlock" -> "invalidate")

Waiting == {"lock", "claim", "work", "commit", "fail", "unlock"}

\* ... because the backend is gone,
ConnectionLost(c) ==
  /\ pc[c] \in Waiting
  /\ conn[c] # None /\ ~Connected(c)
  /\ place' = [place EXCEPT ![conn[c]] = "nowhere"]
  /\ conn' = [conn EXCEPT ![c] = None]
  /\ Raises(c)
  /\ UNCHANGED <<op, arg, result, alive, lockOwner, rowOwner, jobOwner, jobVars,
                 domainVars, answers, calls, faults>>

\* ... or because the network is: the backend stays, with its locks and its
\* open transaction, until PostgreSQL notices.
ConnectionBreaks(c) ==
  /\ pc[c] \in Waiting
  /\ Connected(c)
  /\ faults < MaxFaults
  /\ faults' = faults + 1
  /\ place' = [place EXCEPT ![conn[c]] = "orphan"]
  /\ conn' = [conn EXCEPT ![c] = None]
  /\ Raises(c)
  /\ UNCHANGED <<op, arg, result, alive, lockOwner, rowOwner, jobOwner, jobVars,
                 domainVars, answers, calls>>

\* Transaction 3: _fail_sync_job looks at nothing before it writes.
MarkFailed(c) ==
  /\ JobRowFree(c)
  /\ status' = [status EXCEPT ![op[c]] = "failed"]
  /\ attempts' = [attempts EXCEPT ![op[c]] = Append(@, FALSE)]
  /\ Goto(c, "unlock")
  /\ UNCHANGED <<op, arg, result, lockOwner, rowOwner, jobOwner, payload, turn,
                 domainVars, answers, calls, faults>>

Fail(c) ==
  /\ pc[c] = "fail" /\ Connected(c)
  /\ MarkFailed(c)
  /\ UNCHANGED <<conn, place, alive>>

\* begin() on an invalidated Connection silently connects again: to a
\* session that never took the advisory lock.
FailReconnected(c, s) ==
  /\ pc[c] = "fail" /\ conn[c] = None
  /\ PoolHasRoom
  /\ Opens(s)
  /\ place[s] = "pool" => s \in alive
  /\ MarkFailed(c)
  /\ place' = [place EXCEPT ![s] = "out"]
  /\ alive' = alive \cup {s}
  /\ conn' = [conn EXCEPT ![c] = s]

\* Transaction 3 cannot connect.  Its own exception is swallowed.
FailSkipped(c) ==
  /\ pc[c] = "fail" /\ conn[c] = None
  /\ \/ ~PoolHasRoom
     \/ \E s \in Sessions : place[s] = "pool" /\ s \notin alive
  /\ Goto(c, "unlock")
  /\ UNCHANGED <<op, arg, conn, result, sessionVars, jobVars, domainVars,
                 answers, calls, faults>>

-----------------------------------------------------------------------------
(* _release_lock_connection *)

\* pg_advisory_unlock returned true: the session goes back to the pool.
UnlockConfirmed(c) ==
  /\ pc[c] = "unlock" /\ Connected(c)
  /\ lockOwner[KeyOf(c)] = conn[c]
  /\ lockOwner' = [lockOwner EXCEPT ![KeyOf(c)] = None]
  /\ place' = [place EXCEPT ![conn[c]] = "pool"]
  /\ Return(c)
  /\ UNCHANGED <<alive, rowOwner, jobOwner, jobVars, domainVars, calls, faults>>

\* It returned false, or there is no session to ask.
UnlockUnconfirmed(c) ==
  /\ pc[c] = "unlock"
  /\ conn[c] = None \/ (Connected(c) /\ lockOwner[KeyOf(c)] # conn[c])
  /\ Goto(c, "invalidate")
  /\ UNCHANGED <<op, arg, conn, result, sessionVars, jobVars, domainVars,
                 answers, calls, faults>>

\* The statement or its commit raised: the lock may or may not be released.
UnlockRaises(c) ==
  /\ pc[c] = "unlock" /\ Connected(c)
  /\ faults < MaxFaults
  /\ faults' = faults + 1
  /\ \/ lockOwner' = [k \in Keys |-> IF k = KeyOf(c) /\ lockOwner[k] = conn[c]
                                     THEN None ELSE lockOwner[k]]
     \/ UNCHANGED lockOwner
  /\ Goto(c, "invalidate")
  /\ UNCHANGED <<op, arg, conn, result, place, alive, rowOwner, jobOwner, jobVars,
                 domainVars, answers, calls>>

\* The DBAPI connection is closed, so its backend ends.
Discard(c) ==
  /\ EndBackends({conn[c]})
  /\ place' = [s \in Sessions |-> IF s = conn[c] THEN "nowhere" ELSE place[s]]
  /\ Return(c)
  /\ UNCHANGED <<jobVars, domainVars, calls, faults>>

\* Mutant of Invalidate: an ordinary close() gives the session to the pool.
InvalidateReturnsToPool(c) ==
  /\ pc[c] = "invalidate"
  /\ place' = [s \in Sessions |-> IF s = conn[c] THEN "pool" ELSE place[s]]
  /\ Return(c)
  /\ UNCHANGED <<alive, lockOwner, rowOwner, jobOwner, jobVars, domainVars, calls,
                 faults>>

Invalidate(c) == pc[c] = "invalidate" /\ Discard(c)
Detach(c) == pc[c] = "detach" /\ Discard(c)

InvalidateRaises(c) ==
  /\ pc[c] = "invalidate"
  /\ conn[c] # None
  /\ faults < MaxFaults
  /\ faults' = faults + 1
  /\ Goto(c, "detach")
  /\ UNCHANGED <<op, arg, conn, result, sessionVars, jobVars, domainVars,
                 answers, calls>>

\* Nothing safe is left: _quarantine_lock_connection keeps the connection.
DetachRaises(c) ==
  /\ pc[c] = "detach"
  /\ faults < MaxFaults
  /\ faults' = faults + 1
  /\ place' = [place EXCEPT ![conn[c]] = "quarantine"]
  /\ Return(c)
  /\ UNCHANGED <<alive, lockOwner, rowOwner, jobOwner, jobVars, domainVars, calls>>

-----------------------------------------------------------------------------
(* Everything that happens around the calls. *)

\* PostgreSQL ends a backend: an administrator, a restart, or the timeout
\* that finally notices an orphan.
BackendEnds(s) ==
  /\ s \in alive
  /\ \/ /\ place[s] = "orphan"
        /\ place' = [place EXCEPT ![s] = "nowhere"]
        /\ UNCHANGED faults
     \/ /\ place[s] # "orphan"
        /\ faults < MaxFaults
        /\ faults' = faults + 1
        /\ UNCHANGED place
  /\ EndBackends({s})
  /\ UNCHANGED <<callerVars, jobVars, domainVars, answers, calls>>

\* The API process dies and is started again.
ProcessCrashes ==
  /\ faults < MaxFaults
  /\ faults' = faults + 1
  /\ pc' = [c \in Callers |-> "idle"]
  /\ op' = [c \in Callers |-> None]
  /\ arg' = [c \in Callers |-> None]
  /\ conn' = [c \in Callers |-> None]
  /\ result' = [c \in Callers |-> "none"]
  /\ place' = [s \in Sessions |-> "nowhere"]
  /\ EndBackends(Sessions)
  /\ UNCHANGED <<jobVars, domainVars, answers, calls>>

\* end_encounter, in a transaction of its own.
EndEncounter(e) ==
  /\ e \in active
  /\ rowOwner[e] = None
  /\ active' = active \ {e}
  /\ UNCHANGED <<callerVars, sessionVars, jobVars, turns, syncState, applied,
                 answers, calls, faults>>

\* resolve_combat_turn called by the web API, in a transaction of its own.
ResolveDirectly(t) ==
  /\ EncounterOf[t] \in active
  /\ rowOwner[EncounterOf[t]] = None
  /\ turns[t] = None
  /\ turns' = [turns EXCEPT ![t] = Direct]
  /\ UNCHANGED <<callerVars, sessionVars, jobVars, active, syncState, applied,
                 answers, calls, faults>>

-----------------------------------------------------------------------------
\* The steps of a call that the code takes by itself.
Progress(c) ==
  \/ \E s \in Sessions : Connect(c, s) \/ FailReconnected(c, s)
  \/ ConnectTimesOut(c) \/ AcquireLock(c)
  \/ ClaimConflicts(c) \/ ClaimReplays(c) \/ ClaimRetries(c) \/ ClaimInserts(c)
  \/ Execute(c) \/ ExecuteRaises(c) \/ Commit(c)
  \/ ConnectionLost(c) \/ Fail(c) \/ FailSkipped(c)
  \/ UnlockConfirmed(c) \/ UnlockUnconfirmed(c) \/ Invalidate(c) \/ Detach(c)

\* The steps in which something fails.
Fault(c) ==
  \/ CommitUnacknowledged(c) \/ Abort(c) \/ ConnectionBreaks(c)
  \/ UnlockRaises(c) \/ InvalidateRaises(c) \/ DetachRaises(c)

Next ==
  \/ \E c \in Callers, o \in Ops, p \in Payloads : Call(c, o, p)
  \/ \E c \in Callers : Progress(c) \/ Fault(c)
  \/ \E s \in Sessions : BackendEnds(s)
  \/ ProcessCrashes
  \/ \E e \in Encounters : EndEncounter(e)
  \/ \E t \in Slots : ResolveDirectly(t)

\* A thread of the process keeps running until its call returns, and
\* PostgreSQL eventually notices that the client of a backend is gone.
Fairness ==
  /\ \A c \in Callers : WF_vars(Progress(c))
  /\ \A s \in Sessions : WF_vars(place[s] = "orphan" /\ BackendEnds(s))

Spec == Init /\ [][Next]_vars
FairSpec == Spec /\ Fairness

-----------------------------------------------------------------------------
(* Properties. *)

\* The steps in which a call reads and writes the job of its operation.
Inside(c) == pc[c] \in {"claim", "work", "commit"} /\ Connected(c)

\* A call that claims or executes an operation holds the advisory lock of
\* that operation on the very session it works on, so no two calls with the
\* same key are inside together, whatever session is lost or reconnected.
OneCallInside ==
  \A c \in Callers : Inside(c) =>
    /\ lockOwner[KeyOf(c)] = conn[c]
    /\ \A d \in Callers \ {c} : Inside(d) => KeyOf(d) # KeyOf(c)

\* A session in the pool owns no advisory lock and no row lock: whatever
\* fails while a call is cleaned up, _release_lock_connection never hands a
\* lock to the next, unrelated user of the connection.
PoolIsClean ==
  \A s \in Sessions : place[s] = "pool" =>
    /\ \A k \in Keys : lockOwner[k] # s
    /\ \A e \in Encounters : rowOwner[e] # s
    /\ \A o \in Ops : jobOwner[o] # s

\* How many attempts of an operation were recorded as successful.
Successes(o) == Cardinality({i \in DOMAIN attempts[o] : attempts[o][i]})

\* The sync state of an encounter names an operation whose turn happened in
\* that encounter.
SyncStateOfATurn ==
  \A e \in Encounters : syncState[e] # None =>
    /\ applied[syncState[e]] = 1
    /\ EncounterOf[turn[syncState[e]]] = e

\* The combat turn of an operation and the bookkeeping of the job are one
\* fact: the turn was committed at most once, and the job has its turn id, a
\* successful delivery attempt and the row in encounter_turns exactly when
\* it was; what the sync state names was.
AppliedOnceWithBookkeeping ==
  /\ \A o \in Ops :
       /\ applied[o] \in {0, 1}
       /\ applied[o] = 1 <=> turn[o] # None
       /\ applied[o] = Successes(o)
       /\ turn[o] # None => turn[o] = SlotOf[payload[o]] /\ turns[turn[o]] = o
       /\ status[o] = "completed" => applied[o] = 1
  /\ SyncStateOfATurn

\* Seen from an adapter, the service is the exactly-once ledger of module
\* ExactlyOnce, in the presence of lost connections, lost acknowledgements,
\* crashes and redelivery.
Abstract == INSTANCE ExactlyOnce WITH
  bound <- payload,
  done <- [o \in Ops |-> turn[o] # None]

ImplementsExactlyOnce == Abstract!Spec

\* A completed job stays completed: step 3 is only for a work step that was
\* rolled back (docstring of integration.py).  TLC refutes it: README, section 6.
CompletedIsFinal ==
  [][\A o \in Ops : status[o] = "completed" => status'[o] = "completed"]_vars

\* Every call returns, whatever it waits for.  TLC refutes it: README, section 6.
EveryCallReturns == \A c \in Callers : pc[c] = "connect" ~> pc[c] = "idle"

\* Only a quarantined lock connection can keep a call from returning.
EveryCallReturnsUnlessQuarantined ==
  \A c \in Callers :
    pc[c] = "connect" ~> (pc[c] = "idle" \/ \E s \in Sessions : place[s] = "quarantine")

-----------------------------------------------------------------------------
(* The inductive invariant behind OneCallInside, PoolIsClean and
   AppliedOnceWithBookkeeping. *)

\* A call under way knows its arguments; a Connection exists from connect()
\* until the call returns, unless it was invalidated.
CallInv ==
  \A c \in Callers :
    /\ pc[c] # "idle" => op[c] \in Ops /\ arg[c] \in Payloads /\ result[c] # "none"
    /\ pc[c] \in {"idle", "connect"} => conn[c] = None
    /\ pc[c] = "detach" => conn[c] # None

\* A session is used by one call only.
ConnInv ==
  /\ \A c \in Callers : conn[c] # None => place[conn[c]] = "out"
  /\ \A c, d \in Callers : conn[c] # None /\ conn[c] = conn[d] => c = d

\* An advisory lock is owned by the call that took it, or by a session that
\* no call can reach any more.
LockInv ==
  /\ \A k \in Keys : lockOwner[k] # None =>
       lockOwner[k] \in alive /\ place[lockOwner[k]] \in {"out", "orphan", "quarantine"}
  /\ \A c \in Callers, k \in Keys : conn[c] # None /\ lockOwner[k] = conn[c] =>
       /\ pc[c] \in {"claim", "work", "commit", "fail", "unlock", "invalidate", "detach"}
       /\ k = KeyOf(c)
  /\ \A c \in Callers : Inside(c) => lockOwner[KeyOf(c)] = conn[c]
  /\ \A s \in Sessions : place[s] = "nowhere" => s \notin alive

\* Row locks are held between Execute and Commit, or by an orphan.
RowInv ==
  /\ \A e \in Encounters : rowOwner[e] # None =>
       rowOwner[e] \in alive /\ place[rowOwner[e]] \in {"out", "orphan"}
  /\ \A o \in Ops : jobOwner[o] # None =>
       jobOwner[o] \in alive /\ place[jobOwner[o]] \in {"out", "orphan"}
  /\ \A c \in Callers, e \in Encounters : conn[c] # None /\ rowOwner[e] = conn[c] =>
       pc[c] = "commit" /\ e = EncounterOfCall(c)
  /\ \A c \in Callers, o \in Ops : conn[c] # None /\ jobOwner[o] = conn[c] =>
       pc[c] = "commit" /\ o = op[c]
  /\ \A c \in Callers : pc[c] = "commit" /\ Connected(c) =>
       /\ rowOwner[EncounterOfCall(c)] = conn[c]
       /\ jobOwner[op[c]] = conn[c]
       /\ turns[SlotOfCall(c)] = None

\* The job of a call that got past its claim is bound to its payload, and
\* the tables agree about what was committed.
JobInv ==
  /\ \A o \in Ops :
       /\ status[o] = "absent" <=> payload[o] = None
       /\ status[o] = "completed" => applied[o] = 1
       /\ applied[o] \in {0, 1}
       /\ applied[o] = 1 <=> turn[o] # None
       /\ turn[o] # None =>
            payload[o] # None /\ turn[o] = SlotOf[payload[o]] /\ turns[turn[o]] = o
  /\ \A c \in Callers : pc[c] \in {"work", "commit", "fail"} => payload[op[c]] = arg[c]

SuccessInv == \A o \in Ops : Successes(o) = applied[o]

\* What a call is about to return agrees with the tables.
AnswerInv ==
  \A c \in Callers :
    /\ result[c] \in {"applied", "replayed"} =>
         turn[op[c]] # None /\ payload[op[c]] = arg[c]
    /\ result[c] = "conflict" => payload[op[c]] \notin {None, arg[c]}

IInv ==
  TypeOK /\ CallInv /\ ConnInv /\ LockInv /\ RowInv /\ JobInv /\ SyncStateOfATurn
=============================================================================
