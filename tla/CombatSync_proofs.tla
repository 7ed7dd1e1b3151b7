-------------------------- MODULE CombatSync_proofs --------------------------
(* Proofs about CombatSync, for every value of its constants. *)
EXTENDS CombatSync, FiniteSetTheorems, TLAPS

(* Type correctness of a step needs CallInv: what a returning call reports
   is typed because a call under way has an operation and a payload. *)
LEMMA TypeStep ==
  ASSUME TypeOK, CallInv, [Next]_vars
  PROVE  TypeOK' /\ CallInv'
<1> USE ConstantsAssumption, NoneAssumption DEF TypeOK, CallInv, Steps, Places, Results, Status,
    Goto, KeyOf, SlotOfCall, EncounterOfCall, callerVars, sessionVars, jobVars, domainVars,
    Connected
<1>1. ASSUME NEW c \in Callers, NEW o \in Ops, NEW p \in Payloads, Call(c, o, p) PROVE TypeOK' /\ CallInv'
  BY <1>1 DEF Call
<1>2. ASSUME NEW c \in Callers, NEW s \in Sessions, Connect(c, s) PROVE TypeOK' /\ CallInv'
  BY <1>2 DEF Connect, Opens
<1>3. ASSUME NEW c \in Callers, ConnectTimesOut(c) PROVE TypeOK' /\ CallInv'
  BY <1>3 DEF ConnectTimesOut, Return
<1>4. ASSUME NEW c \in Callers, AcquireLock(c) PROVE TypeOK' /\ CallInv'
  BY <1>4 DEF AcquireLock
<1>5. ASSUME NEW c \in Callers, ClaimConflicts(c) PROVE TypeOK' /\ CallInv'
  BY <1>5 DEF ClaimConflicts, JobRowFree
<1>6. ASSUME NEW c \in Callers, ClaimReplays(c) PROVE TypeOK' /\ CallInv'
  BY <1>6 DEF ClaimReplays, JobRowFree
<1>7. ASSUME NEW c \in Callers, ClaimRetries(c) PROVE TypeOK' /\ CallInv'
  BY <1>7 DEF ClaimRetries, JobRowFree
<1>8. ASSUME NEW c \in Callers, ClaimInserts(c) PROVE TypeOK' /\ CallInv'
  BY <1>8 DEF ClaimInserts, JobRowFree
<1>9. ASSUME NEW c \in Callers, Execute(c) PROVE TypeOK' /\ CallInv'
  BY <1>9 DEF Execute, CanExecute, JobRowFree
<1>10. ASSUME NEW c \in Callers, ExecuteRaises(c) PROVE TypeOK' /\ CallInv'
  BY <1>10 DEF ExecuteRaises, CanExecute
<1>11. ASSUME NEW c \in Callers, Commit(c) PROVE TypeOK' /\ CallInv'
  BY <1>11 DEF Commit, CommitWork
<1>12. ASSUME NEW c \in Callers, CommitUnacknowledged(c) PROVE TypeOK' /\ CallInv'
  BY <1>12 DEF CommitUnacknowledged, CommitWork
<1>13. ASSUME NEW c \in Callers, Abort(c) PROVE TypeOK' /\ CallInv'
  BY <1>13 DEF Abort
<1>14. ASSUME NEW c \in Callers, ConnectionLost(c) PROVE TypeOK' /\ CallInv'
  BY <1>14 DEF ConnectionLost, Raises, Waiting
<1>15. ASSUME NEW c \in Callers, ConnectionBreaks(c) PROVE TypeOK' /\ CallInv'
  BY <1>15 DEF ConnectionBreaks, Raises, Waiting
<1>16. ASSUME NEW c \in Callers, Fail(c) PROVE TypeOK' /\ CallInv'
  BY <1>16 DEF Fail, MarkFailed, JobRowFree
<1>17. ASSUME NEW c \in Callers, NEW s \in Sessions, FailReconnected(c, s) PROVE TypeOK' /\ CallInv'
  BY <1>17 DEF FailReconnected, MarkFailed, JobRowFree, Opens
<1>18. ASSUME NEW c \in Callers, FailSkipped(c) PROVE TypeOK' /\ CallInv'
  BY <1>18 DEF FailSkipped
<1>19. ASSUME NEW c \in Callers, UnlockConfirmed(c) PROVE TypeOK' /\ CallInv'
  BY <1>19 DEF UnlockConfirmed, Return
<1>20. ASSUME NEW c \in Callers, UnlockUnconfirmed(c) PROVE TypeOK' /\ CallInv'
  BY <1>20 DEF UnlockUnconfirmed
<1>21. ASSUME NEW c \in Callers, UnlockRaises(c) PROVE TypeOK' /\ CallInv'
  BY <1>21 DEF UnlockRaises
<1>22. ASSUME NEW c \in Callers, Invalidate(c) PROVE TypeOK' /\ CallInv'
  BY <1>22 DEF Invalidate, Discard, EndBackends, Return
<1>23. ASSUME NEW c \in Callers, Detach(c) PROVE TypeOK' /\ CallInv'
  BY <1>23 DEF Detach, Discard, EndBackends, Return
<1>24. ASSUME NEW c \in Callers, InvalidateRaises(c) PROVE TypeOK' /\ CallInv'
  BY <1>24 DEF InvalidateRaises
<1>25. ASSUME NEW c \in Callers, DetachRaises(c) PROVE TypeOK' /\ CallInv'
  BY <1>25 DEF DetachRaises, Return
<1>26. ASSUME NEW s \in Sessions, BackendEnds(s) PROVE TypeOK' /\ CallInv'
  <2>1. /\ alive' \in SUBSET Sessions
        /\ lockOwner' \in [Keys -> Sessions \cup {None}]
        /\ rowOwner' \in [Encounters -> Sessions \cup {None}]
        /\ jobOwner' \in [Ops -> Sessions \cup {None}]
    BY <1>26 DEF BackendEnds, EndBackends
  <2>2. place' \in [Sessions -> Places]
    <3>1. \/ place' = [place EXCEPT ![s] = "nowhere"]
          \/ place' = place
      BY <1>26 DEF BackendEnds
    <3> QED
      BY <3>1
  <2>3. faults' \in Nat
    BY <1>26 DEF BackendEnds
  <2>4. UNCHANGED <<callerVars, jobVars, domainVars, answers, calls>>
    BY <1>26 DEF BackendEnds
  <2> QED
    BY <2>1, <2>2, <2>3, <2>4
<1>27. ASSUME ProcessCrashes PROVE TypeOK' /\ CallInv'
  BY <1>27 DEF ProcessCrashes, EndBackends
<1>28. ASSUME NEW e \in Encounters, EndEncounter(e) PROVE TypeOK' /\ CallInv'
  BY <1>28 DEF EndEncounter
<1>29. ASSUME NEW t \in Slots, ResolveDirectly(t) PROVE TypeOK' /\ CallInv'
  BY <1>29 DEF ResolveDirectly
<1>30. CASE UNCHANGED vars
  BY <1>30 DEF vars
<1> QED
  BY <1>1, <1>2, <1>3, <1>4, <1>5, <1>6, <1>7, <1>8, <1>9, <1>10, <1>11, <1>12, <1>13, <1>14,
      <1>15, <1>16, <1>17, <1>18, <1>19, <1>20, <1>21, <1>22, <1>23, <1>24, <1>25, <1>26, <1>27,
      <1>28, <1>29, <1>30 DEF Next, Progress, Fault

\* No step lets two calls share a session.
LEMMA ConnStep ==
  ASSUME TypeOK, CallInv, LockInv, ConnInv, [Next]_vars
  PROVE  ConnInv'
<1> USE ConstantsAssumption, NoneAssumption DEF TypeOK, CallInv, ConnInv, LockInv, Steps, Places,
    Results, Status, Goto, KeyOf, SlotOfCall, EncounterOfCall, callerVars, sessionVars, jobVars,
    domainVars, Connected
<1>1. ASSUME NEW c \in Callers, NEW o \in Ops, NEW p \in Payloads, Call(c, o, p) PROVE ConnInv'
  BY <1>1 DEF Call
<1>2. ASSUME NEW c \in Callers, NEW s \in Sessions, Connect(c, s) PROVE ConnInv'
  BY <1>2 DEF Connect, Opens
<1>3. ASSUME NEW c \in Callers, ConnectTimesOut(c) PROVE ConnInv'
  BY <1>3 DEF ConnectTimesOut, Return
<1>4. ASSUME NEW c \in Callers, AcquireLock(c) PROVE ConnInv'
  BY <1>4 DEF AcquireLock
<1>5. ASSUME NEW c \in Callers, ClaimConflicts(c) PROVE ConnInv'
  BY <1>5 DEF ClaimConflicts, JobRowFree
<1>6. ASSUME NEW c \in Callers, ClaimReplays(c) PROVE ConnInv'
  BY <1>6 DEF ClaimReplays, JobRowFree
<1>7. ASSUME NEW c \in Callers, ClaimRetries(c) PROVE ConnInv'
  BY <1>7 DEF ClaimRetries, JobRowFree
<1>8. ASSUME NEW c \in Callers, ClaimInserts(c) PROVE ConnInv'
  BY <1>8 DEF ClaimInserts, JobRowFree
<1>9. ASSUME NEW c \in Callers, Execute(c) PROVE ConnInv'
  BY <1>9 DEF Execute, CanExecute, JobRowFree
<1>10. ASSUME NEW c \in Callers, ExecuteRaises(c) PROVE ConnInv'
  BY <1>10 DEF ExecuteRaises, CanExecute
<1>11. ASSUME NEW c \in Callers, Commit(c) PROVE ConnInv'
  BY <1>11 DEF Commit, CommitWork
<1>12. ASSUME NEW c \in Callers, CommitUnacknowledged(c) PROVE ConnInv'
  BY <1>12 DEF CommitUnacknowledged, CommitWork
<1>13. ASSUME NEW c \in Callers, Abort(c) PROVE ConnInv'
  BY <1>13 DEF Abort
<1>14. ASSUME NEW c \in Callers, ConnectionLost(c) PROVE ConnInv'
  BY <1>14 DEF ConnectionLost, Raises, Waiting
<1>15. ASSUME NEW c \in Callers, ConnectionBreaks(c) PROVE ConnInv'
  BY <1>15 DEF ConnectionBreaks, Raises, Waiting
<1>16. ASSUME NEW c \in Callers, Fail(c) PROVE ConnInv'
  BY <1>16 DEF Fail, MarkFailed, JobRowFree
<1>17. ASSUME NEW c \in Callers, NEW s \in Sessions, FailReconnected(c, s) PROVE ConnInv'
  BY <1>17 DEF FailReconnected, MarkFailed, JobRowFree, Opens
<1>18. ASSUME NEW c \in Callers, FailSkipped(c) PROVE ConnInv'
  BY <1>18 DEF FailSkipped
<1>19. ASSUME NEW c \in Callers, UnlockConfirmed(c) PROVE ConnInv'
  BY <1>19 DEF UnlockConfirmed, Return
<1>20. ASSUME NEW c \in Callers, UnlockUnconfirmed(c) PROVE ConnInv'
  BY <1>20 DEF UnlockUnconfirmed
<1>21. ASSUME NEW c \in Callers, UnlockRaises(c) PROVE ConnInv'
  BY <1>21 DEF UnlockRaises
<1>22. ASSUME NEW c \in Callers, Invalidate(c) PROVE ConnInv'
  BY <1>22 DEF Invalidate, Discard, EndBackends, Return
<1>23. ASSUME NEW c \in Callers, Detach(c) PROVE ConnInv'
  BY <1>23 DEF Detach, Discard, EndBackends, Return
<1>24. ASSUME NEW c \in Callers, InvalidateRaises(c) PROVE ConnInv'
  BY <1>24 DEF InvalidateRaises
<1>25. ASSUME NEW c \in Callers, DetachRaises(c) PROVE ConnInv'
  BY <1>25 DEF DetachRaises, Return
<1>26. ASSUME NEW s \in Sessions, BackendEnds(s) PROVE ConnInv'
  BY <1>26 DEF BackendEnds, EndBackends
<1>27. ASSUME ProcessCrashes PROVE ConnInv'
  BY <1>27 DEF ProcessCrashes, EndBackends
<1>28. ASSUME NEW e \in Encounters, EndEncounter(e) PROVE ConnInv'
  BY <1>28 DEF EndEncounter
<1>29. ASSUME NEW t \in Slots, ResolveDirectly(t) PROVE ConnInv'
  BY <1>29 DEF ResolveDirectly
<1>30. CASE UNCHANGED vars
  BY <1>30 DEF vars
<1> QED
  BY <1>1, <1>2, <1>3, <1>4, <1>5, <1>6, <1>7, <1>8, <1>9, <1>10, <1>11, <1>12, <1>13, <1>14,
      <1>15, <1>16, <1>17, <1>18, <1>19, <1>20, <1>21, <1>22, <1>23, <1>24, <1>25, <1>26, <1>27,
      <1>28, <1>29, <1>30 DEF Next, Progress, Fault

\* A call that is handed a session inherits no lock with it.
LEMMA HandedSessionOwnsNothing ==
  ASSUME TypeOK, LockInv, RowInv, NEW s \in Sessions, place[s] \in {"pool", "nowhere"}
  PROVE  /\ \A k \in Keys : lockOwner[k] # s
         /\ \A e \in Encounters : rowOwner[e] # s
         /\ \A o \in Ops : jobOwner[o] # s
<1>0. s # None
  BY NoneAssumption
<1>1. \A k \in Keys : lockOwner[k] # s
  BY <1>0 DEF LockInv
<1>2. \A e \in Encounters : rowOwner[e] # s
  BY <1>0 DEF RowInv
<1>3. \A o \in Ops : jobOwner[o] # s
  BY <1>0 DEF RowInv
<1> QED
  BY <1>1, <1>2, <1>3

\* ... so that the lock invariants survive any step that only hands a
\* session to a call outside claim, work and commit.
LEMMA HandingOutASession ==
  ASSUME TypeOK, CallInv, ConnInv, LockInv, RowInv,
         NEW c \in Callers, NEW s \in Sessions, NEW step \in {"lock", "unlock"},
         place[s] \in {"pool", "nowhere"},
         pc[c] \in {"connect", "fail"},
         conn[c] = None,
         pc' = [pc EXCEPT ![c] = step],
         conn' = [conn EXCEPT ![c] = s],
         place' = [place EXCEPT ![s] = "out"],
         alive \subseteq alive',
         alive' \subseteq alive \cup {s},
         UNCHANGED <<op, arg, lockOwner, rowOwner, jobOwner, turns>>
  PROVE  LockInv' /\ RowInv'
<1> USE ConstantsAssumption, NoneAssumption
<1>0. /\ \A k \in Keys : lockOwner[k] # s
      /\ \A e \in Encounters : rowOwner[e] # s
      /\ \A o \in Ops : jobOwner[o] # s
  BY HandedSessionOwnsNothing
<1>1. \A r \in Sessions : r # s => place'[r] = place[r] /\ (r \in alive' <=> r \in alive)
  BY DEF TypeOK
<1>2. \A d \in Callers : d # c => conn'[d] = conn[d] /\ pc'[d] = pc[d] /\ conn[d] # s
  BY DEF TypeOK, ConnInv
<1>3. conn'[c] = s /\ pc'[c] = step /\ place'[s] = "out"
  BY DEF TypeOK
<1>4. \A d \in Callers : Inside(d)' => d # c /\ Inside(d)
  BY <1>1, <1>2, <1>3 DEF Inside, Connected, TypeOK
<1>5. LockInv'
  <2>1. \A k \in Keys : lockOwner'[k] # None =>
          lockOwner'[k] \in alive' /\ place'[lockOwner'[k]] \in {"out", "orphan", "quarantine"}
    BY <1>0, <1>1 DEF LockInv, TypeOK
  <2>2. \A d \in Callers, k \in Keys : conn'[d] # None /\ lockOwner'[k] = conn'[d] =>
          /\ pc'[d] \in {"claim", "work", "commit", "fail", "unlock", "invalidate", "detach"}
          /\ k = KeyOf(d)'
    BY <1>0, <1>2, <1>3 DEF LockInv, KeyOf
  <2>3. \A d \in Callers : Inside(d)' => lockOwner'[KeyOf(d)'] = conn'[d]
    BY <1>2, <1>4 DEF LockInv, KeyOf
  <2>4. \A r \in Sessions : place'[r] = "nowhere" => r \notin alive'
    BY <1>1, <1>3 DEF LockInv
  <2> QED
    BY <2>1, <2>2, <2>3, <2>4 DEF LockInv
<1>6. RowInv'
  <2>1. /\ \A e \in Encounters : rowOwner'[e] # None =>
             rowOwner'[e] \in alive' /\ place'[rowOwner'[e]] \in {"out", "orphan"}
        /\ \A o \in Ops : jobOwner'[o] # None =>
             jobOwner'[o] \in alive' /\ place'[jobOwner'[o]] \in {"out", "orphan"}
    BY <1>0, <1>1 DEF RowInv, TypeOK
  <2>2. /\ \A d \in Callers, e \in Encounters : conn'[d] # None /\ rowOwner'[e] = conn'[d] =>
             pc'[d] = "commit" /\ e = EncounterOfCall(d)'
        /\ \A d \in Callers, o \in Ops : conn'[d] # None /\ jobOwner'[o] = conn'[d] =>
             pc'[d] = "commit" /\ o = op'[d]
    BY <1>0, <1>2, <1>3 DEF RowInv, EncounterOfCall, SlotOfCall
  <2>3. \A d \in Callers : pc'[d] = "commit" /\ Connected(d)' =>
          /\ rowOwner'[EncounterOfCall(d)'] = conn'[d]
          /\ jobOwner'[op'[d]] = conn'[d]
          /\ turns'[SlotOfCall(d)'] = None
    BY <1>1, <1>2, <1>3 DEF RowInv, EncounterOfCall, SlotOfCall, Connected, TypeOK
  <2> QED
    BY <2>1, <2>2, <2>3 DEF RowInv
<1> QED
  BY <1>5, <1>6

\* Every step keeps the advisory locks and the row locks where they belong.
LEMMA LockStep ==
  ASSUME TypeOK, CallInv, ConnInv, LockInv, RowInv, [Next]_vars
  PROVE  LockInv' /\ RowInv'
<1> USE ConstantsAssumption, NoneAssumption DEF TypeOK, CallInv, ConnInv, LockInv, Inside, RowInv,
    Steps, Places, Results, Status, Goto, KeyOf, SlotOfCall, EncounterOfCall, callerVars,
    sessionVars, jobVars, domainVars, Connected
<1>1. ASSUME NEW c \in Callers, NEW o \in Ops, NEW p \in Payloads, Call(c, o, p) PROVE LockInv' /\ RowInv'
  BY <1>1 DEF Call
<1>2. ASSUME NEW c \in Callers, NEW s \in Sessions, Connect(c, s) PROVE LockInv' /\ RowInv'
  <2>1. pc[c] \in {"connect", "fail"} /\ conn[c] = None
    BY <1>2 DEF Connect
  <2>2. place[s] \in {"pool", "nowhere"}
    BY <1>2 DEF Connect, Opens
  <2>3. /\ place' = [place EXCEPT ![s] = "out"]
        /\ conn' = [conn EXCEPT ![c] = s]
        /\ alive \subseteq alive'
        /\ alive' \subseteq alive \cup {s}
        /\ UNCHANGED <<op, arg, lockOwner, rowOwner, jobOwner, turns>>
    BY <1>2 DEF Connect
  <2>4. pc' = [pc EXCEPT ![c] = "lock"]
    BY <1>2 DEF Connect
  <2> QED
    BY <2>1, <2>2, <2>3, <2>4, HandingOutASession
<1>3. ASSUME NEW c \in Callers, ConnectTimesOut(c) PROVE LockInv' /\ RowInv'
  BY <1>3 DEF ConnectTimesOut, Return
<1>4. ASSUME NEW c \in Callers, AcquireLock(c) PROVE LockInv' /\ RowInv'
  BY <1>4 DEF AcquireLock
<1>5. ASSUME NEW c \in Callers, ClaimConflicts(c) PROVE LockInv' /\ RowInv'
  BY <1>5 DEF ClaimConflicts, JobRowFree
<1>6. ASSUME NEW c \in Callers, ClaimReplays(c) PROVE LockInv' /\ RowInv'
  BY <1>6 DEF ClaimReplays, JobRowFree
<1>7. ASSUME NEW c \in Callers, ClaimRetries(c) PROVE LockInv' /\ RowInv'
  BY <1>7 DEF ClaimRetries, JobRowFree
<1>8. ASSUME NEW c \in Callers, ClaimInserts(c) PROVE LockInv' /\ RowInv'
  BY <1>8 DEF ClaimInserts, JobRowFree
<1>9. ASSUME NEW c \in Callers, Execute(c) PROVE LockInv' /\ RowInv'
  BY <1>9 DEF Execute, CanExecute, JobRowFree
<1>10. ASSUME NEW c \in Callers, ExecuteRaises(c) PROVE LockInv' /\ RowInv'
  BY <1>10 DEF ExecuteRaises, CanExecute
<1>11. ASSUME NEW c \in Callers, Commit(c) PROVE LockInv' /\ RowInv'
  BY <1>11 DEF Commit, CommitWork
<1>12. ASSUME NEW c \in Callers, CommitUnacknowledged(c) PROVE LockInv' /\ RowInv'
  BY <1>12 DEF CommitUnacknowledged, CommitWork
<1>13. ASSUME NEW c \in Callers, Abort(c) PROVE LockInv' /\ RowInv'
  BY <1>13 DEF Abort
<1>14. ASSUME NEW c \in Callers, ConnectionLost(c) PROVE LockInv' /\ RowInv'
  BY <1>14 DEF ConnectionLost, Raises, Waiting
<1>15. ASSUME NEW c \in Callers, ConnectionBreaks(c) PROVE LockInv' /\ RowInv'
  BY <1>15 DEF ConnectionBreaks, Raises, Waiting
<1>16. ASSUME NEW c \in Callers, Fail(c) PROVE LockInv' /\ RowInv'
  BY <1>16 DEF Fail, MarkFailed, JobRowFree
<1>17. ASSUME NEW c \in Callers, NEW s \in Sessions, FailReconnected(c, s) PROVE LockInv' /\ RowInv'
  <2>1. pc[c] \in {"connect", "fail"} /\ conn[c] = None
    BY <1>17 DEF FailReconnected
  <2>2. place[s] \in {"pool", "nowhere"}
    BY <1>17 DEF FailReconnected, Opens
  <2>3. /\ place' = [place EXCEPT ![s] = "out"]
        /\ conn' = [conn EXCEPT ![c] = s]
        /\ alive \subseteq alive'
        /\ alive' \subseteq alive \cup {s}
        /\ UNCHANGED <<op, arg, lockOwner, rowOwner, jobOwner, turns>>
    BY <1>17 DEF FailReconnected, MarkFailed
  <2>4. pc' = [pc EXCEPT ![c] = "unlock"]
    BY <1>17 DEF FailReconnected, MarkFailed
  <2> QED
    BY <2>1, <2>2, <2>3, <2>4, HandingOutASession
<1>18. ASSUME NEW c \in Callers, FailSkipped(c) PROVE LockInv' /\ RowInv'
  BY <1>18 DEF FailSkipped
<1>19. ASSUME NEW c \in Callers, UnlockConfirmed(c) PROVE LockInv' /\ RowInv'
  BY <1>19 DEF UnlockConfirmed, Return
<1>20. ASSUME NEW c \in Callers, UnlockUnconfirmed(c) PROVE LockInv' /\ RowInv'
  BY <1>20 DEF UnlockUnconfirmed
<1>21. ASSUME NEW c \in Callers, UnlockRaises(c) PROVE LockInv' /\ RowInv'
  BY <1>21 DEF UnlockRaises
<1>22. ASSUME NEW c \in Callers, Invalidate(c) PROVE LockInv' /\ RowInv'
  BY <1>22 DEF Invalidate, Discard, EndBackends, Return
<1>23. ASSUME NEW c \in Callers, Detach(c) PROVE LockInv' /\ RowInv'
  BY <1>23 DEF Detach, Discard, EndBackends, Return
<1>24. ASSUME NEW c \in Callers, InvalidateRaises(c) PROVE LockInv' /\ RowInv'
  BY <1>24 DEF InvalidateRaises
<1>25. ASSUME NEW c \in Callers, DetachRaises(c) PROVE LockInv' /\ RowInv'
  BY <1>25 DEF DetachRaises, Return
<1>26. ASSUME NEW s \in Sessions, BackendEnds(s) PROVE LockInv' /\ RowInv'
  BY <1>26 DEF BackendEnds, EndBackends
<1>27. ASSUME ProcessCrashes PROVE LockInv' /\ RowInv'
  BY <1>27 DEF ProcessCrashes, EndBackends
<1>28. ASSUME NEW e \in Encounters, EndEncounter(e) PROVE LockInv' /\ RowInv'
  BY <1>28 DEF EndEncounter
<1>29. ASSUME NEW t \in Slots, ResolveDirectly(t) PROVE LockInv' /\ RowInv'
  BY <1>29 DEF ResolveDirectly
<1>30. CASE UNCHANGED vars
  BY <1>30 DEF vars
<1> QED
  BY <1>1, <1>2, <1>3, <1>4, <1>5, <1>6, <1>7, <1>8, <1>9, <1>10, <1>11, <1>12, <1>13, <1>14,
      <1>15, <1>16, <1>17, <1>18, <1>19, <1>20, <1>21, <1>22, <1>23, <1>24, <1>25, <1>26, <1>27,
      <1>28, <1>29, <1>30 DEF Next, Progress, Fault

\* jobs
LEMMA JobStep ==
  ASSUME TypeOK, CallInv, ConnInv, LockInv, RowInv, JobInv, [Next]_vars
  PROVE  JobInv'
<1> USE ConstantsAssumption, NoneAssumption DEF TypeOK, CallInv, ConnInv, LockInv, RowInv, JobInv,
    Inside, Steps, Places, Results, Status, Goto, KeyOf, SlotOfCall, EncounterOfCall, callerVars,
    sessionVars, jobVars, domainVars, Connected
<1>1. ASSUME NEW c \in Callers, NEW o \in Ops, NEW p \in Payloads, Call(c, o, p) PROVE JobInv'
  BY <1>1 DEF Call
<1>2. ASSUME NEW c \in Callers, NEW s \in Sessions, Connect(c, s) PROVE JobInv'
  BY <1>2 DEF Connect, Opens
<1>3. ASSUME NEW c \in Callers, ConnectTimesOut(c) PROVE JobInv'
  BY <1>3 DEF ConnectTimesOut, Return
<1>4. ASSUME NEW c \in Callers, AcquireLock(c) PROVE JobInv'
  BY <1>4 DEF AcquireLock
<1>5. ASSUME NEW c \in Callers, ClaimConflicts(c) PROVE JobInv'
  BY <1>5 DEF ClaimConflicts, JobRowFree
<1>6. ASSUME NEW c \in Callers, ClaimReplays(c) PROVE JobInv'
  BY <1>6 DEF ClaimReplays, JobRowFree
<1>7. ASSUME NEW c \in Callers, ClaimRetries(c) PROVE JobInv'
  BY <1>7 DEF ClaimRetries, JobRowFree
<1>8. ASSUME NEW c \in Callers, ClaimInserts(c) PROVE JobInv'
  BY <1>8 DEF ClaimInserts, JobRowFree
<1>9. ASSUME NEW c \in Callers, Execute(c) PROVE JobInv'
  BY <1>9 DEF Execute, CanExecute, JobRowFree
<1>10. ASSUME NEW c \in Callers, ExecuteRaises(c) PROVE JobInv'
  BY <1>10 DEF ExecuteRaises, CanExecute
<1>11. ASSUME NEW c \in Callers, Commit(c) PROVE JobInv'
  BY <1>11 DEF Commit, CommitWork
<1>12. ASSUME NEW c \in Callers, CommitUnacknowledged(c) PROVE JobInv'
  BY <1>12 DEF CommitUnacknowledged, CommitWork
<1>13. ASSUME NEW c \in Callers, Abort(c) PROVE JobInv'
  BY <1>13 DEF Abort
<1>14. ASSUME NEW c \in Callers, ConnectionLost(c) PROVE JobInv'
  BY <1>14 DEF ConnectionLost, Raises, Waiting
<1>15. ASSUME NEW c \in Callers, ConnectionBreaks(c) PROVE JobInv'
  BY <1>15 DEF ConnectionBreaks, Raises, Waiting
<1>16. ASSUME NEW c \in Callers, Fail(c) PROVE JobInv'
  BY <1>16 DEF Fail, MarkFailed, JobRowFree
<1>17. ASSUME NEW c \in Callers, NEW s \in Sessions, FailReconnected(c, s) PROVE JobInv'
  BY <1>17 DEF FailReconnected, MarkFailed, JobRowFree, Opens
<1>18. ASSUME NEW c \in Callers, FailSkipped(c) PROVE JobInv'
  BY <1>18 DEF FailSkipped
<1>19. ASSUME NEW c \in Callers, UnlockConfirmed(c) PROVE JobInv'
  BY <1>19 DEF UnlockConfirmed, Return
<1>20. ASSUME NEW c \in Callers, UnlockUnconfirmed(c) PROVE JobInv'
  BY <1>20 DEF UnlockUnconfirmed
<1>21. ASSUME NEW c \in Callers, UnlockRaises(c) PROVE JobInv'
  BY <1>21 DEF UnlockRaises
<1>22. ASSUME NEW c \in Callers, Invalidate(c) PROVE JobInv'
  BY <1>22 DEF Invalidate, Discard, EndBackends, Return
<1>23. ASSUME NEW c \in Callers, Detach(c) PROVE JobInv'
  BY <1>23 DEF Detach, Discard, EndBackends, Return
<1>24. ASSUME NEW c \in Callers, InvalidateRaises(c) PROVE JobInv'
  BY <1>24 DEF InvalidateRaises
<1>25. ASSUME NEW c \in Callers, DetachRaises(c) PROVE JobInv'
  BY <1>25 DEF DetachRaises, Return
<1>26. ASSUME NEW s \in Sessions, BackendEnds(s) PROVE JobInv'
  BY <1>26 DEF BackendEnds, EndBackends
<1>27. ASSUME ProcessCrashes PROVE JobInv'
  BY <1>27 DEF ProcessCrashes, EndBackends
<1>28. ASSUME NEW e \in Encounters, EndEncounter(e) PROVE JobInv'
  BY <1>28 DEF EndEncounter
<1>29. ASSUME NEW t \in Slots, ResolveDirectly(t) PROVE JobInv'
  BY <1>29 DEF ResolveDirectly
<1>30. CASE UNCHANGED vars
  BY <1>30 DEF vars
<1> QED
  BY <1>1, <1>2, <1>3, <1>4, <1>5, <1>6, <1>7, <1>8, <1>9, <1>10, <1>11, <1>12, <1>13, <1>14,
      <1>15, <1>16, <1>17, <1>18, <1>19, <1>20, <1>21, <1>22, <1>23, <1>24, <1>25, <1>26, <1>27,
      <1>28, <1>29, <1>30 DEF Next, Progress, Fault

\* What a call is about to return stays true of the tables until it does.
LEMMA AnswerStep ==
  ASSUME TypeOK, CallInv, ConnInv, LockInv, RowInv, JobInv, AnswerInv, [Next]_vars
  PROVE  AnswerInv'
<1> USE ConstantsAssumption, NoneAssumption DEF TypeOK, CallInv, JobInv, AnswerInv, Steps, Places,
    Results, Status, Goto, KeyOf, SlotOfCall, EncounterOfCall, callerVars, sessionVars, jobVars,
    domainVars, Connected
<1>1. ASSUME NEW c \in Callers, NEW o \in Ops, NEW p \in Payloads, Call(c, o, p) PROVE AnswerInv'
  BY <1>1 DEF Call
<1>2. ASSUME NEW c \in Callers, NEW s \in Sessions, Connect(c, s) PROVE AnswerInv'
  BY <1>2 DEF Connect, Opens
<1>3. ASSUME NEW c \in Callers, ConnectTimesOut(c) PROVE AnswerInv'
  BY <1>3 DEF ConnectTimesOut, Return
<1>4. ASSUME NEW c \in Callers, AcquireLock(c) PROVE AnswerInv'
  BY <1>4 DEF AcquireLock
<1>5. ASSUME NEW c \in Callers, ClaimConflicts(c) PROVE AnswerInv'
  BY <1>5 DEF ClaimConflicts, JobRowFree
<1>6. ASSUME NEW c \in Callers, ClaimReplays(c) PROVE AnswerInv'
  BY <1>6 DEF ClaimReplays, JobRowFree
<1>7. ASSUME NEW c \in Callers, ClaimRetries(c) PROVE AnswerInv'
  BY <1>7 DEF ClaimRetries, JobRowFree
<1>8. ASSUME NEW c \in Callers, ClaimInserts(c) PROVE AnswerInv'
  BY <1>8 DEF ClaimInserts, JobRowFree
<1>9. ASSUME NEW c \in Callers, Execute(c) PROVE AnswerInv'
  BY <1>9 DEF Execute, CanExecute, JobRowFree
<1>10. ASSUME NEW c \in Callers, ExecuteRaises(c) PROVE AnswerInv'
  BY <1>10 DEF ExecuteRaises, CanExecute
<1>11. ASSUME NEW c \in Callers, Commit(c) PROVE AnswerInv'
  BY <1>11 DEF Commit, CommitWork
<1>12. ASSUME NEW c \in Callers, CommitUnacknowledged(c) PROVE AnswerInv'
  BY <1>12 DEF CommitUnacknowledged, CommitWork
<1>13. ASSUME NEW c \in Callers, Abort(c) PROVE AnswerInv'
  BY <1>13 DEF Abort
<1>14. ASSUME NEW c \in Callers, ConnectionLost(c) PROVE AnswerInv'
  BY <1>14 DEF ConnectionLost, Raises, Waiting
<1>15. ASSUME NEW c \in Callers, ConnectionBreaks(c) PROVE AnswerInv'
  BY <1>15 DEF ConnectionBreaks, Raises, Waiting
<1>16. ASSUME NEW c \in Callers, Fail(c) PROVE AnswerInv'
  BY <1>16 DEF Fail, MarkFailed, JobRowFree
<1>17. ASSUME NEW c \in Callers, NEW s \in Sessions, FailReconnected(c, s) PROVE AnswerInv'
  BY <1>17 DEF FailReconnected, MarkFailed, JobRowFree, Opens
<1>18. ASSUME NEW c \in Callers, FailSkipped(c) PROVE AnswerInv'
  BY <1>18 DEF FailSkipped
<1>19. ASSUME NEW c \in Callers, UnlockConfirmed(c) PROVE AnswerInv'
  BY <1>19 DEF UnlockConfirmed, Return
<1>20. ASSUME NEW c \in Callers, UnlockUnconfirmed(c) PROVE AnswerInv'
  BY <1>20 DEF UnlockUnconfirmed
<1>21. ASSUME NEW c \in Callers, UnlockRaises(c) PROVE AnswerInv'
  BY <1>21 DEF UnlockRaises
<1>22. ASSUME NEW c \in Callers, Invalidate(c) PROVE AnswerInv'
  BY <1>22 DEF Invalidate, Discard, EndBackends, Return
<1>23. ASSUME NEW c \in Callers, Detach(c) PROVE AnswerInv'
  BY <1>23 DEF Detach, Discard, EndBackends, Return
<1>24. ASSUME NEW c \in Callers, InvalidateRaises(c) PROVE AnswerInv'
  BY <1>24 DEF InvalidateRaises
<1>25. ASSUME NEW c \in Callers, DetachRaises(c) PROVE AnswerInv'
  BY <1>25 DEF DetachRaises, Return
<1>26. ASSUME NEW s \in Sessions, BackendEnds(s) PROVE AnswerInv'
  BY <1>26 DEF BackendEnds, EndBackends
<1>27. ASSUME ProcessCrashes PROVE AnswerInv'
  BY <1>27 DEF ProcessCrashes, EndBackends
<1>28. ASSUME NEW e \in Encounters, EndEncounter(e) PROVE AnswerInv'
  BY <1>28 DEF EndEncounter
<1>29. ASSUME NEW t \in Slots, ResolveDirectly(t) PROVE AnswerInv'
  BY <1>29 DEF ResolveDirectly
<1>30. CASE UNCHANGED vars
  BY <1>30 DEF vars
<1> QED
  BY <1>1, <1>2, <1>3, <1>4, <1>5, <1>6, <1>7, <1>8, <1>9, <1>10, <1>11, <1>12, <1>13, <1>14,
      <1>15, <1>16, <1>17, <1>18, <1>19, <1>20, <1>21, <1>22, <1>23, <1>24, <1>25, <1>26, <1>27,
      <1>28, <1>29, <1>30 DEF Next, Progress, Fault

\* The number of TRUEs in a sequence of Booleans.
TrueCount(q) == Cardinality({i \in DOMAIN q : q[i]})

\* Counting the successful attempts when one more attempt is logged.
LEMMA TrueCountOfAppend ==
  ASSUME NEW q \in Seq(BOOLEAN), NEW b \in BOOLEAN
  PROVE  TrueCount(Append(q, b)) = IF b THEN TrueCount(q) + 1 ELSE TrueCount(q)
<1> DEFINE T == {i \in DOMAIN q : q[i]}
           U == {i \in DOMAIN Append(q, b) : Append(q, b)[i]}
<1>1. IsFiniteSet(T)
  <2>1. IsFiniteSet(1 .. Len(q))
    BY FS_Interval
  <2>2. T \subseteq 1 .. Len(q)
    OBVIOUS
  <2> QED
    BY <2>1, <2>2, FS_Subset
<1>2. Len(q) + 1 \notin T
  OBVIOUS
<1>3. U = IF b THEN T \cup {Len(q) + 1} ELSE T
  <2>1. DOMAIN q = 1 .. Len(q) /\ DOMAIN Append(q, b) = 1 .. (Len(q) + 1) /\ Len(q) \in Nat
    OBVIOUS
  <2>2. \A i \in 1 .. Len(q) : Append(q, b)[i] = q[i]
    OBVIOUS
  <2>3. Append(q, b)[Len(q) + 1] = b
    OBVIOUS
  <2>4. \A i : i \in 1 .. (Len(q) + 1) <=> i \in 1 .. Len(q) \/ i = Len(q) + 1
    BY <2>1
  <2>5. \A i : i \in U <=> i \in T \/ (i = Len(q) + 1 /\ b)
    <3> SUFFICES ASSUME NEW i
                 PROVE  i \in U <=> i \in T \/ (i = Len(q) + 1 /\ b)
      OBVIOUS
    <3>1. CASE i \in 1 .. Len(q)
      <4>1. i # Len(q) + 1
        BY <2>1, <3>1
      <4> QED
        BY <2>1, <2>2, <2>4, <3>1, <4>1, Zenon
    <3>2. CASE i = Len(q) + 1
      <4>1. i \notin 1 .. Len(q)
        BY <2>1, <3>2
      <4> QED
        BY <2>1, <2>3, <2>4, <3>2, <4>1, Zenon
    <3>3. CASE i \notin 1 .. (Len(q) + 1)
      BY <2>1, <2>4, <3>3, Zenon
    <3> QED
      BY <2>4, <3>1, <3>2, <3>3, Zenon
  <2>6. CASE b
    <3>1. \A i : i \in U <=> i \in T \cup {Len(q) + 1}
      BY <2>5, <2>6, Zenon
    <3> QED
      BY <2>6, <3>1
  <2>7. CASE ~b
    <3>1. \A i : i \in U <=> i \in T
      BY <2>5, <2>7, Zenon
    <3> QED
      BY <2>7, <3>1
  <2> QED
    BY <2>6, <2>7
<1>5. Cardinality(T \cup {Len(q) + 1}) = Cardinality(T) + 1
  BY <1>1, <1>2, FS_AddElement
<1> QED
  BY <1>3, <1>5 DEF TrueCount

\* The initial states satisfy every part of the invariant.
LEMMA InitIInv == Init => IInv /\ AnswerInv /\ SuccessInv
<1> SUFFICES ASSUME Init PROVE IInv /\ AnswerInv /\ SuccessInv
  OBVIOUS
<1> USE ConstantsAssumption, NoneAssumption DEF Init
<1>1. TypeOK
  BY DEF TypeOK, Status, Results, Steps, Places
<1>2. CallInv /\ ConnInv
  BY DEF CallInv, ConnInv
<1>3. LockInv /\ RowInv
  BY DEF LockInv, RowInv, Inside, Connected
<1>4. JobInv /\ AnswerInv /\ SyncStateOfATurn
  BY DEF JobInv, AnswerInv, SyncStateOfATurn
<1>5. SuccessInv
  <2>1. \A o \in Ops : {i \in DOMAIN attempts[o] : attempts[o][i]} = {}
    OBVIOUS
  <2> QED
    BY <2>1, FS_EmptySet DEF SuccessInv, Successes
<1> QED
  BY <1>1, <1>2, <1>3, <1>4, <1>5 DEF IInv

\* Every step changes the attempts and the effect of an operation together.
LEMMA SuccessStep ==
  ASSUME TypeOK, CallInv, SuccessInv, [Next]_vars
  PROVE  SuccessInv'
<1>1. CASE UNCHANGED <<attempts, applied>>
  BY <1>1 DEF SuccessInv, Successes
<1>2. ASSUME NEW o \in Ops, NEW b \in BOOLEAN,
             attempts' = [attempts EXCEPT ![o] = Append(@, b)],
             applied' = [applied EXCEPT ![o] = IF b THEN @ + 1 ELSE @]
      PROVE  SuccessInv'
  <2>1. attempts[o] \in Seq(BOOLEAN) /\ attempts'[o] = Append(attempts[o], b)
    BY <1>2 DEF TypeOK
  <2>2. TrueCount(attempts'[o])
          = IF b THEN TrueCount(attempts[o]) + 1 ELSE TrueCount(attempts[o])
    BY <2>1, TrueCountOfAppend
  <2>3. TrueCount(attempts[o]) = applied[o]
    BY DEF SuccessInv, Successes, TrueCount
  <2>4. TrueCount(attempts'[o]) = applied'[o]
    BY <1>2, <2>2, <2>3 DEF TypeOK
  <2>5. Successes(o)' = applied'[o]
    BY <2>4 DEF Successes, TrueCount
  <2>6. ASSUME NEW u \in Ops, u # o PROVE Successes(u)' = applied'[u]
    BY <1>2, <2>6 DEF Successes, SuccessInv, TypeOK
  <2> QED
    BY <2>5, <2>6 DEF SuccessInv
<1>3. ASSUME NEW c \in Callers, Commit(c) \/ CommitUnacknowledged(c)
      PROVE  SuccessInv'
  <2>1. /\ pc[c] # "idle"
        /\ attempts' = [attempts EXCEPT ![op[c]] = Append(@, TRUE)]
        /\ applied' = [applied EXCEPT ![op[c]] = @ + 1]
    BY <1>3 DEF Commit, CommitUnacknowledged, CommitWork
  <2>2. PICK o \in Ops : o = op[c]
    BY <2>1 DEF CallInv
  <2>3. applied' = [applied EXCEPT ![o] = IF TRUE THEN @ + 1 ELSE @]
    BY <2>1, <2>2
  <2> QED
    BY <1>2, <2>1, <2>2, <2>3
<1>4. ASSUME NEW c \in Callers, Fail(c) \/ \E s \in Sessions : FailReconnected(c, s)
      PROVE  SuccessInv'
  <2>1. /\ pc[c] # "idle"
        /\ attempts' = [attempts EXCEPT ![op[c]] = Append(@, FALSE)]
        /\ applied' = applied
    BY <1>4 DEF Fail, FailReconnected, MarkFailed, domainVars
  <2>2. PICK o \in Ops : o = op[c]
    BY <2>1 DEF CallInv
  <2>3. applied' = [applied EXCEPT ![o] = IF FALSE THEN @ + 1 ELSE @]
    BY <2>1 DEF TypeOK
  <2> QED
    BY <1>2, <2>1, <2>2, <2>3
<1>5. CASE UNCHANGED vars
  BY <1>1, <1>5 DEF vars
<1>6. ASSUME NEW c \in Callers, Progress(c), ~Commit(c), ~Fail(c),
             ~ \E s \in Sessions : FailReconnected(c, s)
      PROVE  UNCHANGED <<attempts, applied>>
  BY <1>6 DEF Progress, jobVars, domainVars, Connect, ConnectTimesOut, AcquireLock,
       ClaimConflicts, ClaimReplays, ClaimRetries, ClaimInserts, Execute,
       ExecuteRaises, ConnectionLost, FailSkipped, UnlockConfirmed,
       UnlockUnconfirmed, Invalidate, Detach, Discard
<1>7. ASSUME NEW c \in Callers, Fault(c), ~CommitUnacknowledged(c)
      PROVE  UNCHANGED <<attempts, applied>>
  BY <1>7 DEF Fault, jobVars, domainVars, Abort, ConnectionBreaks, UnlockRaises,
       InvalidateRaises, DetachRaises
<1>8. ASSUME \/ \E c \in Callers, o \in Ops, p \in Payloads : Call(c, o, p)
             \/ \E s \in Sessions : BackendEnds(s)
             \/ ProcessCrashes
             \/ \E e \in Encounters : EndEncounter(e)
             \/ \E t \in Slots : ResolveDirectly(t)
      PROVE  UNCHANGED <<attempts, applied>>
  BY <1>8 DEF jobVars, domainVars, Call, BackendEnds, ProcessCrashes, EndEncounter,
       ResolveDirectly
<1> QED
  BY <1>1, <1>3, <1>4, <1>5, <1>6, <1>7, <1>8 DEF Next

\* The sync state is written by the commit that applies the operation, and what
\* it says of that operation stays true: a turn, once known, is never replaced.
LEMMA SyncStep ==
  ASSUME TypeOK, CallInv, LockInv, RowInv, JobInv, SyncStateOfATurn, [Next]_vars
  PROVE  SyncStateOfATurn'
<1>1. CASE UNCHANGED <<turn, applied, syncState>>
  BY <1>1 DEF SyncStateOfATurn
<1>2. ASSUME NEW c \in Callers, Commit(c) \/ CommitUnacknowledged(c)
      PROVE  SyncStateOfATurn'
  <2>1. /\ pc[c] = "commit" /\ Connected(c)
        /\ turn' = [turn EXCEPT ![op[c]] = SlotOfCall(c)]
        /\ applied' = [applied EXCEPT ![op[c]] = @ + 1]
        /\ syncState' = [syncState EXCEPT ![EncounterOfCall(c)] = op[c]]
    BY <1>2 DEF Commit, CommitUnacknowledged, CommitWork
  <2>2. op[c] \in Ops /\ arg[c] \in Payloads
    BY <2>1 DEF CallInv
  <2>3. applied[op[c]] = 0
    <3>1. turns[SlotOfCall(c)] = None /\ payload[op[c]] = arg[c]
      BY <2>1 DEF RowInv, JobInv
    <3>2. op[c] # None
      BY <2>2, NoneAssumption
    <3>3. turn[op[c]] # None => turn[op[c]] = SlotOfCall(c) /\ turns[turn[op[c]]] = op[c]
      BY <2>2, <3>1 DEF JobInv, SlotOfCall
    <3>4. turn[op[c]] = None
      BY <3>1, <3>2, <3>3
    <3> QED
      BY <2>2, <3>4 DEF JobInv
  <2>4. applied'[op[c]] = 1 /\ EncounterOf[turn'[op[c]]] = EncounterOfCall(c)
    BY <2>1, <2>2, <2>3 DEF TypeOK, EncounterOfCall, SlotOfCall
  <2>5. ASSUME NEW e \in Encounters, syncState'[e] # None
        PROVE  applied'[syncState'[e]] = 1 /\ EncounterOf[turn'[syncState'[e]]] = e
    <3>1. CASE syncState'[e] = op[c]
      <4>1. e = EncounterOfCall(c)
        BY <2>1, <2>2, <2>3, <3>1, <2>5 DEF SyncStateOfATurn, TypeOK
      <4> QED
        BY <2>4, <3>1, <4>1
    <3>2. CASE syncState'[e] # op[c]
      <4>1. syncState'[e] = syncState[e] /\ syncState[e] \in Ops
        BY <2>1, <2>5, <3>2 DEF TypeOK
      <4>2. turn'[syncState[e]] = turn[syncState[e]] /\ applied'[syncState[e]] = applied[syncState[e]]
        BY <2>1, <3>2, <4>1 DEF TypeOK
      <4> QED
        BY <2>5, <4>1, <4>2 DEF SyncStateOfATurn
    <3> QED
      BY <3>1, <3>2
  <2> QED
    BY <2>5 DEF SyncStateOfATurn
<1>3. CASE UNCHANGED vars
  BY <1>1, <1>3 DEF vars, jobVars, domainVars
<1>4. ASSUME NEW c \in Callers, Progress(c), ~Commit(c)
      PROVE  UNCHANGED <<turn, applied, syncState>>
  BY <1>4 DEF Progress, jobVars, domainVars, Connect, ConnectTimesOut, AcquireLock,
       ClaimConflicts, ClaimReplays, ClaimRetries, ClaimInserts, Execute,
       ExecuteRaises, ConnectionLost, Fail, FailReconnected, MarkFailed, FailSkipped,
       UnlockConfirmed, UnlockUnconfirmed, Invalidate, Detach, Discard
<1>5. ASSUME NEW c \in Callers, Fault(c), ~CommitUnacknowledged(c)
      PROVE  UNCHANGED <<turn, applied, syncState>>
  BY <1>5 DEF Fault, jobVars, domainVars, Abort, ConnectionBreaks, UnlockRaises,
       InvalidateRaises, DetachRaises
<1>6. ASSUME \/ \E c \in Callers, o \in Ops, p \in Payloads : Call(c, o, p)
             \/ \E s \in Sessions : BackendEnds(s)
             \/ ProcessCrashes
             \/ \E e \in Encounters : EndEncounter(e)
             \/ \E t \in Slots : ResolveDirectly(t)
      PROVE  UNCHANGED <<turn, applied, syncState>>
  BY <1>6 DEF jobVars, domainVars, Call, BackendEnds, ProcessCrashes, EndEncounter,
       ResolveDirectly
<1> QED
  BY <1>1, <1>2, <1>3, <1>4, <1>5, <1>6 DEF Next

\* The invariant as a whole is inductive.
LEMMA IInvStep ==
  ASSUME IInv, AnswerInv, SuccessInv, [Next]_vars
  PROVE  (IInv /\ AnswerInv /\ SuccessInv)'
<1>1. TypeOK /\ CallInv /\ ConnInv /\ LockInv /\ RowInv /\ JobInv /\ SyncStateOfATurn
  BY DEF IInv
<1>2. TypeOK' /\ CallInv'
  BY <1>1, TypeStep
<1>3. ConnInv'
  BY <1>1, ConnStep
<1>4. LockInv' /\ RowInv'
  BY <1>1, LockStep
<1>5. JobInv'
  BY <1>1, JobStep
<1>6. AnswerInv'
  BY <1>1, AnswerStep
<1>7. SuccessInv'
  BY <1>1, SuccessStep
<1>8. SyncStateOfATurn'
  BY <1>1, SyncStep
<1> QED
  BY <1>2, <1>3, <1>4, <1>5, <1>6, <1>7, <1>8 DEF IInv

\* The inductive invariant holds in every behaviour.
THEOREM Invariance == Spec => [](IInv /\ AnswerInv /\ SuccessInv)
<1>1. Init => IInv /\ AnswerInv /\ SuccessInv
  BY InitIInv
<1>2. IInv /\ AnswerInv /\ SuccessInv /\ [Next]_vars => (IInv /\ AnswerInv /\ SuccessInv)'
  BY IInvStep
<1> QED
  BY <1>1, <1>2, PTL DEF Spec

-----------------------------------------------------------------------------
(* The properties of CombatSync. *)

\* Every variable keeps the type of the column, lock or Python object it
\* stands for.
THEOREM TypeCorrect == Spec => []TypeOK
<1>1. IInv => TypeOK
  BY DEF IInv
<1> QED
  BY <1>1, Invariance, PTL

\* No two calls with the same lock key are ever inside together: the
\* advisory lock of apply_foundry_combat_sync does exclude, although calls
\* may find themselves on a reconnected session that does not own it.
THEOREM MutualExclusion == Spec => []OneCallInside
<1>1. IInv => OneCallInside
  <2> SUFFICES ASSUME IInv, NEW c \in Callers, Inside(c)
               PROVE  /\ lockOwner[KeyOf(c)] = conn[c]
                      /\ \A d \in Callers \ {c} : Inside(d) => KeyOf(d) # KeyOf(c)
    BY DEF OneCallInside
  <2>1. \A d \in Callers : Inside(d) => lockOwner[KeyOf(d)] = conn[d]
    BY DEF IInv, LockInv
  <2>2. conn[c] # None
    BY NoneAssumption DEF IInv, TypeOK, Inside, Connected
  <2>3. \A d \in Callers : conn[c] = conn[d] => c = d
    BY <2>2 DEF IInv, ConnInv
  <2> QED
    BY <2>1, <2>3
<1> QED
  BY <1>1, Invariance, PTL

\* _release_lock_connection never puts a session that owns a lock back into
\* the pool.
THEOREM PoolHygiene == Spec => []PoolIsClean
<1>1. IInv => PoolIsClean
  <2> SUFFICES ASSUME IInv, NEW s \in Sessions, place[s] = "pool"
               PROVE  /\ \A k \in Keys : lockOwner[k] # s
                      /\ \A e \in Encounters : rowOwner[e] # s
                      /\ \A o \in Ops : jobOwner[o] # s
    BY DEF PoolIsClean
  <2> QED
    BY HandedSessionOwnsNothing DEF IInv
<1> QED
  BY <1>1, Invariance, PTL

\* However often an operation is redelivered, and whatever fails on the way,
\* its combat turn is committed at most once and together with its
\* bookkeeping.
THEOREM ExactlyOnceEffect == Spec => []AppliedOnceWithBookkeeping
<1>1. IInv /\ SuccessInv => AppliedOnceWithBookkeeping
  BY DEF IInv, JobInv, SuccessInv, AppliedOnceWithBookkeeping
<1> QED
  BY <1>1, Invariance, PTL

-----------------------------------------------------------------------------
(* CombatSync implements ExactlyOnce. *)

\* A step that leaves the bound payloads, the effects and the answers alone
\* is a stutter of the abstract specification.
LEMMA Stutters ==
  ASSUME UNCHANGED <<payload, turn, answers>>
  PROVE  UNCHANGED Abstract!vars
  BY DEF Abstract!vars

\* A return is an answer the abstract specification allows.
LEMMA ReturnAnswers ==
  ASSUME TypeOK, CallInv, AnswerInv, NEW c \in Callers, pc[c] # "idle", Return(c),
         UNCHANGED <<payload, turn>>
  PROVE  Abstract!Next
<1>1. op[c] \in Ops /\ arg[c] \in Payloads
  BY DEF CallInv
<1>2. result[c] \in {"applied", "replayed", "conflict", "error"}
  BY DEF CallInv, TypeOK, Results
<1>3. Abstract!MayAnswer(op[c], arg[c], result[c])
  BY <1>1, <1>2 DEF AnswerInv, Abstract!MayAnswer
<1>4. answers' = answers \cup {[op |-> op[c], arg |-> arg[c], result |-> result[c]]}
  BY DEF Return
<1>5. Abstract!Answer(op[c], arg[c], result[c])
  BY <1>3, <1>4 DEF Abstract!Answer
<1> QED
  BY <1>1, <1>2, <1>5 DEF Abstract!Next

\* The commit of the work transaction is the effect of the operation.
LEMMA CommitApplies ==
  ASSUME TypeOK, CallInv, RowInv, JobInv, NEW c \in Callers, pc[c] = "commit",
         Connected(c), CommitWork(c), answers' = answers
  PROVE  Abstract!Next
<1> USE ConstantsAssumption, NoneAssumption
<1>1. op[c] \in Ops /\ arg[c] \in Payloads
  BY DEF CallInv
<1>2. payload[op[c]] = arg[c] /\ arg[c] # None
  BY <1>1 DEF JobInv
<1>3. turns[SlotOfCall(c)] = None
  BY DEF RowInv
<1>4. turn[op[c]] = None
  BY <1>1, <1>2, <1>3 DEF JobInv, SlotOfCall
<1>5. SlotOfCall(c) \in Slots
  BY <1>1 DEF SlotOfCall
<1>6. turn' = [turn EXCEPT ![op[c]] = SlotOfCall(c)] /\ payload' = payload
  BY DEF CommitWork
<1>7. [o \in Ops |-> turn'[o] # None]
        = [[o \in Ops |-> turn[o] # None] EXCEPT ![op[c]] = TRUE]
  <2>1. turn'[op[c]] # None /\ \A o \in Ops : o # op[c] => turn'[o] = turn[o]
    BY <1>1, <1>5, <1>6 DEF TypeOK
  <2> QED
    BY <1>1, <2>1
<1>8. \A o \in Ops : o = op[c] => Abstract!Apply(o)
  BY <1>1, <1>2, <1>4, <1>6, <1>7 DEF Abstract!Apply
<1> QED
  BY <1>1, <1>8 DEF Abstract!Next

\* The claim that inserts a job binds its operation to a payload.
LEMMA ClaimBinds ==
  ASSUME TypeOK, CallInv, JobInv, NEW c \in Callers, ClaimInserts(c)
  PROVE  Abstract!Next
<1>1. op[c] \in Ops /\ arg[c] \in Payloads
  BY DEF CallInv, ClaimInserts
<1>2. payload[op[c]] = None
  BY <1>1 DEF JobInv, ClaimInserts
<1>3. payload' = [payload EXCEPT ![op[c]] = arg[c]] /\ UNCHANGED <<turn, answers>>
  BY DEF ClaimInserts
<1>4. Abstract!Bind(op[c], arg[c])
  BY <1>2, <1>3 DEF Abstract!Bind
<1> QED
  BY <1>1, <1>4 DEF Abstract!Next

\* Every step of the service is a step of the ledger, or a stutter.
LEMMA RefinementStep ==
  ASSUME IInv, AnswerInv, [Next]_vars
  PROVE  [Abstract!Next]_(Abstract!vars)
<1>0. TypeOK /\ CallInv /\ RowInv /\ JobInv
  BY DEF IInv
<1>1. ASSUME NEW c \in Callers, ConnectTimesOut(c) \/ UnlockConfirmed(c) \/ Invalidate(c)
                                \/ Detach(c) \/ DetachRaises(c)
      PROVE  Abstract!Next
  <2>1. pc[c] # "idle" /\ Return(c) /\ UNCHANGED <<payload, turn>>
    BY <1>1 DEF ConnectTimesOut, UnlockConfirmed, Invalidate, Detach, DetachRaises,
         Discard, jobVars
  <2> QED
    BY <1>0, <2>1, ReturnAnswers
<1>2. ASSUME NEW c \in Callers, Commit(c) \/ CommitUnacknowledged(c)
      PROVE  Abstract!Next
  <2>1. pc[c] = "commit" /\ Connected(c) /\ CommitWork(c) /\ answers' = answers
    BY <1>2 DEF Commit, CommitUnacknowledged
  <2> QED
    BY <1>0, <2>1, CommitApplies
<1>3. ASSUME NEW c \in Callers, ClaimInserts(c)
      PROVE  Abstract!Next
  BY <1>0, <1>3, ClaimBinds
<1>4. ASSUME NEW c \in Callers, Progress(c), ~ClaimInserts(c), ~Commit(c),
             ~ConnectTimesOut(c), ~UnlockConfirmed(c), ~Invalidate(c), ~Detach(c)
      PROVE  UNCHANGED <<payload, turn, answers>>
  BY <1>4 DEF Progress, jobVars, Connect, FailReconnected, MarkFailed, AcquireLock,
       ClaimConflicts, ClaimReplays, ClaimRetries, Execute, ExecuteRaises,
       ConnectionLost, Fail, FailSkipped, UnlockUnconfirmed
<1>5. ASSUME NEW c \in Callers, Fault(c), ~CommitUnacknowledged(c), ~DetachRaises(c)
      PROVE  UNCHANGED <<payload, turn, answers>>
  BY <1>5 DEF Fault, jobVars, Abort, ConnectionBreaks, UnlockRaises, InvalidateRaises
<1>6. ASSUME \/ \E c \in Callers, o \in Ops, p \in Payloads : Call(c, o, p)
             \/ \E s \in Sessions : BackendEnds(s)
             \/ ProcessCrashes
             \/ \E e \in Encounters : EndEncounter(e)
             \/ \E t \in Slots : ResolveDirectly(t)
             \/ UNCHANGED vars
      PROVE  UNCHANGED <<payload, turn, answers>>
  BY <1>6 DEF jobVars, Call, BackendEnds, ProcessCrashes, EndEncounter,
       ResolveDirectly, vars
<1> QED
  BY <1>1, <1>2, <1>3, <1>4, <1>5, <1>6, Stutters DEF Next

\* The detailed protocol, with its sessions, locks, transactions and faults,
\* implements the exactly-once ledger an adapter is promised.
THEOREM Implements == Spec => ImplementsExactlyOnce
<1>1. Init => Abstract!Init
  BY DEF Init, Abstract!Init
<1>2. IInv /\ AnswerInv /\ [Next]_vars => [Abstract!Next]_(Abstract!vars)
  BY RefinementStep
<1> QED
  BY <1>1, <1>2, Invariance, PTL DEF Spec, ImplementsExactlyOnce, Abstract!Spec
=============================================================================
