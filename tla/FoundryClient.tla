---------------------------- MODULE FoundryClient ----------------------------
(***************************************************************************)
(* The Foundry module in the GM's browser, for the hit points of one       *)
(* linked actor (foundry-module/scripts/hooks.mjs, sync-engine.mjs,        *)
(* retry.mjs, ids.mjs, api-client.mjs), with the service on the other side *)
(* of a network that loses requests and answers and delivers requests      *)
(* late.                                                                   *)
(*                                                                         *)
(* Someone edits the actor; the module submits the difference under an     *)
(* operation id, tries again when it hears nothing, and writes what the    *)
(* service answers back to the actor.  A flag tells the module's own       *)
(* writes from the edits of people; a timer of no delay takes it down      *)
(* after the write.  A combat turn is submitted without an edit.           *)
(*                                                                         *)
(* Foundry applies updates of an actor in the order they were issued, and  *)
(* calls the module's hook before it resolves the promise of the update.   *)
(***************************************************************************)
EXTENDS Integers, Sequences

CONSTANTS
  MaxHp,
  MaxTries,        \* DEFAULT_MAX_ATTEMPTS
  MaxTime,         \* bound on the world time
  MaxSubmissions,  \* bound on what is submitted
  MaxReloads,      \* bound on the reloads of the page
  Null

\* A request is sent at least once, and no hit points are the null of the page.
ClientAssumption ==
  /\ MaxHp \in Nat /\ MaxTime \in Nat /\ MaxTries \in Nat \ {0} /\ MaxReloads \in Nat
  /\ Null \notin 0 .. MaxHp

VARIABLES
  hp,        \* of the actor in Foundry
  stash,     \* pendingHpBefore
  updates,   \* updates of the actor that Foundry has not applied yet
  self,      \* whether the actor is marked as self-updating
  timers,    \* timers that will take the mark down
  time,      \* the world time of the last submission
  sub,       \* what has been submitted, oldest first
  page,      \* "up", or how far the restoration is
  restored,  \* the answer of the restoration
  reloads,
  server,    \* the hit points the service holds
  ledger,    \* the operations it has done, each with its answer
  late,      \* requests the module has given up on and the service may still get
  applied,   \* how often each submission has changed the hit points
  orderly    \* nothing happened while something else was under way

client == <<hp, stash, updates, self, timers, page, restored, reloads>>
service == <<server, ledger, late, applied>>
clientVars == <<client, time, sub, service, orderly>>

Ended == {"done", "failed", "lost"}

Updates == [value : 0 .. MaxHp, by : {"user", "module"}]
Submissions ==
  [kind : {"hp", "turn"}, delta : -MaxHp .. MaxHp, time : 0 .. MaxTime, by : {"user", "module"},
   tries : 0 .. MaxTries, at : {"sending", "sent", "answered", "refused"} \cup Ended,
   answer : 0 .. MaxHp \cup {Null}]

ClientTypeOK ==
  /\ hp \in 0 .. MaxHp /\ server \in 0 .. MaxHp
  /\ stash \in 0 .. MaxHp \cup {Null}
  /\ updates \in Seq(Updates)
  /\ self \in BOOLEAN /\ orderly \in BOOLEAN
  /\ timers \in Nat
  /\ time \in 0 .. MaxTime
  /\ sub \in Seq(Submissions)
  /\ page \in {"up", "loading", "restoring"}
  /\ restored \in 0 .. MaxHp \cup {Null}
  /\ reloads \in 0 .. MaxReloads
  /\ late \in Seq(Nat) /\ applied \in Seq(Nat)
  /\ Len(late) = Len(sub) /\ Len(applied) = Len(sub)

ClientInit ==
  /\ server \in 0 .. MaxHp /\ hp = server
  /\ stash = Null /\ updates = <<>> /\ self = FALSE /\ timers = 0
  /\ time = 0 /\ sub = <<>> /\ page = "up" /\ restored = Null /\ reloads = 0
  /\ ledger = {} /\ late = <<>> /\ applied = <<>>
  /\ orderly = TRUE
-----------------------------------------------------------------------------
\* stableOperationId: a change of hit points is told by its size and the world
\* time, a combat turn by what was done, without the time.
AttemptId(s) == <<sub[s].kind, sub[s].delta, sub[s].tries>>
OperationId(s) ==
  IF sub[s].kind = "hp" THEN <<"hp", sub[s].delta, sub[s].time>> ELSE <<"turn", sub[s].delta>>

Busy == \E s \in DOMAIN sub : sub[s].at \notin Ended
Quiet == ~Busy /\ updates = <<>> /\ timers = 0 /\ page = "up"

\* A submission with the id of an earlier one repeats it.
Repeats(kind, delta, now) ==
  \E s \in DOMAIN sub :
    /\ sub[s].kind = kind /\ sub[s].delta = delta
    /\ kind = "hp" => sub[s].time = now

\* The world time may have moved on since the last submission.
Submit(kind, delta, by, inOrder) ==
  /\ Len(sub) < MaxSubmissions
  /\ time' \in time .. MaxTime
  /\ sub' = Append(sub, [kind |-> kind, delta |-> delta, time |-> time', by |-> by,
                         tries |-> 0, at |-> "sending", answer |-> Null])
  /\ orderly' = (orderly /\ inOrder /\ ~Repeats(kind, delta, time'))
  /\ late' = Append(late, 0)
  /\ applied' = Append(applied, 0)
  /\ UNCHANGED <<server, ledger>>
-----------------------------------------------------------------------------
(* Foundry, and the hooks. *)

\* Somebody edits the actor: preUpdateActor keeps the value it had.
Edit(value) ==
  /\ hp # value
  /\ Len(sub) < MaxSubmissions
  /\ \A k \in DOMAIN updates : updates[k].by = "module"
  /\ updates' = Append(updates, [value |-> value, by |-> "user"])
  /\ stash' = hp
  /\ orderly' = (orderly /\ Quiet)
  /\ UNCHANGED <<hp, self, timers, time, sub, page, restored, reloads, service>>

Unmarked == FALSE
SelfUpdating == self

\* An update arrives: updateActor submits the difference unless the module is
\* updating the actor, and then the promise of a write of the module resolves.
\* Foundry calls no hook when the value is the one the actor has.
Updated ==
  LET next == Head(updates)
      hooked == next.value # hp
      heeded == hooked /\ ~SelfUpdating /\ stash \notin {Null, next.value}
  IN
  /\ updates # <<>>
  /\ updates' = Tail(updates)
  /\ hp' = next.value
  /\ stash' = IF hooked THEN Null ELSE stash
  /\ timers' = IF next.by = "module" THEN timers + 1 ELSE timers
  /\ IF heeded
     THEN Submit("hp", next.value - stash, next.by, TRUE)
     ELSE UNCHANGED <<time, sub, service, orderly>>
  /\ UNCHANGED <<self, page, restored, reloads>>

\* setTimeout(..., 0) of applyHitPoints.
Timer ==
  /\ timers > 0
  /\ timers' = timers - 1
  /\ self' = FALSE
  /\ UNCHANGED <<hp, stash, updates, time, sub, page, restored, reloads, service, orderly>>

-----------------------------------------------------------------------------
(* The engine. *)

\* submitCombatTurn, of an attack that hits the actor.
SubmitCombatTurn(damage) ==
  /\ Submit("turn", -damage, "user", Quiet)
  /\ UNCHANGED client

\* applyHitPoints, with the preUpdateActor hook of its update.
NoWriteBack(value) == UNCHANGED <<self, stash, updates>>
ApplyHitPoints(value) ==
  IF value = hp
  THEN UNCHANGED <<self, stash, updates>>
  ELSE /\ self' = TRUE
       /\ stash' = hp
       /\ updates' = Append(updates, [value |-> value, by |-> "module"])

MayRetry(s) == sub[s].tries < MaxTries

SendRequest(s) ==
  /\ sub[s].at = "sending"
  /\ sub' = [sub EXCEPT ![s].at = "sent", ![s].tries = @ + 1]
  /\ UNCHANGED <<client, time, service, orderly>>

\* Nothing is heard, or an error of the server's: there is another attempt unless
\* this was the last.  The request may have been served, or still be on its way.
Fail(s) ==
  /\ sub[s].at \in {"sent", "answered", "refused"}
  /\ sub' = [sub EXCEPT ![s].at = IF MayRetry(s) THEN "sending" ELSE "failed",
                        ![s].answer = Null]
  /\ late' \in IF sub[s].at = "sent" THEN {late, [late EXCEPT ![s] = @ + 1]} ELSE {late}
  /\ orderly' = (orderly /\ MayRetry(s))
  /\ UNCHANGED <<client, time, server, ledger, applied>>

Receive(s) ==
  /\ \/ /\ sub[s].at = "refused"
        /\ sub' = [sub EXCEPT ![s].at = "failed"]
        /\ orderly' = FALSE
        /\ UNCHANGED <<self, stash, updates>>
     \/ /\ sub[s].at = "answered"
        /\ sub' = [sub EXCEPT ![s].at = "done", ![s].answer = Null]
        /\ ApplyHitPoints(sub[s].answer)
        /\ UNCHANGED orderly
  /\ UNCHANGED <<hp, timers, time, page, restored, reloads, service>>
-----------------------------------------------------------------------------
(* The service: an operation is done once, and answered alike ever after. *)

Clamp(n) == IF n < 0 THEN 0 ELSE IF n > MaxHp THEN MaxHp ELSE n

Earlier(s) == {done \in ledger : done.id = OperationId(s)}
Result(s) == Clamp(server + sub[s].delta)

Do(s) ==
  IF Earlier(s) # {}
  THEN UNCHANGED <<server, ledger, applied>>
  ELSE /\ server' = Result(s)
       /\ ledger' = ledger \cup {[id |-> OperationId(s), time |-> sub[s].time,
                                  answer |-> Result(s)]}
       /\ applied' = [applied EXCEPT ![s] = @ + 1]

\* The same id for something else is refused.
Serve(s) ==
  /\ sub[s].at = "sent"
  /\ Do(s)
  /\ sub' = IF \E done \in Earlier(s) : done.time # sub[s].time
            THEN [sub EXCEPT ![s].at = "refused"]
            ELSE [sub EXCEPT ![s].at = "answered",
                    ![s].answer = IF Earlier(s) = {} THEN Result(s)
                                  ELSE (CHOOSE done \in Earlier(s) : TRUE).answer]
  /\ UNCHANGED <<client, time, late, orderly>>

ServeLate(s) ==
  /\ late[s] > 0
  /\ late' = [late EXCEPT ![s] = @ - 1]
  /\ Do(s)
  /\ UNCHANGED <<client, time, sub, orderly>>
-----------------------------------------------------------------------------
(* The page is loaded again: what was under way in it is gone, and the actor *)
(* is restored from the service.                                             *)

Pending(s) == sub[s].at \notin Ended
Reload ==
  /\ reloads < MaxReloads /\ page = "up"
  /\ reloads' = reloads + 1
  /\ hp' \in {hp} \cup {updates[k].value : k \in DOMAIN updates}
  /\ stash' = Null /\ updates' = <<>> /\ self' = FALSE /\ timers' = 0
  /\ page' = "loading" /\ restored' = Null
  /\ sub' = [s \in DOMAIN sub |->
               IF Pending(s) THEN [sub[s] EXCEPT !.at = "lost", !.answer = Null] ELSE sub[s]]
  /\ late' \in {late, [s \in DOMAIN late |-> IF sub[s].at = "sent" THEN late[s] + 1 ELSE late[s]]}
  /\ orderly' = (\A s \in DOMAIN late' : late'[s] = 0)
  /\ UNCHANGED <<time, server, ledger, applied>>

\* restoreFromServer: the answer of getCharacter, which may be lost, and the
\* write of it.
GetCharacter ==
  /\ page = "loading"
  /\ page' = "restoring" /\ restored' = server
  /\ UNCHANGED <<hp, stash, updates, self, timers, reloads, time, sub, service, orderly>>
Restore ==
  /\ page = "restoring"
  /\ page' = "up" /\ restored' = Null
  /\ ApplyHitPoints(restored)
  /\ UNCHANGED <<hp, timers, reloads, time, sub, service, orderly>>
RestoreFails ==
  /\ page # "up"
  /\ page' = "up" /\ restored' = Null
  /\ orderly' = FALSE
  /\ UNCHANGED <<hp, stash, updates, self, timers, reloads, time, sub, service>>
-----------------------------------------------------------------------------
ClientNext ==
  \/ \E value \in 0 .. MaxHp : Edit(value)
  \/ \E damage \in 1 .. MaxHp : SubmitCombatTurn(damage)
  \/ Updated \/ Timer
  \/ \E s \in DOMAIN sub : SendRequest(s) \/ Fail(s) \/ Receive(s) \/ Serve(s) \/ ServeLate(s)
  \/ Reload \/ GetCharacter \/ Restore \/ RestoreFails

ClientSpec == ClientInit /\ [][ClientNext]_clientVars
-----------------------------------------------------------------------------
\* However often a request is sent, lost and delivered late, one submission
\* changes the hit points at most once: the promise of retry.mjs and ids.mjs.
AppliedOnce == \A s \in DOMAIN sub : applied[s] <= 1

\* When nothing is under way the actor shows what the service holds, as long as
\* every edit and turn waited for the one before, had an id of its own and was
\* answered.  A page that is loaded again gets there whatever happened before, if
\* no request is still on its way.
Converges == orderly /\ Quiet => hp = server

\* The module does not take its own write for an edit, as long as one thing
\* happens at a time: what it submits then is the edit of a person.
NoEcho ==
  [][orderly => \A s \in DOMAIN sub' \ DOMAIN sub : sub'[s].by = "user"]_clientVars

\* The guard "is what prevents" the loop "from ever happening" (comment of
\* isSelfUpdating).  TLC refutes it: README, section 6.
NeverEchoes == \A s \in DOMAIN sub : sub[s].by = "user"
-----------------------------------------------------------------------------
(* The inductive invariant that the proofs rest on. *)

\* The service remembers what it has done.
Remembered ==
  /\ \A s \in DOMAIN sub :
       /\ applied[s] <= 1
       /\ applied[s] = 1 \/ sub[s].at \in {"answered", "refused"} => Earlier(s) # {}
  /\ \A done \in ledger :
       done.answer \in 0 .. MaxHp /\ \E s \in DOMAIN sub : done.id = OperationId(s)

\* A request is sent again while it may, and what is written to the actor has
\* been answered.
AnswersFit ==
  /\ page = "restoring" => restored # Null
  /\ \A s \in DOMAIN sub :
       /\ sub[s].at = "answered" => sub[s].answer # Null
       /\ sub[s].at = "sending" => sub[s].tries < MaxTries

\* What can be under way while one thing happens at a time.
Still == updates = <<>> /\ timers = 0 /\ ~self /\ stash = Null

Settled == page = "up" /\ ~Busy /\ Still /\ hp = server
Edited ==
  /\ page = "up" /\ ~Busy /\ timers = 0 /\ ~self
  /\ stash = hp /\ Len(updates) = 1 /\ updates[1].by = "user" /\ updates[1].value # hp
Submitted ==
  /\ page = "up" /\ Still
  /\ \E s \in DOMAIN sub :
       /\ sub[s].at \in {"sending", "sent", "answered"}
       /\ sub[s].at = "answered" => sub[s].answer = server
       /\ \A u \in DOMAIN sub \ {s} : ~Pending(u) /\ OperationId(u) # OperationId(s)
       /\ \A done \in Earlier(s) : done.time = sub[s].time /\ done.answer = server
Writing ==
  /\ page = "up" /\ ~Busy /\ timers = 0 /\ self /\ hp # server
  /\ updates = <<[value |-> server, by |-> "module"]>>
Written == page = "up" /\ ~Busy /\ timers = 1 /\ updates = <<>> /\ stash = Null /\ hp = server
Reloading ==
  page # "up" /\ ~Busy /\ Still /\ (page = "restoring" => restored = server)

\* Nor does a late request change anything behind the module's back.
LateFits ==
  \A s \in DOMAIN sub : late[s] > 0 => Pending(s) \/ Earlier(s) # {}

OneAtATime ==
  orderly =>
    /\ LateFits
    /\ Settled \/ Edited \/ Submitted \/ Writing \/ Written \/ Reloading

ClientIInv == ClientTypeOK /\ Remembered /\ AnswersFit /\ OneAtATime
=============================================================================
