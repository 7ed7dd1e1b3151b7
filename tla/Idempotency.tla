---------------------------- MODULE Idempotency ----------------------------
(***************************************************************************)
(* A web request with an Idempotency-Key (src/dnd_ai/api/idempotency.py,   *)
(* api/deps.py): one transaction reserves the key with an INSERT, runs the *)
(* command, fills in the response and commits.                             *)
(*                                                                         *)
(* The commit happens in the exit of the dependency get_connection.  Up to *)
(* release 0.117 FastAPI exits such a dependency before it sends the       *)
(* response, since 0.118 afterwards, and pyproject.toml admits both (the   *)
(* lock file pins 0.141.1): responseFirst says which one is installed.     *)
(***************************************************************************)
EXTENDS Naturals

CONSTANTS
  Requests,       \* requests the server may be handling at the same time
  Keys,           \* (user, campaign, Idempotency-Key) triples
  Prints,         \* fingerprints: a command with all its arguments
  Rows,           \* rows of the domain that commands lock
  RowOf,          \* the row the command of a fingerprint locks
  MaxRequests,    \* bound: requests sent in a behaviour
  MaxFaults,      \* bound: transactions that fail for no reason of their own
  None

ASSUME ConstantsAssumption ==
  /\ RowOf \in [Prints -> Rows]
  /\ MaxRequests \in Nat
  /\ MaxFaults \in Nat

ASSUME NoneAssumption == None \notin Requests /\ None \notin Keys /\ None \notin Prints

VARIABLES
  responseFirst,    \* whether responses are sent before the commit
  pc, key, print,   \* a request, the key and the fingerprint it carries
  result,           \* what it is going to answer
  reserver,         \* the request whose uncommitted INSERT holds a key
  rowOwner,         \* the request whose transaction holds a row lock
  stored,           \* committed idempotent_requests: fingerprint of a key
  executed,         \* how often a command ran and was committed, by key
  answers,          \* the responses clients have received
  sent, faults

vars == <<responseFirst, pc, key, print, result, reserver, rowOwner, stored, executed, answers,
          sent, faults>>

Steps == {"idle", "reserve", "execute", "respond", "commit"}
Results == {"none", "applied", "replayed", "conflict", "error"}

TypeOK ==
  /\ responseFirst \in BOOLEAN
  /\ pc \in [Requests -> Steps]
  /\ key \in [Requests -> Keys \cup {None}]
  /\ print \in [Requests -> Prints \cup {None}]
  /\ result \in [Requests -> Results]
  /\ reserver \in [Keys -> Requests \cup {None}]
  /\ rowOwner \in [Rows -> Requests \cup {None}]
  /\ stored \in [Keys -> Prints \cup {None}]
  /\ executed \in [Keys -> Nat]
  /\ answers \in SUBSET [op : Keys, arg : Prints, result : Results]
  /\ sent \in Nat
  /\ faults \in Nat

Init ==
  /\ responseFirst \in BOOLEAN
  /\ pc = [r \in Requests |-> "idle"]
  /\ key = [r \in Requests |-> None]
  /\ print = [r \in Requests |-> None]
  /\ result = [r \in Requests |-> "none"]
  /\ reserver = [k \in Keys |-> None]
  /\ rowOwner = [x \in Rows |-> None]
  /\ stored = [k \in Keys |-> None]
  /\ executed = [k \in Keys |-> 0]
  /\ answers = {}
  /\ sent = 0
  /\ faults = 0
-----------------------------------------------------------------------------
Goto(r, step) == pc' = [pc EXCEPT ![r] = step]

\* Mutant of EndTransaction: the connection is not given back, so PostgreSQL
\* still holds the row locks.
EndReservation(r) ==
  /\ reserver' = [k \in Keys |-> IF reserver[k] = r THEN None ELSE reserver[k]]
  /\ UNCHANGED rowOwner

\* The transaction of r ends: its reservation and its row locks are gone.
EndTransaction(r) ==
  /\ reserver' = [k \in Keys |-> IF reserver[k] = r THEN None ELSE reserver[k]]
  /\ rowOwner' = [x \in Rows |-> IF rowOwner[x] = r THEN None ELSE rowOwner[x]]

\* The response of r is sent.  It may get lost on the way.
Send(r, res) ==
  \/ answers' = answers \cup {[op |-> key[r], arg |-> print[r], result |-> res]}
  \/ UNCHANGED answers

Forget(r) ==
  /\ Goto(r, "idle")
  /\ key' = [key EXCEPT ![r] = None]
  /\ print' = [print EXCEPT ![r] = None]
  /\ result' = [result EXCEPT ![r] = "none"]

-----------------------------------------------------------------------------
\* A client sends a request, for the first time or again, whatever it has
\* heard of earlier ones.
Arrive(r, k, p) ==
  /\ pc[r] = "idle"
  /\ sent < MaxRequests
  /\ sent' = sent + 1
  /\ key' = [key EXCEPT ![r] = k]
  /\ print' = [print EXCEPT ![r] = p]
  /\ Goto(r, "reserve")
  /\ UNCHANGED <<result, reserver, rowOwner, stored, executed, answers, faults>>

\* INSERT ... ON CONFLICT DO NOTHING waits for the transaction that inserted
\* the same key and has not ended.
KeySettled(r) == pc[r] = "reserve" /\ reserver[key[r]] = None

Reserve(r) ==
  /\ KeySettled(r)
  /\ stored[key[r]] = None
  /\ reserver' = [reserver EXCEPT ![key[r]] = r]
  /\ Goto(r, "execute")
  /\ UNCHANGED <<key, print, result, rowOwner, stored, executed, answers, sent, faults>>

Replay(r) ==
  /\ KeySettled(r)
  /\ stored[key[r]] = print[r]
  /\ Send(r, "replayed")
  /\ Forget(r)
  /\ UNCHANGED <<reserver, rowOwner, stored, executed, sent, faults>>

Conflict(r) ==
  /\ KeySettled(r)
  /\ stored[key[r]] \notin {None, print[r]}
  /\ Send(r, "conflict")
  /\ Forget(r)
  /\ UNCHANGED <<reserver, rowOwner, stored, executed, sent, faults>>

\* Mutant of Execute: the response is sent while the transaction is open.
ExecuteAndRespond(r) ==
  /\ pc[r] = "execute"
  /\ rowOwner[RowOf[print[r]]] = None
  /\ rowOwner' = [rowOwner EXCEPT ![RowOf[print[r]]] = r]
  /\ result' = [result EXCEPT ![r] = "applied"]
  /\ Goto(r, "respond")
  /\ UNCHANGED <<key, print, reserver, stored, executed, answers, sent, faults>>

\* The command locks its row and writes, complete_idempotent_request fills
\* the reservation in.
Execute(r) ==
  /\ pc[r] = "execute"
  /\ rowOwner[RowOf[print[r]]] = None
  /\ rowOwner' = [rowOwner EXCEPT ![RowOf[print[r]]] = r]
  /\ result' = [result EXCEPT ![r] = "applied"]
  /\ Goto(r, IF responseFirst THEN "respond" ELSE "commit")
  /\ UNCHANGED <<key, print, reserver, stored, executed, answers, sent, faults>>

\* Mutant of Refuse: the reservation survives the rollback of the command.
RefuseKeepingKey(r) ==
  /\ pc[r] = "execute"
  /\ stored' = [stored EXCEPT ![key[r]] = print[r]]
  /\ EndTransaction(r)
  /\ Send(r, "error")
  /\ Forget(r)
  /\ UNCHANGED <<executed, sent, faults>>

\* The command raises: the transaction is rolled back, then the error sent.
Refuse(r) ==
  /\ pc[r] = "execute"
  /\ EndTransaction(r)
  /\ Send(r, "error")
  /\ Forget(r)
  /\ UNCHANGED <<stored, executed, sent, faults>>

\* The response of the handler is sent, before the commit or after it.
Respond(r) ==
  /\ pc[r] = "respond"
  /\ Send(r, result[r])
  /\ IF responseFirst
       THEN Goto(r, "commit") /\ UNCHANGED <<key, print, result>>
       ELSE Forget(r)
  /\ UNCHANGED <<reserver, rowOwner, stored, executed, sent, faults>>

\* get_connection commits.
Commit(r) ==
  /\ pc[r] = "commit"
  /\ stored' = [stored EXCEPT ![key[r]] = print[r]]
  /\ executed' = [executed EXCEPT ![key[r]] = @ + 1]
  /\ EndTransaction(r)
  /\ IF responseFirst
       THEN Forget(r)
       ELSE Goto(r, "respond") /\ UNCHANGED <<key, print, result>>
  /\ UNCHANGED <<answers, sent, faults>>

\* The commit fails, or it took effect and its acknowledgement is lost: it
\* raises either way, which still changes the response that was not sent.
CommitRaises(r) ==
  /\ pc[r] = "commit"
  /\ faults < MaxFaults
  /\ faults' = faults + 1
  /\ \/ UNCHANGED <<stored, executed>>
     \/ /\ stored' = [stored EXCEPT ![key[r]] = print[r]]
        /\ executed' = [executed EXCEPT ![key[r]] = @ + 1]
  /\ EndTransaction(r)
  /\ IF responseFirst
       THEN Forget(r)
       ELSE /\ Goto(r, "respond")
            /\ result' = [result EXCEPT ![r] = "error"]
            /\ UNCHANGED <<key, print>>
  /\ UNCHANGED <<answers, sent>>

\* The process dies: every open transaction is rolled back.
ProcessCrashes ==
  /\ faults < MaxFaults
  /\ faults' = faults + 1
  /\ pc' = [r \in Requests |-> "idle"]
  /\ key' = [r \in Requests |-> None]
  /\ print' = [r \in Requests |-> None]
  /\ result' = [r \in Requests |-> "none"]
  /\ reserver' = [k \in Keys |-> None]
  /\ rowOwner' = [x \in Rows |-> None]
  /\ UNCHANGED <<stored, executed, answers, sent>>

\* The steps a request takes unless its command is refused.
Progress(r) ==
  \/ Reserve(r) \/ Replay(r) \/ Conflict(r)
  \/ Execute(r) \/ Respond(r) \/ Commit(r)

Next ==
  /\ \/ \E r \in Requests, k \in Keys, p \in Prints : Arrive(r, k, p)
     \/ \E r \in Requests : Progress(r) \/ Refuse(r) \/ CommitRaises(r)
     \/ ProcessCrashes
  /\ UNCHANGED responseFirst

\* The thread of a request keeps running; no command has to be refused.
Fairness == \A r \in Requests : WF_vars(Progress(r) /\ UNCHANGED responseFirst)

Spec == Init /\ [][Next]_vars
FairSpec == Spec /\ Fairness
-----------------------------------------------------------------------------
\* The reservation of a key and the effect of its command are one fact: the
\* command was committed at most once under a key, and exactly when the key
\* is taken.  No refused or crashed attempt uses a key up.
KeyIsOneExecution ==
  \A k \in Keys : executed[k] = IF stored[k] = None THEN 0 ELSE 1

\* A replay is only given to the request whose command was committed, a
\* conflict only to a request that is not it; later requests change neither.
AnswersAreJustified ==
  \A a \in answers :
    /\ a.result = "replayed" => stored[a.op] = a.arg
    /\ a.result = "conflict" => stored[a.op] \notin {None, a.arg}

\* A client that was told of a success finds it committed (the sequence
\* diagram of docs/architecture/SYSTEM_ARCHITECTURE.md, section 7).  TLC refutes
\* it when the response comes first: README, section 6.
SuccessIsCommitted ==
  \A a \in answers : a.result = "applied" => stored[a.op] = a.arg

\* It does if the framework commits before it responds, also when the commit
\* fails, its acknowledgement is lost or the process dies.
DurableIfCommitFirst == ~responseFirst => SuccessIsCommitted

\* Seen by clients that send again, the requests of a key are the
\* exactly-once ledger, but for the successes told before the commit.
Abstract == INSTANCE ExactlyOnce WITH
  Ops <- Keys,
  Payloads <- Prints,
  bound <- stored,
  done <- [k \in Keys |-> executed[k] > 0],
  answers <- IF responseFirst THEN {a \in answers : a.result # "applied"} ELSE answers

ImplementsExactlyOnce == Abstract!Spec

\* Requests for the same key or the same row wait for each other, and each
\* of them ends, also when none is refused.
EveryRequestEnds == \A r \in Requests : pc[r] = "reserve" ~> pc[r] = "idle"

-----------------------------------------------------------------------------
\* The inductive invariant.  A reservation is held from the INSERT to the end
\* of the transaction and keeps the key unused for as long.
RequestInv ==
  \A r \in Requests :
    /\ pc[r] # "idle" => key[r] \in Keys /\ print[r] \in Prints
    /\ pc[r] \in {"execute", "commit"} \/ (pc[r] = "respond" /\ responseFirst) =>
         reserver[key[r]] = r
    /\ pc[r] = "commit" => result[r] = "applied"
    /\ pc[r] = "respond" =>
         result[r] = "applied" \/ (result[r] = "error" /\ ~responseFirst)
    /\ pc[r] = "respond" /\ ~responseFirst /\ result[r] = "applied" =>
         stored[key[r]] = print[r]

KeyInv == \A k \in Keys : reserver[k] # None => stored[k] = None

IInv == TypeOK /\ RequestInv /\ KeyInv /\ KeyIsOneExecution /\ AnswersAreJustified
=============================================================================
