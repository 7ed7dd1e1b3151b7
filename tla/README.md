# A verification project for dnd_ai

TLA+ specifications of the parts of dnd_ai in which concurrency, retries and
failures decide whether the state of a campaign stays correct, the TLC runs
that check them, and the TLAPS proofs that hold for every value of their
constants.

## 1. The system

dnd_ai is a service for tabletop campaigns: a FastAPI process in front of a
PostgreSQL database, a Foundry VTT module that sends what happens at the table,
and scripts that operate the database.

| Part | State it keeps | Operations | Interacts with |
|---|---|---|---|
| Foundry module (`foundry-module/scripts`) | flags of linked documents, a set of actors it is updating | submit a combat turn, hit points, conditions, resources; restore after a reload; retry | API over HTTP; Foundry hooks (callbacks) |
| API (`src/dnd_ai/api`) | connection pool, threads, JWKS cache | authenticate, authorise, run a command, respond | one transaction per request (`deps.get_connection`) |
| Idempotency store (`api/idempotency.py`) | `security.idempotent_requests` | reserve a key, replay, refuse, complete | the transaction of the request |
| Foundry combat sync (`commands/integration.py`) | `integration.sync_jobs`, `delivery_attempts`, `sync_state`, advisory locks | claim, work, fail, release the lock connection | encounters; the pool; PostgreSQL sessions |
| Encounters (`commands/encounters.py`) | `narrative.encounters`, rounds, turns | start, resolve a turn, end | character state, events |
| Character state (`commands/character_state.py`) | hit points, resources, conditions | adjust, apply, remove | events and their effects |
| Interactions and checks (`commands/interactions.py`) | interactions, check requests and results | perform, resolve, discover | knowledge, events |
| Movement, items, quests, knowledge, relationships, sessions | one current-state table each | a command per change | events |
| Campaigns, memberships, invitations, grants (`commands/…`, `domain/access.py`) | who may do what | create, accept, assign, revoke | every authorised request |
| AI proposals, dialogue, synthesis (`commands/ai_*.py`) | proposals and their status | propose, review, apply | quests, knowledge, the model provider |
| Reference corpus, read models (`queries/`) | documents; none | import; read | – |
| Tables, migrations, seeds | constraints and triggers | checked on every write | all commands |
| Database recovery (`scripts/operations`) | dumps, target databases | backup, restore, verify, roles | PostgreSQL, Docker |
| Deployment (terraform, compose, CI) | – | – | – |

What makes each part correct, and what is hard about it:

* **Combat sync**: a turn delivered at least once is recorded exactly once, with
  its bookkeeping, and is answered the same way every time. Hard: three
  transactions on one session under a session-scoped lock; broken connections
  whose backend lives on; a commit whose acknowledgement is lost; cleanup that
  itself fails; two operations whose lock hashes collide.
* **Pool and threads**: connections are never over-committed, requests do not
  wait for each other for ever. Hard: one route holds two connections.
* **Idempotency**: a key stands for one committed execution. Hard: a duplicate
  that arrives while the first request is open; the order of commit and response.
* **Encounters and character state**: no lost update, recorded causes, no turn
  after the end, no wrong owner. Hard: read-compute-write under READ COMMITTED.
* **Conditions**: applied and removed alternately. Hard: a lock on a row that
  does not exist.
* **Access**: an active campaign keeps a member who can manage access; an
  invitation admits one user. Hard: write skew between two revocations; a
  membership row that does not exist yet and cannot be locked.
* **Checks**: a check is resolved once, and what it changes in the world is
  recorded as a chain. Hard: two interactions on one target; a discovery that
  is looked for without a lock.
* **Proposals**: reviewed once, applied only in a state that admits them. Hard:
  the provider is asked between two transactions; a revalidation has to see the
  locked state; five commands write the same rows from different sides.
* **World structure**: locations contain each other without a cycle, a row of a
  subtype belongs to an entity of that type. Hard: a trigger does not see what
  others are about to commit, and its advisory locks are taken in the order of
  trigger names.
* **JWKS cache**: a rotated key is accepted soon, a withdrawn one is forgotten.
  Hard: two cooldowns and an expiry that interact, and failures between them.
* **Foundry module**: an operation keeps its id across retries, two operations
  have two ids, the module does not answer its own updates. Hard: callbacks and
  timers.
* **Database recovery**: whatever fails, a copy of the data is left, the command
  can be called again, and a reported success is one. Hard: a chain of
  subprocesses of which the first destructive one comes before the load.

`PROJECT.json` lists every component with its status, every hazard at its line,
and the source lines of every definition.

## 2. Modules

| Module | What it specifies |
|---|---|
| `ExactlyOnce` | the ledger both delivery protocols promise: bind an operation to a payload, apply it once, answer in agreement |
| `CombatSync` | `apply_foundry_combat_sync` on PostgreSQL sessions and locks; implements `ExactlyOnce` |
| `Idempotency` | requests with an `Idempotency-Key`; implements `ExactlyOnce` |
| `RequestPool` | requests, threads and pooled connections |
| `CombatLedger` | encounters and character values as atomic commands |
| `CharacterState` | turns, endings and adjustments as transactions with row locks; implements `CombatLedger` |
| `CharacterConditions` | apply and remove a condition as transactions |
| `Interactions` | checks of interactions, the triggers on their status, what they change and reveal |
| `Proposals` | quest objectives, knowledge, and the AI's proposals to change them |
| `AccessControl` | campaigns, bootstrap grants, memberships, roles, invitations, and the trigger that keeps a manager |
| `Movement` | entering a location: close one row, open another |
| `Items` | transfer and identification of items |
| `WorldStructure` | the triggers on locations, dungeons and their areas |
| `Rulesets` | the rulesets a world allows, and the rows that use them |
| `EncounterScope` | revision 081 installed while encounters are written, played and ended |
| `AccessLookups` | the trigger that keeps a manager, when roles, capabilities and statuses change |
| `FoundryClient` | the Foundry module in the browser, an unreliable network, and the service |
| `JwksCache` | the cache of signing keys on a clock |
| `DatabaseRecovery` | backup, restore, bootstrap of roles, teardown |
| `Components` | six modules that share no state side by side: `CharacterConditions`, `Movement`, `Items`, `JwksCache`, `DatabaseRecovery`, `AccessLookups` |
| `World` | `WorldStructure` and `Rulesets` side by side |
| `EncounterCommands` | `CharacterState` and `EncounterScope` side by side |
| `MC…` | values of the constants for TLC |
| `…_proofs` | the theorems about a module or a group; `Requests_proofs` is about `Idempotency`, `RequestPool` and the client that sends the requests, `FoundryClient` |

`CombatSync` contains the part of encounters it depends on (one turn per round
and participant, an active encounter, the encounter's row lock);
`CharacterState` has that part in full. `RequestPool` contains the part of
`CombatSync` that occupies a second connection. The two delivery protocols meet
in `ExactlyOnce`, which is what the Foundry module relies on: the service of
`FoundryClient` is such a ledger with hit points behind it. `Interactions` and
`Proposals` share the discovery of knowledge: the former has it as the end of a
check, the latter as one of the commands that write the same two tables.

### 2.1 CombatSync

State: a caller is a thread inside the function (`pc`, its arguments, the
session its `Connection` wraps); a session is somewhere between the pool, a
caller, an orphaned backend and the quarantine (`place`, `alive`); PostgreSQL
holds advisory locks, row locks of open transactions and the tables. `applied`
and `answers` are history.

Actions follow the function: `Connect`, `AcquireLock`, the four outcomes of
the claim (`ClaimConflicts`, `ClaimReplays`, `ClaimRetries`, `ClaimInserts`),
`Execute` and `Commit` of the work transaction, `Fail…` of the third
transaction, and the cleanup of `_release_lock_connection`: `Unlock…`, then
`Invalidate`, then `Detach`, then the quarantine. Failures are actions of their
own, at most `MaxFaults` of them: a connection breaks and leaves its backend
running, a commit is not acknowledged, a statement raises, invalidate or detach
fail, the process crashes. `EndEncounter` and `ResolveDirectly` are the other
users of the same encounter.

After a disconnect, `begin()` on an invalidated `Connection` silently connects
again. Transaction 3 does that (`FailReconnected`). During the unlock the new
session answers `false`, is discarded as one whose lock is unconfirmed, and
never mattered: `UnlockUnconfirmed` and `Invalidate` with no session stand for it.

### 2.2 RequestPool

A request walks through `arrived`, `first` (waiting for its connection),
`opened`, `handler`, and, on the combat-sync route, `second` (waiting for the
lock connection), `lock` (waiting in `pg_advisory_lock`) and `sync`. Connections and
threads are counted from where the requests are. A thread is held while a
synchronous function runs or waits, a connection until the request ends. A
quarantined connection is gone.

`asks` is the advisory lock a synchronization wants or has, `left` what became of a
lock whose caller is gone: `SyncReturns` gives it back, or leaves it to a backend
that PostgreSQL ends later (`ServerNotices`), or to a quarantined connection, which
nothing ends. A request that then asks for the lock is `Stuck`: no timeout covers
that wait.

### 2.3 Idempotency

One transaction per request: `Reserve` (or `Replay`, `Conflict`) waits for an
uncommitted reservation of the same key, `Execute` runs the command and fills
the response in, `Commit` happens in `get_connection`. `responseFirst`, chosen
initially and constant afterwards, says which order of response and commit the
installed FastAPI has; both are admitted by `pyproject.toml`. Commands are
represented by the row they lock, so that requests with different keys wait
for each other.

### 2.4 CharacterState and CombatLedger

A transaction carries the call it was made with and moves through the locks of
its command in the order of the code: the encounter's row, the insertion of
the turn, the target's row, the write. What it has read is kept in `seen` and
`owner` and used at the commit, so that a missing lock shows. Effects become
visible at the commit. `Maximum` is a constant: no command changes a maximum. `history` is
`narrative.event_effects` and `lastEvent` the position that `last_event_id`
names in it.

### 2.5 CharacterConditions

The interesting rows are the missing ones. `SelectFindsNothing` takes no lock;
`SelectWaits` waits for a row and, when the row is deleted by the commit it
waited for, goes on with nothing (`CommitRemove`); `Insert` waits for an
uncommitted insertion or deletion of the same key, and fails when there is a row
after all (`InsertConflicts`).

### 2.6 Interactions

A transaction resolves one check: `SelectInteraction` locks the interaction of
the check, `InsertResult` meets the triggers of migrations 061 and 071,
`Advance` is the trigger of 072 that counts the answers, `React` changes the
target under its lock, `Discover`, `RecordDiscovery` and `RecordEffect` reveal it, and `Commit`
makes it all visible. The effect of a revelation names the target in a foreign key,
which takes the row FOR KEY SHARE and so waits for who has it FOR UPDATE
(`RecordEffect`), and makes who wants that wait (`SharesTarget`). The foreign keys
of `perform_interaction` share the rows of targets too; who waits for one of these
has not locked a target yet, nor claimed a discovery, and nobody that a new
interaction waits for waits for it, so that this closes no circle. `Outcome` is the table of what a check does to which kind
of target. `Close` is the end of an interaction by an administrator, which the
trigger of 070 makes final; `cancelled` stands for `failed` too. The insertion
of a further check request while the last one is being resolved is left out. A
trap that was disarmed can be triggered again, as in the code.

### 2.7 Proposals

Five kinds of transaction write the same rows: a direct command (`CallDirectly`),
the discovery of a check (`CallDiscover`), the second half of an NPC's turn
(`Answer`), and a review that approves or rejects (`CallReview`). The provider is
asked between two transactions of a turn, so that what the first one read is
old when the second one writes. Each walks through the locks of its command in
the order of the code: proposal, party, objective, participant. What its foreign
keys take FOR KEY SHARE is there as far as somebody locks it or could: a discovery
claims its key and then refers to its item (`ReferToItem`), which a reveal locks
before it claims the key; an event refers to the campaign (`Referred`), which no
command here locks. The item that a reveal refers to it has locked itself. `PartyLeaves` and
`NpcLeaves` are administrator statements that wait for these locks. A turn whose
change needs no approval applies it in the transaction that records the turn
(`Answer`), so that a conflict there undoes the turn as well.

### 2.8 AccessControl

Requests of eight kinds race on memberships (`seat`, numbered per user and
campaign: the index admits one open membership and any number of ended ones),
their grants of a role that carries `access.manage` (`role`), campaigns,
bootstrap grants and invitations. The deferred constraint triggers of migration
080 run at the commit: they lock the campaign and look again (`LockCampaign`,
`Recheck`). The look that `revoke_membership_role` takes itself is
`CheckManager`. Ending a membership and archiving or activating a campaign are
administrator statements that the same triggers guard.

Several things are abstracted: one managing role stands for all that carry the
capability, a user has one live bootstrap grant, and the shared locks that
foreign keys take on a parent row are left out: they only make a transaction wait
longer, and no property here is about waiting. Role templates, capabilities and statuses are constant here; `AccessLookups`
has the triggers on them.

### 2.9 FoundryClient

One linked actor. `Edit` and `Updated` are the two hooks around an update,
`self` the flag that tells the module's own updates, `Timer` the `setTimeout`
that takes it down. A submission is sent at most `MaxTries` times; a lost request
may be served later (`ServeLate`), and `Reload` forgets everything the page knew
and restores from the service. The world time only matters when an operation id
is formed. Foundry calls the `updateActor` hook before it resolves the promise of
the update; at most one edit by a person is pending.

`NoEcho` is about what the module submits, not about what it has submitted: a
reload makes the behaviour orderly again, and the echoes of before stay in the
history.

`orderly` says that nothing happened while something else was under way, that
every submission had an id of its own and was answered. Without it the module
does not converge, and every clause has its reason in the code: two equal edits
at one world time share an id and the second is swallowed; answers may arrive
out of order and the older one is written last; an edit during a write-back is
taken for the write-back; a write-back after the timer is taken for an edit.

### 2.10 JwksCache

Time is kept as ages that are counted as far as anything depends on them. A
thread looks in the cache (`GetSigningKey`), takes the lock, resolves, forces a
refresh, and waits for a fetch that takes up to `Timeout`; the provider rotates
keys, goes down, or serves something that is no key set. `strayed` remembers the
fetch at `auth.py:506`, which goes past the function that its docstring
(514-519) calls the single choke point. The instance has a retry cooldown longer
than the forced one, because the branch that tells them apart is unreachable
when both are 30 seconds, as shipped.

### 2.11 WorldStructure

A transaction is one statement on a location, a dungeon or a dungeon area, and
its triggers: each takes its advisory lock (`LockSelf`, `LockChild`, `LockParent`,
`LockWorld`), then reads what is committed, then decides. Triggers of one kind
fire in the order of their names, and the module has the order that results for
each statement. A move walks up from its destination (`ProvesAcyclic`), for
`MaxDepth` steps at most, and is refused when it meets the location or does not
get to the top. Locations are neither inserted nor deleted; there is one world.

### 2.12 DatabaseRecovery

A command is a chain of subprocesses on the cluster and the host; `Stop` ends it
after any of them, between any two, or in the middle of a copy or a load, and the
operator calls any command again. `Edit`, `Damage` and `LoseCluster` are what
happens around it. The data is what distinguishes one time from another.
`careless` records that somebody gave the last whole copy up knowingly: lost the
database without a backup, backed a damaged one up over the archive, restored an
archive whose backup never finished, or removed the leftovers of a command that
failed. A command runs alone, and the subprocess of a script that is killed ends
with it.

### 2.13 Movement

`SelectFinds`, `SelectFindsNothing` and `SelectWaits` are the `SELECT … FOR UPDATE`
of `_current_location_row`, `Close` the UPDATE with its trigger, `Insert` the new
row. The exclusion constraint is checked after the row is in the index: `Insert`
and `CheckPasses` are two steps, and a transaction waits for whoever is between
them (`Blockers`), two of them perhaps for each other; `Rollback` is then what
PostgreSQL does. A caller that waited finds no row once the one it waited for is
closed (`Commit`): the lock moves with the open row. `trail` is history, the
effects of the events.

### 2.14 Items

`transfer_item_possession` and `identify_item` have one shape: lock the item,
lock a row that may not exist, write it, record what it was. The row is that of an
`Aspect` of the item: its place, or its level for one knower. Holders that are
deleted, which sets the column to NULL, are left out.

### 2.15 Rulesets

One world. `Allow`, `Disallow` and `Repoint` write the association, `Use` and
`Release` the rows that depend on it, in transactions of any length. What kind of
row it is (`KindOf`) matters in two places: the trigger on the associations knows
nine of the ten kinds (`Watched`), and the version of a build does not change. The
shared lock of revision 035 is the difference between `Use` and its mutant. Rows
of a ruleset version keep their ruleset (033), so that versions are left out.

### 2.16 EncounterScope

The upgrade is one transaction: it locks the table, audits its rows, audits what
turns and endings have recorded, and installs a trigger function and a trigger
(`LockForAudit`, `Audit`, `AuditAgain`, `CommitUpgrade`). Meanwhile `CallWrite`
inserts or updates an encounter, and `CallCommand` plays a turn of one or ends
it: it reads the row under its lock and records what it read, a stamp of timeline
and campaign. Before the revision any scope of an encounter is accepted, after it
only one that is of one timeline and campaign, and that stays. The status of an
encounter is left out, so that more commands pass than the code lets pass.

### 2.17 AccessLookups

A row is on or off, whatever table it is of: a membership that is off is closed or
not active, a grant that is off revoked. A transaction switches rows (`Switch`),
and at its commit runs the deferred triggers of what it has switched: those with
one campaign lock it and look (`Check`), those on a lookup find the campaigns they
concern by a query first (`Loop`). `missed` is history: the campaigns for which
such a query would have found more, had the transactions then under way already
committed.

### 2.18 Several modules in one run

`Components`, `World` and `EncounterCommands` extend one module, instantiate the
others, and name the properties of all of them; the theorems are about the same
names. The parts share no state. For TLC every behaviour is one of either part: a
variable of the MC module, chosen initially, says of which, and the variables of
the others stay as they are.

## 3. Runs

| Run | Bounds | Shows |
|---|---|---|
| `combat_sync` | 2 callers, 2 operations with a lock each, 2 payloads of one turn, 3 calls, 2 failures, pool of 2 | pool hygiene, exactly-once with bookkeeping, the refinement of `ExactlyOnce` |
| `combat_sync_liveness` | 2 callers, 1 operation, 3 calls, 3 failures, pool of 2 | calls return unless a session is quarantined |
| `request_pool` | 3 requests, 2 threads, 3 connections, 2 advisory locks, 1 quarantined | what a deadlock needs, and that every request ends unless one waits for a lock that a quarantined connection keeps |
| `idempotency` | 3 requests at a time and in total, 2 keys, 2 commands on one row, 2 failures, both orders | exactly-once, durability, progress |
| `character_state` | 2 transactions at a time, 3 in total, 11 calls on 2 encounters, 2 campaigns, hit points of 2 and a resource of 1; or 2 transactions on one encounter of 5 scopes, with 2 stamps of it | the refinement of `CombatLedger`, progress; what revision 081 promises, while it is installed |
| `components` | 3 transactions at a time; 2 conditions, 5 calls; one character, 2 locations, 3 world times, 4 moves; one item with 2 aspects and 2 values; 3 threads, 2 keys, lifespan 4, cooldowns 2 and 3, timeout 1; 2 contents of the database; 2 transactions, a campaign with 2 members of which one has a role of a template, 5 rows to switch and 2 per transaction | no change recorded twice or from a state that was not there; withdrawn keys are forgotten, published ones accepted; a copy survives, restores end well; a campaign stays managed but for what a loop misses |
| `interactions` | 2 transactions, 3 interactions with 4 checks on a trap and a lever, one party | statuses count, effects form chains, one revelation, the one way to deadlock |
| `proposals` | 2 transactions, an objective from 2 perspectives, a public and a secret item, one proposal | decided once, known once, applied only while eligible, the one way to deadlock |
| `access_control` | 2 transactions, 2 users, 2 campaigns, 2 memberships per user and campaign, 2 invitations, 1 grant per membership, 5 requests | a manager remains, an invitation admits one and once, a timeline is claimed once |
| `foundry_client` | hit points of 2, 2 tries, 2 world times, 2 submissions, 1 reload | applied once; converges and does not echo while one thing happens at a time |
| `world` | 2 transactions, 2 locations that may be dungeons or areas, 2 plain ones, depth 3; 2 rulesets, a default, a build and an item | no cycle, no row without its subtype, the one way to deadlock; what is used is allowed |
| `rulesets_items` | 2 transactions, 2 rulesets, one item | expects a violation: section 6, the first entry |

Why these bounds suffice: a lost update, a double application or a lock cycle
needs two transactions on one row, and the third shows what a waiter does
afterwards. The quarantine needs three failures in one cleanup, which is why
`combat_sync_liveness` has three, and its third call meets a pool that a
quarantined connection has filled; two failures over three calls cover a failed
delivery, a failed redelivery and what the last delivery finds. Hit points of 2
admit an overkill (3), an over-heal and two successive hits.

`interactions`, `proposals` and `world` bound nothing but the sets:
transactions go on for ever. Two interactions meet on the trap with opposite aims
and two on the lever, of which one only looks. One objective and one proposal are
enough for two reviews, a review and a command, or a review and a turn to race;
the two items differ in whether they need approval. Five requests of
`access_control` admit two users to found, invite, accept, end and accept again;
two memberships of a user are one more than may be open. `foundry_client` needs
two submissions to confuse them and one reload to lose what the page knew. In
`components`, four moves are a first one, two that race for the row it leaves, and
one that waits; three world times are enough for them to be late, on time or
early; items and conditions have a first write and a later one. The lifespan is
longer than both cooldowns, as in the code, and three threads let one wait for the
lock while another fetches; two contents tell an old backup from a newer one; two
rows per transaction are a grant and the role it needs, or a handover; an
encounter that is written, played and upgraded by two transactions needs two
stamps to disagree. Four
locations are enough for a cycle through two moves
and for a dungeon that moves while an area enters it; two rulesets let an association be
repointed while one is in use.

The invariants do not rest on the bounds: all of them are proved without them
(section 4). Twice a bound hid something that the attempt to prove a property
showed. With a second reload `NoEcho`, as an invariant about the whole history, was
false; it is an action property now. With a third transaction on locations two
that wait for each other are not the only deadlock: the move of an area into an
inner dungeon waits for the move of an outer one, that one for an insertion which
makes the inner dungeon an area of the outer, and the insertion for the first.
`DeadlockNeedsMovingDungeon` is about circles of any length now.

The runs say `CHECK_DEADLOCK FALSE` where the counted calls run out, and where the
property about waiting is `DeadlockNeedsBystander`, `DeadlockNeedsDiscovery` or
`DeadlockNeedsMovingDungeon`, which see past the rollbacks that TLC's deadlock check
would accept as a way out.

### Properties

* `PoolIsClean`, `AppliedOnceWithBookkeeping`: no lock in the pool; one turn per
  operation together with the completed job, and a sync state that names a job
  whose turn exists.
* `DeadlockNeedsFullLoad`: requests can only wait for each other when together
  they hold everything, or when one waits for a lock that is never given back. Who
  waits for the lock of a request that goes on is not part of a deadlock.
* `DurableIfCommitFirst`: a success that was told is durable if the commit comes
  first.
* `ChangesAlternate`, `PathIsWhole`, `PreviousStillHolds`: three answers to a row
  that cannot be locked because it is not there. A condition relies on its primary
  key, a move on an exclusion constraint, an item on the lock of its parent; what
  is recorded is a chain all the same.
* `ImplementsExactlyOnce`, `ImplementsLedger`: the refinements. The latter has
  in it that no update is lost and none is unrecorded, and the rules about
  encounters: no turn after the end, no second end, the right campaign.
* `InstalledMeansScoped`: the audit of revision 081 and the trigger it installs
  leave no gap for what is written between them.
* `StatusCountsAnswers`, `EffectsExplainState`, `RevealedOnce`: the trigger that
  counts sees the answer it runs for; changes of one target by checks of different
  interactions form one chain; a discovery and its event are one fact.
* `DecidedOnce`, `KnownOnce`, `AppliedWhileEligible`: an
  objective is decided once per perspective although it has no row before; the
  log of discoveries and what the party knows agree; and at the very moment a
  proposal is applied the party belongs to the campaign, the NPC participates and
  the objective is open.
* `ManagerRemains`, `InvitationAdmitsOne`, `TimelineClaimedOnce`,
  `ReturnNeedsInvitation`: what the deferred triggers, the row locks and the
  unique indexes ensure together and none of them alone. The last one is about
  every way back: who has left belongs again by an invitation that had not been
  used, with the roles of before, or by `create_campaign_membership`, without one.
* `ManagedUnlessMissed`: exactly what the triggers on lookups leave open.
* `AppliedOnce`, `Converges`, `NoEcho`: what ids, flag and timer achieve.
* `WithdrawnKeyIsForgotten`, `PublishedKeyIsAccepted`: how long the cache may be
  wrong, in either direction.
* `SomeCopySurvives`, `RestoreEndsWell`, `BootstrapSparesTheData`: what the
  preflight is for.
* `Contained`, `SubtypesFit`: what the advisory locks are for.
* `UsedIsAllowed`: both tables are read by the triggers of the other.
* `DeadlockNeedsBystander`, `DeadlockNeedsDiscovery`, `DeadlockNeedsMovingDungeon`:
  in any set of open transactions one waits for none of them, nor for one that has
  ended, but for one exception each, which the property spells out and TLC reaches
  (section 6). What keeps the rest true is the order in which commands written apart
  take their locks; the mutants change that order.
* `EveryRequestEnds`, `EveryTransactionEnds`, `EveryCallReturnsUnlessQuarantined`,
  `EveryRequestIsAnsweredUnlessStuck`: nobody waits for ever. The latter two except
  what a quarantined connection holds up: its lock, and for the pool also whoever
  lacks the threads and connections of those that wait for it.

Every property of a run has a mutant of the code that TLC finds to break it
(`PROJECT.json`, `mutants`); the mutated definitions are in the modules above the
definitions they replace. `TypeOK` and the properties that follow from the
refinements (`HistoryExplainsValue`, `KeyIsOneExecution`,
`CompletedEncounterIsClosed`,
`TurnsBelongToTheOwner`) are proved and need no run; nor do `OneCallInside`,
`AnswersAreJustified`, `WithinBounds`, `AlreadyAppliedIsTrue`,
`OneOpenMembership`, `NoEffectOfEndedInteraction` (an ended interaction is inert)
and `AppliedIsTrue` (a proposal says `applied` exactly when its change was made in
its name).

### Fairness

Threads that can go on do go on: weak fairness of what one caller, request or
transaction can do. Failures, crashes, refusals, rollbacks and arrivals are not
fair.
`CombatSync` also assumes that PostgreSQL eventually notices that the client of
an orphaned backend is gone (TCP keepalive); a quarantined connection is not
orphaned and is excluded. `RequestPool` assumes the same (`ServerNotices`), and
strong fairness for getting a thread and an advisory lock: the limiter of the thread
pool is first-in first-out, and so are PostgreSQL's lock queues. In the other modules
weak fairness is enough for these, because the number of calls is bounded.

`Interactions`, `Proposals` and `WorldStructure` have no bound on their calls, and
no fairness: their properties about waiting say that in every reachable state
some transaction of any that are open waits for none of the others, or two of them
have the shape of the exception. A statement waits for the holder of a row it locks
or refers to, of an advisory lock, and for who has inserted its unique key
(`WaitsFor`, which is also the guard of every action that locks or inserts). The Foundry module is fair to
nothing: the network may be down for ever. For the cache of keys, what would be
liveness is stated with the clock: within which time a key is accepted.

## 4. Proofs

TLAPS checks, for all values of the constants that satisfy the assumptions in
the modules:

| Module | Theorems |
|---|---|
| `CombatSync_proofs` | `TypeCorrect`, `MutualExclusion`, `PoolHygiene`, `ExactlyOnceEffect`, `Implements` |
| `Requests_proofs` | of the store: `TypeCorrect`, `OneExecution`, `JustifiedAnswers`, `CommitFirst`, `Implements`; of the pool: `PoolTypeCorrect`, `OnlyUnderFullLoad`, `DeadlockFree`; of the Foundry module: `SubmissionsApplyOnce`, `ClientConverges`, `WritesAreNoEdits` |
| `CharacterState_proofs` | `TypeCorrect`, `NoLostUpdate`, `Bounded`, `Implements`, `ClosedForGood`, `RightOwner`; of revision 081: `ScopeIsEnforced` |
| `Components_proofs` | of conditions: `TypeCorrect`, `HistoryAlternates`, `AlreadyApplied`; of items: `WhatWasReadStillHolds`; of moves: `OnePath`; of the operators' commands: `ACopySurvives`, `RestoresEndWell`, `BootstrapSpares`; of managers: `CampaignsStayManaged`; of signing keys: `WithdrawnKeysAreForgotten`, `PublishedKeysAreAccepted` |
| `World_proofs` | of locations: `TypeCorrect`, `LocationsContained`, `SubtypesKept`, `DeadlocksMoveDungeons`; of rulesets: `RulesetsAllowed` |
| `Interactions_proofs` | `TypeCorrect`, `ChecksInvariant`, `StatusIsCounted`, `StateIsExplained`, `RevealIsRecorded`, `EndedStaysEnded`, `DeadlockOfBystanders` |
| `Proposals_proofs` | `TypeCorrect`, `ProposalsInvariant`, `ObjectiveOnce`, `ItemOnce`, `ProposalIsTrue`, `AppliedEligibly`, `DeadlockOfDiscoveries` |
| `AccessControl_proofs` | `TypeCorrect`, `AccessInvariant`, `ManagerStays`, `OneMembership`, `InvitationOnce`, `TimelineOnce`, `ReturnInvited` |

The assumptions are that `None`, which stands for NULL, is none of the values
beside it, that rows of different tables are different (`ProposalsAssumption`),
that the maps between constants (`CampaignOf`, `KindOf`, …) are maps
between the right sets, and that what is counted or timed is a natural number.
Four say more: transactions on locations are finitely many at a time, as
connections are (`StructureAssumption`), the cooldowns of the key cache last (`CacheAssumption`), a request
is sent at least once (`ClientAssumption`), and every campaign has a manager to
begin with (`CampaignsStayManaged`). The assumptions are named in the modules; TLC
evaluates each of them on the instances of the runs.

Each invariant is a consequence of an inductive invariant `IInv` at the end of
its module. None of the properties is inductive alone, because each depends on
what a transaction holds while it is under way:

* `CombatSync`: a caller between lock and unlock is connected to the session
  that owns its key or has lost the connection; a session in the pool is clean;
  the row locks of an open work transaction are its own; turns, jobs and
  `applied` agree. Mutual exclusion follows for colliding keys as well, since
  `LockKey` is arbitrary.
* `Idempotency`: a request that executes or commits holds the reservation of its
  key (`RequestInv`), and a reserved key is not stored (`KeyInv`).
* `CharacterState`: what a transaction has read is still so, because it holds
  the locks of what it has read (`EncounterInv`, `RowInv`).
* `EncounterScope`: an upgrade past its lock has the table to itself, so that what
  it audited stays audited (`HoldsTable`, `Audited`); what a command stamps is
  what the row it holds says (`HoldsRow`).
* `CharacterConditions`: a found row is locked and stays; the key of an
  uncommitted insertion stays free (`TxInv`).
* `Items`: the lock of the item stands in for that of the row (`HoldsItem`).
* `Movement`: who knows where a character is holds the open row, and what it
  writes is later (`HoldsRow`, `LockFits`); of one character one move commits,
  because the exclusion constraint stops any other (`OneArrives`).
* `DatabaseRecovery`: which subprocess is whose (`CommandFits`), that a file in
  the container is a copy of the archive when it is loaded (`CopyFits`), and that
  the whole copy is beside the database while a restore replaces that
  (`ArchiveKept`). The preflight enters through `TargetFits`: what is replaced
  belongs to a cluster with roles.
* `AccessLookups`: every campaign that a committing transaction concerns is one it
  has looked at, will look at, or may not know of (`Covers`, `TriggersCover`,
  `LoopsCover`), and what it has looked at under the lock stays so (`LookStands`).
  The proof needs `missed` to count what all other transactions together are
  switching on: a grant and its membership may come from two of them.
* `JwksCache`: a key in the cache was published at most the age of the document and
  a fetch ago (`Forgets`), and a cooldown that still runs began before the
  provider was stable or left what it serves in the cache (`CooldownsFit`).
* `WorldStructure`: a move about to commit holds the world's advisory lock and has
  a set of ancestors of its destination, closed under `parent` and without the
  location (`MoveIsClear`); its walk, of whatever length, is a witness. A row of a
  subtype keeps its type because both sides take the same locks (`HoldsOwn`,
  `HoldsDungeon`, `StillFits`).
* `Rulesets`: who wrote a use sees its association and shares it (`UseIsHeld`);
  who took an association away sees no use (`DisallowedIsUnused`).
* `RequestPool`: counting. A request that waits for its second connection holds
  one, so waiting requests alone use up at most one connection each. In a deadlock
  nobody is inside a synchronization, so that who waits for a lock waits for a
  quarantined connection. `DeadlockFree` assumes that there is none, and fewer
  requests than connections.
* `FoundryClient`: what the service has done it remembers (`Remembered`), which is
  enough for `AppliedOnce`. For the other two, while one thing happens at a time
  the page is in one of six situations: nothing is under way (`Settled`), an edit
  is to be applied (`Edited`), one submission is on its way (`Submitted`), its
  answer is being written back (`Writing`), the mark waits for the timer
  (`Written`), or the page is loading (`Reloading`); and a request that arrives
  late repeats one that is done (`LateFits`).
* `Interactions`: a transaction past `SelectInteraction` holds its interaction,
  which is not terminal (`HoldsInteraction`); what it is about to write starts from
  the committed state of a target it holds, and the status it computed is still
  the right one (`Fits`); no two transactions are about to commit the same
  discovery (`FindsApart`), which the unique index ensures without a lock.
* `Proposals`: a step per lock. `ProposalIsHeld`, `ObjectiveIsHeld` and
  `ItemIsHeld` say what a transaction knows from the lock on; `Began` ties the
  step to the kind of transaction, `Apart` keeps the commits of one item and the
  turns of one proposal apart.
* `AccessControl`: what could leave a campaign without a manager is committed
  only under the campaign's lock, after a look at the managers as they will be
  (`Looked`); `Writes` says which kind of request writes what, the `…IsHeld` parts
  what its locks and index entries keep true, and `Exclusive` that a lock has one
  holder. `ManagerRemains` rests on the trigger alone: the look of
  `revoke_membership_role` is not used in the proof.

Deadlocks need an invariant of their own, `LocksFit`: which locks a transaction may
have at which step. For `Interactions` and `Proposals` the rest is a rank: who waits is
at an earlier row, in the order of the commands, than who it waits for
(`WaitsForOneAhead`), so that of any transactions the one that is furthest waits for
none. The reference of a discovery is the only statement that waits backwards. A
circle must therefore have one, and who holds the row it waits for can itself only
wait for the key of a discovery; the one that has claimed that key is again at its
reference, of the same row, and waits for the former: the pair of the exception
(`EffectInCircle`, `CircleAtShare`). `WorldStructure` has no
such order: an insertion of an area
takes the lock of its dungeon before that of its own location, which may itself
be the dungeon of another. A circle of these would be, by counting (`EachIsAbove`:
among finitely many with different locations, every parent is the location of
one of them), locations that contain each other or a move into the location's own
part, which `Contained` and `MoveIsClear` exclude; with a transaction that waits
for the world's lock in the circle, its holder is the moving dungeon.

The refinement theorems show that the initial states map to initial states and
that a step of the detailed specification is a step of the abstract one or
leaves its variables alone. In `Idempotency` the abstract answers leave the
successes out that were told before the commit: about these the ledger promises
nothing, and `SuccessIsCommitted` is violated. `EndedStaysEnded`,
`AppliedEligibly`, `ReturnInvited`, `ClosedForGood`, `BootstrapSpares` and
`WritesAreNoEdits` are action properties, proved from the same invariants.

Only model-checked: everything under fairness (`EveryCallReturnsUnlessQuarantined`,
`EveryRequestEnds`, `EveryRequestIsAnsweredUnlessStuck`, `EveryTransactionEnds`), which
is out of the prover's reach. Every other property of a passing run is a theorem.

## 5. What is assumed of other software

PostgreSQL at READ COMMITTED: `SELECT … FOR UPDATE` waits and then sees the
committed row; an insertion waits for an uncommitted one of the same unique key;
row and transaction locks end with the transaction; a foreign key locks the row it
names FOR KEY SHARE, which conflicts with FOR UPDATE only; session advisory locks with
the session; a transaction is atomic. SQLAlchemy: the pool has `pool_size` +
`max_overflow` connections, a checkout times out, a broken connection is
invalidated. Starlette runs synchronous functions on a bounded number of
threads. FastAPI's order of response and dependency exit is a parameter.
Definitions that model such software are marked external in `PROJECT.json`.

## 6. Where the code and its documentation differ

Eleven properties that the documentation states are refuted. They are in the
modules beside the properties that do hold. The run `rulesets_items` shows the
first; to see another counterexample, name the property in the configuration of
the run instead of its own.

1. `Rulesets!ItemIsAllowed`, with `Rulesets_items.cfg`. The trigger on the
   associations looks for nine kinds of row, and item instances are not among them
   (`068_ruleset_allow_list_check_route.py:67-240`, which no later revision
   replaces). A world stops allowing a ruleset and keeps items of it; the comment
   on `enforce_item_instance_ruleset_allowed` says that it "Keeps an item
   instance's definition drawn from a ruleset its own world allows"
   (`077_item_domain.py:408`).
2. `CombatSync!CompletedIsFinal`, with `CombatSync_liveness.cfg`. The `except`
   clause at `integration.py:1321` also catches what the COMMIT of the work
   transaction raises when the connection breaks before the acknowledgement.
   Transaction 3 then reconnects and overwrites the committed `completed` with
   `failed`. The docstring says that this step "never overlaps with step 2"
   (`integration.py:40-42`). A redelivery then executes again instead of replaying
   and is answered with an error for ever, because the turn exists.
3. `CombatSync!EveryCallReturns`, with `CombatSync_liveness.cfg`. A quarantined
   connection keeps its advisory lock until the process restarts, and the next
   call with the key waits without a timeout, and keeps a thread and two connections
   (`Stuck` in `RequestPool`). The docstring calls it "a single leaked,
   permanently-inert connection" (`integration.py:980`).
4. `RequestPool!NoPoolDeadlock`, with `RequestPool.cfg` and a `Capacity` of 2.
   Requests of the combat-sync route hold one connection while they wait for a
   second: 15 of them hold the default pool. The docstring claims "no new deadlock
   risk" (`api/integration.py:143`). Only the pool's timeout ends it.
5. `Idempotency!SuccessIsCommitted`, with `Idempotency.cfg`. The commit is in the
   exit code of a yield dependency, which FastAPI runs after the response since
   0.118 (`uv.lock:312` pins 0.141.1). `docs/architecture/SYSTEM_ARCHITECTURE.md:279`
   draws the opposite order.
6. `CharacterState!LastEventIsCurrent`, with `CharacterState.cfg`. The UPDATE of a
   damaging turn (`encounters.py:634`) leaves `last_event_id` as it was, which is
   documented as "The event that produced this row's current values"
   (`persistence/tables/campaign.py:484`).
7. `CharacterConditions!RedundantApplyIsNoOp`, with `Components.cfg`. Two
   concurrent applications of a condition both find none; the second fails on the
   primary key. The docstring promises a no-op (`character_state.py:23`).
8. `FoundryClient!NeverEchoes`, with `FoundryClient.cfg`. A write-back whose hook
   is dispatched after the timer of an earlier one has taken the flag down is
   submitted as an edit. The comment at `sync-engine.mjs:241` says that the flag
   "prevents" this "from ever happening".
9. `Movement!WaitingFindsTheRow`, with `Components.cfg`. The docstring of
   `_current_location_row` says that its lock keeps a concurrent call from deciding
   "already here" or from closing and opening rows "out of order"
   (`movement.py:78-80`). A caller that waited for the row finds none, because the
   row it waited for has been closed and the new one is not in its snapshot; it
   goes on as if the character had never been anywhere, and only the exclusion
   constraint stops it, with an error even if the character is where it was to go.
10. `AccessLookups!AlwaysManaged`, with `Components.cfg`. Section 18 of migration
   080 quotes rule 19, that every active campaign retains a member who manages
   access, and says that "Enforcement covers every mutation-shaped path". One
   transaction hands access over from a member with one role to a member with
   another; a second one deactivates the other role. The handover finds the role
   active, the loop of the deactivation finds no grant of it, and neither locks
   what the other reads.
11. `EncounterScope!NoCycleToBreak`, with `CharacterState.cfg` and a third
   transaction. Revision 081 says that "there is no lock-ordering cycle for
   PostgreSQL's deadlock detector to ever need to break" (395-396). The upgrade
   waits for a writer of the table, the writer for the row an ending has locked,
   and the ending, which locks the table last, queues behind the upgrade.
   PostgreSQL can break this one by letting the ending pass in the queue.

Further divergences met while modelling; the models have what the code does:

* `reveal_knowledge_to_party` promises a lock-then-insert-or-update and an entry
  in the log "when this party has not already discovered the item"
  (`knowledge.py:18-23`). The insertion into `party_discoveries` at line 153 is
  unconditional: after a check has discovered the item, a reveal always fails on
  the unique index, and `party_knowledge` is never written
  (`Proposals!RevealConflicts`).
* `revoke_membership_role` says that its row lock keeps "a concurrent revoke of a
  different role in the same campaign" from racing past (`memberships.py:205`).
  It locks another row. The deferred trigger of migration 080 is what holds.
* `_activate_or_create_membership` reactivates a closed membership because a second
  row is one "which ux_campaign_memberships_open would reject anyway"
  (`campaign_invitations.py:198`); the index is partial and would accept it, as
  it does for `create_campaign_membership`. A membership that is reactivated has
  its unrevoked roles back.
* The module sends `gameApi.time.worldTime`, a number, as `world_time_id`
  (`hooks.mjs:137`), where the service expects a UUID (`api/character_state.py:109`).
  The model assumes an answer.
* `_fetch_signing_keys_locked` is "the single choke point" of fetches
  (`auth.py:514`); the read at `auth.py:506` can fetch as well when the cache
  expires between two reads, and a failure there starts no cooldown and evicts
  nothing (`strayed` in `JwksCache`).
* The migrations argue about the order of advisory locks within each function
  (053:57-70, 056:70-88). One statement runs several of these functions, and an
  area that is moved into a dungeon that is moving itself deadlocks with it;
  PostgreSQL aborts one of the two (`DeadlockNeedsMovingDungeon`).
* Two more deadlocks come from a foreign key that no command mentions. The check of a
  looker claims the discovery of a trap or lever, and its effect then refers to the
  row (`interactions.py:817`, migration 057:559-570), which another check has locked
  to change it (`interactions.py:551`, `636`) before it waits for that discovery
  (`DeadlockNeedsBystander`). The discovery of an item claims its key and then refers
  to the item (migration 041:466-468), which a reveal has locked (`knowledge.py:72`)
  before it waits for the key at line 153 (`DeadlockNeedsDiscovery`). PostgreSQL
  aborts one of the two, and the request fails.
* `check_database_exists` distinguishes a failed query from an answer by the exit
  code (`database_recovery.py:736-771`). `psql` reads the query from its input
  without `ON_ERROR_STOP` and exits with 0 when a statement fails, so that an error
  there reads as "does not exist", and a GRANT that fails (1370-1402) goes
  unnoticed.
* `validate_archive` calls an archive "well-formed" (1022-1106) that
  `pg_restore --list` can read, which needs the table of contents only: a copy that
  broke off in the data passes. `backup --overwrite` writes over the old file in
  place, and is what produces such a file.

## 7. Not modelled, and what is left

* **Relationships, sessions** change one current-state row under its lock or
  that of its parent, the pattern of `CharacterState` and `Items`.
* **Containers of items**: nothing checks them for a cycle, a choice that migration
  077 (99-109) records, and `transfer_item_possession` can make one.
* **Events** are appended by the modelled commands, where they are the history
  variables (`history`, `effects`, `changes`). Stand-alone events are insertions.
* **Access grants** are insertions and deletions of independent rows, and a query.
* **Reference corpus**: one transaction per document, no other writer.
* **Read models, application shell**: no state.
* **Provisioning and release scripts, terraform, compose, CI**: sequential tools
  and declarations.
* **Parts of modelled components**: external systems, links and plain sync jobs;
  participants of encounters; synthesis and the assembly of context for the AI;
  disclosure to single characters; roles that do not manage access; conditions and
  resources in the
  Foundry module, which take the path of hit points; `set-role-password`, `verify`
  and the other read-only commands of database recovery, two operators at once,
  archives of an older schema revision. Most of the migrations declare tables,
  views and seed rows.

Next: the same for the row locks of `CharacterState` and `AccessControl`, and what
`CombatSync` and `FoundryClient` promise together.
