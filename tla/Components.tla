------------------------------ MODULE Components ------------------------------
(***************************************************************************)
(* Six components that share no state, side by side: three commands that   *)
(* lock a row which may not exist, or something in its place               *)
(* (CharacterConditions, Movement, Items), the cache of keys by which      *)
(* their callers are known (JwksCache), the operators' commands            *)
(* (DatabaseRecovery), and the rows that say who manages a campaign        *)
(* (AccessLookups).  A request is a thread and a transaction.              *)
(***************************************************************************)
EXTENDS CharacterConditions

CONSTANTS Characters, Locations, MaxTime, MaxMoves
VARIABLES periods, trail, openLock, step, move, here, moves

Moving == INSTANCE Movement
movement == <<periods, trail, openLock, step, move, here, moves>>

CONSTANTS Things, Aspects, Values
VARIABLES value, itemLock, stage, call, previous

Handling == INSTANCE Items
items == <<value, itemLock, stage, call, previous>>

CONSTANTS Lifespan, ForcedCooldown, RetryCooldown, Timeout
VARIABLES published, health, stable, withdrawn, cache, sinceForced, sinceFailed,
          lock, at, kid, due, fetch, strayed

Signing == INSTANCE JwksCache WITH Threads <- Txs, Kids <- Keys, pc <- at
signing == <<published, health, stable, withdrawn, cache, sinceForced, sinceFailed,
             lock, at, kid, due, fetch, strayed>>

CONSTANTS Contents, Absent, Blank, Schema, Partial, Truncated
VARIABLES db, temp, granted, roles, archive, phase, cmd, copy, left, told, careless

Recovery == INSTANCE DatabaseRecovery WITH step <- phase
recovery == <<db, temp, granted, roles, archive, phase, cmd, copy, left, told, careless>>

CONSTANTS
  Administrators,  \* the transactions of those who write these rows
  Campaigns, Members, Grants, RoleIds, CampaignOf, MemberOf, RoleOf, ScopeOf,
  Capability, ActiveStatus, Switched, MaxChanges
VARIABLES on, wrote, campaignLocks, progress, loops, looped, toSee, missed

Lookups == INSTANCE AccessLookups WITH
  Txs <- Administrators, locks <- campaignLocks, stage <- progress, due <- toSee
lookups == <<on, wrote, campaignLocks, progress, loops, looped, toSee, missed>>
-----------------------------------------------------------------------------
\* The effects and the rows of a character's moves are one path (Movement).
PathIsWhole == Moving!PathIsWhole

\* The row that a move waited for is there when it stops waiting, a docstring
\* implies (Movement).  TLC refutes it: README, section 6.
WaitingFindsTheRow == Moving!WaitingFindsTheRow

\* What an item command read is still true when it writes (Items).
PreviousStillHolds == Handling!PreviousStillHolds

\* A key that the provider has withdrawn is soon accepted no longer (JwksCache).
WithdrawnKeyIsForgotten == Signing!WithdrawnKeyIsForgotten

\* A key that it has published for a while is accepted (JwksCache).
PublishedKeyIsAccepted == Signing!PublishedKeyIsAccepted

\* A whole copy of the data survives every command (DatabaseRecovery).
SomeCopySurvives == Recovery!SomeCopySurvives

\* A restore that stopped can be called again, and one that reports success
\* restored the archive (DatabaseRecovery).
RestoreEndsWell == Recovery!RestoreEndsWell

\* An active campaign has a manager, but for what a loop missed (AccessLookups).
ManagedUnlessMissed == Lookups!ManagedUnlessMissed

\* It has one whatever is switched, a migration says (AccessLookups).  TLC refutes
\* it: README, section 6.
AlwaysManaged == Lookups!AlwaysManaged

\* bootstrap-roles leaves the data alone (DatabaseRecovery).
BootstrapSparesTheData == Recovery!BootstrapSparesTheData
=============================================================================
