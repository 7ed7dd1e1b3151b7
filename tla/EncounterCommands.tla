-------------------------- MODULE EncounterCommands --------------------------
(***************************************************************************)
(* The commands of an encounter (CharacterState) beside the migration that *)
(* is installed while they run (EncounterScope).  The migration knows of   *)
(* an encounter what it scopes, the commands what they record of it: they  *)
(* share the transactions and the campaigns, and no state.                 *)
(***************************************************************************)
EXTENDS CharacterState

CONSTANTS
  ScopedEncounters,  \* the encounters that revision 081 audits
  Timelines, Sessions, TimelineOf, CampaignOf, Scopes, MaxStamps
VARIABLES scope, stamps, installed, stage, task, tableLock, rowHolder, read

Revision081 == INSTANCE EncounterScope WITH
  Encounters <- ScopedEncounters, call <- task, rowLock <- rowHolder, seen <- read
revision == <<scope, stamps, installed, stage, task, tableLock, rowHolder, read>>
-----------------------------------------------------------------------------
\* Revision 081 holds of every encounter while it is installed (EncounterScope).
InstalledMeansScoped == Revision081!InstalledMeansScoped

\* No transactions wait for each other because of the installation, a migration
\* says (EncounterScope).  TLC refutes it: README, section 6.
NoCycleToBreak == Revision081!NoCycleToBreak
=============================================================================
