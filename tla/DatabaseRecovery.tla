--------------------------- MODULE DatabaseRecovery ---------------------------
(***************************************************************************)
(* The operator's commands for backup and recovery                         *)
(* (scripts/operations/database_recovery.py).                              *)
(*                                                                         *)
(* A command is a chain of subprocesses on a cluster (its roles, the       *)
(* application database and a temporary one) and on the host (the archive, *)
(* one path).  Every subprocess may fail and the command may be killed     *)
(* between any two, or in the middle of a copy or a load; the operator     *)
(* then calls the same command or another.  Meanwhile the application      *)
(* edits the data, the database is damaged, and the cluster is lost.       *)
(*                                                                         *)
(* The content of a database is what distinguishes it from the state of    *)
(* another time; a dump has the content of the database it was taken of.   *)
(***************************************************************************)
CONSTANTS
  Contents,   \* what a whole database may contain
  Absent, Blank, Schema, Partial,  \* a database that is not whole
  Truncated,  \* a file that was not written to its end
  None

\* What is not a whole copy is none of the whole ones.
RecoveryAssumption == {Absent, Blank, Schema, Partial, Truncated, None} \cap Contents = {}

Hollow == {Blank, Schema, Partial}

VARIABLES
  db, temp,   \* the application's database, and that of bootstrap-roles
  granted,    \* CREATE on the former, to migration_owner
  roles,      \* whether the cluster has the six roles
  archive,    \* the file at --output and --dump-file
  step, cmd,    \* the next subprocess of the running command, and its arguments
  copy, left, \* its file in the container, and those of commands that ended early
  told,       \* what a restore has reported as restored, as long as nothing changed it
  careless    \* whether the last whole copy was given up by somebody, not by a command

cluster == <<db, temp, granted, roles>>
command == <<step, cmd, copy, left>>
vars == <<cluster, archive, command, told, careless>>

Commands ==
  [op : {"backup", "existing", "fresh", "bootstrap"},
   file : {"dump", "other"},  \* --dump-file: the archive, or no dump at all
   url : {"db", "temp"}]      \* where MIGRATION_DATABASE_URL points
Idle == [op |-> "none", file |-> "dump", url |-> "db"]

TypeOK ==
  /\ db \in Contents \cup Hollow \cup {Absent} /\ temp \in {Absent, Blank, Schema}
  /\ granted \in BOOLEAN /\ roles \in BOOLEAN
  /\ archive \in Contents \cup Hollow \cup {Absent, Truncated}
  /\ step \in {"idle", "dump", "copy out", "copying", "remove",
             "migrate", "check roles", "drop", "create", "grant", "copy in", "load", "loading",
             "create temp", "verify target", "drop temp"}
  /\ cmd \in Commands \cup {Idle}
  /\ copy \in Contents \cup Hollow \cup {Truncated, None}
  /\ left \in SUBSET (Contents \cup Hollow \cup {Truncated})
  /\ told \in Contents \cup Hollow \cup {None}
  /\ careless \in BOOLEAN

Init ==
  /\ db \in Contents /\ temp = Absent
  /\ granted = TRUE /\ roles = TRUE
  /\ archive = Absent
  /\ step = "idle" /\ cmd = Idle /\ copy = None /\ left = {}
  /\ told = None /\ careless = FALSE

Go(from, to) == step = from /\ step' = to /\ UNCHANGED <<cmd, copy, left>>
Call(c, first) ==
  /\ step = "idle" /\ step' = first
  /\ cmd' = c /\ told' = None
  /\ UNCHANGED <<cluster, archive, copy, left>>
End == step' = "idle" /\ cmd' = Idle /\ copy' = None

\* Giving a copy up is careless when there is no whole one beside it.
GiveUp(beside) == careless' = (careless \/ beside \cap Contents = {})
-----------------------------------------------------------------------------
(* What goes on around the commands. *)

Edit ==
  /\ db \in Contents /\ db' \in Contents \ {db}
  /\ told' = None
  /\ UNCHANGED <<temp, granted, roles, archive, command, careless>>

Damage ==
  /\ db \in Contents /\ db' \in {Absent, Partial}
  /\ granted' = (granted /\ db' # Absent)
  /\ told' = None
  /\ GiveUp({archive, copy} \cup left)
  /\ UNCHANGED <<temp, roles, archive, command>>

\* teardown, or a new machine: a cluster with the empty database of its
\* container; a command that was under way fails.
LoseCluster ==
  /\ db' = Blank /\ temp' = Absent /\ granted' = FALSE /\ roles' = FALSE
  /\ told' = None
  /\ GiveUp({archive})
  /\ End /\ left' = {}
  /\ UNCHANGED archive

DropTempByHand ==
  /\ step = "idle" /\ temp # Absent
  /\ temp' = Absent
  /\ UNCHANGED <<db, granted, roles, archive, command, told, careless>>

RemoveByHand ==
  /\ step = "idle" /\ left # {}
  /\ left' = {}
  /\ GiveUp({db, archive})
  /\ UNCHANGED <<cluster, archive, step, cmd, copy, told>>
-----------------------------------------------------------------------------
(* backup *)

CallBackup(overwrite) ==
  /\ archive # Absent => overwrite
  /\ Call([op |-> "backup", file |-> "dump", url |-> "db"], "dump")
  /\ UNCHANGED careless

Dump ==
  /\ step = "dump" /\ db # Absent
  /\ step' = "copy out" /\ copy' = db
  /\ UNCHANGED <<cluster, archive, cmd, left, told, careless>>

\* The file is written in place.
CopyOut ==
  /\ Go("copy out", "copying")
  /\ archive' = Truncated
  /\ IF copy \in Contents THEN UNCHANGED careless ELSE GiveUp({db} \cup left)
  /\ UNCHANGED <<cluster, told>>
CopiedOut ==
  /\ Go("copying", "remove")
  /\ archive' = copy
  /\ UNCHANGED <<cluster, told, careless>>
-----------------------------------------------------------------------------
(* restore *)

\* The signature is that of a dump and pg_restore can list it, as it can a file
\* that lost its end.
Anything(file) == TRUE
ArchiveAccepted(file) == file = "dump" /\ archive # Absent

NoCheck(mode, url) == mode = "fresh" => url = "db" /\ db # Absent
TargetAccepted(mode, url) ==
  IF mode = "existing" THEN roles ELSE url = "db" /\ db # Absent

\* The preflight changes nothing, and what it looked at is not changed before
\* the command goes on.
CallRestore(mode, file, url) ==
  /\ ArchiveAccepted(file) /\ TargetAccepted(mode, url)
  /\ Call([op |-> mode, file |-> file, url |-> url], IF mode = "fresh" THEN "migrate" ELSE "drop")
  /\ IF file = "dump" THEN GiveUp({archive} \cup left) ELSE UNCHANGED careless

Drop ==
  /\ Go("drop", "create")
  /\ db' = Absent /\ granted' = FALSE
  /\ told' = None
  /\ UNCHANGED <<temp, roles, archive, careless>>

Create ==
  /\ Go("create", "grant")
  /\ db' = Blank
  /\ UNCHANGED <<temp, granted, roles, archive, told, careless>>

\* psql reads the statement from its input and exits with success even when it
\* fails, as it does without the role.
Grant ==
  /\ Go("grant", "copy in")
  /\ granted' = roles
  /\ UNCHANGED <<db, temp, roles, archive, told, careless>>

CopyIn ==
  /\ step = "copy in" /\ step' = "load"
  /\ copy' = IF cmd.file = "dump" THEN archive ELSE Truncated
  /\ UNCHANGED <<cluster, archive, cmd, left, told, careless>>

Load ==
  /\ Go("load", "loading")
  /\ db' = Partial
  /\ UNCHANGED <<temp, granted, roles, archive, told, careless>>

Loaded ==
  /\ Go("loading", "remove")
  /\ copy # Truncated /\ roles
  /\ db' = copy /\ told' = copy
  /\ UNCHANGED <<temp, granted, roles, archive, careless>>
-----------------------------------------------------------------------------
(* Migration, for restore in fresh mode and for bootstrap-roles. *)

\* One transaction: it fills an empty database, finds nothing to do in one that
\* has the schema, and fails on anything else.
Migrate ==
  /\ Go("migrate", "check roles")
  /\ IF cmd.url = "db"
     THEN /\ db \in {Blank, Schema, Partial} \cup Contents
          /\ db' = IF db = Blank THEN Schema ELSE db
          /\ roles' = (roles \/ db = Blank)
          /\ granted' = (granted \/ db = Blank)
          /\ UNCHANGED temp
     ELSE /\ temp \in {Blank, Schema}
          /\ temp' = Schema
          /\ roles' = (roles \/ temp = Blank)
          /\ UNCHANGED <<db, granted>>
  /\ UNCHANGED <<archive, told, careless>>

CheckRoles ==
  /\ Go("check roles", IF cmd.op = "fresh" THEN "drop" ELSE "drop temp")
  /\ roles
  /\ UNCHANGED <<cluster, archive, told, careless>>
-----------------------------------------------------------------------------
(* bootstrap-roles *)

CallBootstrap(url) ==
  /\ temp = Absent
  /\ Call([op |-> "bootstrap", file |-> "dump", url |-> url], "create temp")
  /\ UNCHANGED careless

CreateTemp ==
  /\ Go("create temp", "verify target")
  /\ temp' = Blank
  /\ UNCHANGED <<db, granted, roles, archive, told, careless>>

Unverified ==
  /\ Go("verify target", "migrate")
  /\ UNCHANGED <<cluster, archive, told, careless>>
VerifyTarget ==
  /\ Go("verify target", IF cmd.url = "temp" THEN "migrate" ELSE "drop temp")
  /\ UNCHANGED <<cluster, archive, told, careless>>

DropTemp ==
  /\ step = "drop temp"
  /\ temp' = Absent
  /\ End /\ UNCHANGED left
  /\ UNCHANGED <<db, granted, roles, archive, told, careless>>
-----------------------------------------------------------------------------
\* The file in the container goes last; that this fails is a warning.
Remove ==
  /\ step = "remove"
  /\ End /\ UNCHANGED left
  /\ UNCHANGED <<cluster, archive, told, careless>>

\* A subprocess fails, or the script ends: what was done stays.
Stop ==
  /\ step # "idle"
  /\ End
  /\ left' = left \cup ({copy} \ {None})
  /\ UNCHANGED <<cluster, archive, told, careless>>

Next ==
  \/ Edit \/ Damage \/ LoseCluster \/ DropTempByHand \/ RemoveByHand
  \/ \E overwrite \in BOOLEAN : CallBackup(overwrite)
  \/ Dump \/ CopyOut \/ CopiedOut
  \/ \E mode \in {"existing", "fresh"}, file \in {"dump", "other"}, url \in {"db", "temp"} :
       CallRestore(mode, file, url)
  \/ Drop \/ Create \/ Grant \/ CopyIn \/ Load \/ Loaded
  \/ Migrate \/ CheckRoles
  \/ \E url \in {"db", "temp"} : CallBootstrap(url)
  \/ CreateTemp \/ VerifyTarget \/ DropTemp
  \/ Remove \/ Stop

Spec == Init /\ [][Next]_vars
-----------------------------------------------------------------------------
\* Wherever a command stops, a whole copy of the data is left, in the database
\* or in the archive, unless somebody gave the last one up: by losing the
\* database without a backup, by backing up a database that is not whole over the
\* archive, or by restoring an archive whose backup never finished.
SomeCopySurvives == careless \/ ({db, archive, copy} \cup left) \cap Contents # {}

\* Wherever a restore stopped, another can be called that does not stop for the
\* state the first one left: without roles, only a database that the migrations
\* accept, because the mode for existing clusters needs the roles and the other
\* one has to migrate first.
RestoreCanBeRepeated == step = "idle" /\ ~roles => db = Blank

\* A restore that reports success has restored the archive, and migrations can
\* go on from there.
CompleteMeansRestored ==
  told # None => db = told /\ archive = told /\ granted /\ roles

\* However a restore ends, it leaves something to go on with.
RestoreEndsWell == RestoreCanBeRepeated /\ CompleteMeansRestored

\* bootstrap-roles changes nothing in the application's database, wherever the
\* URL points: while it runs only the application and mishaps do.
BootstrapSparesTheData ==
  [][cmd.op = "bootstrap" =>
       UNCHANGED <<db, granted>> \/ Edit \/ Damage \/ LoseCluster]_vars
-----------------------------------------------------------------------------
Restoring == cmd.op \in {"existing", "fresh"}
Replacing == step \in {"drop", "create", "grant", "copy in", "load", "loading"}

\* Which steps are whose, and that a restore is of the archive.
CommandFits ==
  /\ step = "idle" => cmd = Idle
  /\ step \in {"dump", "copy out", "copying"} => cmd.op = "backup"
  /\ Replacing => Restoring
  /\ step \in {"create temp", "verify target", "drop temp"} => cmd.op = "bootstrap"
  /\ step \in {"migrate", "check roles"} =>
       \/ cmd.op = "fresh" /\ cmd.url = "db"
       \/ cmd.op = "bootstrap" /\ cmd.url = "temp"
  /\ step = "remove" => cmd.op = "backup" \/ Restoring
  /\ Restoring => cmd.file = "dump"

\* Of what the file in the container is a copy.
CopyFits ==
  /\ copy # None => step \in {"copy out", "copying", "remove", "load", "loading"}
  /\ step = "copying" => archive = Truncated
  /\ step = "remove" /\ cmd.op = "backup" => archive = copy
  /\ step \in {"load", "loading"} => copy = archive

\* A restore replaces the database of a cluster with roles, and nobody edits or
\* damages what it builds.
TargetFits ==
  /\ ~roles => db = Blank
  /\ Replacing => roles
  /\ Replacing /\ step # "drop" => db \notin Contents
  /\ step \in {"copy in", "load", "loading"} => granted
  /\ told # None => step \in {"idle", "remove"}

\* While a restore runs, the whole copy is not that in the database.
ArchiveKept == Restoring => careless \/ ({archive} \cup left) \cap Contents # {}

IInv ==
  /\ CommandFits /\ CopyFits /\ TargetFits /\ ArchiveKept
  /\ SomeCopySurvives /\ CompleteMeansRestored
=============================================================================
