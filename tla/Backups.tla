------------------------------- MODULE Backups -----------------------------
(***************************************************************************)
(* The operator's scripts: backup.sh dumps the database into a verified    *)
(* file and applies the retention; restore.sh imports a file into a        *)
(* temporary database, validates it, and exchanges it with the live one.   *)
(* Both hold one lock (flock).  Any command may fail, any script may be    *)
(* interrupted or killed between two commands.                             *)
(***************************************************************************)
EXTENDS Naturals

CONSTANTS
  Files,       \* backup files, each made by one execution of backup.sh
  Restores,    \* executions of restore.sh, each with a suffix of its own
  Foreign,     \* a dump that is not one of this release
  Empty,       \* a database just created
  None,
  MaxVersion,  \* bound: writes to the database
  Keep         \* BACKUP_KEEP, in days

Contents == 0..MaxVersion

ConstantsOK ==
  /\ MaxVersion \in Nat /\ Keep \in Nat \ {0}
  /\ Foreign \notin Contents /\ Empty \notin Contents /\ None \notin Contents
  /\ Foreign # Empty /\ None \notin {Foreign, Empty} \cup Files \cup Restores
  /\ Files \cap Restores = {}

VARIABLES
  live,     \* DB_NAME: its contents, or None
  last,     \* history: the last contents the live database had
  temp,     \* TEMP_DB of each restore
  aside,    \* OLD_DB of each restore
  file,     \* the backup files: their step, contents, SHA-256 sidecar, age
  restore,  \* what each restore does
  lock,     \* who holds .sentinel-backup.lock
  backend   \* the backend container runs

vars == <<live, last, temp, aside, file, restore, lock, backend>>

NoFile == [at |-> "none", content |-> None, sealed |-> FALSE, age |-> 0]
Idle == [at |-> "idle", file |-> None, restart |-> FALSE, started |-> FALSE,
         completed |-> FALSE]

Init ==
  /\ live = 0 /\ last = 0
  /\ temp = [r \in Restores |-> None] /\ aside = [r \in Restores |-> None]
  /\ file \in [Files -> {NoFile, [NoFile EXCEPT !.at = "done", !.content = Foreign]}]
  /\ restore = [r \in Restores |-> Idle]
  /\ lock = None /\ backend = TRUE

Restorable == {f \in Files : file[f].at # "none" /\ file[f].sealed}

-----------------------------------------------------------------------------
(* The system they serve *)

\* The backend writes.
Write ==
  /\ backend /\ live \in Contents /\ live < MaxVersion
  /\ live' = live + 1 /\ last' = live + 1
  /\ UNCHANGED <<temp, aside, file, restore, lock, backend>>

\* A day passes; a backup takes less.
Day ==
  /\ lock \notin Files
  /\ file' = [f \in Files |-> IF file[f].at = "none" \/ file[f].age > Keep THEN file[f]
                              ELSE [file[f] EXCEPT !.age = @ + 1]]
  /\ file' # file
  /\ UNCHANGED <<live, last, temp, aside, restore, lock, backend>>

-----------------------------------------------------------------------------
(* backup.sh *)

Step(f, step) == file' = [file EXCEPT ![f].at = step]

\* Mutant of Dump: the retention comes first.
PruneThenDump(f) ==
  /\ file[f].at = "none" /\ lock = None /\ live # None
  /\ file' = [g \in Files |->
                IF g = f THEN [NoFile EXCEPT !.at = "temporary", !.content = live]
                ELSE IF file[g].age > Keep THEN NoFile ELSE file[g]]
  /\ lock' = f
  /\ UNCHANGED <<live, last, temp, aside, restore, backend>>

\* pg_dump, one snapshot, into a temporary name.
Dump(f) ==
  /\ file[f].at = "none" /\ lock = None /\ live # None
  /\ file' = [file EXCEPT ![f] = [NoFile EXCEPT !.at = "temporary", !.content = live]]
  /\ lock' = f
  /\ UNCHANGED <<live, last, temp, aside, restore, backend>>

\* gzip -t, mv.
Publish(f) ==
  /\ file[f].at = "temporary"
  /\ Step(f, "published")
  /\ UNCHANGED <<live, last, temp, aside, restore, lock, backend>>

Seal(f) ==
  /\ file[f].at = "published" /\ lock = f
  /\ file' = [file EXCEPT ![f].at = "sealed", ![f].sealed = TRUE]
  /\ UNCHANGED <<live, last, temp, aside, restore, lock, backend>>

\* find -mtime -delete, and the end.
Retain(f) ==
  /\ file[f].at = "sealed" /\ lock = f
  /\ file' = [g \in Files |-> IF g = f THEN [file[g] EXCEPT !.at = "done"]
                              ELSE IF file[g].age > Keep THEN NoFile ELSE file[g]]
  /\ lock' = None
  /\ UNCHANGED <<live, last, temp, aside, restore, backend>>

\* A command fails or the script is interrupted: what was published stays,
\* with or without its sidecar.
StopBackup(f) ==
  /\ lock = f
  /\ file' = [file EXCEPT ![f] = IF @.at = "temporary" THEN NoFile
                                 ELSE [@ EXCEPT !.at = "done"]]
  /\ lock' = None
  /\ UNCHANGED <<live, last, temp, aside, restore, backend>>

-----------------------------------------------------------------------------
(* restore.sh *)

At(r, step) == restore[r].at = step
Goes(r, step) == restore' = [restore EXCEPT ![r].at = step]
Ends(r, step) == Goes(r, step) /\ lock' = None

\* The file is read and its digest compared, before the lock; without a
\* sidecar the operator must insist (--allow-unverified).
Verify(r, f, insists) ==
  /\ At(r, "idle")
  /\ file[f].at \in {"published", "sealed", "done"}
  /\ restore' = [restore EXCEPT ![r].file = f,
                                ![r].at = IF file[f].sealed \/ insists THEN "verified"
                                          ELSE "refused"]
  /\ UNCHANGED <<live, last, temp, aside, file, lock, backend>>

\* The lock, and the confirmation.
TakeLock(r) ==
  /\ At(r, "verified")
  /\ \/ lock = None /\ lock' = r /\ Goes(r, "create")
     \/ lock' = lock /\ Goes(r, "refused")
  /\ UNCHANGED <<live, last, temp, aside, file, backend>>

CreateTemp(r) ==
  /\ At(r, "create")
  /\ temp' = [temp EXCEPT ![r] = Empty]
  /\ Goes(r, "import")
  /\ UNCHANGED <<live, last, aside, file, lock, backend>>

\* psql --single-transaction, from the file if it is still there.
Import(r) ==
  /\ At(r, "import")
  /\ file[restore[r].file].at # "none"
  /\ temp' = [temp EXCEPT ![r] = file[restore[r].file].content]
  /\ Goes(r, "validate")
  /\ UNCHANGED <<live, last, aside, file, lock, backend>>

\* Tables, columns, and the ledger of migrations, row by row; then the backend
\* stops.
ValidateAndStop(r) ==
  /\ At(r, "validate")
  /\ temp[r] \in Contents
  /\ restore' = [restore EXCEPT ![r].at = "swap", ![r].restart = backend]
  /\ backend' = FALSE
  /\ UNCHANGED <<live, last, temp, aside, file, lock>>

StartSwap(r) ==
  /\ At(r, "swap") /\ ~restore[r].started
  /\ restore' = [restore EXCEPT ![r].started = TRUE]
  /\ UNCHANGED <<live, last, temp, aside, file, lock, backend>>

\* Mutant of SetAside: SWAP_STARTED is set by the next line.
SetAsideUnmarked(r) ==
  /\ At(r, "swap") /\ restore[r].started /\ live # None
  /\ aside' = [aside EXCEPT ![r] = live]
  /\ live' = None
  /\ restore' = [restore EXCEPT ![r].at = "install", ![r].started = FALSE]
  /\ UNCHANGED <<last, temp, file, lock, backend>>

SetAside(r) ==
  /\ At(r, "swap") /\ restore[r].started /\ live # None
  /\ aside' = [aside EXCEPT ![r] = live]
  /\ live' = None
  /\ Goes(r, "install")
  /\ UNCHANGED <<last, temp, file, lock, backend>>

\* The name is free: the temporary database takes it.
Install(r) ==
  /\ At(r, "install")
  /\ live = None
  /\ live' = temp[r] /\ last' = temp[r]
  /\ temp' = [temp EXCEPT ![r] = None]
  /\ Goes(r, "installed")
  /\ UNCHANGED <<aside, file, lock, backend>>

CompleteSwap(r) ==
  /\ At(r, "installed")
  /\ restore' = [restore EXCEPT ![r].at = "drop", ![r].completed = TRUE]
  /\ UNCHANGED <<live, last, temp, aside, file, lock, backend>>

\* Mutant of DropAside: the old database goes before the new one is in.
DropAsideEarly(r) ==
  /\ restore[r].at \in {"install", "drop"}
  /\ aside' = [aside EXCEPT ![r] = None]
  /\ IF At(r, "drop") THEN Goes(r, "restart") ELSE UNCHANGED restore
  /\ UNCHANGED <<live, last, temp, file, lock, backend>>

DropAside(r) ==
  /\ At(r, "drop")
  /\ aside' = [aside EXCEPT ![r] = None]
  /\ Goes(r, "restart")
  /\ UNCHANGED <<live, last, temp, file, lock, backend>>

Finish(r) ==
  /\ At(r, "restart")
  /\ backend' = (backend \/ restore[r].restart)
  /\ Ends(r, "done")
  /\ UNCHANGED <<live, last, temp, aside, file>>

UnderTrap == {"create", "import", "validate", "swap", "install", "installed", "drop", "restart"}

\* The trap: the name goes back to the old database, the temporary one is
\* dropped, the backend starts.  PostgreSQL or Docker may not answer.
Cleanup(r, postgres, docker) ==
  /\ restore[r].at \in UnderTrap
  /\ LET rollsBack == /\ postgres
                      /\ restore[r].started /\ ~restore[r].completed
                      /\ live = None /\ aside[r] # None
     IN /\ live' = IF rollsBack THEN aside[r] ELSE live
        /\ aside' = IF rollsBack THEN [aside EXCEPT ![r] = None] ELSE aside
  /\ temp' = IF postgres THEN [temp EXCEPT ![r] = None] ELSE temp
  /\ backend' = (backend \/ (docker /\ restore[r].restart))
  /\ Ends(r, IF postgres THEN "failed" ELSE "stranded")
  /\ UNCHANGED <<last, file>>

\* kill -9, or the machine stops.
Kill(r) ==
  /\ restore[r].at \in UnderTrap
  /\ Ends(r, "stranded")
  /\ UNCHANGED <<live, last, temp, aside, file, backend>>

RestoreStep(r) ==
  \/ \E f \in Files, insists \in BOOLEAN : Verify(r, f, insists)
  \/ TakeLock(r) \/ CreateTemp(r) \/ Import(r) \/ ValidateAndStop(r)
  \/ StartSwap(r) \/ SetAside(r) \/ Install(r) \/ CompleteSwap(r)
  \/ DropAside(r) \/ Finish(r) \/ Kill(r)
  \/ \E postgres, docker \in BOOLEAN : Cleanup(r, postgres, docker)

Next ==
  \/ Write \/ Day
  \/ \E f \in Files : Dump(f) \/ Publish(f) \/ Seal(f) \/ Retain(f) \/ StopBackup(f)
  \/ \E r \in Restores : RestoreStep(r)

Spec == Init /\ [][Next]_vars
-----------------------------------------------------------------------------
(* Properties *)

\* Wherever a restore is killed, the database that was live is there, under
\* its name or set aside, until a validated one has taken the name.
DataIsNeverLost ==
  /\ live \in Contents \cup {None}
  /\ live = None => \E r \in Restores : aside[r] = last

\* A restore that fails, and whose trap could reach PostgreSQL, drops its own
\* temporary database and leaves the live one as it was, or as it validated it
\* once the exchange is done; none has the name only where a restore that was
\* killed had left none.
FailedRestoreChangesNothing ==
  [][\A r \in Restores : At(r, "failed")' /\ ~At(r, "failed") =>
       /\ temp'[r] = None
       /\ live' = last \/ \E q \in Restores \ {r} : live = None /\ aside[q] = last
       /\ ~restore[r].started => live' = live]_vars

\* Once a backup can be restored with its digest, one always can: neither the
\* retention nor a backup that fails removes the last.
VerifiedBackupKept == [][Restorable # {} => Restorable' # {}]_vars
=============================================================================
