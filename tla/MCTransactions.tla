--------------------------- MODULE MCTransactions --------------------------
(***************************************************************************)
(* Small instances of what works on rows that others change: the services *)
(* of the workshop in their transactions (WorkshopTx), the followers of an *)
(* incident, the requests to reset a password, the migrations, the form    *)
(* that corrects an incident; and of what ends half done when a process is *)
(* killed: the stop of a server, backup and restore.  These parts share no *)
(* state, so a behaviour follows one of them, the others at rest: that     *)
(* checks the same invariants and steps as their product would, at the     *)
(* cost of their sum.                                                      *)
(***************************************************************************)
EXTENDS WorkshopTx, TLC

CONSTANTS
  m1, m2, h1, s1, u1, u2, u3,
  Parts,                        \* the parts explored
  Watchers, Requests, MaxEvents, Ids, \* Followers and ResetRequests
  Ranks, Canonical, Legacy, Releases, Ledgers, Sums, a, b, Servers, \* Migrations
  Handlers,                     \* Lifecycle
  BackupFiles, Restores, Foreign, Empty, MaxVersion, KeepDays, \* Backups
  FormIncidents, FormLayout, i1, i2, h2, MaxEdits \* Panel

VARIABLES
  part,
  ended, following, events, incidentHolder, followRequest,
  able, row, mailed, marked, latest, userHolder, resetRequest,
  ledger, effect, notNull, advisoryLock, server,
  phase, shutting, forced, handler, socket, gone, worker, timer, stopped,
  live, last, temp, aside, file, restore, flock, backend,
  record, copy, entry, past, dialogue, form, sending, edits

-----------------------------------------------------------------------------
(* The workshop: two lines of one machine each, one account of each role.  *)

MachineOf(l) == IF l = 1 THEN m1 ELSE m2
To(l) == [lineId |-> l, machineId |-> MachineOf(l), headNumber |-> Keep, state |-> Keep]
Moves == {To(l) : l \in Lines}
Plant ==
  {[lineId |-> l, machineId |-> MachineOf(l), headNumber |-> h1, state |-> s1] : l \in Lines}
TwoLines == [l \in Lines |-> [number |-> 10 * l, machines |-> {<<MachineOf(l), h1>>}]]
LayoutsV == {TwoLines[l].machines : l \in Lines}
LinesV == {1, 2}
OneOfEachRole ==
  [u \in Users |-> CASE u = u1 -> "MAINTENANCE" [] u = u2 -> "OPERATOR" [] OTHER -> "RESPONSABLE"]

-----------------------------------------------------------------------------
(* The migrations: 2 was renamed from 99; a release before 3 was written,   *)
(* one after, and one that amended 2.                                      *)

ReleasesV ==
  [before |-> [f \in {1, 2} |-> a], after |-> [f \in {1, 2, 3} |-> a],
   amended |-> [f \in {1, 2, 3} |-> IF f = Canonical THEN b ELSE a]]

Row1(sum, renamed, canonical) ==
  [n \in Ranks \cup {Legacy} |->
     CASE n = 1 -> sum [] n = Legacy -> renamed [] n = Canonical -> canonical [] OTHER -> "absent"]

\* An empty database; one from before the name changed, before checksums; one
\* that kept both names.
LedgersV ==
  {Row1("absent", "absent", "absent"), Row1(a, a, "absent"), Row1(Null, Null, "absent"),
   Row1(a, Null, a)}

-----------------------------------------------------------------------------
(* The form: a line of three places, where two incidents stand on a        *)
(* machine each.                                                           *)

ThreePlaces == 1 :> {<<m1, h1>>, <<m1, h2>>, <<m2, h1>>}
OnMachine(m) == [lineId |-> 1, machineId |-> m, headNumber |-> h1, state |-> s1]

-----------------------------------------------------------------------------

F == INSTANCE Followers WITH
       Users <- Watchers, holder <- incidentHolder, request <- followRequest, None <- Null
P == INSTANCE ResetRequests WITH
       Users <- Watchers, holder <- userHolder, request <- resetRequest, None <- Null
G == INSTANCE Migrations WITH
       Files <- Ranks, lock <- advisoryLock
L == INSTANCE Lifecycle
B == INSTANCE Backups WITH
       Files <- BackupFiles, None <- Null, Keep <- KeepDays, lock <- flock
C == INSTANCE Panel WITH
       Incidents <- FormIncidents, Layout <- FormLayout, MaxEvents <- MaxEdits, events <- edits

ASSUME PartsOK ==
  /\ G!ConstantsOK /\ B!ConstantsOK /\ C!ConstantsOK
  /\ Null \notin Watchers \cup Requests \cup Ids

followersVars == <<ended, following, events, incidentHolder, followRequest>>
resetVars == <<able, row, mailed, marked, latest, userHolder, resetRequest>>
migrationsVars == <<ledger, effect, notNull, advisoryLock, server>>
lifecycleVars == <<phase, shutting, forced, handler, socket, gone, worker, timer, stopped>>
backupsVars == <<live, last, temp, aside, file, restore, flock, backend>>
panelVars == <<record, copy, entry, past, dialogue, form, sending, edits>>
allVars ==
  <<part, vars, followersVars, resetVars, migrationsVars, lifecycleVars, backupsVars, panelVars>>

PartsInit ==
  /\ part \in Parts
  /\ Init /\ F!Init /\ P!Init /\ L!Init /\ C!Init
  /\ IF part = "migrations" THEN G!Init ELSE G!Init /\ ledger = Row1(a, a, "absent")
  /\ IF part = "backups" THEN B!Init ELSE B!Init /\ file = [f \in BackupFiles |-> B!NoFile]
  /\ record[i1].fields = OnMachine(m1) /\ record[i2].fields = OnMachine(m2)
  /\ part # "reset requests" => able = {}

PartsNext ==
  /\ UNCHANGED part
  /\ \/ /\ part = "workshop" /\ Next
        /\ UNCHANGED <<followersVars, resetVars, migrationsVars, lifecycleVars, backupsVars, panelVars>>
     \/ /\ part = "followers" /\ F!Next
        /\ UNCHANGED <<vars, resetVars, migrationsVars, lifecycleVars, backupsVars, panelVars>>
     \/ /\ part = "reset requests" /\ P!Next
        /\ UNCHANGED <<vars, followersVars, migrationsVars, lifecycleVars, backupsVars, panelVars>>
     \/ /\ part = "migrations" /\ G!Next
        /\ UNCHANGED <<vars, followersVars, resetVars, lifecycleVars, backupsVars, panelVars>>
     \/ /\ part = "lifecycle" /\ L!Next
        /\ UNCHANGED <<vars, followersVars, resetVars, migrationsVars, backupsVars, panelVars>>
     \/ /\ part = "backups" /\ B!Next
        /\ UNCHANGED <<vars, followersVars, resetVars, migrationsVars, lifecycleVars, panelVars>>
     \/ /\ part = "panel" /\ C!Next
        /\ UNCHANGED <<vars, followersVars, resetVars, migrationsVars, lifecycleVars, backupsVars>>

PartsSpec == PartsInit /\ [][PartsNext]_allVars
-----------------------------------------------------------------------------
\* The Journal tells who follows an incident.
FollowingIsLogged == F!FollowingIsLogged

\* The administrators see the last request of each user, once.
LastRequestPends == P!LastRequestPends

\* The ledger of migrations tells exactly what was done to the schema.
LedgerIsExact == G!LedgerIsExact

\* A server enters service on the migrations that it ships, and keeps their
\* contents.
ServesItsSchema == G!ServesItsSchema

\* A server that exits gracefully leaves nothing half done.
GracefulExit == L!GracefulExit

\* A restore that is killed leaves the database that was live.
DataIsNeverLost == B!DataIsNeverLost

\* A restore that fails leaves the live database as it was.
FailedRestoreChangesNothing == B!FailedRestoreChangesNothing

\* Once a backup can be restored, one always can.
VerifiedBackupKept == B!VerifiedBackupKept

\* A correction asks for nothing that the operator left alone on the incident he
\* was looking at.
UntypedOnlyIfOvertaken == C!UntypedOnlyIfOvertaken

\* State constraint: explore no further once every restore has ended.
Restoring ==
  \E r \in Restores : restore[r].at \notin {"refused", "done", "failed", "stranded"}

Symmetry == Permutations(Txs) \cup Permutations(BackupFiles)
=============================================================================
