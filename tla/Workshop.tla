------------------------------ MODULE Workshop ------------------------------
(***************************************************************************)
(* The incident workflow of Sentinel's backend: declaration, dispatch,     *)
(* arbitration of corrections and cancellations, and the administration of *)
(* the production lines and the accounts it depends on.                    *)
(*                                                                         *)
(* Every service of src/backend/src runs in one database transaction       *)
(* (withTransaction) and is one action here; what happens between the      *)
(* steps of two transactions is the business of module WorkshopTx.  The    *)
(* one thing a service reads before its transaction, the role that         *)
(* workshopAuthMiddleware found in the account, is state (actorRole): the  *)
(* account may change before the service runs.                             *)
(*                                                                         *)
(* Data is kept to what the rules tell apart.  headNumber stands for the   *)
(* robot and its head, state for the fault and the free text beside it; a  *)
(* line's machine sequence is the set of <<machine, head>> pairs an        *)
(* incident may be declared on.                                            *)
(***************************************************************************)
EXTENDS Naturals, FiniteSets

CONSTANTS
  Incidents,   \* identities a workshop_incidents row may take
  CaseIds,     \* identities a workshop_arbitration_cases row may take
  Lines,       \* identities a production_lines row may take
  Numbers,     \* line numbers an administrator may give
  Machines,    \* machine ids
  Heads,       \* robot heads
  Layouts,     \* machine sequences an administrator may submit
  States,      \* descriptions of a fault
  Users,       \* identities a sentinel_users row may take
  Texts,       \* non-blank texts (reasons, notes, instructions)
  MaxInFlight, \* bound: workshop requests between middleware and service
  Null,        \* SQL NULL, or an undefined field of a request
  Keep,        \* a field absent from a correction
  Blank        \* the empty string, what is left of a blank text by trim()

Roles == {"OPERATOR", "MAINTENANCE", "RESPONSABLE"}
ActiveStatuses == {"OPEN", "PENDING"}
TerminalStatuses == {"CLOSED", "CANCELED", "INVALIDATED"}
OpenStatuses == {"ACTIVE", "CONSULTED"}
Resolutions == {"APPROVED", "REJECTED", "WITHDRAWN", "SUPERSEDED"}

\* EDIT_FIELD_KEYS: where the incident is, and what is said of it.
EditFields == {"lineId", "machineId", "headNumber", "state"}
Description == [lineId : Lines, machineId : Machines,
                headNumber : Heads, state : States]
EditPayload == [lineId : Lines \cup {Keep}, machineId : Machines \cup {Keep},
                headNumber : Heads \cup {Keep}, state : States \cup {Keep}]

ASSUME ValuesAreDistinct ==
  /\ Null \notin Users \cup Texts \cup Incidents \cup Numbers
  /\ Null \notin EditPayload \cup Roles \cup Description
  /\ Keep \notin Lines \cup Machines \cup Heads \cup States
  /\ Blank \notin Texts \cup {Null}

ASSUME LayoutsAreMachineSequences == Layouts \subseteq SUBSET (Machines \X Heads)

VARIABLES
  incident,   \* [Incidents -> row]: table workshop_incidents
  case,       \* [CaseIds -> row]: table workshop_arbitration_cases
  line,       \* [Lines -> row]: table production_lines
  user,       \* [Users -> row]: table sentinel_users
  actorRole   \* [Users -> role]: role read by the middleware for the user's
              \* request in flight, Null when there is none

vars == <<incident, case, line, user, actorRole>>

AnyText == Texts \cup {Null, Blank}

Incident ==
  [status : {"ABSENT"} \cup ActiveStatuses \cup TerminalStatuses,
   user_id : Users \cup {Null},            \* the declarant
   fields : Description \cup {Null},       \* the descriptive columns
   lineNumber : Numbers \cup {Null},       \* copied from the line
   takenBy : Users \cup {Null},            \* Null stands for is_taken = FALSE
   waiting : AnyText, note : AnyText,      \* waiting_reason, intervention_note
   priority : BOOLEAN, comment : AnyText,  \* is_priority, responsible_comment
   editRequest : EditPayload \cup {Null},
   cancelRequest : BOOLEAN]

Case ==
  [status : {"NONE"} \cup OpenStatuses \cup Resolutions,
   incident : Incidents \cup {Null},
   type : {"EDIT", "CANCEL", "NONE"},
   before : EditPayload \cup {Null}]       \* values the requester saw, by field

Line == [status : {"ABSENT", "ACTIVE", "INACTIVE", "DELETED"},
         number : Numbers \cup {Null},
         machines : SUBSET (Machines \X Heads)]

User == [status : {"ABSENT", "ACTIVE", "INACTIVE", "DELETED"}, role : Roles]

TypeOK ==
  /\ incident \in [Incidents -> Incident]
  /\ case \in [CaseIds -> Case]
  /\ line \in [Lines -> Line]
  /\ user \in [Users -> User]
  /\ actorRole \in [Users -> Roles \cup {Null}]

NoIncident ==
  [status |-> "ABSENT", user_id |-> Null, fields |-> Null, lineNumber |-> Null,
   takenBy |-> Null, waiting |-> Null, note |-> Null, priority |-> FALSE,
   comment |-> Null, editRequest |-> Null, cancelRequest |-> FALSE]

NoCase == [status |-> "NONE", incident |-> Null, type |-> "NONE", before |-> Null]

\* An installed system before its administrator declares anything.
Init ==
  /\ incident = [i \in Incidents |-> NoIncident]
  /\ case = [c \in CaseIds |-> NoCase]
  /\ line = [l \in Lines |-> [status |-> "ABSENT", number |-> Null, machines |-> {}]]
  /\ user = [u \in Users |-> [status |-> "ABSENT", role |-> "OPERATOR"]]
  /\ actorRole = [u \in Users |-> Null]

-----------------------------------------------------------------------------
(* Descriptions and corrections *)

\* The fields of correction p that really change description d.
Changed(p, d) == [f \in EditFields |-> IF p[f] = d[f] THEN Keep ELSE p[f]]

\* What p replaces in d.
Replaced(p, d) == [f \in EditFields |-> IF p[f] = Keep THEN Keep ELSE d[f]]

\* d once p is applied to it.
Merge(p, d) == [f \in EditFields |-> IF p[f] = Keep THEN d[f] ELSE p[f]]

NoChange == [f \in EditFields |-> Keep]

\* A description selects a machine and a head that its line offers.
ValidSelection(d) ==
  /\ line[d.lineId].status = "ACTIVE"
  /\ <<d.machineId, d.headNumber>> \in line[d.lineId].machines

Place(d) == <<d.lineId, d.machineId, d.headNumber>>

\* Mutant of PlaceIsFree: a suspended incident no longer holds its place.
PlaceIsFreeOfOpen(d, i) ==
  \A j \in Incidents \ {i} :
    incident[j].status = "OPEN" => Place(incident[j].fields) # Place(d)

(* idx_unique_active_incident_per_machine: no other active incident there *)
PlaceIsFree(d, i) ==
  \A j \in Incidents \ {i} :
    incident[j].status \in ActiveStatuses => Place(incident[j].fields) # Place(d)

-----------------------------------------------------------------------------
(* The policy: canPerform of workshop.policy.ts, one operator per action *)

\* Mutant of IsActiveIncident: INVALIDATED is forgotten among the final statuses.
IsNotClosedNorCanceled(inc) == inc.status \notin {"ABSENT", "CLOSED", "CANCELED"}

IsActiveIncident(inc) == inc.status \in ActiveStatuses
HasPendingArbitration(inc) == inc.editRequest # Null \/ inc.cancelRequest

CanRequestEdit(r, inc, u) ==
  /\ r = "OPERATOR"
  /\ IsActiveIncident(inc)
  /\ ~HasPendingArbitration(inc)
  /\ inc.user_id = u

CanWithdrawEdit(r, inc, u) ==
  /\ r = "OPERATOR"
  /\ IsActiveIncident(inc)
  /\ inc.editRequest # Null
  /\ inc.user_id = u

CanWithdrawCancel(r, inc, u) ==
  /\ r = "OPERATOR"
  /\ IsActiveIncident(inc)
  /\ inc.cancelRequest
  /\ inc.user_id = u

CanRequestCancel(r, inc, u) ==
  /\ r = "OPERATOR"
  /\ IsActiveIncident(inc)
  /\ ~HasPendingArbitration(inc)
  /\ inc.takenBy = Null
  /\ inc.user_id = u

\* DIRECT_EDIT, EDIT_AFTER_TAKE or RESPONSABLE_EDIT
CanEdit(r, inc, u) ==
  /\ IsActiveIncident(inc)
  /\ ~HasPendingArbitration(inc)
  /\ \/ r = "RESPONSABLE"
     \/ r = "MAINTENANCE" /\ inc.takenBy \in {Null, u}

\* Mutant of CanCancel: whether a technician has taken the incident is ignored.
CanCancelTaken(r, inc) ==
  /\ ~HasPendingArbitration(inc)
  /\ IsActiveIncident(inc)
  /\ r \in {"RESPONSABLE", "MAINTENANCE"}

CanCancel(r, inc) ==
  /\ ~HasPendingArbitration(inc)
  /\ \/ inc.status = "PENDING" /\ r = "RESPONSABLE"
     \/ inc.status = "OPEN" /\ inc.takenBy = Null /\ r \in {"RESPONSABLE", "MAINTENANCE"}

CanDecideEdit(r, inc) ==
  r = "RESPONSABLE" /\ IsActiveIncident(inc) /\ inc.editRequest # Null

CanDecideCancel(r, inc) ==
  r = "RESPONSABLE" /\ IsActiveIncident(inc) /\ inc.cancelRequest

CanTake(r, inc, u) ==
  /\ r = "MAINTENANCE"
  /\ inc.status = "OPEN"
  /\ ~HasPendingArbitration(inc)
  /\ inc.takenBy # u

\* SET_PENDING and CLOSE share their condition
CanSuspendOrClose(r, inc) ==
  /\ r = "MAINTENANCE"
  /\ inc.status = "OPEN"
  /\ inc.takenBy # Null
  /\ ~HasPendingArbitration(inc)

CanResume(r, inc) ==
  /\ r = "MAINTENANCE"
  /\ inc.status = "PENDING"
  /\ inc.takenBy # Null
  /\ ~HasPendingArbitration(inc)

CanDirect(r, inc) == r = "RESPONSABLE" /\ IsActiveIncident(inc)

CanInvalidate(r, inc) == r = "RESPONSABLE" /\ inc.status = "CLOSED"

-----------------------------------------------------------------------------
(* Requests, incidents and cases *)

\* workshopAuthMiddleware admits a request of u and keeps the role it read.
Authenticate(u) ==
  /\ Cardinality({v \in Users : actorRole[v] # Null}) < MaxInFlight
  /\ actorRole[u] = Null
  /\ user[u].status = "ACTIVE"
  /\ actorRole' = [actorRole EXCEPT ![u] = user[u].role]
  /\ UNCHANGED <<incident, case, line, user>>

\* The request only reads, or a service refuses it: nothing is written.
EndWithoutWrite(u) ==
  /\ actorRole[u] # Null
  /\ actorRole' = [actorRole EXCEPT ![u] = Null]
  /\ UNCHANGED <<incident, case, line, user>>

\* The transaction of u's request commits.
Answered(u) == actorRole' = [actorRole EXCEPT ![u] = Null]

\* The request of u in flight concerns an existing incident i.
Serves(u, i) == actorRole[u] # Null /\ incident[i].status # "ABSENT"

OpenCases(i) ==
  {c \in CaseIds : case[c].incident = i /\ case[c].status \in OpenStatuses}

HasOpenCase(i, type) == \E c \in OpenCases(i) : case[c].type = type

NoArbitration(i) == OpenCases(i) = {} /\ ~HasPendingArbitration(incident[i])

\* createArbitrationCase on a fresh row
FileCase(i, type, before) ==
  \E c \in CaseIds :
    /\ case[c].status = "NONE"
    /\ case' = [case EXCEPT ![c] = [status |-> "ACTIVE", incident |-> i,
                                    type |-> type, before |-> before]]

\* Mutant of ResolveCase: the WHERE clause forgets the status of the case.
ResolveAnyCase(i, type, resolution) ==
  case' = [c \in CaseIds |->
             IF case[c].incident = i /\ case[c].type = type
             THEN [case[c] EXCEPT !.status = resolution]
             ELSE case[c]]

\* resolveArbitrationCase
ResolveCase(i, type, resolution) ==
  case' = [c \in CaseIds |->
             IF c \in OpenCases(i) /\ case[c].type = type
             THEN [case[c] EXCEPT !.status = resolution]
             ELSE case[c]]

SetIncident(i, inc) == incident' = [incident EXCEPT ![i] = inc]

\* what cancelIncidentData and cancelActiveIncidentsByLine write
Canceled(inc) ==
  [inc EXCEPT !.status = "CANCELED", !.editRequest = Null, !.cancelRequest = FALSE]

-----------------------------------------------------------------------------
(* Services of the workshop *)

Create(u, i, d) ==
  /\ actorRole[u] # Null
  /\ incident[i].status = "ABSENT"
  /\ ValidSelection(d)
  /\ PlaceIsFree(d, i)
  /\ SetIncident(i, [NoIncident EXCEPT !.status = "OPEN", !.user_id = u, !.fields = d,
                                       !.lineNumber = line[d.lineId].number])
  /\ Answered(u)
  /\ UNCHANGED <<case, line, user>>

\* The assignee is read again, under its lock, in the transaction.
Take(u, i) ==
  /\ Serves(u, i)
  /\ user[u].status = "ACTIVE"
  /\ user[u].role = "MAINTENANCE"
  /\ user[u].role = actorRole[u]
  /\ NoArbitration(i)
  /\ CanTake(user[u].role, incident[i], u)
  /\ SetIncident(i, [incident[i] EXCEPT !.takenBy = u])
  /\ Answered(u)
  /\ UNCHANGED <<case, line, user>>

SetPending(u, i, reason) ==
  /\ Serves(u, i)
  /\ NoArbitration(i)
  /\ CanSuspendOrClose(actorRole[u], incident[i])
  /\ reason \in Texts \/ incident[i].waiting \in Texts
  /\ SetIncident(i, [incident[i] EXCEPT !.status = "PENDING",
                       !.waiting = IF reason = Null THEN @ ELSE reason])
  /\ Answered(u)
  /\ UNCHANGED <<case, line, user>>

Resume(u, i) ==
  /\ Serves(u, i)
  /\ NoArbitration(i)
  /\ CanResume(actorRole[u], incident[i])
  /\ SetIncident(i, [incident[i] EXCEPT !.status = "OPEN", !.waiting = Null])
  /\ Answered(u)
  /\ UNCHANGED <<case, line, user>>

Close(u, i, note) ==
  /\ Serves(u, i)
  /\ NoArbitration(i)
  /\ CanSuspendOrClose(actorRole[u], incident[i])
  /\ note \in Texts \/ incident[i].note \in Texts
  /\ SetIncident(i, [incident[i] EXCEPT !.status = "CLOSED",
                       !.note = IF note = Null THEN @ ELSE note])
  /\ Answered(u)
  /\ UNCHANGED <<case, line, user>>

Invalidate(u, i) ==
  /\ Serves(u, i)
  /\ CanInvalidate(actorRole[u], incident[i])
  /\ SetIncident(i, [incident[i] EXCEPT !.status = "INVALIDATED",
                       !.editRequest = Null, !.cancelRequest = FALSE])
  /\ Answered(u)
  /\ UNCHANGED <<case, line, user>>

\* Allowed while an arbitration is pending; the same value is no write.
SetPriority(u, i, priority) ==
  /\ Serves(u, i)
  /\ CanDirect(actorRole[u], incident[i])
  /\ incident[i].priority # priority
  /\ SetIncident(i, [incident[i] EXCEPT !.priority = priority])
  /\ Answered(u)
  /\ UNCHANGED <<case, line, user>>

\* A blank instruction is stored as NULL.
SetResponsibleComment(u, i, comment) ==
  /\ Serves(u, i)
  /\ CanDirect(actorRole[u], incident[i])
  /\ incident[i].comment # comment
  /\ SetIncident(i, [incident[i] EXCEPT !.comment = comment])
  /\ Answered(u)
  /\ UNCHANGED <<case, line, user>>

\* A direct edit by MAINTENANCE or RESPONSABLE.
Edit(u, i, p) ==
  LET inc == incident[i]
      changes == Changed(p, inc.fields)
      d == Merge(changes, inc.fields)
  IN /\ Serves(u, i)
     /\ NoArbitration(i)
     /\ CanEdit(actorRole[u], inc, u)
     /\ changes # NoChange
     /\ ValidSelection(d)
     /\ PlaceIsFree(d, i)
     /\ SetIncident(i, [inc EXCEPT !.fields = d, !.lineNumber = line[d.lineId].number])
     /\ Answered(u)
     /\ UNCHANGED <<case, line, user>>

\* Mutant of RequestEdit: the diff is made from what the operator sent instead
\* of from what really changes.
RequestEditWithRawDiff(u, i, p) ==
  LET inc == incident[i]
      changes == Changed(p, inc.fields)
  IN /\ Serves(u, i)
     /\ NoArbitration(i)
     /\ CanRequestEdit(actorRole[u], inc, u)
     /\ changes # NoChange
     /\ SetIncident(i, [inc EXCEPT !.editRequest = changes])
     /\ FileCase(i, "EDIT", Replaced(p, inc.fields))
     /\ Answered(u)
     /\ UNCHANGED <<line, user>>

RequestEdit(u, i, p) ==
  LET inc == incident[i]
      changes == Changed(p, inc.fields)
  IN /\ Serves(u, i)
     /\ NoArbitration(i)
     /\ CanRequestEdit(actorRole[u], inc, u)
     /\ changes # NoChange
     /\ SetIncident(i, [inc EXCEPT !.editRequest = changes])
     /\ FileCase(i, "EDIT", Replaced(changes, inc.fields))
     /\ Answered(u)
     /\ UNCHANGED <<line, user>>

WithdrawEdit(u, i) ==
  /\ Serves(u, i)
  /\ HasOpenCase(i, "EDIT")
  /\ CanWithdrawEdit(actorRole[u], incident[i], u)
  /\ SetIncident(i, [incident[i] EXCEPT !.editRequest = Null])
  /\ ResolveCase(i, "EDIT", "WITHDRAWN")
  /\ Answered(u)
  /\ UNCHANGED <<line, user>>

ApproveEdit(u, i) ==
  LET inc == incident[i]
      d == Merge(inc.editRequest, inc.fields)
  IN /\ Serves(u, i)
     /\ HasOpenCase(i, "EDIT")
     /\ CanDecideEdit(actorRole[u], inc)
     /\ ValidSelection(d)
     /\ PlaceIsFree(d, i)
     /\ SetIncident(i, [inc EXCEPT !.fields = d, !.lineNumber = line[d.lineId].number,
                                   !.editRequest = Null])
     /\ ResolveCase(i, "EDIT", "APPROVED")
     /\ Answered(u)
     /\ UNCHANGED <<line, user>>

RejectEdit(u, i) ==
  /\ Serves(u, i)
  /\ HasOpenCase(i, "EDIT")
  /\ CanDecideEdit(actorRole[u], incident[i])
  /\ SetIncident(i, [incident[i] EXCEPT !.editRequest = Null])
  /\ ResolveCase(i, "EDIT", "REJECTED")
  /\ Answered(u)
  /\ UNCHANGED <<line, user>>

RequestCancel(u, i) ==
  /\ Serves(u, i)
  /\ NoArbitration(i)
  /\ CanRequestCancel(actorRole[u], incident[i], u)
  /\ SetIncident(i, [incident[i] EXCEPT !.cancelRequest = TRUE])
  /\ FileCase(i, "CANCEL", Null)
  /\ Answered(u)
  /\ UNCHANGED <<line, user>>

WithdrawCancel(u, i) ==
  /\ Serves(u, i)
  /\ HasOpenCase(i, "CANCEL")
  /\ CanWithdrawCancel(actorRole[u], incident[i], u)
  /\ ResolveCase(i, "CANCEL", "WITHDRAWN")
  /\ SetIncident(i, [incident[i] EXCEPT !.cancelRequest = FALSE])
  /\ Answered(u)
  /\ UNCHANGED <<line, user>>

\* Mutant of RejectCancel: the flag is lowered and the case left open.
RejectCancelFlagOnly(u, i) ==
  /\ Serves(u, i)
  /\ HasOpenCase(i, "CANCEL")
  /\ CanDecideCancel(actorRole[u], incident[i])
  /\ SetIncident(i, [incident[i] EXCEPT !.cancelRequest = FALSE])
  /\ Answered(u)
  /\ UNCHANGED <<case, line, user>>

RejectCancel(u, i) ==
  /\ Serves(u, i)
  /\ HasOpenCase(i, "CANCEL")
  /\ CanDecideCancel(actorRole[u], incident[i])
  /\ ResolveCase(i, "CANCEL", "REJECTED")
  /\ SetIncident(i, [incident[i] EXCEPT !.cancelRequest = FALSE])
  /\ Answered(u)
  /\ UNCHANGED <<line, user>>

\* cancelIncidentService when it selects APPROVE_CANCEL
ApproveCancel(u, i) ==
  /\ Serves(u, i)
  /\ HasOpenCase(i, "CANCEL")
  /\ CanDecideCancel(actorRole[u], incident[i])
  /\ ResolveCase(i, "CANCEL", "APPROVED")
  /\ SetIncident(i, Canceled(incident[i]))
  /\ Answered(u)
  /\ UNCHANGED <<line, user>>

\* cancelIncidentService when it selects CANCEL
CancelDirectly(u, i) ==
  /\ Serves(u, i)
  /\ OpenCases(i) = {}
  /\ CanCancel(actorRole[u], incident[i])
  /\ SetIncident(i, Canceled(incident[i]))
  /\ Answered(u)
  /\ UNCHANGED <<case, line, user>>

\* The supervisor opens the arbitration file: the case is marked once.
Consult(u, i) ==
  /\ Serves(u, i)
  /\ actorRole[u] = "RESPONSABLE"
  /\ \E c \in OpenCases(i) :
       /\ case[c].status = "ACTIVE"
       /\ case' = [case EXCEPT ![c].status = "CONSULTED"]
  /\ Answered(u)
  /\ UNCHANGED <<incident, line, user>>

-----------------------------------------------------------------------------
(* Services of the administrator: production lines *)

Live(l) == line[l].status \in {"ACTIVE", "INACTIVE"}

\* Mutant of ActiveOn: the suspended incidents are not counted.
OpenOn(l) ==
  {i \in Incidents : incident[i].status = "OPEN" /\ incident[i].fields.lineId = l}

ActiveOn(l) ==
  {i \in Incidents : incident[i].status \in ActiveStatuses /\ incident[i].fields.lineId = l}

MachineIds(layout) == {place[1] : place \in layout}

\* Uniqueness among the lines that are not deleted: lineNumberExists and
\* findMachineConflicts, backed by unique indexes.
NumberIsFree(n, l) == \A k \in Lines \ {l} : Live(k) => line[k].number # n

MachinesAreFree(layout, l) ==
  \A k \in Lines \ {l} :
    Live(k) => MachineIds(layout) \cap MachineIds(line[k].machines) = {}

CreateLine(l, n, layout, active) ==
  /\ line[l].status = "ABSENT"
  /\ NumberIsFree(n, l)
  /\ MachinesAreFree(layout, l)
  /\ line' = [line EXCEPT ![l] = [status |-> IF active THEN "ACTIVE" ELSE "INACTIVE",
                                  number |-> n, machines |-> layout]]
  /\ UNCHANGED <<incident, case, user, actorRole>>

\* A renumbering, another machine sequence or a deactivation is structural:
\* it is refused while an incident of the line is active.
UpdateLine(l, n, layout, active) ==
  LET status == IF active THEN "ACTIVE" ELSE "INACTIVE"
      structural == \/ n # line[l].number
                    \/ layout # line[l].machines
                    \/ line[l].status = "ACTIVE" /\ ~active
  IN /\ Live(l)
     /\ line[l] # [status |-> status, number |-> n, machines |-> layout]
     /\ structural => ActiveOn(l) = {}
     /\ n # line[l].number => NumberIsFree(n, l)
     /\ layout # line[l].machines => MachinesAreFree(layout, l)
     /\ line' = [line EXCEPT ![l] = [status |-> status, number |-> n, machines |-> layout]]
     /\ UNCHANGED <<incident, case, user, actorRole>>

\* Mutant of ArchiveLine: the arbitrations of the canceled incidents stay open.
ArchiveLineOnly(l, force) ==
  /\ Live(l)
  /\ ActiveOn(l) # {} => force
  /\ incident' = [i \in Incidents |-> IF i \in ActiveOn(l) THEN Canceled(incident[i])
                                                           ELSE incident[i]]
  /\ line' = [line EXCEPT ![l].status = "DELETED"]
  /\ UNCHANGED <<case, user, actorRole>>

\* A forced archiving cancels what is active on the line, and supersedes the
\* arbitrations of what it canceled.
ArchiveLine(l, force) ==
  /\ Live(l)
  /\ ActiveOn(l) # {} => force
  /\ incident' = [i \in Incidents |-> IF i \in ActiveOn(l) THEN Canceled(incident[i])
                                                           ELSE incident[i]]
  /\ case' = [c \in CaseIds |->
                IF \E i \in ActiveOn(l) : c \in OpenCases(i)
                THEN [case[c] EXCEPT !.status = "SUPERSEDED"]
                ELSE case[c]]
  /\ line' = [line EXCEPT ![l].status = "DELETED"]
  /\ UNCHANGED <<user, actorRole>>

-----------------------------------------------------------------------------
(* Services of the administrator: accounts *)

Known(u) == user[u].status \in {"ACTIVE", "INACTIVE"}

\* Mutant of ActiveTakenBy: the suspended incidents are not counted.
OpenTakenBy(u) ==
  {i \in Incidents : incident[i].status = "OPEN" /\ incident[i].takenBy = u}

ActiveTakenBy(u) ==
  {i \in Incidents : incident[i].status \in ActiveStatuses /\ incident[i].takenBy = u}

SetUser(u, status, role) ==
  /\ user' = [user EXCEPT ![u] = [status |-> status, role |-> role]]
  /\ UNCHANGED <<incident, case, line, actorRole>>

CreateAccount(u, role) ==
  /\ user[u].status = "ABSENT"
  /\ SetUser(u, "ACTIVE", role)

\* guardNoActiveTakenIncidents protects a change of role, a deactivation and
\* a deletion.
ChangeRole(u, role) ==
  /\ Known(u)
  /\ user[u].role # role
  /\ ActiveTakenBy(u) = {}
  /\ SetUser(u, user[u].status, role)

ActivateAccount(u) ==
  /\ user[u].status = "INACTIVE"
  /\ SetUser(u, "ACTIVE", user[u].role)

DeactivateAccount(u) ==
  /\ user[u].status = "ACTIVE"
  /\ ActiveTakenBy(u) = {}
  /\ SetUser(u, "INACTIVE", user[u].role)

DeleteAccount(u) ==
  /\ Known(u)
  /\ ActiveTakenBy(u) = {}
  /\ SetUser(u, "DELETED", user[u].role)

-----------------------------------------------------------------------------
(* Specification *)

DispatchStep(u, i) ==
  \/ Take(u, i)
  \/ \E reason \in AnyText : SetPending(u, i, reason)
  \/ Resume(u, i)
  \/ \E note \in AnyText : Close(u, i, note)
  \/ Invalidate(u, i)
  \/ \E priority \in BOOLEAN : SetPriority(u, i, priority)
  \/ \E comment \in Texts \cup {Null} : SetResponsibleComment(u, i, comment)
  \/ CancelDirectly(u, i)

ArbitrationStep(u, i) ==
  \/ \E p \in EditPayload : RequestEdit(u, i, p)
  \/ WithdrawEdit(u, i)
  \/ ApproveEdit(u, i)
  \/ RejectEdit(u, i)
  \/ RequestCancel(u, i)
  \/ WithdrawCancel(u, i)
  \/ RejectCancel(u, i)
  \/ ApproveCancel(u, i)
  \/ Consult(u, i)

WorkshopStep ==
  \E u \in Users :
    \/ Authenticate(u)
    \/ EndWithoutWrite(u)
    \/ \E i \in Incidents :
         \/ \E d \in Description : Create(u, i, d)
         \/ \E p \in EditPayload : Edit(u, i, p)
         \/ DispatchStep(u, i)
         \/ ArbitrationStep(u, i)

LineStep ==
  \E l \in Lines :
    \/ \E n \in Numbers, layout \in Layouts, active \in BOOLEAN :
         CreateLine(l, n, layout, active) \/ UpdateLine(l, n, layout, active)
    \/ \E force \in BOOLEAN : ArchiveLine(l, force)

AccountStep ==
  \E u \in Users :
    \/ \E role \in Roles : CreateAccount(u, role) \/ ChangeRole(u, role)
    \/ ActivateAccount(u)
    \/ DeactivateAccount(u)
    \/ DeleteAccount(u)

Next == WorkshopStep \/ LineStep \/ AccountStep

Spec == Init /\ [][Next]_vars
-----------------------------------------------------------------------------
(* Properties *)

\* The two compatibility columns of an incident and the normalized table of
\* cases tell the same story: a correction is requested exactly when a case
\* EDIT is open, a cancellation exactly when a case CANCEL is, an incident has
\* one open case at most, and only an active incident has one.
ArbitrationAligned ==
  /\ \A i \in Incidents :
       /\ incident[i].editRequest # Null <=> HasOpenCase(i, "EDIT")
       /\ incident[i].cancelRequest <=> HasOpenCase(i, "CANCEL")
  /\ \A c, d \in CaseIds :
       /\ case[c].status \in OpenStatuses
       /\ case[d].status \in OpenStatuses
       /\ case[c].incident = case[d].incident
       => c = d
  /\ \A c \in CaseIds :
       case[c].status \in OpenStatuses =>
         /\ case[c].incident \in Incidents
         /\ incident[case[c].incident].status \in ActiveStatuses

\* The "before" half of a correction is frozen when it is requested and never
\* read again; for as long as the case is open it is still what the incident
\* says, field by field, so the supervisor decides on a true diff.
FrozenBeforeIsCurrent ==
  \A c \in CaseIds :
    case[c].status \in OpenStatuses /\ case[c].type = "EDIT" =>
      LET inc == incident[case[c].incident]
      IN /\ case[c].before = Replaced(inc.editRequest, inc.fields)
         /\ inc.editRequest = Changed(inc.editRequest, inc.fields)
         /\ inc.editRequest # NoChange

\* The work in progress stands on the plant as it is: the line of an active
\* incident is in service, carries the number copied into the incident, and
\* still has the machine and the head the incident names.
ActiveOnLineInService ==
  \A i \in Incidents :
    incident[i].status \in ActiveStatuses =>
      /\ ValidSelection(incident[i].fields)
      /\ incident[i].lineNumber = line[incident[i].fields.lineId].number

\* "No intermediate state may bind an active incident to a technician who has
\* become ineligible" (docs/technique.md, 9.1): the owner of an active incident
\* is an active account with the role MAINTENANCE.
OwnerIsEligible ==
  \A i \in Incidents :
    incident[i].status \in ActiveStatuses /\ incident[i].takenBy # Null =>
      /\ user[incident[i].takenBy].status = "ACTIVE"
      /\ user[incident[i].takenBy].role = "MAINTENANCE"

\* Two active incidents are never on the same place of the same machine,
\* whichever of a declaration, an edit or an approved correction put them there.
OneActivePerPlace ==
  \A i, j \in Incidents :
    /\ incident[i].status \in ActiveStatuses
    /\ incident[j].status \in ActiveStatuses
    /\ Place(incident[i].fields) = Place(incident[j].fields)
    => i = j

\* A suspended incident has an owner and a reason to wait; a reason does not
\* survive the resumption, or the next suspension could do without one.
PendingIsMotivated ==
  \A i \in Incidents :
    /\ incident[i].status = "PENDING" => /\ incident[i].takenBy # Null
                                        /\ incident[i].waiting \in Texts
    /\ incident[i].status = "OPEN" => incident[i].waiting = Null

\* A finished incident is a record: no request in flight, no decision and no
\* archiving changes it, but for the invalidation of a closed one.
TerminalIsFinal ==
  [][\A i \in Incidents :
       incident[i].status \in TerminalStatuses =>
         \/ incident'[i] = incident[i]
         \/ /\ incident[i].status = "CLOSED"
            /\ incident'[i] = [incident[i] EXCEPT !.status = "INVALIDATED"]]_vars

\* An arbitration is decided once: its outcome is never overwritten by a
\* concurrent withdrawal, by a second decision, or by the archiving of a line.
DecisionIsFinal ==
  [][\A c \in CaseIds :
       case[c].status \in Resolutions => case'[c] = case[c]]_vars

\* docs/technique.md, 7.2: an OPEN incident that a technician has taken is only
\* canceled by the forced archiving of its line.
TakenOpenCanceledByArchivingOnly ==
  [][\A i \in Incidents :
       /\ incident[i].status = "OPEN"
       /\ incident[i].takenBy # Null
       /\ incident'[i].status = "CANCELED"
       => /\ Live(incident[i].fields.lineId)
          /\ line'[incident[i].fields.lineId].status = "DELETED"]_vars

\* While a request waits for its decision the incident is frozen: only the
\* supervisor's priority and instruction may change.
ArbitrationFreezesIncident ==
  [][\A i \in Incidents, c \in CaseIds :
       /\ case[c].incident = i
       /\ case[c].status \in OpenStatuses
       /\ case'[c].status \in OpenStatuses
       => incident'[i] = [incident[i] EXCEPT !.priority = incident'[i].priority,
                                             !.comment = incident'[i].comment]]_vars

=============================================================================
