--------------------------- MODULE WorkshopProofs ---------------------------
(***************************************************************************)
(* Proofs about the workshop, for any number of lines, machines, users,    *)
(* incidents and requests.                                                 *)
(*                                                                         *)
(* First the plant: type correctness, and the invariants that tie the      *)
(* active incidents to the lines and the accounts they depend on.          *)
(*                                                                         *)
(* Then the arbitration of corrections and cancellations: its invariant,   *)
(* what no step may ever do to an incident or to an arbitration (action    *)
(* properties), and the agreement of the two policies, that of the         *)
(* services and its mirror in the screens (Offers).  The invariant is said *)
(* incident by incident (SettledAt), so that a step is examined on the one *)
(* incident it writes, and the others are framed away.  The mirror reads   *)
(* the case sent with the incident, the services the flags and the cases:  *)
(* that they agree (ArbInv) is what makes the two policies equivalent.     *)
(***************************************************************************)
EXTENDS Offers, TLAPS

-----------------------------------------------------------------------------
(* Descriptions and corrections *)

\* What a correction really changes is a correction.
LEMMA ChangedType ==
  ASSUME NEW p \in EditPayload, NEW d \in Description
  PROVE  Changed(p, d) \in EditPayload
BY DEF Changed, EditFields, EditPayload, Description

\* The values a correction replaces are a partial description.
LEMMA ReplacedType ==
  ASSUME NEW p \in EditPayload, NEW d \in Description
  PROVE  Replaced(p, d) \in EditPayload
BY DEF Replaced, EditFields, EditPayload, Description

\* A description with a correction applied is a complete description.
LEMMA MergeType ==
  ASSUME NEW p \in EditPayload, NEW d \in Description
  PROVE  Merge(p, d) \in Description
BY DEF Merge, EditFields, EditPayload, Description

-----------------------------------------------------------------------------
(* What a service may write into an incident and its cases *)

CaseType == case \in [CaseIds -> Case]

\* Every incident that was declared has its descriptive columns.
Declared ==
  \A i \in Incidents : incident[i].status # "ABSENT" => incident[i].fields \in Description

\* PendingIsMotivated, said of one row.
Motivated(inc) ==
  /\ inc.status = "PENDING" => inc.takenBy # Null /\ inc.waiting \in Texts
  /\ inc.status = "OPEN" => inc.waiting = Null

\* inc is a later version of row old: declared, on the same place of the same
\* line, not brought back to life, and motivated if old was.
Continues(inc, old) ==
  /\ inc \in Incident
  /\ inc.status # "ABSENT"
  /\ inc.fields = old.fields
  /\ inc.lineNumber = old.lineNumber
  /\ inc.status \in ActiveStatuses => old.status \in ActiveStatuses
  /\ Motivated(old) => Motivated(inc)

\* The owner is who it was, or becomes the eligible technician u.
OwnedBy(u, inc, old) ==
  \/ inc.takenBy = old.takenBy
  \/ inc.takenBy = u /\ user[u].status = "ACTIVE" /\ user[u].role = "MAINTENANCE"


\* Each of the rows the services write continues the row they locked.
LEMMA RowsContinue ==
  ASSUME NEW inc \in Incident, inc.status # "ABSENT"
  PROVE  /\ \A u \in Users : Continues([inc EXCEPT !.takenBy = u], inc)
         /\ \A b \in BOOLEAN : Continues([inc EXCEPT !.priority = b], inc)
         /\ \A t \in AnyText : Continues([inc EXCEPT !.comment = t], inc)
         /\ \A p \in EditPayload \cup {Null} : Continues([inc EXCEPT !.editRequest = p], inc)
         /\ \A b \in BOOLEAN : Continues([inc EXCEPT !.cancelRequest = b], inc)
<1> USE DEF Incident, ActiveStatuses, TerminalStatuses, Continues, Motivated
<1>1. \A u \in Users : Continues([inc EXCEPT !.takenBy = u], inc)
  BY ValuesAreDistinct
<1>2. \A b \in BOOLEAN : Continues([inc EXCEPT !.priority = b], inc)
  OBVIOUS
<1>3. \A t \in AnyText : Continues([inc EXCEPT !.comment = t], inc)
  OBVIOUS
<1>4. \A p \in EditPayload \cup {Null} : Continues([inc EXCEPT !.editRequest = p], inc)
  OBVIOUS
<1>5. \A b \in BOOLEAN : Continues([inc EXCEPT !.cancelRequest = b], inc)
  OBVIOUS
<1> QED
  BY <1>1, <1>2, <1>3, <1>4, <1>5

\* So do the rows that carry a change of status.
LEMMA StatusRowsContinue ==
  ASSUME NEW inc \in Incident, inc.status # "ABSENT"
  PROVE  /\ inc.status = "PENDING" =>
              Continues([inc EXCEPT !.status = "OPEN", !.waiting = Null], inc)
         /\ Continues([inc EXCEPT !.status = "INVALIDATED", !.editRequest = Null,
                                  !.cancelRequest = FALSE], inc)
         /\ Continues(Canceled(inc), inc)
<1> USE DEF Incident, ActiveStatuses, TerminalStatuses, Continues, Motivated
<1>1. inc.status = "PENDING" => Continues([inc EXCEPT !.status = "OPEN", !.waiting = Null], inc)
  BY DEF AnyText
<1>2. Continues([inc EXCEPT !.status = "INVALIDATED", !.editRequest = Null,
                            !.cancelRequest = FALSE], inc)
  OBVIOUS
<1>3. Continues(Canceled(inc), inc)
  BY DEF Canceled
<1> QED
  BY <1>1, <1>2, <1>3

\* A closed row keeps the note it had when the request brings none.
LEMMA ClosedRowContinues ==
  ASSUME NEW inc \in Incident, inc.status # "ABSENT", NEW note \in AnyText
  PROVE  Continues([inc EXCEPT !.status = "CLOSED", !.note = IF note = Null THEN @ ELSE note], inc)
BY DEF Incident, ActiveStatuses, TerminalStatuses, Continues, Motivated

\* A suspended row has a reason: since an OPEN one has none, the request
\* brings it.
LEMMA SuspendedRowContinues ==
  ASSUME NEW inc \in Incident, inc.status = "OPEN", inc.takenBy # Null,
         NEW reason \in AnyText, reason \in Texts \/ inc.waiting \in Texts
  PROVE  Continues([inc EXCEPT !.status = "PENDING",
                               !.waiting = IF reason = Null THEN @ ELSE reason], inc)
<1> DEFINE waiting == IF reason = Null THEN inc.waiting ELSE reason
           new == [inc EXCEPT !.status = "PENDING", !.waiting = waiting]
<1>1. waiting \in AnyText
  BY DEF Incident
<1>2. inc.waiting = Null => waiting \in Texts
  BY ValuesAreDistinct
<1> HIDE DEF waiting
<1>3. /\ new \in Incident
      /\ new.status = "PENDING" /\ new.fields = inc.fields
      /\ new.lineNumber = inc.lineNumber /\ new.takenBy = inc.takenBy
      /\ new.waiting = waiting
  BY <1>1 DEF Incident, ActiveStatuses
<1> HIDE DEF new
<1>4. Continues(new, inc)
  BY <1>2, <1>3 DEF Continues, Motivated, ActiveStatuses
<1> QED
  BY <1>4 DEF new, waiting

\* Filing and resolving cases keep the table well typed.
LEMMA FileCaseType ==
  ASSUME CaseType, NEW i \in Incidents, NEW type \in {"EDIT", "CANCEL"},
         NEW before \in EditPayload \cup {Null}, FileCase(i, type, before)
  PROVE  CaseType'
BY DEF CaseType, FileCase, Case, OpenStatuses

LEMMA ResolveCaseType ==
  ASSUME CaseType, NEW i \in Incidents, NEW type \in {"EDIT", "CANCEL"},
         NEW resolution \in Resolutions, ResolveCase(i, type, resolution)
  PROVE  CaseType'
<1>1. \A c \in CaseIds : [case[c] EXCEPT !.status = resolution] \in Case
  BY DEF CaseType, Case
<1> QED
  BY <1>1 DEF CaseType, ResolveCase

-----------------------------------------------------------------------------
(* What the steps of the system do to the incidents *)

\* A service continues incident i for the request of u.
Progress(u, i) ==
  /\ incident[i].status # "ABSENT"
  /\ \E inc : Continues(inc, incident[i]) /\ OwnedBy(u, inc, incident[i]) /\ SetIncident(i, inc)
  /\ CaseType'
  /\ Answered(u)
  /\ UNCHANGED <<line, user>>

\* A service puts incident i on a place it found valid and free.
Relocation(u, i) ==
  /\ \E inc \in Incident :
       /\ inc.status \in ActiveStatuses
       /\ inc.fields \in Description
       /\ ValidSelection(inc.fields)
       /\ PlaceIsFree(inc.fields, i)
       /\ inc.lineNumber = line[inc.fields.lineId].number
       /\ Motivated(incident[i]) => Motivated(inc)
       /\ inc.takenBy = Null \/ (inc.takenBy = incident[i].takenBy
                                 /\ incident[i].status \in ActiveStatuses)
       /\ SetIncident(i, inc)
  /\ CaseType'
  /\ Answered(u)
  /\ UNCHANGED <<line, user>>

LEMMA DispatchProgress ==
  ASSUME TypeOK, NEW u \in Users, NEW i \in Incidents, DispatchStep(u, i)
  PROVE  Progress(u, i)
<1> DEFINE old == incident[i]
<1>1. old \in Incident /\ CaseType
  BY DEF TypeOK, CaseType
<1>2. Serves(u, i) /\ old.status # "ABSENT" /\ CaseType'
  BY <1>1 DEF DispatchStep, Take, SetPending, Resume, Close, Invalidate, SetPriority,
              SetResponsibleComment, CancelDirectly, Serves, CaseType
<1>3. SUFFICES \E inc : Continues(inc, old) /\ OwnedBy(u, inc, old) /\ SetIncident(i, inc)
  BY <1>2 DEF Progress, DispatchStep, Take, SetPending, Resume, Close, Invalidate, SetPriority,
              SetResponsibleComment, CancelDirectly
<1>4. CASE Take(u, i)
  BY <1>1, <1>2, <1>4, RowsContinue DEF Take, OwnedBy, Incident
<1>5. ASSUME NEW reason \in AnyText, SetPending(u, i, reason)
      PROVE  \E inc : Continues(inc, old) /\ OwnedBy(u, inc, old) /\ SetIncident(i, inc)
  BY <1>1, <1>2, <1>5, SuspendedRowContinues DEF SetPending, CanSuspendOrClose, OwnedBy, Incident
<1>6. CASE Resume(u, i)
  BY <1>1, <1>2, <1>6, StatusRowsContinue DEF Resume, CanResume, OwnedBy, Incident
<1>7. ASSUME NEW note \in AnyText, Close(u, i, note)
      PROVE  \E inc : Continues(inc, old) /\ OwnedBy(u, inc, old) /\ SetIncident(i, inc)
  BY <1>1, <1>2, <1>7, ClosedRowContinues DEF Close, OwnedBy, Incident
<1>8. CASE Invalidate(u, i)
  BY <1>1, <1>2, <1>8, StatusRowsContinue DEF Invalidate, OwnedBy, Incident
<1>9. ASSUME NEW priority \in BOOLEAN, SetPriority(u, i, priority)
      PROVE  \E inc : Continues(inc, old) /\ OwnedBy(u, inc, old) /\ SetIncident(i, inc)
  BY <1>1, <1>2, <1>9, RowsContinue DEF SetPriority, OwnedBy, Incident
<1>10. ASSUME NEW comment \in Texts \cup {Null}, SetResponsibleComment(u, i, comment)
       PROVE  \E inc : Continues(inc, old) /\ OwnedBy(u, inc, old) /\ SetIncident(i, inc)
  BY <1>1, <1>2, <1>10, RowsContinue DEF SetResponsibleComment, OwnedBy, Incident, AnyText
<1>11. CASE CancelDirectly(u, i)
  BY <1>1, <1>2, <1>11, StatusRowsContinue DEF CancelDirectly, OwnedBy, Incident, Canceled
<1> QED
  BY <1>4, <1>5, <1>6, <1>7, <1>8, <1>9, <1>10, <1>11 DEF DispatchStep
\* Every arbitration service but the approval of a correction continues the
\* incident; the approval relocates it.
LEMMA ArbitrationProgress ==
  ASSUME TypeOK, Declared, NEW u \in Users, NEW i \in Incidents, ArbitrationStep(u, i)
  PROVE  Progress(u, i) \/ Relocation(u, i) \/ (UNCHANGED <<incident, line, user>> /\ CaseType'
                                                /\ Answered(u))
<1> DEFINE old == incident[i]
<1>1. old \in Incident /\ CaseType
  BY DEF TypeOK, CaseType
<1>2. Serves(u, i) => old.status # "ABSENT" /\ old.fields \in Description
  BY DEF Serves, Declared
<1>3. ASSUME NEW p \in EditPayload, RequestEdit(u, i, p)
      PROVE  Progress(u, i)
  <2> DEFINE changes == Changed(p, old.fields)
  <2>1. Serves(u, i) /\ changes \in EditPayload /\ Replaced(changes, old.fields) \in EditPayload
    BY <1>2, <1>3, ChangedType, ReplacedType DEF RequestEdit
  <2> HIDE DEF changes
  <2>2. CaseType'
    BY <1>1, <1>3, <2>1, FileCaseType DEF RequestEdit, changes
  <2>3. SetIncident(i, [old EXCEPT !.editRequest = changes]) /\ Answered(u) /\ UNCHANGED <<line, user>>
    BY <1>3 DEF RequestEdit, changes
  <2>4. OwnedBy(u, [old EXCEPT !.editRequest = changes], old)
    BY <1>1 DEF OwnedBy, Incident
  <2> QED
    BY <1>1, <1>2, <2>1, <2>2, <2>3, <2>4, RowsContinue DEF Progress
<1>4. CASE RequestCancel(u, i)
  <2>1. CaseType'
    BY <1>1, <1>4, FileCaseType DEF RequestCancel
  <2> QED
    BY <1>1, <1>2, <1>4, <2>1, RowsContinue DEF RequestCancel, Progress, OwnedBy, Incident
<1>5. CASE WithdrawEdit(u, i) \/ RejectEdit(u, i)
  <2>1. CaseType'
    BY <1>1, <1>5, ResolveCaseType DEF WithdrawEdit, RejectEdit, Resolutions
  <2> QED
    BY <1>1, <1>2, <1>5, <2>1, RowsContinue DEF WithdrawEdit, RejectEdit, Progress, OwnedBy, Incident
<1>6. CASE WithdrawCancel(u, i) \/ RejectCancel(u, i)
  <2>1. CaseType'
    BY <1>1, <1>6, ResolveCaseType DEF WithdrawCancel, RejectCancel, Resolutions
  <2> QED
    BY <1>1, <1>2, <1>6, <2>1, RowsContinue DEF WithdrawCancel, RejectCancel, Progress, OwnedBy, Incident
<1>7. CASE ApproveCancel(u, i)
  <2>1. CaseType'
    BY <1>1, <1>7, ResolveCaseType DEF ApproveCancel, Resolutions
  <2> QED
    BY <1>1, <1>2, <1>7, <2>1, StatusRowsContinue
    DEF ApproveCancel, Progress, OwnedBy, Canceled, Incident
<1>8. CASE Consult(u, i)
  BY <1>1, <1>8 DEF Consult, CaseType, Case, OpenStatuses
<1>9. CASE ApproveEdit(u, i)
  <2> DEFINE d == Merge(old.editRequest, old.fields)
             new == [old EXCEPT !.fields = d, !.lineNumber = line[d.lineId].number,
                                !.editRequest = Null]
  <2>1. CaseType'
    BY <1>1, <1>9, ResolveCaseType DEF ApproveEdit, Resolutions
  <2>2. d \in Description /\ old.status \in ActiveStatuses
    BY <1>1, <1>2, <1>9, MergeType DEF ApproveEdit, CanDecideEdit, IsActiveIncident, Incident
  <2>3. ValidSelection(d) /\ PlaceIsFree(d, i) /\ SetIncident(i, new) /\ Answered(u)
        /\ UNCHANGED <<line, user>>
    BY <1>9 DEF ApproveEdit
  <2>4. line[d.lineId].number \in Numbers \cup {Null}
    BY <2>2 DEF TypeOK, Line, Description
  <2> HIDE DEF d
  <2>5. /\ new \in Incident
        /\ new.status = old.status /\ new.takenBy = old.takenBy /\ new.waiting = old.waiting
        /\ new.fields = d /\ new.lineNumber = line[d.lineId].number
    BY <1>1, <2>2, <2>4 DEF Incident
  <2> HIDE DEF new
  <2>6. Motivated(old) => Motivated(new)
    BY <2>5 DEF Motivated
  <2> QED
    BY <2>1, <2>2, <2>3, <2>5, <2>6 DEF Relocation
<1> QED
  BY <1>3, <1>4, <1>5, <1>6, <1>7, <1>8, <1>9 DEF ArbitrationStep

\* A declaration and a direct edit relocate the incident.
LEMMA CreateRelocates ==
  ASSUME TypeOK, NEW u \in Users, NEW i \in Incidents, NEW d \in Description, Create(u, i, d)
  PROVE  Relocation(u, i)
<1> DEFINE new == [NoIncident EXCEPT !.status = "OPEN", !.user_id = u, !.fields = d,
                                     !.lineNumber = line[d.lineId].number]
<1>1. line[d.lineId].number \in Numbers \cup {Null}
  BY DEF TypeOK, Line, Description
<1>2. /\ new \in Incident
      /\ new.status = "OPEN" /\ new.takenBy = Null /\ new.waiting = Null
      /\ new.fields = d /\ new.lineNumber = line[d.lineId].number
  BY <1>1 DEF Incident, NoIncident, AnyText, ActiveStatuses
<1>3. ValidSelection(d) /\ PlaceIsFree(d, i) /\ SetIncident(i, new) /\ Answered(u)
      /\ UNCHANGED <<case, line, user>>
  BY DEF Create
<1>4. CaseType'
  BY <1>3 DEF TypeOK, CaseType
<1> HIDE DEF new
<1> QED
  BY <1>2, <1>3, <1>4 DEF Relocation, Motivated, ActiveStatuses

LEMMA EditRelocates ==
  ASSUME TypeOK, Declared, NEW u \in Users, NEW i \in Incidents, NEW p \in EditPayload,
         Edit(u, i, p)
  PROVE  Relocation(u, i)
<1> DEFINE old == incident[i]
           d == Merge(Changed(p, old.fields), old.fields)
           new == [old EXCEPT !.fields = d, !.lineNumber = line[d.lineId].number]
<1>1. old \in Incident /\ old.status \in ActiveStatuses /\ old.fields \in Description
  BY DEF TypeOK, Edit, CanEdit, IsActiveIncident, Serves, Declared
<1>2. d \in Description
  BY <1>1, ChangedType, MergeType
<1>3. line[d.lineId].number \in Numbers \cup {Null}
  BY <1>2 DEF TypeOK, Line, Description
<1>4. ValidSelection(d) /\ PlaceIsFree(d, i) /\ SetIncident(i, new) /\ Answered(u)
      /\ UNCHANGED <<case, line, user>>
  BY DEF Edit
<1> HIDE DEF d
<1>5. /\ new \in Incident
      /\ new.status = old.status /\ new.takenBy = old.takenBy /\ new.waiting = old.waiting
      /\ new.fields = d /\ new.lineNumber = line[d.lineId].number
  BY <1>1, <1>2, <1>3 DEF Incident
<1>6. CaseType'
  BY <1>4 DEF TypeOK, CaseType
<1> HIDE DEF new
<1>7. Motivated(old) => Motivated(new)
  BY <1>5 DEF Motivated
<1> QED
  BY <1>1, <1>2, <1>4, <1>5, <1>6, <1>7 DEF Relocation
\* A step that leaves the incidents, the lines and the accounts alone.
Idle ==
  /\ UNCHANGED <<incident, line, user>>
  /\ CaseType'
  /\ actorRole' \in [Users -> Roles \cup {Null}]

LEMMA WorkshopStepCases ==
  ASSUME TypeOK, Declared, WorkshopStep
  PROVE  Idle \/ \E u \in Users, i \in Incidents : Progress(u, i) \/ Relocation(u, i)
<1>1. PICK u \in Users :
        \/ Authenticate(u) \/ EndWithoutWrite(u)
        \/ \E i \in Incidents :
             \/ \E d \in Description : Create(u, i, d)
             \/ \E p \in EditPayload : Edit(u, i, p)
             \/ DispatchStep(u, i) \/ ArbitrationStep(u, i)
  BY DEF WorkshopStep
<1>2. CASE Authenticate(u) \/ EndWithoutWrite(u)
  BY <1>2 DEF Authenticate, EndWithoutWrite, Idle, TypeOK, CaseType, User
<1>3. ASSUME NEW i \in Incidents,
             \/ \E d \in Description : Create(u, i, d)
             \/ \E p \in EditPayload : Edit(u, i, p)
             \/ DispatchStep(u, i) \/ ArbitrationStep(u, i)
      PROVE  Idle \/ Progress(u, i) \/ Relocation(u, i)
  <2>1. Answered(u) => actorRole' \in [Users -> Roles \cup {Null}]
    BY DEF Answered, TypeOK
  <2> QED
    BY <1>3, <2>1, CreateRelocates, EditRelocates, DispatchProgress, ArbitrationProgress DEF Idle
<1> QED
  BY <1>1, <1>2, <1>3

-----------------------------------------------------------------------------
(* Type correctness *)

TypeInv == TypeOK /\ Declared

LEMMA TypeInvInit == Init => TypeInv
BY DEF Init, TypeInv, TypeOK, Declared, NoIncident, NoCase, Incident, Case, Line, User, Roles,
       AnyText

LEMMA ProgressType ==
  ASSUME TypeInv, NEW u \in Users, NEW i \in Incidents, Progress(u, i) \/ Relocation(u, i)
  PROVE  TypeInv'
<1>1. PICK inc \in Incident : /\ inc.status # "ABSENT" => inc.fields \in Description
                              /\ incident' = [incident EXCEPT ![i] = inc]
  BY DEF Progress, Relocation, Continues, SetIncident, TypeInv, Declared
<1>2. CaseType' /\ Answered(u) /\ UNCHANGED <<line, user>>
  BY DEF Progress, Relocation
<1> QED
  BY <1>1, <1>2 DEF TypeInv, TypeOK, Declared, CaseType, Answered

LEMMA LineStepType ==
  ASSUME TypeInv, LineStep
  PROVE  TypeInv'
<1>1. PICK l \in Lines :
        \/ \E n \in Numbers, layout \in Layouts, active \in BOOLEAN :
             CreateLine(l, n, layout, active) \/ UpdateLine(l, n, layout, active)
        \/ \E force \in BOOLEAN : ArchiveLine(l, force)
  BY DEF LineStep
<1>2. ASSUME NEW n \in Numbers, NEW layout \in Layouts, NEW active \in BOOLEAN,
             CreateLine(l, n, layout, active) \/ UpdateLine(l, n, layout, active)
      PROVE  TypeInv'
  <2> DEFINE row == [status |-> IF active THEN "ACTIVE" ELSE "INACTIVE",
                     number |-> n, machines |-> layout]
  <2>1. row \in Line
    BY LayoutsAreMachineSequences DEF Line
  <2>2. line' = [line EXCEPT ![l] = row] /\ UNCHANGED <<incident, case, user, actorRole>>
    BY <1>2 DEF CreateLine, UpdateLine
  <2> HIDE DEF row
  <2> QED
    BY <2>1, <2>2 DEF TypeInv, TypeOK, Declared
<1>3. ASSUME NEW force \in BOOLEAN, ArchiveLine(l, force)
      PROVE  TypeInv'
  <2>1. incident' \in [Incidents -> Incident] /\ Declared'
    <3>1. \A i \in ActiveOn(l) : Canceled(incident[i]) \in Incident
                                 /\ Canceled(incident[i]).fields = incident[i].fields
                                 /\ incident[i].status # "ABSENT"
      BY StatusRowsContinue DEF ActiveOn, Continues, TypeInv, TypeOK, ActiveStatuses
    <3> QED
      BY <1>3, <3>1 DEF ArchiveLine, TypeInv, TypeOK, Declared
  <2>2. case' \in [CaseIds -> Case]
    <3>1. \A c \in CaseIds : [case[c] EXCEPT !.status = "SUPERSEDED"] \in Case
      BY DEF TypeInv, TypeOK, Case, Resolutions
    <3> QED
      BY <1>3, <3>1 DEF ArchiveLine, TypeInv, TypeOK
  <2>3. line' \in [Lines -> Line]
    BY <1>3 DEF ArchiveLine, TypeInv, TypeOK, Line
  <2> QED
    BY <1>3, <2>1, <2>2, <2>3 DEF ArchiveLine, TypeInv, TypeOK
<1> QED
  BY <1>1, <1>2, <1>3

LEMMA AccountStepType ==
  ASSUME TypeInv, AccountStep
  PROVE  TypeInv' /\ UNCHANGED <<incident, case, line, actorRole>>
<1>1. PICK u \in Users, status \in {"ACTIVE", "INACTIVE", "DELETED"}, role \in Roles :
        SetUser(u, status, role)
  BY DEF AccountStep, CreateAccount, ChangeRole, ActivateAccount, DeactivateAccount,
         DeleteAccount, Known, TypeInv, TypeOK, User
<1> QED
  BY <1>1 DEF SetUser, TypeInv, TypeOK, Declared, User

\* Type correctness: in every reachable state each table holds well-formed
\* rows, whatever the requests and the administrator did.
THEOREM TypeCorrect == Spec => []TypeOK
<1>1. Init => TypeInv
  BY TypeInvInit
<1>2. TypeInv /\ [Next]_vars => TypeInv'
  <2> SUFFICES ASSUME TypeInv, [Next]_vars PROVE TypeInv'
    OBVIOUS
  <2>1. CASE WorkshopStep
    <3>1. Idle => TypeInv'
      BY DEF Idle, TypeInv, TypeOK, Declared, CaseType
    <3> QED
      BY <2>1, <3>1, WorkshopStepCases, ProgressType DEF TypeInv
  <2>2. CASE LineStep
    BY <2>2, LineStepType
  <2>3. CASE AccountStep
    BY <2>3, AccountStepType
  <2>4. CASE UNCHANGED vars
    BY <2>4 DEF vars, TypeInv, TypeOK, Declared
  <2> QED
    BY <2>1, <2>2, <2>3, <2>4 DEF Next
<1>3. TypeInv => TypeOK
  BY DEF TypeInv
<1> QED
  BY <1>1, <1>2, <1>3, PTL DEF Spec
-----------------------------------------------------------------------------
(* Active incidents and what they depend on *)

PlantInv ==
  /\ OneActivePerPlace
  /\ ActiveOnLineInService
  /\ OwnerIsEligible
  /\ PendingIsMotivated

\* Continuing an incident keeps its place and its line, and gives it no owner
\* but an eligible one.
LEMMA ProgressPlant ==
  ASSUME TypeInv, PlantInv, NEW u \in Users, NEW i \in Incidents, Progress(u, i)
  PROVE  PlantInv'
<1>1. PICK inc : /\ Continues(inc, incident[i])
                 /\ OwnedBy(u, inc, incident[i])
                 /\ incident' = [incident EXCEPT ![i] = inc]
  BY DEF Progress, SetIncident
<1>2. UNCHANGED <<line, user>>
  BY DEF Progress
<1>3. \A j \in Incidents : incident'[j] = IF j = i THEN inc ELSE incident[j]
  BY <1>1 DEF TypeInv, TypeOK
<1>4. OneActivePerPlace'
  BY <1>1, <1>3 DEF PlantInv, OneActivePerPlace, Continues, Place
<1>5. ActiveOnLineInService'
  BY <1>1, <1>2, <1>3 DEF PlantInv, ActiveOnLineInService, ValidSelection, Continues
<1>6. OwnerIsEligible'
  BY <1>1, <1>2, <1>3 DEF PlantInv, OwnerIsEligible, Continues, OwnedBy
<1>7. PendingIsMotivated'
  BY <1>1, <1>3 DEF PlantInv, PendingIsMotivated, Continues, Motivated
<1> QED
  BY <1>4, <1>5, <1>6, <1>7 DEF PlantInv

\* A new place is checked under the lock of its line.
LEMMA RelocationPlant ==
  ASSUME TypeInv, PlantInv, NEW u \in Users, NEW i \in Incidents, Relocation(u, i)
  PROVE  PlantInv'
<1>1. PICK inc \in Incident :
        /\ ValidSelection(inc.fields)
        /\ PlaceIsFree(inc.fields, i)
        /\ inc.lineNumber = line[inc.fields.lineId].number
        /\ Motivated(incident[i]) => Motivated(inc)
        /\ inc.takenBy = Null \/ (inc.takenBy = incident[i].takenBy
                                  /\ incident[i].status \in ActiveStatuses)
        /\ incident' = [incident EXCEPT ![i] = inc]
  BY DEF Relocation, SetIncident
<1>2. UNCHANGED <<line, user>>
  BY DEF Relocation
<1>3. \A j \in Incidents : incident'[j] = IF j = i THEN inc ELSE incident[j]
  BY <1>1 DEF TypeInv, TypeOK
<1>4. OneActivePerPlace'
  BY <1>1, <1>3 DEF PlantInv, OneActivePerPlace, PlaceIsFree
<1>5. ActiveOnLineInService'
  BY <1>1, <1>2, <1>3 DEF PlantInv, ActiveOnLineInService, ValidSelection
<1>6. OwnerIsEligible'
  BY <1>1, <1>2, <1>3 DEF PlantInv, OwnerIsEligible
<1>7. PendingIsMotivated'
  BY <1>1, <1>3 DEF PlantInv, PendingIsMotivated, Motivated
<1> QED
  BY <1>4, <1>5, <1>6, <1>7 DEF PlantInv

\* The structure of a line is frozen by its active incidents; archiving ends them.
LEMMA LineStepPlant ==
  ASSUME TypeInv, PlantInv, LineStep
  PROVE  PlantInv'
<1>1. PICK l \in Lines :
        \/ \E n \in Numbers, layout \in Layouts, active \in BOOLEAN :
             CreateLine(l, n, layout, active) \/ UpdateLine(l, n, layout, active)
        \/ \E force \in BOOLEAN : ArchiveLine(l, force)
  BY DEF LineStep
<1>2. ASSUME NEW n \in Numbers, NEW layout \in Layouts, NEW active \in BOOLEAN,
             CreateLine(l, n, layout, active) \/ UpdateLine(l, n, layout, active)
      PROVE  PlantInv'
  <2>1. UNCHANGED <<incident, user>>
    BY <1>2 DEF CreateLine, UpdateLine
  <2>2. \A i \in Incidents : incident[i].status \in ActiveStatuses =>
          line'[incident[i].fields.lineId] = line[incident[i].fields.lineId]
    <3> SUFFICES ASSUME NEW i \in Incidents, incident[i].status \in ActiveStatuses
                 PROVE  line'[incident[i].fields.lineId] = line[incident[i].fields.lineId]
      OBVIOUS
    <3>1. incident[i].fields.lineId \in Lines
      BY DEF TypeInv, Declared, ActiveStatuses, Description
    <3>2. line[incident[i].fields.lineId].status = "ACTIVE"
      BY DEF PlantInv, ActiveOnLineInService, ValidSelection
    <3>3. CASE incident[i].fields.lineId # l
      BY <1>2, <3>1, <3>3 DEF CreateLine, UpdateLine, TypeInv, TypeOK
    <3>4. CASE incident[i].fields.lineId = l
      <4>1. i \in ActiveOn(l)
        BY <3>4 DEF ActiveOn
      <4>2. UpdateLine(l, n, layout, active)
        BY <1>2, <3>2, <3>4 DEF CreateLine
      <4>3. active /\ n = line[l].number /\ layout = line[l].machines
        BY <3>2, <3>4, <4>1, <4>2 DEF UpdateLine
      <4>4. line[l] = [status |-> "ACTIVE", number |-> n, machines |-> layout]
        BY <3>2, <3>4, <4>3 DEF TypeInv, TypeOK, Line
      <4> QED
        BY <4>2, <4>3, <4>4 DEF UpdateLine
    <3> QED
      BY <3>3, <3>4
  <2> QED
    BY <2>1, <2>2 DEF PlantInv, OneActivePerPlace, ActiveOnLineInService, ValidSelection,
                      OwnerIsEligible, PendingIsMotivated
<1>3. ASSUME NEW force \in BOOLEAN, ArchiveLine(l, force)
      PROVE  PlantInv'
  <2>1. \A i \in Incidents :
          incident'[i] = IF i \in ActiveOn(l) THEN Canceled(incident[i]) ELSE incident[i]
    BY <1>3 DEF ArchiveLine
  <2>2. \A i \in ActiveOn(l) : Canceled(incident[i]).status = "CANCELED"
    BY DEF Canceled, ActiveOn, TypeInv, TypeOK, Incident
  <2>3. \A i \in Incidents : incident'[i].status \in ActiveStatuses =>
          incident'[i] = incident[i] /\ incident[i].fields.lineId # l
    BY <2>1, <2>2 DEF ActiveOn, ActiveStatuses
  <2>4. \A k \in Lines : k # l => line'[k] = line[k]
    BY <1>3 DEF ArchiveLine, TypeInv, TypeOK
  <2>5. \A i \in Incidents : incident[i].status \in ActiveStatuses =>
          incident[i].fields.lineId \in Lines
    BY DEF TypeInv, Declared, ActiveStatuses, Description
  <2>6. user' = user
    BY <1>3 DEF ArchiveLine
  <2>7. OneActivePerPlace' /\ OwnerIsEligible'
    BY <2>3, <2>6 DEF PlantInv, OneActivePerPlace, OwnerIsEligible
  <2>8. ActiveOnLineInService'
    BY <2>3, <2>4, <2>5 DEF PlantInv, ActiveOnLineInService, ValidSelection
  <2>9. PendingIsMotivated'
    BY <2>1, <2>2, <2>3 DEF PlantInv, PendingIsMotivated, ActiveStatuses
  <2> QED
    BY <2>7, <2>8, <2>9 DEF PlantInv
<1> QED
  BY <1>1, <1>2, <1>3

\* An account that owns an active incident keeps its role and stays active.
LEMMA AccountStepPlant ==
  ASSUME TypeInv, PlantInv, AccountStep
  PROVE  PlantInv'
<1>1. UNCHANGED <<incident, line>>
  BY AccountStepType
<1>2. OwnerIsEligible'
  <2> SUFFICES ASSUME NEW i \in Incidents, incident[i].status \in ActiveStatuses,
                      incident[i].takenBy # Null
               PROVE  /\ user'[incident[i].takenBy].status = "ACTIVE"
                      /\ user'[incident[i].takenBy].role = "MAINTENANCE"
    BY <1>1 DEF OwnerIsEligible
  <2> DEFINE owner == incident[i].takenBy
  <2>1. owner \in Users /\ i \in ActiveTakenBy(owner)
    BY DEF TypeInv, TypeOK, Incident, ActiveTakenBy
  <2>2. user[owner].status = "ACTIVE" /\ user[owner].role = "MAINTENANCE"
    BY DEF PlantInv, OwnerIsEligible
  <2>3. PICK u \in Users : \/ \E role \in Roles : CreateAccount(u, role) \/ ChangeRole(u, role)
                           \/ ActivateAccount(u) \/ DeactivateAccount(u) \/ DeleteAccount(u)
    BY DEF AccountStep
  <2>4. u # owner
    BY <2>1, <2>2, <2>3 DEF CreateAccount, ChangeRole, ActivateAccount, DeactivateAccount,
                            DeleteAccount
  <2>5. user'[owner] = user[owner]
    BY <2>1, <2>3, <2>4 DEF CreateAccount, ChangeRole, ActivateAccount, DeactivateAccount,
                            DeleteAccount, SetUser, TypeInv, TypeOK
  <2> QED
    BY <2>2, <2>5
<1> QED
  BY <1>1, <1>2 DEF PlantInv, OneActivePerPlace, ActiveOnLineInService, ValidSelection,
                    PendingIsMotivated

LEMMA PlantInductive == TypeInv /\ PlantInv /\ [Next]_vars => TypeInv' /\ PlantInv'
<1> SUFFICES ASSUME TypeInv, PlantInv, [Next]_vars PROVE TypeInv' /\ PlantInv'
  OBVIOUS
<1>1. CASE WorkshopStep
  <2>1. Idle => TypeInv'
    BY DEF Idle, TypeInv, TypeOK, Declared, CaseType
  <2>2. Idle => PlantInv'
    BY DEF Idle, PlantInv, OneActivePerPlace, ActiveOnLineInService, ValidSelection,
           OwnerIsEligible, PendingIsMotivated
  <2> QED
    BY <1>1, <2>1, <2>2, WorkshopStepCases, ProgressType, ProgressPlant, RelocationPlant DEF TypeInv
<1>2. CASE LineStep
  BY <1>2, LineStepType, LineStepPlant
<1>3. CASE AccountStep
  BY <1>3, AccountStepType, AccountStepPlant
<1>4. CASE UNCHANGED vars
  BY <1>4 DEF vars, TypeInv, TypeOK, Declared, PlantInv, OneActivePerPlace,
              ActiveOnLineInService, ValidSelection, OwnerIsEligible, PendingIsMotivated
<1> QED
  BY <1>1, <1>2, <1>3, <1>4 DEF Next

LEMMA PlantInvInit == Init => PlantInv
BY DEF Init, NoIncident, ActiveStatuses, PlantInv, OneActivePerPlace, ActiveOnLineInService,
       OwnerIsEligible, PendingIsMotivated

\* Two active incidents are never on the same place, for any number of
\* requests, lines and incidents.
THEOREM PlacesExclusive == Spec => []OneActivePerPlace
<1>1. TypeInv /\ PlantInv => OneActivePerPlace
  BY DEF PlantInv
<1> QED
  BY <1>1, TypeInvInit, PlantInvInit, PlantInductive, PTL DEF Spec

\* The line of an active incident is in service, with the number, the machine
\* and the head the incident names.
THEOREM LinesInService == Spec => []ActiveOnLineInService
<1>1. TypeInv /\ PlantInv => ActiveOnLineInService
  BY DEF PlantInv
<1> QED
  BY <1>1, TypeInvInit, PlantInvInit, PlantInductive, PTL DEF Spec

\* The owner of an active incident is always an eligible technician.
THEOREM OwnersEligible == Spec => []OwnerIsEligible
<1>1. TypeInv /\ PlantInv => OwnerIsEligible
  BY DEF PlantInv
<1> QED
  BY <1>1, TypeInvInit, PlantInvInit, PlantInductive, PTL DEF Spec

\* A suspended incident always has an owner and a reason.
THEOREM SuspensionsMotivated == Spec => []PendingIsMotivated
<1>1. TypeInv /\ PlantInv => PendingIsMotivated
  BY DEF PlantInv
<1> QED
  BY <1>1, TypeInvInit, PlantInvInit, PlantInductive, PTL DEF Spec

-----------------------------------------------------------------------------
(* Arbitration *)

\* The cases and the flags of incident i agree; a cancellation is pending only
\* on an OPEN incident that nobody has taken; an open correction still replaces
\* what it said it would.
SettledAt(i) ==
  /\ incident[i].editRequest # Null <=> HasOpenCase(i, "EDIT")
  /\ incident[i].cancelRequest <=> HasOpenCase(i, "CANCEL")
  /\ \A c, d \in OpenCases(i) : c = d
  /\ OpenCases(i) # {} => incident[i].status \in ActiveStatuses
  /\ incident[i].cancelRequest => incident[i].status = "OPEN" /\ incident[i].takenBy = Null
  /\ incident[i].editRequest # Null =>
       /\ incident[i].editRequest = Changed(incident[i].editRequest, incident[i].fields)
       /\ incident[i].editRequest # NoChange
       /\ \A c \in OpenCases(i) :
            case[c].before = Replaced(incident[i].editRequest, incident[i].fields)

ArbInv ==
  /\ \A i \in Incidents : SettledAt(i)
  /\ \A c \in CaseIds : case[c].status \in OpenStatuses =>
       case[c].incident \in Incidents /\ case[c].type \in {"EDIT", "CANCEL"}

\* Two open cases of one incident are the same case, so an incident waits for
\* a correction or for a cancellation, not for both.
LEMMA OneType ==
  ASSUME NEW i \in Incidents, SettledAt(i), HasOpenCase(i, "EDIT")
  PROVE  ~HasOpenCase(i, "CANCEL")
BY DEF SettledAt, HasOpenCase

\* An incident whose row and open cases a step leaves alone stays settled.
LEMMA Frame ==
  ASSUME NEW i \in Incidents, SettledAt(i),
         incident'[i] = incident[i],
         OpenCases(i)' = OpenCases(i),
         \A c \in OpenCases(i) : case'[c].type = case[c].type /\ case'[c].before = case[c].before
  PROVE  SettledAt(i)'
BY DEF SettledAt, HasOpenCase

\* Without an arbitration an incident is settled, whatever its other columns.
LEMMA NothingPending ==
  ASSUME NEW i \in Incidents, OpenCases(i)' = {},
         incident'[i].editRequest = Null, incident'[i].cancelRequest = FALSE
  PROVE  SettledAt(i)'
BY DEF SettledAt, HasOpenCase

\* Resolving the open case of an incident leaves it none, and touches no other.
LEMMA ResolveOpenCases ==
  ASSUME TypeInv, ArbInv, NEW i \in Incidents, NEW type, HasOpenCase(i, type),
         NEW resolution \in Resolutions, ResolveCase(i, type, resolution)
  PROVE  /\ OpenCases(i)' = {}
         /\ \A j \in Incidents \ {i} : OpenCases(j)' = OpenCases(j)
         /\ \A j \in Incidents \ {i} : \A c \in OpenCases(j) : case'[c] = case[c]
         /\ \A c \in CaseIds : case'[c].status \in OpenStatuses => case'[c] = case[c]
<1>1. PICK c0 \in OpenCases(i) : case[c0].type = type
  BY DEF HasOpenCase
<1>2. OpenCases(i) = {c0}
  BY <1>1 DEF ArbInv, SettledAt
<1>3. case' = [c \in CaseIds |-> IF c = c0 THEN [case[c] EXCEPT !.status = resolution]
                                           ELSE case[c]]
  BY <1>1, <1>2 DEF ResolveCase
<1>4. c0 \in CaseIds /\ case[c0].incident = i /\ case[c0] \in Case
  BY <1>1 DEF OpenCases, TypeInv, TypeOK
<1>5. case'[c0].status = resolution /\ resolution \notin OpenStatuses
  BY <1>3, <1>4 DEF Case, Resolutions, OpenStatuses
<1>6. \A c \in CaseIds \ {c0} : case'[c] = case[c]
  BY <1>3
<1>7. OpenCases(i)' = {}
  BY <1>2, <1>5, <1>6 DEF OpenCases
<1>8. case'[c0].incident = i
  BY <1>3, <1>4 DEF Case
<1>9. \A j \in Incidents \ {i} : OpenCases(j)' = OpenCases(j) /\ c0 \notin OpenCases(j)
  BY <1>4, <1>5, <1>6, <1>8 DEF OpenCases
<1>10. \A j \in Incidents \ {i} : \A c \in OpenCases(j) : case'[c] = case[c]
  BY <1>6, <1>9 DEF OpenCases
<1> QED
  BY <1>5, <1>6, <1>7, <1>9, <1>10

\* Filing a case for an incident that has none gives it that one.
LEMMA FileOpenCases ==
  ASSUME TypeInv, NEW i \in Incidents, OpenCases(i) = {},
         NEW type \in {"EDIT", "CANCEL"}, NEW before, FileCase(i, type, before)
  PROVE  /\ \E c \in CaseIds : /\ OpenCases(i)' = {c}
                               /\ case'[c].type = type /\ case'[c].before = before
         /\ \A j \in Incidents \ {i} : OpenCases(j)' = OpenCases(j)
         /\ \A j \in Incidents \ {i} : \A c \in OpenCases(j) : case'[c] = case[c]
         /\ \A c \in CaseIds : case'[c].status \in OpenStatuses =>
              case'[c] = case[c] \/ (case'[c].incident = i /\ case'[c].type = type)
<1>1. PICK c0 \in CaseIds :
        /\ case[c0].status = "NONE"
        /\ case' = [case EXCEPT ![c0] = [status |-> "ACTIVE", incident |-> i,
                                         type |-> type, before |-> before]]
  BY DEF FileCase
<1>2. case'[c0] = [status |-> "ACTIVE", incident |-> i, type |-> type, before |-> before]
  BY <1>1 DEF TypeInv, TypeOK
<1>3. \A c \in CaseIds \ {c0} : case'[c] = case[c]
  BY <1>1 DEF TypeInv, TypeOK
<1>4. OpenCases(i)' = {c0}
  BY <1>2, <1>3 DEF OpenCases, OpenStatuses
<1>5. \A j \in Incidents \ {i} : OpenCases(j)' = OpenCases(j) /\ c0 \notin OpenCases(j)
  BY <1>1, <1>2, <1>3 DEF OpenCases, OpenStatuses
<1>6. \A j \in Incidents \ {i} : \A c \in OpenCases(j) : case'[c] = case[c]
  BY <1>3, <1>5 DEF OpenCases
<1> QED
  BY <1>2, <1>3, <1>4, <1>5, <1>6
-----------------------------------------------------------------------------
(* The invariant is inductive: services that write one incident *)

\* A service that finds no arbitration and files none.
LEMMA Unarbitrated ==
  ASSUME TypeInv, ArbInv, NEW i \in Incidents, NEW inc,
         OpenCases(i) = {}, case' = case, incident' = [incident EXCEPT ![i] = inc],
         inc.editRequest = Null, inc.cancelRequest = FALSE
  PROVE  ArbInv'
<1>1. \A j \in Incidents : incident'[j] = IF j = i THEN inc ELSE incident[j]
  BY DEF TypeInv, TypeOK
<1>2. \A j \in Incidents : OpenCases(j)' = OpenCases(j)
  BY DEF OpenCases
<1>3. SettledAt(i)'
  BY <1>1, <1>2, NothingPending
<1>4. \A j \in Incidents \ {i} : SettledAt(j)'
  BY <1>1, <1>2, Frame DEF ArbInv
<1> QED
  BY <1>3, <1>4 DEF ArbInv

\* The supervisor's priority and instruction, allowed during an arbitration.
LEMMA Directed ==
  ASSUME TypeInv, ArbInv, NEW i \in Incidents, NEW inc,
         case' = case, incident' = [incident EXCEPT ![i] = inc],
         inc.editRequest = incident[i].editRequest,
         inc.cancelRequest = incident[i].cancelRequest,
         inc.fields = incident[i].fields, inc.status = incident[i].status,
         inc.takenBy = incident[i].takenBy
  PROVE  ArbInv'
<1>1. \A j \in Incidents : incident'[j] = IF j = i THEN inc ELSE incident[j]
  BY DEF TypeInv, TypeOK
<1>2. \A j \in Incidents : OpenCases(j)' = OpenCases(j)
  BY DEF OpenCases
<1>3. SettledAt(i)'
  <2>1. SettledAt(i)
    BY DEF ArbInv
  <2> QED
    BY <1>1, <1>2, <2>1 DEF SettledAt, HasOpenCase
<1>4. \A j \in Incidents \ {i} : SettledAt(j)'
  BY <1>1, <1>2, Frame DEF ArbInv
<1> QED
  BY <1>3, <1>4 DEF ArbInv

\* A service that files a case where there was none.
LEMMA Requested ==
  ASSUME TypeInv, ArbInv, NEW i \in Incidents, NEW inc,
         OpenCases(i) = {}, incident' = [incident EXCEPT ![i] = inc],
         inc.status \in ActiveStatuses,
         NEW type \in {"EDIT", "CANCEL"}, NEW before, FileCase(i, type, before),
         inc.editRequest # Null <=> type = "EDIT",
         inc.cancelRequest <=> type = "CANCEL",
         type = "CANCEL" => inc.status = "OPEN" /\ inc.takenBy = Null,
         type = "EDIT" => /\ inc.editRequest = Changed(inc.editRequest, inc.fields)
                          /\ inc.editRequest # NoChange
                          /\ before = Replaced(inc.editRequest, inc.fields)
  PROVE  ArbInv'
<1>1. \A j \in Incidents : incident'[j] = IF j = i THEN inc ELSE incident[j]
  BY DEF TypeInv, TypeOK
<1>2. PICK c \in CaseIds : OpenCases(i)' = {c} /\ case'[c].type = type /\ case'[c].before = before
  BY FileOpenCases
<1>3. SettledAt(i)'
  BY <1>1, <1>2 DEF SettledAt, HasOpenCase
<1>4. \A j \in Incidents \ {i} : SettledAt(j)'
  BY <1>1, FileOpenCases, Frame DEF ArbInv
<1>5. \A d \in CaseIds : case'[d].status \in OpenStatuses =>
        case'[d].incident \in Incidents /\ case'[d].type \in {"EDIT", "CANCEL"}
  BY FileOpenCases DEF ArbInv
<1> QED
  BY <1>3, <1>4, <1>5 DEF ArbInv

\* A service that resolves the open case and lowers both flags.
LEMMA Resolved ==
  ASSUME TypeInv, ArbInv, NEW i \in Incidents, NEW inc, NEW type, HasOpenCase(i, type),
         incident' = [incident EXCEPT ![i] = inc],
         NEW resolution \in Resolutions, ResolveCase(i, type, resolution),
         inc.editRequest = Null, inc.cancelRequest = FALSE
  PROVE  ArbInv'
<1>1. \A j \in Incidents : incident'[j] = IF j = i THEN inc ELSE incident[j]
  BY DEF TypeInv, TypeOK
<1>2. SettledAt(i)'
  BY <1>1, ResolveOpenCases, NothingPending
<1>3. \A j \in Incidents \ {i} : SettledAt(j)'
  BY <1>1, ResolveOpenCases, Frame DEF ArbInv
<1>4. \A c \in CaseIds : case'[c].status \in OpenStatuses =>
        case'[c].incident \in Incidents /\ case'[c].type \in {"EDIT", "CANCEL"}
  BY ResolveOpenCases DEF ArbInv
<1> QED
  BY <1>2, <1>3, <1>4 DEF ArbInv

\* Nothing happens to the incidents, nor to the open cases.
LEMMA Untouched ==
  ASSUME ArbInv, UNCHANGED <<incident, case>>
  PROVE  ArbInv'
<1>1. \A i \in Incidents : OpenCases(i)' = OpenCases(i)
  BY DEF OpenCases
<1> QED
  BY <1>1, Frame DEF ArbInv

LEMMA CreateArb ==
  ASSUME TypeInv, ArbInv, NEW u \in Users, NEW i \in Incidents, NEW d \in Description,
         Create(u, i, d)
  PROVE  ArbInv'
<1> DEFINE new == [NoIncident EXCEPT !.status = "OPEN", !.user_id = u, !.fields = d,
                                     !.lineNumber = line[d.lineId].number]
<1>1. incident' = [incident EXCEPT ![i] = new] /\ case' = case
  BY DEF Create, SetIncident
<1>2. new.editRequest = Null /\ new.cancelRequest = FALSE
  BY DEF NoIncident
<1>3. OpenCases(i) = {}
  BY DEF Create, ArbInv, SettledAt, ActiveStatuses
<1> HIDE DEF new
<1> QED
  BY <1>1, <1>2, <1>3, Unarbitrated

LEMMA EditArb ==
  ASSUME TypeInv, ArbInv, NEW u \in Users, NEW i \in Incidents, NEW p \in EditPayload,
         Edit(u, i, p)
  PROVE  ArbInv'
<1> DEFINE d == Merge(Changed(p, incident[i].fields), incident[i].fields)
           new == [incident[i] EXCEPT !.fields = d, !.lineNumber = line[d.lineId].number]
<1>1. incident' = [incident EXCEPT ![i] = new] /\ case' = case /\ NoArbitration(i)
  BY DEF Edit, SetIncident
<1> HIDE DEF d
<1>2. new.editRequest = incident[i].editRequest /\ new.cancelRequest = incident[i].cancelRequest
  BY DEF TypeInv, TypeOK, Incident
<1>3. incident[i].cancelRequest \in BOOLEAN
  BY DEF TypeInv, TypeOK, Incident
<1> HIDE DEF new
<1> QED
  BY <1>1, <1>2, <1>3, Unarbitrated DEF NoArbitration, HasPendingArbitration

LEMMA DispatchArb ==
  ASSUME TypeInv, ArbInv, NEW u \in Users, NEW i \in Incidents, DispatchStep(u, i)
  PROVE  ArbInv'
<1> DEFINE old == incident[i]
<1>1. old \in Incident /\ old.cancelRequest \in BOOLEAN
  BY DEF TypeInv, TypeOK, Incident
<1>2. case' = case
  BY DEF DispatchStep, Take, SetPending, Resume, Close, Invalidate, SetPriority,
         SetResponsibleComment, CancelDirectly
<1>3. ASSUME NoArbitration(i), NEW new, incident' = [incident EXCEPT ![i] = new],
             new.editRequest = old.editRequest, new.cancelRequest = old.cancelRequest
      PROVE  ArbInv'
  BY <1>1, <1>2, <1>3, Unarbitrated DEF NoArbitration, HasPendingArbitration
<1>4. CASE Take(u, i)
  <2> DEFINE new == [old EXCEPT !.takenBy = u]
  <2>1. NoArbitration(i) /\ incident' = [incident EXCEPT ![i] = new]
    BY <1>4 DEF Take, SetIncident
  <2>2. new.editRequest = old.editRequest /\ new.cancelRequest = old.cancelRequest
    BY <1>1 DEF Incident
  <2> HIDE DEF new
  <2> QED
    BY <1>3, <2>1, <2>2
<1>5. ASSUME NEW reason \in AnyText, SetPending(u, i, reason)
      PROVE  ArbInv'
  <2> DEFINE new == [old EXCEPT !.status = "PENDING",
                                !.waiting = IF reason = Null THEN @ ELSE reason]
  <2>1. NoArbitration(i) /\ incident' = [incident EXCEPT ![i] = new]
    BY <1>5 DEF SetPending, SetIncident
  <2>2. new.editRequest = old.editRequest /\ new.cancelRequest = old.cancelRequest
    BY <1>1 DEF Incident
  <2> HIDE DEF new
  <2> QED
    BY <1>3, <2>1, <2>2
<1>6. CASE Resume(u, i)
  <2> DEFINE new == [old EXCEPT !.status = "OPEN", !.waiting = Null]
  <2>1. NoArbitration(i) /\ incident' = [incident EXCEPT ![i] = new]
    BY <1>6 DEF Resume, SetIncident
  <2>2. new.editRequest = old.editRequest /\ new.cancelRequest = old.cancelRequest
    BY <1>1 DEF Incident
  <2> HIDE DEF new
  <2> QED
    BY <1>3, <2>1, <2>2
<1>7. ASSUME NEW note \in AnyText, Close(u, i, note)
      PROVE  ArbInv'
  <2> DEFINE new == [old EXCEPT !.status = "CLOSED",
                                !.note = IF note = Null THEN @ ELSE note]
  <2>1. NoArbitration(i) /\ incident' = [incident EXCEPT ![i] = new]
    BY <1>7 DEF Close, SetIncident
  <2>2. new.editRequest = old.editRequest /\ new.cancelRequest = old.cancelRequest
    BY <1>1 DEF Incident
  <2> HIDE DEF new
  <2> QED
    BY <1>3, <2>1, <2>2
<1>8. CASE Invalidate(u, i)
  <2> DEFINE new == [old EXCEPT !.status = "INVALIDATED", !.editRequest = Null,
                                !.cancelRequest = FALSE]
  <2>1. OpenCases(i) = {}
    BY <1>8 DEF Invalidate, CanInvalidate, ArbInv, SettledAt, ActiveStatuses
  <2>2. incident' = [incident EXCEPT ![i] = new]
    BY <1>8 DEF Invalidate, SetIncident
  <2>3. new.editRequest = Null /\ new.cancelRequest = FALSE
    BY <1>1 DEF Incident
  <2> HIDE DEF new
  <2> QED
    BY <1>2, <2>1, <2>2, <2>3, Unarbitrated
<1>9. ASSUME NEW priority \in BOOLEAN, SetPriority(u, i, priority)
      PROVE  ArbInv'
  BY <1>1, <1>2, <1>9, Directed DEF SetPriority, SetIncident, Incident
<1>10. ASSUME NEW comment \in Texts \cup {Null}, SetResponsibleComment(u, i, comment)
       PROVE  ArbInv'
  BY <1>1, <1>2, <1>10, Directed DEF SetResponsibleComment, SetIncident, Incident
<1>11. CASE CancelDirectly(u, i)
  <2> DEFINE new == [old EXCEPT !.status = "CANCELED", !.editRequest = Null,
                                !.cancelRequest = FALSE]
  <2>1. OpenCases(i) = {} /\ incident' = [incident EXCEPT ![i] = new]
    BY <1>11 DEF CancelDirectly, Canceled, SetIncident
  <2>2. new.editRequest = Null /\ new.cancelRequest = FALSE
    BY <1>1 DEF Incident
  <2> HIDE DEF new
  <2> QED
    BY <1>2, <2>1, <2>2, Unarbitrated
<1> QED
  BY <1>4, <1>5, <1>6, <1>7, <1>8, <1>9, <1>10, <1>11 DEF DispatchStep

\* What really changes is all of what changes: the diff of a diff is itself.
LEMMA ChangedIdempotent ==
  ASSUME NEW p \in EditPayload, NEW d \in Description
  PROVE  Changed(Changed(p, d), d) = Changed(p, d)
BY ValuesAreDistinct DEF Changed, EditPayload, Description, EditFields

\* The diff a request freezes is never the SQL NULL.
LEMMA ChangedIsNotNull ==
  ASSUME NEW p \in EditPayload, NEW d \in Description
  PROVE  Changed(p, d) # Null
BY ChangedType, ValuesAreDistinct

LEMMA ArbitrationArb ==
  ASSUME TypeInv, ArbInv, PendingIsMotivated,
         NEW u \in Users, NEW i \in Incidents, ArbitrationStep(u, i)
  PROVE  ArbInv'
<1> DEFINE old == incident[i]
<1>1. old \in Incident /\ old.cancelRequest \in BOOLEAN
  BY DEF TypeInv, TypeOK, Incident
<1>2. SettledAt(i)
  BY DEF ArbInv
<1>3. ASSUME NEW p \in EditPayload, RequestEdit(u, i, p)
      PROVE  ArbInv'
  <2> DEFINE changes == Changed(p, old.fields)
             new == [old EXCEPT !.editRequest = changes]
             before == Replaced(changes, old.fields)
  <2>1. /\ NoArbitration(i) /\ changes # NoChange
        /\ old.status \in ActiveStatuses
        /\ incident' = [incident EXCEPT ![i] = new]
        /\ FileCase(i, "EDIT", before)
    BY <1>3 DEF RequestEdit, SetIncident, CanRequestEdit, IsActiveIncident
  <2>2. old.fields \in Description
    BY <1>1, <2>1 DEF TypeInv, Declared, ActiveStatuses
  <2>3. changes = Changed(changes, old.fields) /\ changes # Null
    BY <2>2, ChangedIdempotent, ChangedIsNotNull
  <2> HIDE DEF changes
  <2>4. /\ new.editRequest = changes /\ new.cancelRequest = old.cancelRequest
        /\ new.status = old.status /\ new.fields = old.fields
    BY <1>1 DEF Incident
  <2>5. OpenCases(i) = {} /\ old.cancelRequest = FALSE
    BY <1>1, <2>1 DEF NoArbitration, HasPendingArbitration
  <2> HIDE DEF new
  <2>6. FileCase(i, "EDIT", Replaced(new.editRequest, new.fields))
    BY <2>1, <2>4
  <2> QED
    BY <2>1, <2>3, <2>4, <2>5, <2>6, Requested
<1>4. CASE RequestCancel(u, i)
  <2> DEFINE new == [old EXCEPT !.cancelRequest = TRUE]
  <2>1. /\ NoArbitration(i) /\ old.status \in ActiveStatuses /\ old.takenBy = Null
        /\ incident' = [incident EXCEPT ![i] = new]
        /\ FileCase(i, "CANCEL", Null)
    BY <1>4 DEF RequestCancel, SetIncident, CanRequestCancel, IsActiveIncident
  <2>2. old.status = "OPEN"
    BY <2>1 DEF ActiveStatuses, PendingIsMotivated
  <2>3. /\ new.editRequest = old.editRequest /\ new.cancelRequest = TRUE
        /\ new.status = old.status /\ new.takenBy = old.takenBy
    BY <1>1 DEF Incident
  <2>4. OpenCases(i) = {} /\ old.editRequest = Null
    BY <2>1 DEF NoArbitration, HasPendingArbitration
  <2> HIDE DEF new
  <2> QED
    BY <2>1, <2>2, <2>3, <2>4, Requested
<1>5. ASSUME NEW type, HasOpenCase(i, type), NEW resolution \in Resolutions,
             ResolveCase(i, type, resolution), NEW new, incident' = [incident EXCEPT ![i] = new],
             \/ /\ type = "EDIT"
                /\ new.editRequest = Null /\ new.cancelRequest = old.cancelRequest
             \/ /\ type = "CANCEL"
                /\ new.editRequest = old.editRequest /\ new.cancelRequest = FALSE
             \/ new.editRequest = Null /\ new.cancelRequest = FALSE
      PROVE  ArbInv'
  <2>1. new.editRequest = Null /\ new.cancelRequest = FALSE
    BY <1>1, <1>2, <1>5, OneType DEF SettledAt
  <2> QED
    BY <1>5, <2>1, Resolved
<1>6. CASE WithdrawEdit(u, i) \/ RejectEdit(u, i)
  <2> DEFINE new == [old EXCEPT !.editRequest = Null]
  <2>1. PICK resolution \in Resolutions :
          /\ HasOpenCase(i, "EDIT") /\ ResolveCase(i, "EDIT", resolution)
          /\ incident' = [incident EXCEPT ![i] = new]
    BY <1>6 DEF WithdrawEdit, RejectEdit, SetIncident, Resolutions
  <2>2. new.editRequest = Null /\ new.cancelRequest = old.cancelRequest
    BY <1>1 DEF Incident
  <2> HIDE DEF new
  <2> QED
    BY <1>5, <2>1, <2>2
<1>7. CASE ApproveEdit(u, i)
  <2> DEFINE d == Merge(old.editRequest, old.fields)
             new == [old EXCEPT !.fields = d, !.lineNumber = line[d.lineId].number,
                                !.editRequest = Null]
  <2>1. /\ HasOpenCase(i, "EDIT") /\ ResolveCase(i, "EDIT", "APPROVED")
        /\ incident' = [incident EXCEPT ![i] = new]
    BY <1>7 DEF ApproveEdit, SetIncident
  <2> HIDE DEF d
  <2>2. new.editRequest = Null /\ new.cancelRequest = old.cancelRequest
    BY <1>1 DEF Incident
  <2> HIDE DEF new
  <2> QED
    BY <1>5, <2>1, <2>2 DEF Resolutions
<1>8. CASE WithdrawCancel(u, i) \/ RejectCancel(u, i)
  <2> DEFINE new == [old EXCEPT !.cancelRequest = FALSE]
  <2>1. PICK resolution \in Resolutions :
          /\ HasOpenCase(i, "CANCEL") /\ ResolveCase(i, "CANCEL", resolution)
          /\ incident' = [incident EXCEPT ![i] = new]
    BY <1>8 DEF WithdrawCancel, RejectCancel, SetIncident, Resolutions
  <2>2. new.editRequest = old.editRequest /\ new.cancelRequest = FALSE
    BY <1>1 DEF Incident
  <2> HIDE DEF new
  <2> QED
    BY <1>5, <2>1, <2>2
<1>9. CASE ApproveCancel(u, i)
  <2> DEFINE new == [old EXCEPT !.status = "CANCELED", !.editRequest = Null,
                                !.cancelRequest = FALSE]
  <2>1. /\ HasOpenCase(i, "CANCEL") /\ ResolveCase(i, "CANCEL", "APPROVED")
        /\ incident' = [incident EXCEPT ![i] = new]
    BY <1>9 DEF ApproveCancel, Canceled, SetIncident
  <2>2. new.editRequest = Null /\ new.cancelRequest = FALSE
    BY <1>1 DEF Incident
  <2> HIDE DEF new
  <2> QED
    BY <1>5, <2>1, <2>2 DEF Resolutions
<1>10. CASE Consult(u, i)
  <2>1. PICK c0 \in OpenCases(i) : case' = [case EXCEPT ![c0].status = "CONSULTED"]
    BY <1>10 DEF Consult
  <2>2. incident' = incident /\ c0 \in CaseIds /\ case[c0] \in Case
    BY <1>10, <2>1 DEF Consult, OpenCases, TypeInv, TypeOK
  <2>3. /\ case'[c0] = [case[c0] EXCEPT !.status = "CONSULTED"]
        /\ \A c \in CaseIds \ {c0} : case'[c] = case[c]
    BY <2>1, <2>2 DEF TypeInv, TypeOK
  <2>4. /\ case[c0].status \in OpenStatuses /\ case'[c0].status \in OpenStatuses
        /\ \A c \in CaseIds : /\ case'[c].incident = case[c].incident
                              /\ case'[c].type = case[c].type
                              /\ case'[c].before = case[c].before
    BY <2>1, <2>2, <2>3 DEF OpenCases, OpenStatuses, Case
  <2>5. \A c \in CaseIds : case'[c].status \in OpenStatuses <=> case[c].status \in OpenStatuses
    BY <2>3, <2>4
  <2>6. \A j \in Incidents : OpenCases(j)' = OpenCases(j)
    BY <2>4, <2>5 DEF OpenCases
  <2>7. \A j \in Incidents : OpenCases(j) \subseteq CaseIds
    BY DEF OpenCases
  <2>8. \A j \in Incidents : SettledAt(j)'
    BY <2>2, <2>4, <2>6, <2>7, Frame DEF ArbInv
  <2> QED
    BY <2>4, <2>5, <2>8 DEF ArbInv
<1> QED
  BY <1>3, <1>4, <1>6, <1>7, <1>8, <1>9, <1>10 DEF ArbitrationStep

-----------------------------------------------------------------------------
(* The invariant is inductive: the administrator *)

\* Archiving a line cancels its active incidents and supersedes their cases.
LEMMA ArchiveLineArb ==
  ASSUME TypeInv, ArbInv, NEW l \in Lines, NEW force \in BOOLEAN, ArchiveLine(l, force)
  PROVE  ArbInv'
<1>1. \A i \in Incidents : incident'[i] = IF i \in ActiveOn(l) THEN Canceled(incident[i])
                                                              ELSE incident[i]
  BY DEF ArchiveLine
<1>2. \A c \in CaseIds : /\ case[c] \in Case
                         /\ case'[c] = IF \E i \in ActiveOn(l) : c \in OpenCases(i)
                                       THEN [case[c] EXCEPT !.status = "SUPERSEDED"]
                                       ELSE case[c]
  BY DEF ArchiveLine, TypeInv, TypeOK
<1>3. \A c \in CaseIds : case'[c].incident = case[c].incident
  BY <1>2 DEF Case
<1>4. \A c \in CaseIds : case'[c].status \in OpenStatuses => case'[c] = case[c]
  BY <1>2 DEF Case, OpenStatuses
<1>5. ASSUME NEW i \in Incidents, i \in ActiveOn(l)
      PROVE  SettledAt(i)'
  <2>1. \A c \in OpenCases(i) : case'[c].status = "SUPERSEDED"
    BY <1>2, <1>5 DEF OpenCases, Case
  <2>2. \A c \in OpenCases(i) : case'[c].status \notin OpenStatuses
    BY <2>1 DEF OpenStatuses
  <2>3. OpenCases(i)' = {}
    BY <1>3, <1>4, <2>2 DEF OpenCases
  <2>4. incident'[i].editRequest = Null /\ incident'[i].cancelRequest = FALSE
    BY <1>1, <1>5 DEF Canceled, TypeInv, TypeOK, Incident
  <2> QED
    BY <2>3, <2>4, NothingPending
<1>6. ASSUME NEW i \in Incidents, i \notin ActiveOn(l)
      PROVE  SettledAt(i)'
  <2>1. \A c \in OpenCases(i) : case'[c] = case[c]
    BY <1>2, <1>6 DEF OpenCases
  <2>2. OpenCases(i)' = OpenCases(i)
    BY <1>2, <1>3, <1>4, <2>1 DEF OpenCases
  <2> QED
    BY <1>1, <1>6, <2>1, <2>2, Frame DEF ArbInv
<1> QED
  BY <1>4, <1>5, <1>6 DEF ArbInv

LEMMA ArbInvInit == Init => ArbInv
BY DEF Init, ArbInv, SettledAt, OpenCases, HasOpenCase, NoIncident, NoCase, OpenStatuses

LEMMA ArbInductive == TypeInv /\ PlantInv /\ ArbInv /\ [Next]_vars => ArbInv'
<1> SUFFICES ASSUME TypeInv, PlantInv, ArbInv, [Next]_vars PROVE ArbInv'
  OBVIOUS
<1>1. CASE WorkshopStep
  <2>1. PICK u \in Users :
          \/ Authenticate(u) \/ EndWithoutWrite(u)
          \/ \E i \in Incidents :
               \/ \E d \in Description : Create(u, i, d)
               \/ \E p \in EditPayload : Edit(u, i, p)
               \/ DispatchStep(u, i) \/ ArbitrationStep(u, i)
    BY <1>1 DEF WorkshopStep
  <2>2. CASE Authenticate(u) \/ EndWithoutWrite(u)
    BY <2>2, Untouched DEF Authenticate, EndWithoutWrite
  <2> QED
    BY <2>1, <2>2, CreateArb, EditArb, DispatchArb, ArbitrationArb DEF PlantInv
<1>2. CASE LineStep
  <2>1. PICK l \in Lines :
          \/ \E n \in Numbers, layout \in Layouts, active \in BOOLEAN :
               CreateLine(l, n, layout, active) \/ UpdateLine(l, n, layout, active)
          \/ \E force \in BOOLEAN : ArchiveLine(l, force)
    BY <1>2 DEF LineStep
  <2> QED
    BY <2>1, ArchiveLineArb, Untouched DEF CreateLine, UpdateLine
<1>3. CASE AccountStep
  BY <1>3, Untouched DEF AccountStep, CreateAccount, ChangeRole, ActivateAccount,
                         DeactivateAccount, DeleteAccount, SetUser
<1>4. CASE UNCHANGED vars
  BY <1>4, Untouched DEF vars
<1> QED
  BY <1>1, <1>2, <1>3, <1>4 DEF Next

-----------------------------------------------------------------------------
(* What follows for every execution *)

\* The flags of the incidents and the table of cases never disagree.
THEOREM ArbitrationsAligned == Spec => []ArbitrationAligned
<1>1. TypeInv /\ ArbInv => ArbitrationAligned
  BY DEF ArbInv, SettledAt, ArbitrationAligned, OpenCases
<1> QED
  BY <1>1, TypeInvInit, PlantInvInit, ArbInvInit, PlantInductive, ArbInductive, PTL DEF Spec

\* The supervisor always decides on a true diff.
THEOREM FrozenBeforeCurrent == Spec => []FrozenBeforeIsCurrent
<1>1. ArbInv => FrozenBeforeIsCurrent
  <2> SUFFICES ASSUME ArbInv, NEW c \in CaseIds, case[c].status \in OpenStatuses,
                      case[c].type = "EDIT"
               PROVE  LET inc == incident[case[c].incident]
                      IN /\ case[c].before = Replaced(inc.editRequest, inc.fields)
                         /\ inc.editRequest = Changed(inc.editRequest, inc.fields)
                         /\ inc.editRequest # NoChange
    BY DEF FrozenBeforeIsCurrent
  <2>1. case[c].incident \in Incidents /\ c \in OpenCases(case[c].incident)
    BY DEF ArbInv, OpenCases
  <2> QED
    BY <2>1 DEF ArbInv, SettledAt, HasOpenCase
<1> QED
  BY <1>1, TypeInvInit, PlantInvInit, ArbInvInit, PlantInductive, ArbInductive, PTL DEF Spec

-----------------------------------------------------------------------------
(* What a step may never do *)

AllInv == TypeInv /\ PlantInv /\ ArbInv

LEMMA AllInductive == AllInv /\ [Next]_vars => AllInv'
BY PlantInductive, ArbInductive DEF AllInv

LEMMA AllInit == Init => AllInv
BY TypeInvInit, PlantInvInit, ArbInvInit DEF AllInv

\* The cases of incident i that are open before and after the step.
StillOpen(i) == {c \in OpenCases(i) : case'[c].status \in OpenStatuses}

\* Row inc may replace row i: the final statuses, the technician's ownership
\* and the arbitration in progress are respected.
Respects(inc, i) ==
  /\ incident[i].status \in TerminalStatuses =>
       /\ incident[i].status = "CLOSED"
       /\ inc = [incident[i] EXCEPT !.status = "INVALIDATED"]
  /\ incident[i].status = "OPEN" /\ incident[i].takenBy # Null => inc.status # "CANCELED"
  /\ StillOpen(i) # {} => \E priority, comment :
       inc = [incident[i] EXCEPT !.priority = priority, !.comment = comment]

\* A service that finds no arbitration on an active incident, and does not
\* cancel it, respects it.
LEMMA ActiveRespected ==
  ASSUME NEW i \in Incidents, NEW inc,
         incident[i].status \notin TerminalStatuses, OpenCases(i) = {},
         inc.status # "CANCELED"
  PROVE  Respects(inc, i)
BY DEF Respects, StillOpen

\* So does one that resolves the only open case.
LEMMA ResolvedRespected ==
  ASSUME TypeInv, ArbInv, NEW i \in Incidents, NEW inc, NEW type, HasOpenCase(i, type),
         NEW resolution \in Resolutions, ResolveCase(i, type, resolution),
         inc.status = "CANCELED" => type = "CANCEL"
  PROVE  Respects(inc, i)
<1>1. SettledAt(i) /\ OpenCases(i) # {}
  BY DEF ArbInv, HasOpenCase
<1>2. incident[i].status \notin TerminalStatuses
  BY <1>1 DEF SettledAt, ActiveStatuses, TerminalStatuses
<1>3. type = "CANCEL" => incident[i].takenBy = Null
  BY <1>1 DEF SettledAt
<1>4. StillOpen(i) = {}
  <2>1. OpenCases(i)' = {}
    BY ResolveOpenCases
  <2>2. \A c \in OpenCases(i) : case'[c].incident = case[c].incident
    BY DEF ResolveCase, OpenCases, TypeInv, TypeOK, Case
  <2> QED
    BY <2>1, <2>2 DEF StillOpen, OpenCases
<1> QED
  BY <1>2, <1>3, <1>4 DEF Respects

LEMMA DispatchRespects ==
  ASSUME AllInv, NEW u \in Users, NEW i \in Incidents, DispatchStep(u, i)
  PROVE  \E inc : SetIncident(i, inc) /\ Respects(inc, i)
<1> DEFINE old == incident[i]
<1>1. old \in Incident
  BY DEF AllInv, TypeInv, TypeOK
<1>2. ASSUME NEW inc \in Incident, SetIncident(i, inc), NoArbitration(i),
             IsActiveIncident(old), inc.status # "CANCELED"
      PROVE  \E row : SetIncident(i, row) /\ Respects(row, i)
  BY <1>2, ActiveRespected DEF NoArbitration, IsActiveIncident, ActiveStatuses, TerminalStatuses
<1>3. CASE Take(u, i)
  <2> DEFINE new == [old EXCEPT !.takenBy = u]
  <2>1. new \in Incident /\ new.status = "OPEN"
    BY <1>1, <1>3 DEF Take, CanTake, Incident
  <2> QED
    BY <1>2, <1>3, <2>1 DEF Take, CanTake, IsActiveIncident, ActiveStatuses
<1>4. ASSUME NEW reason \in AnyText, SetPending(u, i, reason)
      PROVE  \E inc : SetIncident(i, inc) /\ Respects(inc, i)
  <2> DEFINE new == [old EXCEPT !.status = "PENDING",
                                !.waiting = IF reason = Null THEN @ ELSE reason]
  <2>1. new \in Incident /\ new.status = "PENDING"
    BY <1>1 DEF Incident, ActiveStatuses
  <2> QED
    BY <1>2, <1>4, <2>1 DEF SetPending, CanSuspendOrClose, IsActiveIncident, ActiveStatuses
<1>5. CASE Resume(u, i)
  <2> DEFINE new == [old EXCEPT !.status = "OPEN", !.waiting = Null]
  <2>1. new \in Incident /\ new.status = "OPEN"
    BY <1>1 DEF Incident, ActiveStatuses, AnyText
  <2> QED
    BY <1>2, <1>5, <2>1 DEF Resume, CanResume, IsActiveIncident, ActiveStatuses
<1>6. ASSUME NEW note \in AnyText, Close(u, i, note)
      PROVE  \E inc : SetIncident(i, inc) /\ Respects(inc, i)
  <2> DEFINE new == [old EXCEPT !.status = "CLOSED",
                                !.note = IF note = Null THEN @ ELSE note]
  <2>1. new \in Incident /\ new.status = "CLOSED"
    BY <1>1 DEF Incident, TerminalStatuses
  <2> QED
    BY <1>2, <1>6, <2>1 DEF Close, CanSuspendOrClose, IsActiveIncident, ActiveStatuses
<1>7. CASE Invalidate(u, i)
  <2> DEFINE new == [old EXCEPT !.status = "INVALIDATED", !.editRequest = Null,
                                !.cancelRequest = FALSE]
  <2>1. SettledAt(i) /\ old.status = "CLOSED" /\ SetIncident(i, new)
    BY <1>7 DEF AllInv, ArbInv, Invalidate, CanInvalidate
  <2>2. OpenCases(i) = {} /\ old.editRequest = Null /\ old.cancelRequest = FALSE
    BY <1>1, <2>1 DEF SettledAt, HasOpenCase, ActiveStatuses, Incident
  <2>3. new = [old EXCEPT !.status = "INVALIDATED"]
    BY <1>1, <2>2 DEF Incident
  <2> QED
    BY <2>1, <2>2, <2>3 DEF Respects, StillOpen
<1>8. ASSUME NEW priority \in BOOLEAN, SetPriority(u, i, priority)
      PROVE  \E inc : SetIncident(i, inc) /\ Respects(inc, i)
  <2> DEFINE new == [old EXCEPT !.priority = priority]
  <2>1. new = [old EXCEPT !.priority = priority, !.comment = old.comment]
    BY <1>1 DEF Incident
  <2>2. old.status \in ActiveStatuses /\ new.status = old.status /\ SetIncident(i, new)
    BY <1>1, <1>8 DEF SetPriority, CanDirect, IsActiveIncident, Incident
  <2> QED
    BY <2>1, <2>2 DEF Respects, ActiveStatuses, TerminalStatuses
<1>9. ASSUME NEW comment \in Texts \cup {Null}, SetResponsibleComment(u, i, comment)
      PROVE  \E inc : SetIncident(i, inc) /\ Respects(inc, i)
  <2> DEFINE new == [old EXCEPT !.comment = comment]
  <2>1. new = [old EXCEPT !.priority = old.priority, !.comment = comment]
    BY <1>1 DEF Incident
  <2>2. old.status \in ActiveStatuses /\ new.status = old.status /\ SetIncident(i, new)
    BY <1>1, <1>9 DEF SetResponsibleComment, CanDirect, IsActiveIncident, Incident
  <2> QED
    BY <2>1, <2>2 DEF Respects, ActiveStatuses, TerminalStatuses
<1>10. CASE CancelDirectly(u, i)
  <2>1. /\ OpenCases(i) = {} /\ SetIncident(i, Canceled(old))
        /\ old.status = "PENDING" \/ old.takenBy = Null
        /\ old.status \notin TerminalStatuses
    BY <1>10 DEF CancelDirectly, CanCancel, TerminalStatuses
  <2> QED
    BY <2>1 DEF Respects, StillOpen
<1> QED
  BY <1>3, <1>4, <1>5, <1>6, <1>7, <1>8, <1>9, <1>10 DEF DispatchStep

\* A declaration writes a row that did not exist, and an edit an active one.
LEMMA DescriptionRespects ==
  ASSUME AllInv, NEW u \in Users, NEW i \in Incidents,
         \/ \E d \in Description : Create(u, i, d)
         \/ \E p \in EditPayload : Edit(u, i, p)
  PROVE  \E inc : SetIncident(i, inc) /\ Respects(inc, i)
<1>1. incident[i] \in Incident
  BY DEF AllInv, TypeInv, TypeOK
<1>2. ASSUME NEW d \in Description, Create(u, i, d)
      PROVE  \E inc : SetIncident(i, inc) /\ Respects(inc, i)
  <2> DEFINE new == [NoIncident EXCEPT !.status = "OPEN", !.user_id = u, !.fields = d,
                                       !.lineNumber = line[d.lineId].number]
  <2>1. incident[i].status = "ABSENT" /\ SetIncident(i, new)
    BY <1>2 DEF Create
  <2>2. new.status = "OPEN" /\ OpenCases(i) = {}
    BY <2>1 DEF NoIncident, AllInv, ArbInv, SettledAt, ActiveStatuses
  <2> HIDE DEF new
  <2> QED
    BY <2>1, <2>2, ActiveRespected DEF TerminalStatuses
<1>3. ASSUME NEW p \in EditPayload, Edit(u, i, p)
      PROVE  \E inc : SetIncident(i, inc) /\ Respects(inc, i)
  <2> DEFINE d == Merge(Changed(p, incident[i].fields), incident[i].fields)
             new == [incident[i] EXCEPT !.fields = d, !.lineNumber = line[d.lineId].number]
  <2>1. SetIncident(i, new) /\ OpenCases(i) = {} /\ incident[i].status \in ActiveStatuses
    BY <1>3 DEF Edit, NoArbitration, CanEdit, IsActiveIncident
  <2> HIDE DEF d
  <2>2. new.status = incident[i].status
    BY <1>1 DEF Incident
  <2> HIDE DEF new
  <2> QED
    BY <2>1, <2>2, ActiveRespected DEF ActiveStatuses, TerminalStatuses
<1> QED
  BY <1>2, <1>3

LEMMA ArbitrationRespects ==
  ASSUME AllInv, NEW u \in Users, NEW i \in Incidents, ArbitrationStep(u, i)
  PROVE  \/ incident' = incident
         \/ \E inc : SetIncident(i, inc) /\ Respects(inc, i)
<1> DEFINE old == incident[i]
<1>1. old \in Incident /\ TypeInv /\ ArbInv
  BY DEF AllInv, TypeInv, TypeOK
<1>2. ASSUME NEW p \in EditPayload, RequestEdit(u, i, p)
      PROVE  \E inc : SetIncident(i, inc) /\ Respects(inc, i)
  <2> DEFINE changes == Changed(p, old.fields)
             new == [old EXCEPT !.editRequest = changes]
  <2>1. SetIncident(i, new) /\ OpenCases(i) = {} /\ old.status \in ActiveStatuses
    BY <1>2 DEF RequestEdit, NoArbitration, CanRequestEdit, IsActiveIncident
  <2> HIDE DEF changes
  <2>2. new.status = old.status
    BY <1>1 DEF Incident
  <2> HIDE DEF new
  <2> QED
    BY <2>1, <2>2, ActiveRespected DEF ActiveStatuses, TerminalStatuses
<1>3. CASE RequestCancel(u, i)
  <2> DEFINE new == [old EXCEPT !.cancelRequest = TRUE]
  <2>1. SetIncident(i, new) /\ OpenCases(i) = {} /\ old.status \in ActiveStatuses
    BY <1>3 DEF RequestCancel, NoArbitration, CanRequestCancel, IsActiveIncident
  <2>2. new.status = old.status
    BY <1>1 DEF Incident
  <2> HIDE DEF new
  <2> QED
    BY <2>1, <2>2, ActiveRespected DEF ActiveStatuses, TerminalStatuses
<1>4. ASSUME NEW type, HasOpenCase(i, type), NEW resolution \in Resolutions,
             ResolveCase(i, type, resolution), NEW new, SetIncident(i, new),
             new.status = old.status \/ type = "CANCEL"
      PROVE  \E inc : SetIncident(i, inc) /\ Respects(inc, i)
  <2>1. old.status # "CANCELED"
    BY <1>1, <1>4 DEF ArbInv, SettledAt, HasOpenCase, ActiveStatuses
  <2> QED
    BY <1>1, <1>4, <2>1, ResolvedRespected
<1>5. CASE WithdrawEdit(u, i) \/ RejectEdit(u, i)
  <2> DEFINE new == [old EXCEPT !.editRequest = Null]
  <2>1. PICK resolution \in Resolutions :
          HasOpenCase(i, "EDIT") /\ ResolveCase(i, "EDIT", resolution) /\ SetIncident(i, new)
    BY <1>5 DEF WithdrawEdit, RejectEdit, Resolutions
  <2>2. new.status = old.status
    BY <1>1 DEF Incident
  <2> HIDE DEF new
  <2> QED
    BY <1>4, <2>1, <2>2
<1>6. CASE ApproveEdit(u, i)
  <2> DEFINE d == Merge(old.editRequest, old.fields)
             new == [old EXCEPT !.fields = d, !.lineNumber = line[d.lineId].number,
                                !.editRequest = Null]
  <2>1. HasOpenCase(i, "EDIT") /\ ResolveCase(i, "EDIT", "APPROVED") /\ SetIncident(i, new)
    BY <1>6 DEF ApproveEdit
  <2> HIDE DEF d
  <2>2. new.status = old.status
    BY <1>1 DEF Incident
  <2> HIDE DEF new
  <2> QED
    BY <1>4, <2>1, <2>2 DEF Resolutions
<1>7. CASE WithdrawCancel(u, i) \/ RejectCancel(u, i) \/ ApproveCancel(u, i)
  BY <1>4, <1>7 DEF WithdrawCancel, RejectCancel, ApproveCancel, Resolutions
<1>8. CASE Consult(u, i)
  BY <1>8 DEF Consult
<1> QED
  BY <1>2, <1>3, <1>5, <1>6, <1>7, <1>8 DEF ArbitrationStep

\* Every step of the workshop writes one row at most, and respects it.
LEMMA WorkshopRespects ==
  ASSUME AllInv, WorkshopStep
  PROVE  \/ incident' = incident
         \/ \E i \in Incidents : \E inc : SetIncident(i, inc) /\ Respects(inc, i)
BY DispatchRespects, DescriptionRespects, ArbitrationRespects
   DEF WorkshopStep, Authenticate, EndWithoutWrite

\* An administrator's service cancels the active incidents of the line it
\* archives, and writes no other.
LEMMA AdminWrites ==
  ASSUME AllInv, LineStep \/ AccountStep
  PROVE  \A i \in Incidents :
           \/ incident'[i] = incident[i]
           \/ /\ i \in ActiveOn(incident[i].fields.lineId)
              /\ Live(incident[i].fields.lineId)
              /\ line'[incident[i].fields.lineId].status = "DELETED"
              /\ \A c \in OpenCases(i) : case'[c].status = "SUPERSEDED"
<1>1. CASE AccountStep
  BY <1>1 DEF AccountStep, CreateAccount, ChangeRole, ActivateAccount, DeactivateAccount,
              DeleteAccount, SetUser
<1>2. ASSUME NEW l \in Lines, NEW force \in BOOLEAN, ArchiveLine(l, force),
             NEW i \in Incidents, i \in ActiveOn(l)
      PROVE  /\ i \in ActiveOn(incident[i].fields.lineId)
             /\ Live(incident[i].fields.lineId)
             /\ line'[incident[i].fields.lineId].status = "DELETED"
             /\ \A c \in OpenCases(i) : case'[c].status = "SUPERSEDED"
  <2>1. incident[i].fields.lineId = l
    BY <1>2 DEF ActiveOn
  <2>2. Live(l) /\ line'[l].status = "DELETED"
    BY <1>2 DEF ArchiveLine, AllInv, TypeInv, TypeOK, Line
  <2>3. \A c \in OpenCases(i) : case'[c].status = "SUPERSEDED"
    BY <1>2 DEF ArchiveLine, OpenCases, AllInv, TypeInv, TypeOK, Case
  <2> QED
    BY <1>2, <2>1, <2>2, <2>3
<1>3. \A l \in Lines, force \in BOOLEAN, i \in Incidents :
        ArchiveLine(l, force) /\ i \notin ActiveOn(l) => incident'[i] = incident[i]
  BY DEF ArchiveLine
<1>4. CASE LineStep
  <2>1. PICK l \in Lines :
          \/ \E n \in Numbers, layout \in Layouts, active \in BOOLEAN :
               CreateLine(l, n, layout, active) \/ UpdateLine(l, n, layout, active)
          \/ \E force \in BOOLEAN : ArchiveLine(l, force)
    BY <1>4 DEF LineStep
  <2>2. CASE \E force \in BOOLEAN : ArchiveLine(l, force)
    BY <1>2, <1>3, <2>2
  <2>3. CASE \E n \in Numbers, layout \in Layouts, active \in BOOLEAN :
               CreateLine(l, n, layout, active) \/ UpdateLine(l, n, layout, active)
    <3>1. incident' = incident
      BY <2>3 DEF CreateLine, UpdateLine
    <3> QED
      BY <3>1
  <2> QED
    BY <2>1, <2>2, <2>3
<1> QED
  BY <1>1, <1>4

-----------------------------------------------------------------------------
(* What no step does *)

\* A finished incident is never written again, but for the invalidation of a
\* closed one.
THEOREM TerminalsFinal == Spec => TerminalIsFinal
<1> DEFINE Final ==
      \A i \in Incidents :
        incident[i].status \in TerminalStatuses =>
          \/ incident'[i] = incident[i]
          \/ /\ incident[i].status = "CLOSED"
             /\ incident'[i] = [incident[i] EXCEPT !.status = "INVALIDATED"]
<1>1. ASSUME AllInv, Next PROVE Final
  <2>1. incident \in [Incidents -> Incident]
    BY <1>1 DEF AllInv, TypeInv, TypeOK
  <2>2. CASE WorkshopStep
    BY <1>1, <2>1, <2>2, WorkshopRespects DEF SetIncident, Respects
  <2>3. CASE LineStep \/ AccountStep
    BY <1>1, <2>3, AdminWrites DEF ActiveOn, ActiveStatuses, TerminalStatuses
  <2> QED
    BY <1>1, <2>2, <2>3 DEF Next
<1>2. AllInv /\ [Next]_vars => [Final]_vars
  BY <1>1
<1> QED
  BY <1>2, AllInit, AllInductive, PTL DEF Spec, TerminalIsFinal

\* An OPEN incident that a technician has taken is canceled by the archiving
\* of its line and by nothing else.
THEOREM TakenOpenProtected == Spec => TakenOpenCanceledByArchivingOnly
<1> DEFINE Protected ==
      \A i \in Incidents :
        /\ incident[i].status = "OPEN"
        /\ incident[i].takenBy # Null
        /\ incident'[i].status = "CANCELED"
        => /\ Live(incident[i].fields.lineId)
           /\ line'[incident[i].fields.lineId].status = "DELETED"
<1>1. ASSUME AllInv, Next PROVE Protected
  <2>1. incident \in [Incidents -> Incident]
    BY <1>1 DEF AllInv, TypeInv, TypeOK
  <2>2. CASE WorkshopStep
    BY <1>1, <2>1, <2>2, WorkshopRespects DEF SetIncident, Respects
  <2>3. CASE LineStep \/ AccountStep
    BY <1>1, <2>3, AdminWrites
  <2> QED
    BY <1>1, <2>2, <2>3 DEF Next
<1>2. AllInv /\ [Next]_vars => [Protected]_vars
  BY <1>1
<1> QED
  BY <1>2, AllInit, AllInductive, PTL DEF Spec, TakenOpenCanceledByArchivingOnly

\* While its arbitration stays open, an incident keeps everything but the
\* supervisor's priority and instruction.
THEOREM ArbitrationsFreeze == Spec => ArbitrationFreezesIncident
<1> DEFINE Frozen ==
      \A i \in Incidents, c \in CaseIds :
        /\ case[c].incident = i
        /\ case[c].status \in OpenStatuses
        /\ case'[c].status \in OpenStatuses
        => incident'[i] = [incident[i] EXCEPT !.priority = incident'[i].priority,
                                              !.comment = incident'[i].comment]
<1>1. ASSUME AllInv, Next, NEW i \in Incidents, StillOpen(i) # {}
      PROVE  incident'[i] = [incident[i] EXCEPT !.priority = incident'[i].priority,
                                                !.comment = incident'[i].comment]
  <2>1. incident \in [Incidents -> Incident] /\ incident[i] \in Incident
    BY <1>1 DEF AllInv, TypeInv, TypeOK
  <2>2. CASE incident'[i] = incident[i]
    BY <2>1, <2>2 DEF Incident
  <2>3. ASSUME NEW priority, NEW comment,
               incident'[i] = [incident[i] EXCEPT !.priority = priority, !.comment = comment]
        PROVE  incident'[i] = [incident[i] EXCEPT !.priority = incident'[i].priority,
                                                  !.comment = incident'[i].comment]
    <3>1. incident'[i].priority = priority /\ incident'[i].comment = comment
      BY <2>1, <2>3 DEF Incident
    <3> QED
      BY <2>3, <3>1
  <2>4. CASE WorkshopStep
    <3>1. CASE incident' = incident
      BY <2>2, <3>1
    <3>2. ASSUME NEW j \in Incidents, NEW inc, SetIncident(j, inc), Respects(inc, j)
          PROVE  \/ incident'[i] = incident[i]
                 \/ \E priority, comment :
                      incident'[i] = [incident[i] EXCEPT !.priority = priority,
                                                         !.comment = comment]
      BY <1>1, <2>1, <3>2 DEF SetIncident, Respects
    <3> QED
      BY <1>1, <2>2, <2>3, <2>4, <3>1, <3>2, WorkshopRespects
  <2>5. CASE LineStep \/ AccountStep
    BY <1>1, <2>2, <2>5, AdminWrites DEF StillOpen, OpenStatuses
  <2> QED
    BY <1>1, <2>4, <2>5 DEF Next
<1>2. AllInv /\ [Next]_vars => [Frozen]_vars
  BY <1>1 DEF StillOpen, OpenCases
<1> QED
  BY <1>2, AllInit, AllInductive, PTL DEF Spec, ArbitrationFreezesIncident

\* A decided arbitration is never written again.
THEOREM DecisionsFinal == Spec => DecisionIsFinal
<1> DEFINE Decided ==
      \A c \in CaseIds : case[c].status \in Resolutions => case'[c] = case[c]
<1>1. ASSUME TypeInv, Next PROVE Decided
  <2>1. case \in [CaseIds -> Case]
    BY <1>1 DEF TypeInv, TypeOK
  <2>2. /\ Resolutions \cap OpenStatuses = {}
        /\ "NONE" \notin Resolutions
    BY DEF Resolutions, OpenStatuses
  <2>3. \A i \in Incidents, type \in {"EDIT", "CANCEL"}, resolution \in Resolutions :
          ResolveCase(i, type, resolution) => Decided
    BY <2>2 DEF ResolveCase, OpenCases
  <2>4. ASSUME NEW i \in Incidents, NEW type, NEW before, FileCase(i, type, before)
        PROVE  Decided
    BY <2>1, <2>2, <2>4 DEF FileCase
  <2>5. ASSUME NEW u \in Users, NEW i \in Incidents, ArbitrationStep(u, i)
        PROVE  Decided
    <3>1. CASE Consult(u, i)
      BY <2>1, <2>2, <3>1 DEF Consult, OpenCases
    <3> QED
      BY <2>3, <2>4, <2>5, <3>1
         DEF ArbitrationStep, RequestEdit, WithdrawEdit, ApproveEdit, RejectEdit, RequestCancel,
             WithdrawCancel, RejectCancel, ApproveCancel, Resolutions
  <2>6. ASSUME NEW u \in Users, NEW i \in Incidents, DispatchStep(u, i)
        PROVE  case' = case
    BY <2>6 DEF DispatchStep, Take, SetPending, Resume, Close, Invalidate, SetPriority,
                SetResponsibleComment, CancelDirectly
  <2>7. CASE WorkshopStep
    BY <2>5, <2>6, <2>7 DEF WorkshopStep, Authenticate, EndWithoutWrite, Create, Edit
  <2>8. ASSUME NEW l \in Lines, NEW force \in BOOLEAN, ArchiveLine(l, force)
        PROVE  Decided
    BY <2>2, <2>8 DEF ArchiveLine, OpenCases
  <2>9. CASE LineStep
    <3>1. \A l \in Lines, n \in Numbers, layout \in Layouts, active \in BOOLEAN :
            CreateLine(l, n, layout, active) \/ UpdateLine(l, n, layout, active) => case' = case
      BY DEF CreateLine, UpdateLine
    <3> QED
      BY <2>8, <2>9, <3>1 DEF LineStep
  <2>10. CASE AccountStep
    BY <2>10 DEF AccountStep, CreateAccount, ChangeRole, ActivateAccount, DeactivateAccount,
                 DeleteAccount, SetUser
  <2> QED
    BY <1>1, <2>7, <2>9, <2>10 DEF Next
<1>2. TypeInv /\ [Next]_vars => [Decided]_vars
  BY <1>1
<1> QED
  BY <1>2, TypeInvInit, PlantInvInit, PlantInductive, PTL DEF Spec, DecisionIsFinal

-----------------------------------------------------------------------------
(* The two policies *)

\* An arbitration is pending by the flags exactly when a case is open, so the
\* screens and the services mean the same by it.
LEMMA SameArbitration ==
  ASSUME ArbInv, NEW i \in Incidents
  PROVE  /\ AwaitsArbitration(i) <=> HasPendingArbitration(incident[i])
         /\ NoArbitration(i) <=> ~HasPendingArbitration(incident[i])
         /\ OpenCases(i) = {} <=> ~HasPendingArbitration(incident[i])
         /\ HasOpenCase(i, "EDIT") <=> incident[i].editRequest # Null
         /\ HasOpenCase(i, "CANCEL") <=> incident[i].cancelRequest
         /\ ~(HasOpenCase(i, "EDIT") /\ HasOpenCase(i, "CANCEL"))
<1>1. /\ HasOpenCase(i, "EDIT") <=> incident[i].editRequest # Null
      /\ HasOpenCase(i, "CANCEL") <=> incident[i].cancelRequest
  BY DEF ArbInv, SettledAt
<1>2. ~(HasOpenCase(i, "EDIT") /\ HasOpenCase(i, "CANCEL"))
  BY OneType DEF ArbInv
<1>3. OpenCases(i) = {} <=> ~HasPendingArbitration(incident[i])
  <2>1. ASSUME OpenCases(i) = {} PROVE ~HasPendingArbitration(incident[i])
    BY <2>1, <1>1 DEF HasOpenCase, HasPendingArbitration
  <2>2. ASSUME NEW c \in OpenCases(i) PROVE HasPendingArbitration(incident[i])
    <3>1. case[c].type \in {"EDIT", "CANCEL"}
      BY DEF OpenCases, ArbInv
    <3> QED
      BY <3>1, <1>1 DEF HasOpenCase, HasPendingArbitration
  <2> QED
    BY <2>1, <2>2
<1> QED
  BY <1>1, <1>2, <1>3 DEF AwaitsArbitration, NoArbitration

\* One button is drawn by three permissions, one by two, the others by their own.
LEMMA DrawnByOwn ==
  ASSUME NEW button \in Buttons, NEW u, NEW i, button \notin {"edit", "cancel"}
  PROVE  IsOffered(button, u, i) <=> CanPerform(button, user[u].role, i, u)
BY DEF IsOffered, DrawnBy

\* The screens offer what the policy of the services allows, and leave out the
\* edit of an incident by the technician who has taken it alone.
THEOREM PoliciesAgree == Spec => []PermissionsAgree
<1>1. TypeInv /\ ArbInv => PermissionsAgree
  <2> SUFFICES ASSUME TypeInv, ArbInv, NEW u \in Users, NEW i \in Incidents,
                      NEW button \in Buttons, incident[i].status # "ABSENT"
               PROVE  /\ IsOffered(button, u, i) => IsAllowed(button, u, i)
                      /\ IsAllowed(button, u, i) =>
                           IsOffered(button, u, i) \/ EditAfterTake(button, u, i)
    BY DEF PermissionsAgree, Concerns
  <2> DEFINE role == user[u].role
             inc == incident[i]
  <2>1. role \in Roles /\ inc.status \in ActiveStatuses \cup TerminalStatuses
    BY DEF TypeInv, TypeOK, User, Incident
  <2>2. CASE button = "edit"
    <3>1. IsOffered(button, u, i) <=>
            \/ CanPerform("requestEdit", role, i, u)
            \/ CanPerform("directEdit", role, i, u)
            \/ CanPerform("responsableEdit", role, i, u)
      BY <2>2 DEF IsOffered, DrawnBy
    <3>2. IsAllowed(button, u, i) <=> EditAllowed(role, i, u)
      BY <2>2 DEF IsAllowed
    <3> QED
      BY <2>1, <2>2, <3>1, <3>2, SameArbitration
      DEF EditAllowed, CanPerform, CanRequestEdit, CanEdit, EditAfterTake, Roles
  <2>3. CASE button = "cancel"
    <3>1. IsOffered(button, u, i) <=>
            CanPerform("requestCancel", role, i, u) \/ CanPerform("cancel", role, i, u)
      BY <2>3 DEF IsOffered, DrawnBy
    <3>2. IsAllowed(button, u, i) <=> CancelAllowed(role, i, u)
      BY <2>3 DEF IsAllowed
    <3> QED
      BY <2>1, <3>1, <3>2, SameArbitration
      DEF CancelAllowed, CanPerform, MayCancel, CanRequestCancel, CanCancel, Roles,
          IsActiveIncident, ActiveStatuses
  <2>4. CASE button \in {"withdrawEdit", "withdrawCancel"}
    BY <2>1, <2>4, DrawnByOwn, SameArbitration
    DEF CanPerform, IsAllowed, CanWithdrawEdit, CanWithdrawCancel
  <2>5. CASE button \in Workflow
    BY <2>1, <2>5, DrawnByOwn, SameArbitration
    DEF Workflow, CanPerform, IsAllowed, CanTake, CanSuspendOrClose, CanResume, CanDirect,
        IsActiveIncident, ActiveStatuses
  <2>6. CASE button \in Instruction \cup {"invalidateClosed"}
    BY <2>6, DrawnByOwn DEF Instruction, CanPerform, IsAllowed, CanDirect, CanInvalidate
  <2>7. CASE button \in Reviews
    BY <2>7, DrawnByOwn, SameArbitration
    DEF Reviews, CanPerform, IsAllowed, CanDecideEdit, CanDecideCancel
  <2> QED
    BY <2>2, <2>3, <2>4, <2>5, <2>6, <2>7 DEF Buttons, Standard, Danger
<1> QED
  BY <1>1, TypeInvInit, PlantInvInit, ArbInvInit, PlantInductive, ArbInductive, PTL DEF Spec
=============================================================================
