------------------------------- MODULE Offers -------------------------------
(***************************************************************************)
(* The actions that the screens of Sentinel's frontend offer on an         *)
(* incident: canPerform of workshopPermissions.ts, which mirrors the policy *)
(* of the backend by hand, and the buttons that the record and the card of *)
(* an incident draw from it.                                               *)
(*                                                                         *)
(* The copy of the incident on the screen is taken to be fresh here; what  *)
(* an old one leads to is the business of modules Dashboard and Panel.     *)
(***************************************************************************)
EXTENDS Workshop

\* The buttons of the record of an incident, section by section.
Workflow == {"take", "resume", "setPending", "close", "setPriority"}
Standard == {"edit", "withdrawEdit"}
Danger == {"cancel", "withdrawCancel", "invalidateClosed"}
Instruction == {"responsibleComment"}
Reviews == {"reviewEdit", "reviewCancel"}
Buttons == Workflow \cup Standard \cup Danger \cup Instruction \cup Reviews

\* The permissions that draw a button: one button edits and one cancels,
\* whichever permission allows it.
DrawnBy(button) ==
  IF button = "edit" THEN {"requestEdit", "directEdit", "responsableEdit"}
  ELSE IF button = "cancel" THEN {"requestCancel", "cancel"}
  ELSE {button}

\* hasPendingArbitration, on the flags and on the cases sent with the incident.
AwaitsArbitration(i) == HasPendingArbitration(incident[i]) \/ OpenCases(i) # {}

\* Mutant of MayCancel: a supervisor is offered the cancellation of any active
\* incident, as if the owner of an open one did not protect it.
MayCancelTaken(role, i) ==
  LET inc == incident[i]
  IN /\ IsActiveIncident(inc) /\ ~AwaitsArbitration(i)
     /\ role = "MAINTENANCE" => inc.takenBy = Null
     /\ role # "OPERATOR"

\* The case 'cancel' of canPerform.
MayCancel(role, i) ==
  LET inc == incident[i]
  IN /\ IsActiveIncident(inc) /\ ~AwaitsArbitration(i)
     /\ IF inc.status = "PENDING" THEN role = "RESPONSABLE"
                                 ELSE inc.takenBy = Null /\ role # "OPERATOR"

\* canPerform of utils/workshopPermissions.ts
CanPerform(action, role, i, u) ==
  LET inc == incident[i]
      active == IsActiveIncident(inc)
      open == active /\ ~AwaitsArbitration(i)
      untaken == inc.takenBy = Null
      own == role = "OPERATOR" /\ active /\ inc.user_id = u
      technician == role = "MAINTENANCE" /\ open
      supervisor == role = "RESPONSABLE" /\ active
  IN \/ action = "requestEdit" /\ own /\ open
     \/ /\ action = "withdrawEdit" /\ own
        /\ inc.editRequest # Null /\ ~HasOpenCase(i, "CANCEL")
     \/ action = "requestCancel" /\ own /\ open /\ untaken
     \/ action = "withdrawCancel" /\ own /\ inc.cancelRequest
     \/ action = "directEdit" /\ open /\ untaken /\ role # "OPERATOR"
     \/ action = "responsableEdit" /\ supervisor /\ open
     \/ action = "cancel" /\ MayCancel(role, i)
     \/ action = "reviewEdit" /\ supervisor /\ inc.editRequest # Null
     \/ action = "reviewCancel" /\ supervisor /\ inc.cancelRequest
     \/ action = "take" /\ technician /\ inc.status = "OPEN" /\ inc.takenBy # u
     \/ action \in {"setPending", "close"} /\ technician /\ inc.status = "OPEN" /\ ~untaken
     \/ action = "resume" /\ technician /\ inc.status = "PENDING" /\ ~untaken
     \/ action \in {"setPriority", "responsibleComment"} /\ supervisor
     \/ action = "invalidateClosed" /\ role = "RESPONSABLE" /\ inc.status = "CLOSED"

-----------------------------------------------------------------------------
(* What u may click on the record of i, what the policy of the services    *)
(* allows, and what becomes of the request that the click sends.           *)

IsOffered(button, u, i) ==
  \E action \in DrawnBy(button) : CanPerform(action, user[u].role, i, u)

\* A correction is asked for by an operator, an edit is made by the others.
EditAllowed(role, i, u) ==
  /\ NoArbitration(i)
  /\ CanRequestEdit(role, incident[i], u) \/ CanEdit(role, incident[i], u)

\* The button cancels when it may, and asks for a cancellation otherwise.
CancelAllowed(role, i, u) ==
  \/ OpenCases(i) = {} /\ CanCancel(role, incident[i])
  \/ NoArbitration(i) /\ CanRequestCancel(role, incident[i], u)

IsAllowed(button, u, i) ==
  LET inc == incident[i]
      role == user[u].role
  IN \/ button = "edit" /\ EditAllowed(role, i, u)
     \/ button = "cancel" /\ CancelAllowed(role, i, u)
     \/ button = "withdrawEdit" /\ HasOpenCase(i, "EDIT") /\ CanWithdrawEdit(role, inc, u)
     \/ button = "withdrawCancel" /\ HasOpenCase(i, "CANCEL") /\ CanWithdrawCancel(role, inc, u)
     \/ button = "take" /\ NoArbitration(i) /\ CanTake(role, inc, u)
     \/ button \in {"setPending", "close"} /\ NoArbitration(i) /\ CanSuspendOrClose(role, inc)
     \/ button = "resume" /\ NoArbitration(i) /\ CanResume(role, inc)
     \/ button \in {"setPriority", "responsibleComment"} /\ CanDirect(role, inc)
     \/ button = "invalidateClosed" /\ CanInvalidate(role, inc)
     \/ button = "reviewEdit" /\ HasOpenCase(i, "EDIT") /\ CanDecideEdit(role, inc)
     \/ button = "reviewCancel" /\ HasOpenCase(i, "CANCEL") /\ CanDecideCancel(role, inc)

\* The one permission of canPerform that no screen reads: editAfterTake.
EditAfterTake(button, u, i) ==
  /\ button = "edit"
  /\ user[u].role = "MAINTENANCE"
  /\ incident[i].takenBy = u

\* The form of an edit always says whether it only asks (requestOnly), and the
\* service takes TRUE for a request and FALSE for an unexpected field.
IsServed(button, u, i) ==
  /\ IsAllowed(button, u, i)
  /\ button = "edit" => CanPerform("requestEdit", user[u].role, i, u)

Concerns(u, i) == user[u].status = "ACTIVE" /\ incident[i].status # "ABSENT"

-----------------------------------------------------------------------------
\* The two policies agree on who may do what, in every state that dispatch and
\* arbitration lead to: a fresh screen offers to an active account nothing that
\* the policy of the services forbids, and leaves out nothing it allows, but
\* for the edit of an incident by the technician who has taken it.
PermissionsAgree ==
  \A u \in Users, i \in Incidents, button \in Buttons :
    Concerns(u, i) =>
      /\ IsOffered(button, u, i) => IsAllowed(button, u, i)
      /\ IsAllowed(button, u, i) =>
           IsOffered(button, u, i) \/ EditAfterTake(button, u, i)

\* "Not to show a button whose action would be refused" (workshopPermissions.ts):
\* the request that an offered button sends is accepted.
OfferedIsServed ==
  \A u \in Users, i \in Incidents, button \in Buttons :
    Concerns(u, i) /\ IsOffered(button, u, i) => IsServed(button, u, i)
=============================================================================
