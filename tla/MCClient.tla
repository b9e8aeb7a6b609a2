----------------------------- MODULE MCClient ------------------------------
(***************************************************************************)
(* Small instances of what runs in a browser: the lists that are loaded    *)
(* page by page (Listing), the dashboard of a supervisor (Dashboard), the  *)
(* board of the workshop (BoardScreen) and the session of a tab            *)
(* (ClientSession).  Each has its own state, so a behaviour follows one of *)
(* them, the others at rest, as in MCTransactions.                         *)
(***************************************************************************)
EXTENDS Naturals, Sequences, FiniteSets, TLC

CONSTANTS
  Parts,                                  \* the parts explored
  Screens, Filters, Scopes, PageSize, PerMs, Batch, MaxRows, MaxNow, \* Listing
  MaxEvents, Companies,                                              \* Dashboard
  Line, Cases, Offered, MaxChanges, Refused, Failed,                 \* BoardScreen
  Accounts, MaxSessions,                                             \* ClientSession
  f1, f2, l1, l2,
  Waiting, Null

VARIABLES
  part,
  screen, now, table, filter, settled, rows, cursor, loaded, known, first, more, requested,
  fetch, chosen,
  incident, company, late, disturbed, row, others, loading, metrics, dash, measuring, address,
  selected, focused, review, reported, mutation,
  active, access, changes, at, refresh, list, stale, settings, stored, view, page,
  revoked, opened, cookie, path, going, session, checking, expired, me, call,
  signing, leaving

-----------------------------------------------------------------------------
(* The journal has a row more than the other lists, and instants in two    *)
(* milliseconds, where the cursor falls between rows.                      *)

FiltersV == {f1, f2}
ScopesV == {{f1}, {f1, f2}}
MaxRowsV == [s \in Screens |-> IF s = "journal" THEN 3 ELSE 2]
MaxNowV == [s \in Screens |-> IF s = "journal" THEN 2 ELSE 1]

\* The board: two incidents on a line and one on another, a page for each, in
\* two views or in the lines of one.
LineV == <<l1, l1, l2>>
Case(urgent, taken) == [urgent |-> urgent, taken |-> taken, pending |-> FALSE]
CasesV == {Case(TRUE, FALSE), Case(FALSE, FALSE), Case(FALSE, TRUE)}
Scoped(views, lines, untaken, n) ==
  [views |-> views, onlyUrgent |-> FALSE, onlyUntaken |-> untaken, lines |-> lines, rows |-> n]
OfferedV == {Scoped({"alerts", "all"}, {}, FALSE, 1), Scoped({"lines"}, {l1}, TRUE, 2)}

-----------------------------------------------------------------------------

L == INSTANCE Listing WITH list <- rows, selected <- chosen
D == INSTANCE Dashboard
B == INSTANCE BoardScreen
C == INSTANCE ClientSession WITH loading <- checking

ASSUME PartsOK == L!ConstantsOK /\ D!ConstantsOK /\ B!ConstantsOK /\ C!ConstantsOK

listVars == <<screen, now, table, filter, settled, rows, cursor, loaded, known, first, more,
              requested, fetch, chosen>>
dashboardVars == <<incident, company, late, disturbed, row, others, loading, metrics, dash,
                   measuring, address, selected, focused, review, reported, mutation>>
boardVars == <<active, access, changes, at, refresh, list, stale, settings, stored, view, page>>
sessionVars == <<revoked, opened, cookie, path, going, session, checking, expired, me,
                 call, signing, leaving>>
vars == <<part, listVars, dashboardVars, boardVars, sessionVars>>

Init ==
  /\ part \in Parts
  /\ L!Init /\ D!Init /\ B!Init /\ C!Init
  /\ IF part \in Screens THEN screen = part
     ELSE screen = "journal" /\ filter = f1
  /\ IF part = "dashboard" THEN incident.request = Null \/ incident.request.type = "cancel"
     ELSE ~address /\ incident.request = Null
  /\ part # "board" => stored = Null /\ active = B!NoCases
  /\ part # "session" => path = "login"

Next ==
  /\ UNCHANGED part
  /\ \/ /\ part \in Screens /\ L!Next
        /\ UNCHANGED <<dashboardVars, boardVars, sessionVars>>
     \/ /\ part = "dashboard" /\ D!Next
        /\ UNCHANGED <<listVars, boardVars, sessionVars>>
     \/ /\ part = "board" /\ B!Next
        /\ UNCHANGED <<listVars, dashboardVars, sessionVars>>
     \/ /\ part = "session" /\ C!Next
        /\ UNCHANGED <<listVars, dashboardVars, boardVars>>

\* The fairness of each part, while it is the one that runs.
Fairness ==
  /\ WF_dashboardVars(part = "dashboard" /\ D!Poll)
  /\ WF_dashboardVars(part = "dashboard" /\ D!ReadList)
  /\ WF_dashboardVars(part = "dashboard" /\ D!ReadCounts)
  /\ WF_dashboardVars(part = "dashboard" /\ D!Arrive)
  /\ WF_boardVars(part = "board" /\ B!Poll)
  /\ WF_boardVars(part = "board" /\ B!Read)
  /\ WF_boardVars(part = "board" /\ B!Arrive)
  /\ WF_boardVars(part = "board" /\ B!ArriveFailed)
  /\ WF_boardVars(part = "board" /\ B!Rotate)
  /\ WF_sessionVars(part = "session" /\ C!Enter)
  /\ WF_sessionVars(part = "session" /\ C!Redirect)
  /\ WF_sessionVars(part = "session" /\ C!Serve)
  /\ WF_sessionVars(part = "session" /\ C!MeArrives)
  /\ SF_sessionVars(part = "session" /\ C!CallArrives)
  /\ WF_sessionVars(part = "session" /\ path = "dashboard" /\ C!Call)

Spec == Init /\ [][Next]_vars /\ Fairness
-----------------------------------------------------------------------------
\* The journal shows the rows of its filter, in order, each once, and the record that
\* another screen opens is of the list beside it.
ListIsCoherent == L!ListIsCoherent

\* No page of the journal leaves a row out.
PagesSkipNothing == L!PagesSkipNothing

\* The counts of the dashboard never go back.
MetricsNeverGoBack == D!MetricsNeverGoBack

\* A decision cancels only what was asked for.
ApprovalNeedsRequest == D!ApprovalNeedsRequest

\* The dashboard ends by showing the incident as it is.
ViewCatchesUp == <>[](part = "dashboard" => D!UpToDate)

\* Every incident that a board is to show comes round again and again.
EveryCaseIsShown == B!EveryCaseIsShown

\* A revoked session leaves the dashboard.
RevokedLeavesDashboard == C!RevokedLeavesDashboard
=============================================================================
