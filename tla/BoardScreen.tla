---------------------------- MODULE BoardScreen ----------------------------
(***************************************************************************)
(* The board that hangs in the workshop: a screen that nobody touches.  It *)
(* reads the active incidents again every thirty seconds, and shows them   *)
(* in turn: the pages of a view, then those of the next view.              *)
(*                                                                         *)
(* Incidents are numbered in the order of their declarations.  The timers  *)
(* are left free but fair: a view lasts from five to sixty seconds.        *)
(***************************************************************************)
EXTENDS Integers, Sequences, SequencesExt, FiniteSets

CONSTANTS
  Line,        \* Line[i]: the line of incident i
  Cases,       \* what an incident may be: [urgent, taken, pending]
  Offered,     \* settings that the screen may be given
  MaxChanges,  \* bound: changes of the workshop, of the access and of the settings
  Waiting,     \* an answer that has not come
  Refused,     \* 401
  Failed,      \* any other failure, or no answer
  Null

AllViews == <<"alerts", "all", "lines">>

ConstantsOK ==
  /\ Cases \subseteq [urgent : BOOLEAN, taken : BOOLEAN, pending : BOOLEAN]
  /\ \A s \in Offered : /\ DOMAIN s = {"views", "onlyUrgent", "onlyUntaken", "lines", "rows"}
                        /\ s.views \subseteq ToSet(AllViews)
                        /\ s.rows \in Nat \ {0}
  /\ MaxChanges \in Nat

VARIABLES
  active,    \* the incidents of the server that are open or pending
  access,    \* the server honours the session of the screen
  changes,   \* changes so far
  at,        \* the page: the board, or the login
  refresh,   \* refreshControllerRef: the answer of the request in flight
  list,      \* incidents
  stale,     \* dataError
  settings,
  stored,    \* what localStorage keeps for this screen
  view,      \* viewIndex
  page       \* pageIndex

vars == <<active, access, changes, at, refresh, list, stale, settings, stored, view, page>>

shown == <<at, list, stale, settings, stored, view, page>>

\* DEFAULT_SETTINGS: every line is an empty choice of lines.
Default == [views |-> ToSet(AllViews), onlyUrgent |-> FALSE, onlyUntaken |-> FALSE,
            lines |-> {}, rows |-> 1]

NoCases == [i \in {} |-> Null]

Init ==
  /\ active \in [DOMAIN Line -> Cases] \cup {NoCases}
  /\ access = TRUE
  /\ changes = 0
  /\ at = "board"
  /\ refresh = Waiting
  /\ list = Null
  /\ stale = FALSE
  /\ stored \in Offered \cup {Null}
  /\ settings = IF stored = Null THEN Default ELSE stored
  /\ view = 0
  /\ page = 0
-----------------------------------------------------------------------------
(* What the screen shows. *)

\* Incidents in the scope of the settings: all the lines, or some, or none.
InScope(s, i, case) ==
  /\ s.lines = {} \/ Line[i] \in s.lines
  /\ s.onlyUrgent => case.urgent
  /\ s.onlyUntaken => ~case.taken

IsAlert(case) == case.urgent \/ ~case.taken \/ case.pending

\* sortIncidents: the urgent ones, then those that wait for a technician, the
\* last declared first; the order given by hand is left out.
Before(cases, i, j) ==
  LET a == cases[i]
      b == cases[j]
  IN IF a.urgent # b.urgent THEN a.urgent
     ELSE IF a.taken # b.taken THEN b.taken
     ELSE i > j

Cases0 == IF list = Null THEN NoCases ELSE list

Scope == {i \in DOMAIN Cases0 : InScope(settings, i, Cases0[i])}

\* safeViews: the views that are configured, all of them if none is.
Views ==
  LET chosen == SelectSeq(AllViews, LAMBDA v : v \in settings.views)
  IN IF chosen = <<>> THEN AllViews ELSE chosen

View == IF view < Len(Views) THEN Views[view + 1] ELSE Views[1]

\* What a view goes through: incidents, or their lines.
Item(v, i) == IF v = "lines" THEN Line[i] ELSE i

Items(v) == {Item(v, i) : i \in {j \in Scope : v = "alerts" => IsAlert(Cases0[j])}}

\* lineGroups: the lines with the most urgent incidents, then untaken ones, then
\* incidents; the first incident tells two that are alike apart.
Ranks(l) ==
  LET here == {i \in Scope : Line[i] = l}
  IN <<Cardinality({i \in here : Cases0[i].urgent}),
       Cardinality({i \in here : ~Cases0[i].taken}), Cardinality(here)>>

LineBefore(l, m) ==
  LET p == Ranks(l)
      q == Ranks(m)
  IN \/ p[1] > q[1]
     \/ p[1] = q[1] /\ p[2] > q[2]
     \/ p[1] = q[1] /\ p[2] = q[2] /\ p[3] > q[3]
     \/ /\ p = q /\ l # m
        /\ \E i \in Scope : Line[i] = l /\ \A j \in Scope : Line[j] = m => Before(Cases0, i, j)

\* How many items come before one.
Place(v, x) ==
  Cardinality({y \in Items(v) : IF v = "lines" THEN LineBefore(y, x) ELSE Before(Cases0, y, x)})

\* paginate: an empty list is one empty page.
Pages ==
  LET n == Cardinality(Items(View))
  IN IF n = 0 THEN 1 ELSE (n + settings.rows - 1) \div settings.rows

\* The incidents on the screen, themselves or in their line; safePageIndex is the
\* last page at most.
OnScreen ==
  LET v == View
      items == Items(v)
      safePage == IF page < Pages THEN page ELSE Pages - 1
  IN {i \in Scope : Item(v, i) \in items /\ Place(v, Item(v, i)) \div settings.rows = safePage}
-----------------------------------------------------------------------------
(* The server. *)

More == changes < MaxChanges

\* An incident is declared, changes or ends; or the session of the screen does.
Change ==
  /\ More
  /\ changes' = changes + 1
  /\ \/ /\ \E i \in DOMAIN Line, c \in Cases :
             active' = [j \in DOMAIN active \cup {i} |-> IF j = i THEN c ELSE active[j]]
        /\ UNCHANGED access
     \/ /\ \E i \in DOMAIN active : active' = [j \in DOMAIN active \ {i} |-> active[j]]
        /\ UNCHANGED access
     \/ /\ access' = ~access
        /\ UNCHANGED active
  /\ UNCHANGED <<shown, refresh>>

Read ==
  /\ refresh = Waiting
  /\ refresh' = IF access THEN active ELSE Refused
  /\ UNCHANGED <<active, access, changes, shown>>

Fail ==
  /\ refresh = Waiting
  /\ More
  /\ changes' = changes + 1
  /\ refresh' = Failed
  /\ UNCHANGED <<active, access, shown>>
-----------------------------------------------------------------------------
(* The screen. *)

\* The interval, or the window that becomes visible: one request at a time.
Poll ==
  /\ at = "board" /\ refresh = Null
  /\ refresh' = Waiting
  /\ UNCHANGED <<active, access, changes, shown>>

\* Mutant of Reset: the effect depends on the list itself.
ResetOnRead(new) == TRUE

\* The effect on the length of the list returns to the first page.
Reset(new) == Cardinality(DOMAIN new) # Cardinality(DOMAIN Cases0)

Arrive ==
  /\ refresh \notin {Null, Waiting, Refused, Failed}
  /\ refresh' = Null
  /\ list' = refresh
  /\ stale' = FALSE
  /\ page' = IF Reset(refresh) THEN 0 ELSE page
  /\ UNCHANGED <<active, access, changes, at, settings, stored, view>>

\* Any other failure: the banner says since when the screen is what it was.
ArriveFailed ==
  /\ refresh = Failed
  /\ refresh' = Null
  /\ stale' = TRUE
  /\ UNCHANGED <<active, access, changes, at, list, settings, stored, view, page>>

\* The session was revoked, or the board turned off: the cookie is given up, if
\* the server answers, and the screen is back at the login.
ArriveRefused ==
  /\ refresh = Refused
  /\ refresh' = Null
  /\ at' = "login"
  /\ access' \in {access, FALSE}
  /\ UNCHANGED <<active, changes, list, stale, settings, stored, view, page>>

\* The rotation: the next page, or the first one of the next view.
Rotate ==
  /\ at = "board"
  /\ IF page + 1 < Pages
     THEN page' = page + 1 /\ UNCHANGED view
     ELSE page' = 0 /\ view' = (view + 1) % Len(Views)
  /\ UNCHANGED <<active, access, changes, refresh, at, list, stale, settings, stored>>

\* The dialogue of the settings, which a stale board does not open, is saved;
\* a full storage refuses.
SaveSettings ==
  /\ at = "board"
  /\ More
  /\ changes' = changes + 1
  /\ settings' \in Offered
  /\ stored' = settings'
  /\ view' = 0
  /\ page' = 0
  /\ UNCHANGED <<active, access, refresh, at, list, stale>>

\* The page is opened, at the login or again.
Open ==
  /\ More
  /\ changes' = changes + 1
  /\ at = "login" => access
  /\ at' = "board"
  /\ refresh' = Waiting
  /\ list' = Null
  /\ stale' = FALSE
  /\ settings' = IF stored = Null THEN Default ELSE stored
  /\ view' = 0
  /\ page' = 0
  /\ UNCHANGED <<active, access, stored>>

\* "Quitter": the session ends with the page.
Close ==
  /\ at = "board"
  /\ at' = "login"
  /\ refresh' = Null
  /\ access' = FALSE
  /\ UNCHANGED <<active, changes, list, stale, settings, stored, view, page>>

Next ==
  \/ Change \/ Read \/ Fail \/ Poll \/ Arrive \/ ArriveFailed \/ ArriveRefused
  \/ Rotate \/ SaveSettings \/ Open \/ Close

\* The timers fire, the server answers, and the browser receives it.
Fairness ==
  WF_vars(Poll) /\ WF_vars(Read) /\ WF_vars(Arrive) /\ WF_vars(ArriveFailed) /\ WF_vars(Rotate)

Spec == Init /\ [][Next]_vars

FairSpec == Spec /\ Fairness
-----------------------------------------------------------------------------
(* Properties. *)

\* An incident that the settings ask for, by a view that would hold it.
Wanted(i) ==
  /\ at = "board" /\ access
  /\ i \in DOMAIN active
  /\ InScope(settings, i, active[i])
  /\ ToSet(Views) # {"alerts"} \/ IsAlert(active[i])

\* Once the workshop is quiet, every incident that a screen is to show comes
\* round again and again, whatever the pages, the views and the refreshes.
EveryCaseIsShown ==
  \A i \in DOMAIN Line : <>[]Wanted(i) => []<>(i \in OnScreen)
=============================================================================
