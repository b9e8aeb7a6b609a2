----------------------------- MODULE Dashboard -----------------------------
(***************************************************************************)
(* The dashboard of a supervisor, against the server: its list of active   *)
(* incidents and its metrics, read again every thirty seconds; the record  *)
(* that is open; the dialogue that decides a request of the operator; and  *)
(* the one mutation at a time that the runner lets through.                *)
(*                                                                         *)
(* One incident is followed; whether the list holds others is all that     *)
(* matters of them.  An incident counts its changes, and its request is    *)
(* named after the change that made it (requestEventId).                   *)
(***************************************************************************)
EXTENDS Naturals

CONSTANTS
  MaxEvents,   \* bound: changes of the incident and disturbances, together
  Companies,   \* bound: whether the server has other active incidents
  Waiting,     \* an answer that has not come
  Null

ConstantsOK ==
  /\ MaxEvents \in Nat /\ Companies \subseteq BOOLEAN
  /\ Waiting # Null /\ Null \notin {"edit", "cancel"}

VARIABLES
  incident,   \* the server's: open, changes, request
  company,    \* the server has other active incidents
  late,       \* a mutation on its way that the screen gave up
  disturbed,  \* requests that failed, windows that came back, pages left
  row,        \* the incident in the list on the screen
  others,     \* the list on the screen holds others
  loading,    \* no answer yet
  metrics,    \* the count of changes that the metrics on the screen reflect
  dash,       \* refreshData in flight: the answers of its requests
  measuring,  \* refreshMetrics in flight: its answer
  address,    \* the address names the incident
  selected,   \* selectedIncident
  focused,    \* focusedIncidentId is that of the selected incident
  review,     \* the dialogue: the incident it shows, and the type it decides
  reported,   \* reportedArbitrationKey
  mutation    \* what the runner waits for

vars == <<incident, company, late, disturbed, row, others, loading, metrics, dash, measuring,
          address, selected, focused, review, reported, mutation>>

server == <<incident, company, late>>
lists == <<row, others, loading>>
record == <<address, selected, focused, reported>>

Types == {"edit", "cancel"}

More == incident.changes + disturbed < MaxEvents

\* A row of the list of active incidents.
Listed == IF incident.open THEN incident ELSE Null

NoAnswer == [list |-> Waiting, metrics |-> Waiting]

Init ==
  /\ \E r \in {Null} \cup {[type |-> type, event |-> 0, seen |-> FALSE] : type \in Types} :
       incident = [open |-> TRUE, changes |-> 0, request |-> r]
  /\ company \in Companies
  /\ late = Null
  /\ disturbed = 0
  /\ row = Null
  /\ others = FALSE
  /\ loading = TRUE
  /\ metrics = Null
  /\ dash = NoAnswer
  /\ measuring = Null
  /\ address \in BOOLEAN
  /\ selected = Null
  /\ focused = FALSE
  /\ review = Null
  /\ reported = Null
  /\ mutation = Null
-----------------------------------------------------------------------------
(* The server. *)

Changed(inc, r) == [inc EXCEPT !.changes = @ + 1, !.request = r]

Canceled(inc) == [Changed(inc, Null) EXCEPT !.open = FALSE]

Request(type) == [type |-> type, event |-> incident.changes + 1, seen |-> FALSE]

\* What the operator, a technician or another supervisor does meanwhile.
Elsewhere ==
  /\ incident.open
  /\ More
  /\ \/ incident' = Changed(incident, incident.request)
     \/ \E type \in Types :
          incident.request = Null /\ incident' = Changed(incident, Request(type))
     \/ incident.request # Null /\ incident' = Changed(incident, Null)
     \/ incident' = Canceled(incident)
  /\ UNCHANGED <<company, late, disturbed, lists, metrics, dash, measuring, record, review,
                 mutation>>

Consults == {"consult edit", "consult cancel"}

\* The type of the request that a service needs.  cancelIncident selects an
\* approval, which needs one, or a direct cancelation, which the body must not
\* exclude by expecting an arbitration.
Needs(op) ==
  IF op \in {"approve edit", "reject edit", "consult edit"} THEN {"edit"}
  ELSE IF op \in {"approve cancel", "reject cancel", "consult cancel"} THEN {"cancel"}
  ELSE IF op = "cancel directly" THEN {Null, "cancel"}
  ELSE Types \cup {Null}

Accepts(op) ==
  /\ incident.open
  /\ More
  /\ (IF incident.request = Null THEN Null ELSE incident.request.type) \in Needs(op)

\* What it does; a request that was consulted is left as it is.
After(op) ==
  IF op = "change" THEN Changed(incident, incident.request)
  ELSE IF op \in Consults /\ incident.request.seen THEN incident
  ELSE IF op \in Consults THEN Changed(incident, [incident.request EXCEPT !.seen = TRUE])
  ELSE IF op \in {"approve cancel", "cancel directly"} THEN Canceled(incident)
  ELSE Changed(incident, Null)

\* The server executes a mutation, or answers that it refuses.
Serve ==
  /\ mutation # Null /\ mutation.answer = Waiting
  /\ IF Accepts(mutation.op)
     THEN /\ incident' = After(mutation.op)
          /\ mutation' = [mutation EXCEPT !.answer = incident']
     ELSE /\ UNCHANGED incident
          /\ mutation' = [mutation EXCEPT !.answer = Null]
  /\ UNCHANGED <<company, late, disturbed, lists, metrics, dash, measuring, record, review>>

\* It executes one that the screen no longer waits for.
ServeLate ==
  /\ late # Null
  /\ Accepts(late.op)
  /\ incident' = After(late.op)
  /\ late' = Null
  /\ UNCHANGED <<company, disturbed, lists, metrics, dash, measuring, record, review, mutation>>

ReadList ==
  /\ dash # Null /\ dash.list = Waiting
  /\ dash' = [dash EXCEPT !.list = Listed]
  /\ UNCHANGED <<server, disturbed, lists, metrics, measuring, record, review, mutation>>

ReadCounts ==
  /\ \/ /\ dash # Null /\ dash.metrics = Waiting
        /\ dash' = [dash EXCEPT !.metrics = incident.changes]
        /\ UNCHANGED measuring
     \/ /\ measuring = Waiting
        /\ measuring' = incident.changes
        /\ UNCHANGED dash
  /\ UNCHANGED <<server, disturbed, lists, metrics, record, review, mutation>>
-----------------------------------------------------------------------------
(* The screen. *)

\* getActiveArbitrationKey: the request that waits for its first consultation.
Key(inc) == IF inc.request # Null /\ ~inc.request.seen THEN inc.request.event ELSE Null

\* The effect that opens the dialogue by itself on the record in focus.
AutoReview(inc, inFocus, open, key) ==
  IF open = Null /\ inc # Null /\ inFocus /\ Key(inc) \notin {Null, key}
  THEN [incident |-> inc, type |-> inc.request.type]
  ELSE open

\* The effects that follow the list and the address: the record is the row of
\* the list that the address names; the address forgets an incident that a list
\* with others no longer holds, and the dialogue closes with the record.
Reselect(named, chosen, open, key) ==
  LET gone == named /\ row' = Null /\ ~loading' /\ others'
      inc == IF ~named \/ gone THEN Null ELSE IF row' # Null THEN row' ELSE chosen
      same == inc # Null /\ selected # Null
      newKey == IF same \/ (inc = Null /\ selected = Null) THEN key ELSE Null
      kept == IF inc = Null /\ selected # Null THEN Null ELSE open
  IN /\ address' = (named /\ ~gone)
     /\ selected' = inc
     /\ focused' = (same /\ focused /\ inc.changes = selected.changes /\ loading = loading')
     /\ reported' = newKey
     /\ review' = AutoReview(inc, focused', kept, newKey)

\* requestAnimationFrame: the record is rendered.
Frame ==
  /\ selected # Null /\ ~loading /\ ~focused
  /\ focused' = TRUE
  /\ review' = AutoReview(selected, TRUE, review, reported)
  /\ UNCHANGED <<server, disturbed, lists, metrics, dash, measuring, address, selected,
                 reported, mutation>>

\* refreshMetrics: left to refreshData while that one is in flight.
RefreshMetrics == measuring' = IF dash = Null THEN Waiting ELSE measuring

\* Mutant of Poll: the metrics asked for are left in flight.
PollBeside ==
  /\ dash = Null
  /\ dash' = NoAnswer
  /\ UNCHANGED <<server, disturbed, lists, metrics, measuring, record, review, mutation>>

\* Mutant of Poll: the interval does nothing under a dialogue.
PollUnlessReviewing ==
  /\ dash = Null
  /\ review = Null
  /\ dash' = NoAnswer
  /\ measuring' = Null
  /\ UNCHANGED <<server, disturbed, lists, metrics, record, review, mutation>>

\* The interval of thirty seconds: a request takes fifteen at most.
Poll ==
  /\ dash = Null
  /\ dash' = NoAnswer
  /\ measuring' = Null
  /\ UNCHANGED <<server, disturbed, lists, metrics, record, review, mutation>>

\* The window gets the focus back: an earlier refreshData is aborted.
Return ==
  /\ More
  /\ disturbed' = disturbed + 1
  /\ dash' = NoAnswer
  /\ measuring' = Null
  /\ UNCHANGED <<server, lists, metrics, record, review, mutation>>

\* The server may still execute what it was asked.
GiveUp ==
  IF mutation # Null /\ mutation.answer = Waiting
  THEN late' \in {late, [op |-> mutation.op, dialogue |-> mutation.dialogue]}
  ELSE UNCHANGED late

\* The page is left, and opened again: nothing is kept but what the server does.
Leave ==
  /\ More
  /\ disturbed' = disturbed + 1
  /\ GiveUp
  /\ row' = Null /\ others' = FALSE /\ loading' = TRUE
  /\ metrics' = Null /\ dash' = NoAnswer /\ measuring' = Null
  /\ address' \in BOOLEAN
  /\ selected' = Null /\ focused' = FALSE /\ review' = Null /\ reported' = Null
  /\ mutation' = Null
  /\ UNCHANGED <<incident, company>>

\* All the answers are there.
Arrive ==
  /\ dash # Null /\ dash.list # Waiting /\ dash.metrics # Waiting
  /\ row' = dash.list
  /\ others' = company
  /\ loading' = FALSE
  /\ metrics' = dash.metrics
  /\ dash' = Null
  /\ Reselect(address, selected, review, reported)
  /\ UNCHANGED <<server, disturbed, measuring, mutation>>

ArriveCounts ==
  /\ measuring \notin {Null, Waiting}
  /\ metrics' = measuring
  /\ measuring' = Null
  /\ UNCHANGED <<server, disturbed, lists, dash, record, review, mutation>>

\* A request fails or takes too long: what is on the screen stays.
Fail ==
  /\ More
  /\ disturbed' = disturbed + 1
  /\ \/ /\ dash # Null
        /\ dash' = Null
        /\ loading' = FALSE
        /\ UNCHANGED <<row, others>>
        /\ Reselect(address, selected, review, reported)
        /\ UNCHANGED <<server, metrics, measuring, mutation>>
     \/ /\ measuring # Null
        /\ measuring' = Null
        /\ UNCHANGED <<server, lists, metrics, dash, record, review, mutation>>
     \/ /\ mutation # Null /\ mutation.answer # Null /\ ~mutation.counted
        /\ mutation' = [mutation EXCEPT !.answer = Null]
        /\ GiveUp
        /\ UNCHANGED <<incident, company, lists, metrics, dash, measuring, record, review>>

\* The user opens the record, from its card.
Select ==
  /\ row # Null /\ review = Null /\ selected = Null
  /\ UNCHANGED <<server, disturbed, lists, metrics, dash, measuring, mutation>>
  /\ Reselect(TRUE, row, review, reported)

\* Back to the list.
Back ==
  /\ selected # Null /\ review = Null
  /\ UNCHANGED <<server, disturbed, lists, metrics, dash, measuring, mutation>>
  /\ Reselect(FALSE, Null, review, reported)

\* The card of a request opens the dialogue.
Review ==
  /\ row # Null /\ row.request # Null /\ review = Null
  /\ review' = [incident |-> row, type |-> row.request.type]
  /\ reported' = Null
  /\ UNCHANGED <<server, disturbed, lists, metrics, dash, measuring, address, selected,
                 focused, mutation>>

\* The user closes the dialogue without a decision; the same request does not
\* open it again.
Report ==
  /\ review # Null /\ mutation = Null
  /\ reported' = Key(review.incident)
  /\ review' = AutoReview(selected, focused, Null, reported')
  /\ UNCHANGED <<server, disturbed, lists, metrics, dash, measuring, address, selected,
                 focused, mutation>>

\* Mutant of Decision: the approval of a cancelation is the direct one.
DecisionUnexpecting(type) ==
  IF type = "edit" THEN {"approve edit", "reject edit", "consult edit"}
  ELSE {"cancel directly", "reject cancel", "consult cancel"}

\* What the dialogue offers.
Decision(type) ==
  IF type = "edit" THEN {"approve edit", "reject edit", "consult edit"}
  ELSE {"approve cancel", "reject cancel", "consult cancel"}

\* The user decides, on what the dialogue shows.
Decide ==
  /\ review # Null /\ mutation = Null
  /\ \E op \in Decision(review.type) :
       /\ op \in Consults => Key(review.incident) # Null
       /\ mutation' = [op |-> op, dialogue |-> TRUE, counted |-> FALSE, answer |-> Waiting]
  /\ UNCHANGED <<server, disturbed, lists, metrics, dash, measuring, record, review>>

\* The user acts from the open record: its urgency, its instruction, or a
\* cancelation.
Act ==
  /\ selected # Null /\ selected.open /\ review = Null /\ mutation = Null
  /\ \E op \in {"change", "cancel directly"} :
       /\ op = "cancel directly" => selected.request = Null
       /\ mutation' = [op |-> op, dialogue |-> FALSE, counted |-> FALSE,
                       answer |-> Waiting]
  /\ UNCHANGED <<server, disturbed, lists, metrics, dash, measuring, record, review>>

\* A consultation was answered: it waits for the metrics before it ends.
Recount ==
  /\ mutation # Null /\ mutation.answer \notin {Null, Waiting}
  /\ mutation.op \in Consults /\ ~mutation.counted
  /\ mutation' = [mutation EXCEPT !.counted = TRUE]
  /\ RefreshMetrics
  /\ UNCHANGED <<server, disturbed, lists, metrics, dash, record, review>>

\* The metrics are asked for again, but for the urgency of an incident.
Recounted ==
  IF mutation.counted THEN UNCHANGED measuring
  ELSE RefreshMetrics \/ (mutation.op = "change" /\ UNCHANGED measuring)

\* The service accepted: its answer replaces the row and the record (a canceled
\* one is marked, and its record closes).  A dialogue that decided closes.
Succeed ==
  /\ mutation # Null /\ mutation.answer \notin {Null, Waiting}
  /\ mutation.op \in Consults => mutation.counted /\ measuring = Null
  /\ LET canceled == mutation.op \in {"approve cancel", "cancel directly"}
         open == IF mutation.dialogue THEN Null ELSE review
     IN /\ row' = IF row = Null THEN Null
                  ELSE IF canceled THEN [row EXCEPT !.open = FALSE, !.request = Null]
                  ELSE mutation.answer
        /\ UNCHANGED <<others, loading>>
        /\ Reselect(address /\ ~(canceled /\ selected # Null),
                    IF selected = Null THEN Null ELSE mutation.answer, open, reported)
  /\ Recounted
  /\ mutation' = Null
  /\ UNCHANGED <<server, disturbed, metrics, dash>>

\* It refused, or no answer came: the dialogue stays open with the error.
Refuse ==
  /\ mutation # Null /\ mutation.answer = Null
  /\ mutation' = Null
  /\ UNCHANGED <<server, disturbed, lists, metrics, dash, measuring, record, review>>

Next ==
  \/ Elsewhere \/ Serve \/ ServeLate \/ ReadList \/ ReadCounts
  \/ Frame \/ Poll \/ Return \/ Leave \/ Arrive \/ ArriveCounts \/ Fail
  \/ Select \/ Back \/ Review \/ Report \/ Decide \/ Act \/ Recount \/ Succeed \/ Refuse

\* The interval fires, the server answers, and the browser receives it.
Fairness ==
  /\ WF_vars(Poll) /\ WF_vars(ReadList) /\ WF_vars(ReadCounts) /\ WF_vars(Arrive)

Spec == Init /\ [][Next]_vars

FairSpec == Spec /\ Fairness
-----------------------------------------------------------------------------
(* Properties. *)

\* The metrics on the screen never go back to an earlier state of the workshop.
MetricsNeverGoBack == [][Null \notin {metrics, metrics'} => metrics' >= metrics]_vars

\* The screen shows the incident as it is, or shows it no more.
UpToDate == row = Listed /\ metrics = incident.changes

\* Whatever is late, lost or answered out of order, the screen ends by being
\* up to date, and stays so.
ViewCatchesUp == <>[]UpToDate

\* A decision of the dialogue cancels the incident only for a request of
\* cancelation that is still there.
ApprovalNeedsRequest ==
  [][(Serve /\ mutation.dialogue) \/ (ServeLate /\ late.dialogue)
       => (incident.open /\ ~incident'.open
             => incident.request # Null /\ incident.request.type = "cancel")]_vars
=============================================================================
