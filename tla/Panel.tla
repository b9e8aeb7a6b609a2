------------------------------- MODULE Panel --------------------------------
(***************************************************************************)
(* The correction of an incident from its record: the panel and the form   *)
(* of Sentinel's dashboard (WorkshopDashboardPage, IncidentDetailPanel,    *)
(* CreateIncidentModal) against a service where the incidents change.      *)
(*                                                                         *)
(* The form copies the incident when it is mounted, and sends all of its   *)
(* fields: the service finds out what changes by comparing them with the   *)
(* incident of that moment.  The dialogue is a flag of the page, apart     *)
(* from the incident it was opened on: the browser's Back changes the      *)
(* incident under a form that stays, or unmounts the panel with the flag   *)
(* up, and the form comes back on the next incident that is opened.        *)
(*                                                                         *)
(* The list of the dashboard is read and shown in one step here: late      *)
(* lists are the business of module Dashboard.                             *)
(***************************************************************************)
EXTENDS Naturals, FiniteSets

CONSTANTS
  Incidents,   \* active incidents, declared by the viewer when an operator
  Layout,      \* [line -> the <<machine, head>> pairs it offers]
  States,      \* descriptions of a fault
  MaxEvents,   \* bound: changes made by the other users
  Null         \* nothing: no incident, no form, no request, nothing selected

VARIABLES
  record,   \* [Incidents -> row] of table workshop_incidents
  copy,     \* [Incidents -> row or Null]: the incidents of the list on screen
  entry,    \* the incident of the address and of the panel, or Null
  past,     \* the incident of the panel before it, which Back brings back, or Null
  dialogue, \* activeModal = 'edit'
  form,     \* the fields of the mounted form, with what happened since, or Null
  sending,  \* the PATCH in flight, or Null
  events    \* changes made by the other users so far

vars == <<record, copy, entry, past, dialogue, form, sending, events>>

Fields == {"lineId", "machineId", "headNumber", "state"}
OnPlan == UNION {{<<l, p[1], p[2]>> : p \in Layout[l]} : l \in DOMAIN Layout}
Described(p, s) == [lineId |-> p[1], machineId |-> p[2], headNumber |-> p[3], state |-> s]
Descriptions == UNION {{Described(p, s) : s \in States} : p \in OnPlan}
Place(d) == <<d.lineId, d.machineId, d.headNumber>>

ConstantsOK ==
  /\ Incidents # {} /\ Cardinality(OnPlan) >= Cardinality(Incidents)
  /\ Null \notin Incidents \cup States \cup {p[k] : p \in OnPlan, k \in 1..3}

\* The active incidents stand on places of their own.
Init ==
  /\ record \in [Incidents -> [fields : Descriptions, request : {Null}, active : {TRUE}]]
  /\ \A i, j \in Incidents :
       Place(record[i].fields) = Place(record[j].fields) => i = j
  /\ copy = record
  /\ entry = Null /\ past = Null /\ dialogue = FALSE
  /\ form = Null /\ sending = Null /\ events = 0

-----------------------------------------------------------------------------
(* The service *)

\* Mutant of Changed: the request keeps all that the form sent.
Sent(p, d) == p

\* changedEditPayload: the fields of p that really change d, and their values.
Changed(p, d) == [f \in {g \in Fields : p[g] # d[g]} |-> p[f]]

Merge(p, d) == [f \in Fields |-> IF f \in DOMAIN p THEN p[f] ELSE d[f]]

Free(d, i) ==
  /\ Place(d) \in OnPlan
  /\ \A j \in Incidents \ {i} : record[j].active => Place(record[j].fields) # Place(d)

\* The fields on which incident i is about to change.
Altered(i) == {f \in Fields : record'[i].fields[f] # record[i].fields[f]}

\* What others change while a form is open is remembered with the form.
Overtaken(x, i) ==
  IF x.origin = i THEN [x EXCEPT !.overtaken = @ \cup Altered(i)] ELSE x

\* A supervisor edits an incident or decides on its correction, a technician
\* ends it.
Elsewhere(i) ==
  LET r == record[i]
  IN /\ events < MaxEvents /\ r.active
     /\ \/ /\ r.request = Null
           /\ \E p \in OnPlan, s \in States :
                /\ Described(p, s) # r.fields
                /\ Free(Described(p, s), i)
                /\ record' = [record EXCEPT ![i].fields = Described(p, s)]
        \/ /\ r.request # Null
           /\ Free(Merge(r.request, r.fields), i)
           /\ record' = [record EXCEPT ![i].fields = Merge(r.request, @), ![i].request = Null]
        \/ r.request # Null /\ record' = [record EXCEPT ![i].request = Null]
        \/ r.request = Null /\ record' = [record EXCEPT ![i].active = FALSE]
     /\ events' = events + 1
     /\ form' = IF form = Null THEN Null ELSE Overtaken(form, i)
     /\ sending' = IF sending = Null \/ sending.status # "sent" THEN sending
                   ELSE [sending EXCEPT !.form = Overtaken(@, i)]
     /\ UNCHANGED <<copy, entry, past, dialogue>>

\* updateIncidentService: an operator asks for a correction with requestOnly;
\* without it, the form sends requestOnly as FALSE, which is refused.
Accepts(i, p) ==
  /\ sending.requestOnly
  /\ record[i].active /\ record[i].request = Null
  /\ DOMAIN Changed(p, record[i].fields) # {}

\* An answer that nobody waits for is forgotten.
Answered(status, row) ==
  IF sending.live THEN [sending EXCEPT !.status = status, !.form = Null, !.row = row] ELSE Null

Serve ==
  /\ sending # Null /\ sending.status = "sent"
  /\ LET i == sending.to
         p == sending.form.fields
     IN IF Accepts(i, p)
        THEN /\ record' = [record EXCEPT ![i].request = Changed(p, record[i].fields)]
             /\ sending' = Answered("accepted", record'[i])
        ELSE sending' = Answered("refused", Null) /\ UNCHANGED record
  /\ UNCHANGED <<copy, entry, past, dialogue, form, events>>

-----------------------------------------------------------------------------
(* The panel and its form *)

\* useState of CreateIncidentModal, at its first rendering, from the list on
\* screen, which may be behind already.
Opening(i) == [fields |-> copy'[i].fields, typed |-> {}, origin |-> i, preview |-> FALSE,
               overtaken |-> {f \in Fields : copy'[i].fields[f] # record[i].fields[f]}]

\* What React makes of the form: it is there while the dialogue and the panel
\* are, and keeps its fields as long as it is, whatever the incident it is given.
Rendered(old) ==
  IF ~dialogue' \/ entry' = Null THEN Null
  ELSE IF old = Null THEN Opening(entry') ELSE old

\* The answer to the form that leaves the screen is ignored.
Rerender ==
  /\ form' = Rendered(form)
  /\ sending' = IF sending = Null \/ form' # Null THEN sending
                ELSE IF sending.status = "sent" THEN [sending EXCEPT !.live = FALSE]
                ELSE Null

\* The list is read again.  An incident that left it closes its panel, unless
\* the list is empty.
Poll ==
  LET listed == {i \in Incidents : record[i].active}
      keep == IF listed = {} THEN {entry} ELSE listed
  IN /\ copy' = [i \in Incidents |->
                   IF i \in listed THEN record[i] ELSE IF i \in keep THEN copy[i] ELSE Null]
     /\ IF entry \in keep THEN UNCHANGED <<entry, past>> ELSE entry' = Null /\ past' = Null
     /\ UNCHANGED <<record, dialogue, events>>
     /\ Rerender

\* A card of the list, out of reach behind a dialogue.
Select(i) ==
  /\ form = Null /\ copy[i] # Null /\ i # entry
  /\ entry' = i /\ past' = entry
  /\ UNCHANGED <<record, copy, dialogue, events>>
  /\ Rerender

\* The cross of the panel.
Leave ==
  /\ form = Null /\ entry # Null
  /\ entry' = Null /\ past' = Null
  /\ UNCHANGED <<record, copy, dialogue, events>>
  /\ Rerender

\* The Back button of the browser, which a dialogue does not stop.  From the
\* list it is a selection.
Back ==
  /\ entry # Null
  /\ entry' = IF past # Null /\ copy[past] # Null THEN past ELSE Null
  /\ past' = Null
  /\ UNCHANGED <<record, copy, dialogue, events>>
  /\ Rerender

\* The button of the correction, which an operator has.
Editable(row) == row.active /\ row.request = Null

Open ==
  /\ form = Null /\ entry # Null /\ Editable(copy[entry])
  /\ dialogue' = TRUE
  /\ UNCHANGED <<record, copy, entry, past, events>>
  /\ Rerender

Pending == sending # Null /\ sending.live

Close ==
  /\ form # Null /\ ~Pending
  /\ dialogue' = FALSE
  /\ UNCHANGED <<record, copy, entry, past, events>>
  /\ Rerender

\* The choice of a line empties the machine and the head, that of a machine the
\* head.
Below == [lineId |-> {"machineId", "headNumber"}, machineId |-> {"headNumber"},
          headNumber |-> {}, state |-> {}]

Options(f) ==
  LET d == form.fields
      offered == IF d.lineId = Null THEN {} ELSE Layout[d.lineId]
  IN IF f = "lineId" THEN DOMAIN Layout
     ELSE IF f = "machineId" THEN {p[1] : p \in offered}
     ELSE IF f = "headNumber" THEN {p[2] : p \in {q \in offered : q[1] = d.machineId}}
     ELSE States

\* Bound, here and below: an ignored PATCH in flight is answered before the viewer
\* goes on.
Type(f) ==
  /\ form # Null /\ ~form.preview /\ sending = Null
  /\ \E v \in Options(f) :
       /\ v # form.fields[f]
       /\ form' = [form EXCEPT !.typed = (@ \ Below[f]) \cup {f},
                               !.fields = [g \in Fields |-> IF g = f THEN v
                                            ELSE IF g \in Below[f] THEN Null ELSE @[g]]]
  /\ UNCHANGED <<record, copy, entry, past, dialogue, sending, events>>

Preview ==
  /\ form # Null /\ ~form.preview /\ sending = Null
  /\ \A f \in Fields : form.fields[f] # Null
  /\ form' = [form EXCEPT !.preview = TRUE]
  /\ UNCHANGED <<record, copy, entry, past, dialogue, sending, events>>

Return ==
  /\ form # Null /\ form.preview /\ ~Pending
  /\ form' = [form EXCEPT !.preview = FALSE]
  /\ UNCHANGED <<record, copy, entry, past, dialogue, sending, events>>

\* The incident and requestOnly are those of the panel at this moment.
Submit ==
  /\ form # Null /\ form.preview /\ sending = Null
  /\ sending' = [to |-> entry, form |-> form, row |-> Null, live |-> TRUE, status |-> "sent",
                 requestOnly |-> Editable(copy[entry])]
  /\ UNCHANGED <<record, copy, entry, past, dialogue, form, events>>

\* Nothing answers in time, and the form can be sent again; the service may
\* have done its work.
Fail ==
  /\ sending # Null
  /\ sending' = Null
  /\ UNCHANGED <<record, copy, entry, past, dialogue, form, events>>

\* The form closes on a success, whose row enters the list, and stays on a
\* refusal.
Answer ==
  /\ sending # Null /\ sending.status # "sent"
  /\ sending' = Null
  /\ IF sending.status = "accepted"
     THEN /\ copy' = [copy EXCEPT ![sending.to] = sending.row]
          /\ dialogue' = FALSE /\ form' = Null
     ELSE UNCHANGED <<copy, dialogue, form>>
  /\ UNCHANGED <<record, entry, past, events>>

Next ==
  \/ \E i \in Incidents : Elsewhere(i) \/ Select(i)
  \/ Serve \/ Poll \/ Leave \/ Back \/ Open \/ Close
  \/ \E f \in Fields : Type(f)
  \/ Preview \/ Return \/ Submit \/ Fail \/ Answer

Spec == Init /\ [][Next]_vars
-----------------------------------------------------------------------------
\* The PATCH of a form is taken for a correction of incident i.
Corrects(i) ==
  /\ sending # Null /\ sending.status = "sent" /\ sending.to = i
  /\ record[i].request = Null /\ record'[i].request # Null

\* A correction asks for nothing that the operator neither typed nor could have
\* seen change: a field he left alone is in the request only if somebody else
\* changed the incident since the list was read, or the form was opened on
\* another incident.
UntypedOnlyIfOvertaken ==
  [][\A i \in Incidents :
       Corrects(i) /\ sending.form.origin = i =>
         DOMAIN record'[i].request \subseteq sending.form.typed \cup sending.form.overtaken]_vars
=============================================================================
