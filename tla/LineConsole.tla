---------------------------- MODULE LineConsole ----------------------------
(***************************************************************************)
(* The administrators' page of production lines (LinesPage, its detail and *)
(* its dialogues), open in several browsers, against the service of lines  *)
(* and the workshop that declares on them.                                 *)
(*                                                                         *)
(* The list is read once, when the page opens, and then follows the        *)
(* answers to its own orders only.  A dialogue works on the page's copy of *)
(* the line, shows before and after, and sends whole fields.  The service  *)
(* locks the line and compares with the row of now; what concerns several  *)
(* lines, numbers and machines, it reads without a lock, and unique        *)
(* indexes decide at the writing.                                          *)
(*                                                                         *)
(* A machine stands with its brand and its robots.                         *)
(***************************************************************************)
EXTENDS Naturals, SequencesExt, FiniteSets

CONSTANTS
  Consoles,    \* browsers where an administrator works
  Lines,       \* identities of the lines, all to come at first
  Numbers,     \* numbers of the lines
  Machines,    \* identifiers of the machines
  MaxMachines, \* 10 machines on a line
  MaxBusy,     \* bound: active incidents on a line
  Archived,    \* a line that is_deleted marks
  Null         \* nothing

VARIABLES
  lines,  \* [Lines -> row, or Null before its creation]: production_lines
  busy,   \* [Lines -> number of active incidents]
  console \* [Consoles -> the state of the page, or Null]

vars == <<lines, busy, console>>

ConstantsOK ==
  /\ MaxMachines \in Nat \ {0} /\ MaxBusy \in Nat
  /\ Null \notin Numbers \cup Machines

\* The columns of a line that the model tells apart.
Row(number, active, machines) ==
  [number |-> number, active |-> active, machines |-> machines]

Live(l) == lines[l] \notin {Null, Archived}

Ids(machines) == ToSet(machines)

Init ==
  /\ lines = [l \in Lines |-> Null]
  /\ busy = [l \in Lines |-> 0]
  /\ console = [c \in Consoles |-> Null]

-----------------------------------------------------------------------------
(* The page and its list *)

Mounted == [loaded |-> "loading", list |-> <<>>, selected |-> Null, dialogue |-> Null, call |-> Null]

Enter(c) ==
  /\ console[c] = Null
  /\ console' = [console EXCEPT ![c] = Mounted]
  /\ UNCHANGED <<lines, busy>>

\* The list is read, and shown in the same step.
LoadLines(c) ==
  /\ console[c] # Null /\ console[c].loaded = "loading"
  /\ \/ console' = [console EXCEPT ![c].loaded = "ready",
                      ![c].list = [l \in {k \in Lines : Live(k)} |-> lines[l]]]
     \/ console' = [console EXCEPT ![c].loaded = "failed"]
  /\ UNCHANGED <<lines, busy>>

\* A dialogue hides the page behind it.
Free(c) == console[c] # Null /\ console[c].dialogue = Null

Select(c, l) ==
  /\ Free(c) /\ console[c].loaded = "ready" /\ console[c].selected = Null
  /\ l \in DOMAIN console[c].list
  /\ console' = [console EXCEPT ![c].selected = l]
  /\ UNCHANGED <<lines, busy>>

Back(c) ==
  /\ Free(c) /\ console[c].selected # Null
  /\ console' = [console EXCEPT ![c].selected = Null]
  /\ UNCHANGED <<lines, busy>>

\* Bound: the page is not left while a call is in flight.
Quit(c) ==
  /\ Free(c) /\ console[c].call = Null
  /\ console' = [console EXCEPT ![c] = Null]
  /\ UNCHANGED <<lines, busy>>

-----------------------------------------------------------------------------
(* The dialogues *)

Dialogue(kind, copy, index) ==
  [kind |-> kind, copy |-> copy, form |-> copy, index |-> index, step |-> "form",
   impact |-> Null, force |-> FALSE]

EmptyForm == [number |-> Null, active |-> TRUE, machines |-> <<Null>>]

Opens(c, dialogue) ==
  /\ console' = [console EXCEPT ![c].dialogue = dialogue]
  /\ UNCHANGED <<lines, busy>>

OpenCreate(c) == Free(c) /\ console[c].selected = Null /\ Opens(c, Dialogue("CREATE", EmptyForm, 0))

OpenOnLine(c) ==
  /\ Free(c) /\ console[c].selected # Null
  /\ LET copy == console[c].list[console[c].selected]
     IN \/ \E kind \in {"EDIT", "PLAN", "ARCHIVE"} : Opens(c, Dialogue(kind, copy, 0))
        \/ \E i \in DOMAIN copy.machines : Opens(c, Dialogue("MACHINE", copy, i))

Working(c, step) ==
  /\ console[c] # Null /\ console[c].dialogue # Null /\ console[c].call = Null
  /\ console[c].dialogue.step = step

\* The machines that a form may list.
Lists == UNION {[1..n -> Machines] : n \in 1..MaxMachines}

\* The fields of a new line; an existing one has its status too.
FilledLine(d) ==
  {f \in {Row(n, a, m) : n \in Numbers, a \in BOOLEAN, m \in Lists} :
     d.kind = "CREATE" => f.active}

\* A machine has a form of its own.
FilledMachine(d) == {[d.form EXCEPT !.machines[d.index] = m] : m \in Machines}

\* A plan moves the machines.
FilledPlan(d) ==
  LET ms == d.form.machines
  IN {[d.form EXCEPT !.machines = InsertAt(RemoveAt(ms, i), j, ms[i])] : i, j \in DOMAIN ms}

\* What the fields of a dialogue may hold in the end.
Filled(d) ==
  CASE d.kind \in {"CREATE", "EDIT"} -> FilledLine(d)
    [] d.kind = "MACHINE" -> FilledMachine(d)
    [] d.kind = "PLAN" -> FilledPlan(d)
    [] OTHER -> {}

\* validateLineForm: each machine once; what is left blank does not pass.
Valid(f) == IsInjective(f.machines)

\* The form is filled, and the summary of what it changes follows; the form of a new
\* line, or of a machine, is checked against the other lines first.
Preview(c) ==
  /\ Working(c, "form")
  /\ LET d == console[c].dialogue
     IN \E f \in Filled(d) :
          /\ f # d.copy /\ Valid(f)
          /\ console' = [console EXCEPT ![c].dialogue.form = f, ![c].dialogue.step =
                           IF d.kind \in {"CREATE", "MACHINE"} THEN "checking" ELSE "preview"]
  /\ UNCHANGED <<lines, busy>>

\* The machines of the lines, but those of line l.
OthersMachines(l) == UNION {Ids(lines[k].machines) : k \in {j \in Lines \ {l} : Live(j)}}
OthersNumbers(l) == {lines[k].number : k \in {j \in Lines \ {l} : Live(j)}}

\* checkLineConflicts: the number of a line is compared for a new one only.
CheckConflicts(c) ==
  /\ Working(c, "checking")
  /\ LET d == console[c].dialogue
         l == IF d.kind = "CREATE" THEN Null ELSE console[c].selected
         conflict == \/ Ids(d.form.machines) \cap OthersMachines(l) # {}
                     \/ d.kind = "CREATE" /\ d.form.number \in OthersNumbers(l)
     IN \/ ~conflict /\ console' = [console EXCEPT ![c].dialogue.step = "preview"]
        \/ console' = [console EXCEPT ![c].dialogue.step = "form"]
  /\ UNCHANGED <<lines, busy>>

Return(c) ==
  /\ Working(c, "preview")
  /\ console' = [console EXCEPT ![c].dialogue.step = "form"]
  /\ UNCHANGED <<lines, busy>>

Close(c) ==
  /\ Working(c, "form") \/ Working(c, "preview")
  /\ console' = [console EXCEPT ![c].dialogue = Null]
  /\ UNCHANGED <<lines, busy>>

\* The incidents of a line to archive are counted once, when its dialogue opens.
ReadImpact(c) ==
  /\ Working(c, "form") /\ console[c].dialogue.kind = "ARCHIVE"
  /\ console[c].dialogue.impact = Null
  /\ console' = [console EXCEPT ![c].dialogue.impact = busy[console[c].selected]]
  /\ UNCHANGED <<lines, busy>>

\* The forced archiving is offered when there are some.
ToggleForce(c) ==
  /\ Working(c, "form") /\ console[c].dialogue.impact \notin {Null, 0}
  /\ console' = [console EXCEPT ![c].dialogue.force = ~@]
  /\ UNCHANGED <<lines, busy>>

\* What a dialogue sends: a line sends all of its fields, a machine and a plan the
\* machines of the whole line.
Payload(d) ==
  CASE d.kind = "EDIT" -> d.form
    [] d.kind = "CREATE" -> [number |-> d.form.number, machines |-> d.form.machines]
    [] d.kind = "ARCHIVE" -> [force |-> d.force]
    [] OTHER -> [machines |-> d.form.machines]

Confirm(c) ==
  /\ Working(c, IF console[c].dialogue.kind = "ARCHIVE" THEN "form" ELSE "preview")
  /\ console' = [console EXCEPT ![c].call =
       [status |-> "sent", line |-> console[c].selected, data |-> Payload(console[c].dialogue)]]
  /\ UNCHANGED <<lines, busy>>

-----------------------------------------------------------------------------
(* The service *)

Ordered(c, kinds, status) ==
  /\ console[c] # Null /\ console[c].call # Null
  /\ console[c].call.status = status /\ console[c].dialogue.kind \in kinds

\* The request is refused: its dialogue stays, as it does when a call fails.
Refused(c) == console' = [console EXCEPT ![c].call = Null]

Stored(c, l, row) ==
  console' = [console EXCEPT ![c].call = [status |-> "stored", line |-> l, data |-> row]]

\* An update that passed its checks and is not written yet.
UpdateChecked(c) == Ordered(c, {"EDIT", "MACHINE", "PLAN"}, "checked")

\* Mutant of Locked: the line is read, and not FOR UPDATE.
LockedNever(l) == FALSE

\* A transaction has the line until it ends.
Locked(l) == \E c \in Consoles : UpdateChecked(c) /\ console[c].call.line = l

Conflicts(l, r) == Ids(r.machines) \cap OthersMachines(l) # {} \/ r.number \in OthersNumbers(l)

\* createLineService up to its insertion.
CheckNew(c) ==
  /\ Ordered(c, {"CREATE"}, "sent")
  /\ IF Conflicts(Null, console[c].call.data) THEN Refused(c)
     ELSE console' = [console EXCEPT ![c].call.status = "checked"]
  /\ UNCHANGED <<lines, busy>>

\* The row that an update makes of line l.
Updated(l, data) == [f \in DOMAIN lines[l] |-> IF f \in DOMAIN data THEN data[f] ELSE lines[l][f]]

\* hasStructuralLineChanges
Structural(l, r) ==
  r.number # lines[l].number \/ r.machines # lines[l].machines \/ (lines[l].active /\ ~r.active)

\* updateLineService up to its writing: the row of now is locked; what changes is
\* refused under active incidents, or when another line has it.
CheckUpdate(c) ==
  /\ Ordered(c, {"EDIT", "MACHINE", "PLAN"}, "sent")
  /\ LET l == console[c].call.line
         r == Updated(l, console[c].call.data)
         taken == \/ r.number # lines[l].number /\ r.number \in OthersNumbers(l)
                  \/ r.machines # lines[l].machines /\ Ids(r.machines) \cap OthersMachines(l) # {}
     IN /\ ~Locked(l)
        /\ IF ~Live(l) \/ (Structural(l, r) /\ busy[l] > 0) \/ taken THEN Refused(c)
           ELSE IF r = lines[l] THEN Stored(c, l, r)
           ELSE console' = [console EXCEPT ![c].call.status = "checked"]
  /\ UNCHANGED <<lines, busy>>

\* Mutant of Indexed: what was read is believed.
NotIndexed(l, r) == TRUE

\* The unique indexes on the numbers and the machines of the live lines.
Indexed(l, r) == ~Conflicts(l, r)

\* The writing, which an index may refuse, and the commit.
Write(c) ==
  /\ Ordered(c, {"CREATE", "EDIT", "MACHINE", "PLAN"}, "checked")
  /\ LET data == console[c].call.data
     IN \E l \in Lines :
          /\ IF console[c].dialogue.kind = "CREATE" THEN lines[l] = Null ELSE l = console[c].call.line
          /\ LET r == IF lines[l] = Null THEN Row(data.number, TRUE, data.machines) ELSE Updated(l, data)
             IN \/ /\ Indexed(l, r)
                   /\ lines' = [lines EXCEPT ![l] = r]
                   /\ Stored(c, l, r)
                \/ ~Indexed(l, r) /\ Refused(c) /\ UNCHANGED lines
  /\ UNCHANGED busy

\* archiveLineService: forced, it cancels the incidents that are active now.
Archive(c) ==
  /\ Ordered(c, {"ARCHIVE"}, "sent")
  /\ LET l == console[c].call.line
     IN /\ ~Locked(l)
        /\ \/ /\ Live(l) /\ (busy[l] > 0 => console[c].call.data.force)
              /\ lines' = [lines EXCEPT ![l] = Archived]
              /\ busy' = [busy EXCEPT ![l] = 0]
              /\ Stored(c, l, Archived)
           \/ /\ ~Live(l) \/ (busy[l] > 0 /\ ~console[c].call.data.force)
              /\ Refused(c) /\ UNCHANGED <<lines, busy>>

\* The workshop declares on an active line, that it locks, and ends incidents.
Declare(l) ==
  /\ Live(l) /\ lines[l].active /\ ~Locked(l) /\ busy[l] < MaxBusy
  /\ busy' = [busy EXCEPT ![l] = @ + 1]
  /\ UNCHANGED <<lines, console>>

EndIncident(l) ==
  /\ busy[l] > 0
  /\ busy' = [busy EXCEPT ![l] = @ - 1]
  /\ UNCHANGED <<lines, console>>

-----------------------------------------------------------------------------
(* The answers *)

\* The list takes the row of the answer, or loses the line; the dialogue closes.
Shows(p) ==
  LET l == p.call.line
      shown == [p EXCEPT !.call = Null, !.dialogue = Null]
  IN IF p.call.data = Archived
     THEN [shown EXCEPT !.list = Restrict(@, DOMAIN @ \ {l}), !.selected = Null]
     ELSE [shown EXCEPT !.list = [k \in DOMAIN @ \cup {l} |-> IF k = l THEN p.call.data ELSE @[k]]]

Answer(c) ==
  /\ console[c] # Null /\ console[c].call # Null /\ console[c].call.status = "stored"
  /\ console' = [console EXCEPT ![c] = Shows(@)]
  /\ UNCHANGED <<lines, busy>>

\* A wrong password, a transaction that is rolled back, a request or an answer lost:
\* the dialogue stays.
Fail(c) ==
  /\ console[c] # Null /\ console[c].call # Null
  /\ Refused(c)
  /\ UNCHANGED <<lines, busy>>

Next ==
  \/ \E c \in Consoles :
       \/ Enter(c) \/ LoadLines(c) \/ Back(c) \/ Quit(c) \/ \E l \in Lines : Select(c, l)
       \/ OpenCreate(c) \/ OpenOnLine(c) \/ Preview(c) \/ CheckConflicts(c)
       \/ Return(c) \/ Close(c) \/ ReadImpact(c) \/ ToggleForce(c) \/ Confirm(c)
       \/ CheckNew(c) \/ CheckUpdate(c) \/ Write(c) \/ Archive(c)
       \/ Answer(c) \/ Fail(c)
  \/ \E l \in Lines : Declare(l) \/ EndIncident(l)

Spec == Init /\ [][Next]_vars
-----------------------------------------------------------------------------
(* Properties *)

\* Whatever two administrators were shown, no machine and no number is on two
\* lines in service.
UniqueAcrossLines == \A l \in Lines : Live(l) => ~Conflicts(l, lines[l])

\* What an update was allowed on stays true until it is written: its line is in
\* service, and free of incidents when its structure changes.
UpdateStaysAllowed ==
  \A c \in Consoles : UpdateChecked(c) =>
    LET l == console[c].call.line
    IN Live(l) /\ (Structural(l, Updated(l, console[c].call.data)) => busy[l] = 0)

\* The checks of the service hold for what it writes: on the other lines, whose
\* rows it does not lock, and on the line itself.
LinesAreConsistent == UniqueAcrossLines /\ UpdateStaysAllowed
=============================================================================
