------------------------- MODULE LineConsoleProofs -------------------------
(***************************************************************************)
(* What the service of lines keeps consistent for any number of            *)
(* administrators, lines, numbers and machines.                            *)
(***************************************************************************)
EXTENDS LineConsole, TLAPS

-----------------------------------------------------------------------------
(* The invariant *)

\* A page names lines only: in its list, by its selection, and in its order.
PageOK(p) ==
  /\ {"loaded", "list", "selected", "dialogue", "call"} \subseteq DOMAIN p
  /\ DOMAIN p.list \subseteq Lines
  /\ p.selected \in Lines \cup {Null}
  /\ p.dialogue # Null =>
       /\ "kind" \in DOMAIN p.dialogue
       /\ p.dialogue.kind # "CREATE" => p.selected \in Lines
  /\ p.call # Null =>
       /\ p.dialogue # Null
       /\ {"status", "line", "data"} \subseteq DOMAIN p.call
       /\ p.dialogue.kind # "CREATE" \/ p.call.status = "stored" => p.call.line \in Lines

Shapes ==
  /\ lines = [l \in Lines |-> lines[l]]
  /\ busy \in [Lines -> Nat]
  /\ console = [c \in Consoles |-> console[c]]
  /\ \A c \in Consoles : console[c] # Null => PageOK(console[c])

\* A line is locked by one update at a time.
OneLock ==
  \A c, d \in Consoles :
    UpdateChecked(c) /\ UpdateChecked(d) /\ console[c].call.line = console[d].call.line => c = d

\* What the update of page c was allowed on.
Allowed(c) ==
  LET l == console[c].call.line
  IN Live(l) /\ (Structural(l, Updated(l, console[c].call.data)) => busy[l] = 0)

ConsoleInv == Shapes /\ OneLock /\ LinesAreConsistent

-----------------------------------------------------------------------------
(* The rows *)

\* What UniqueAcrossLines says of two lines.
LEMMA TwoByTwo ==
  UniqueAcrossLines <=>
    \A k, l \in Lines : Live(k) /\ Live(l) /\ k # l =>
      /\ Ids(lines[l].machines) \cap Ids(lines[k].machines) = {}
      /\ lines[l].number # lines[k].number
BY DEF UniqueAcrossLines, Conflicts, OthersMachines, OthersNumbers

\* A row that the indexes admit.
LEMMA WrittenUnique ==
  ASSUME UniqueAcrossLines, lines = [k \in Lines |-> lines[k]], NEW l \in Lines, NEW r,
         Indexed(l, r), lines' = [lines EXCEPT ![l] = r]
  PROVE  UniqueAcrossLines'
<1>1. \A k \in Lines : lines'[k] = IF k = l THEN r ELSE lines[k]
  OBVIOUS
<1>2. ASSUME NEW k \in Lines, Live(k), k # l
      PROVE  Ids(r.machines) \cap Ids(lines[k].machines) = {} /\ r.number # lines[k].number
  BY <1>2 DEF Indexed, Conflicts, OthersMachines, OthersNumbers
<1>3. ASSUME NEW k \in Lines, NEW m \in Lines, Live(k)', Live(m)', k # m
      PROVE  /\ Ids(lines'[m].machines) \cap Ids(lines'[k].machines) = {}
             /\ lines'[m].number # lines'[k].number
  <2>1. \A j \in Lines : j # l /\ Live(j)' => Live(j) /\ lines'[j] = lines[j]
    BY <1>1 DEF Live
  <2>2. CASE k = l
    BY <1>1, <1>2, <1>3, <2>1, <2>2
  <2>3. CASE m = l
    BY <1>1, <1>2, <1>3, <2>1, <2>3
  <2>4. CASE k # l /\ m # l
    BY <1>3, <2>1, <2>4, TwoByTwo
  <2> QED
    BY <2>2, <2>3, <2>4
<1> QED
  BY <1>3 DEF UniqueAcrossLines, Conflicts, OthersMachines, OthersNumbers

-----------------------------------------------------------------------------
(* The pages *)

\* Page c turns, and no other.
Turns(c) ==
  /\ console' = [d \in Consoles |-> console'[d]]
  /\ \A d \in Consoles : d # c => console'[d] = console[d]

\* An update of the page of c is a turn of it.
LEMMA Turned ==
  ASSUME Shapes, NEW c \in Consoles, NEW q, console' = [console EXCEPT ![c] = q]
  PROVE  Turns(c) /\ console'[c] = q
BY DEF Shapes, Turns

\* A page that turns without a word to the service.
LEMMA QuietStep ==
  ASSUME ConsoleInv, NEW c \in Consoles, Turns(c), UNCHANGED <<lines, busy>>,
         console'[c] # Null => PageOK(console'[c]),
         UpdateChecked(c)' => UpdateChecked(c) /\ console'[c].call = console[c].call
  PROVE  ConsoleInv'
<1>1. Shapes'
  BY DEF ConsoleInv, Shapes, Turns
<1>2. ASSUME NEW d \in Consoles, UpdateChecked(d)'
      PROVE  UpdateChecked(d) /\ console'[d].call = console[d].call
  <2>1. CASE d = c
    BY <1>2, <2>1
  <2>2. CASE d # c
    BY <1>2, <2>2 DEF Turns, UpdateChecked, Ordered
  <2> QED
    BY <2>1, <2>2
<1>3. OneLock'
  BY <1>2 DEF ConsoleInv, OneLock
<1>4. UniqueAcrossLines'
  BY DEF ConsoleInv, LinesAreConsistent, UniqueAcrossLines, Live, Conflicts, OthersMachines,
         OthersNumbers
<1>5. UpdateStaysAllowed'
  BY <1>2 DEF ConsoleInv, LinesAreConsistent, UpdateStaysAllowed, Live, Structural, Updated
<1> QED
  BY <1>1, <1>3, <1>4, <1>5 DEF ConsoleInv, LinesAreConsistent

\* A line that stays as it is, and free if it was, keeps its update allowed.
LEMMA AllowedKept ==
  ASSUME UpdateStaysAllowed, NEW d \in Consoles, UpdateChecked(d),
         console'[d].call = console[d].call,
         lines'[console[d].call.line] = lines[console[d].call.line],
         busy[console[d].call.line] = 0 => busy'[console[d].call.line] = 0
  PROVE  Allowed(d)'
BY DEF UpdateStaysAllowed, Allowed, Live, Structural, Updated

\* The steps of a page.
LEMMA EnterInv ==
  ASSUME ConsoleInv, NEW c \in Consoles, Enter(c)
  PROVE  ConsoleInv'
<1>1. Turns(c) /\ console'[c] = Mounted
  BY Turned DEF Enter, ConsoleInv
<1>2. PageOK(Mounted) /\ Mounted.call = Null
  BY DEF PageOK, Mounted
<1>3. ~UpdateChecked(c)'
  BY <1>1, <1>2 DEF UpdateChecked, Ordered
<1> QED
  BY <1>1, <1>2, <1>3, QuietStep DEF Enter

LEMMA LoadLinesInv ==
  ASSUME ConsoleInv, NEW c \in Consoles, LoadLines(c)
  PROVE  ConsoleInv'
<1> DEFINE p == console[c]
           q == console'[c]
<1>1. PageOK(p) /\ p # Null
  BY DEF LoadLines, ConsoleInv, Shapes
<1>2. /\ Turns(c)
      /\ q.call = p.call /\ q.dialogue = p.dialogue /\ q.selected = p.selected
      /\ DOMAIN q.list \subseteq Lines /\ DOMAIN q = DOMAIN p
  <2>1. CASE console' = [console EXCEPT ![c].loaded = "failed"]
    BY <1>1, <2>1 DEF ConsoleInv, Shapes, Turns, PageOK
  <2>2. CASE console' = [console EXCEPT ![c].loaded = "ready",
                            ![c].list = [l \in {k \in Lines : Live(k)} |-> lines[l]]]
    BY <1>1, <2>2 DEF ConsoleInv, Shapes, Turns, PageOK
  <2> QED
    BY <2>1, <2>2 DEF LoadLines
<1>3. PageOK(q)
  BY <1>1, <1>2 DEF PageOK
<1>4. UpdateChecked(c)' => UpdateChecked(c) /\ console'[c].call = console[c].call
  BY <1>1, <1>2 DEF UpdateChecked, Ordered
<1> QED
  BY <1>2, <1>3, <1>4, QuietStep DEF LoadLines

\* The order of the page stays, or it has none.
LEMMA IdleStep ==
  ASSUME ConsoleInv, NEW c \in Consoles, Turns(c), UNCHANGED <<lines, busy>>,
         console'[c] # Null => PageOK(console'[c]) /\ console'[c].call = Null
  PROVE  ConsoleInv'
BY QuietStep DEF UpdateChecked, Ordered

LEMMA SelectBackQuitInv ==
  ASSUME ConsoleInv, NEW c \in Consoles, (\E l \in Lines : Select(c, l)) \/ Back(c) \/ Quit(c)
  PROVE  ConsoleInv'
<1> DEFINE p == console[c]
           q == console'[c]
<1>1. PageOK(p) /\ p # Null /\ p.dialogue = Null /\ p.call = Null
  BY DEF Select, Back, Quit, Free, ConsoleInv, Shapes, PageOK
<1>2. CASE Quit(c)
  BY <1>2, Turned, IdleStep DEF Quit, ConsoleInv
<1>3. ASSUME NEW x \in Lines \cup {Null}, console' = [console EXCEPT ![c].selected = x],
             UNCHANGED <<lines, busy>>
      PROVE  ConsoleInv'
  <2>1. Turns(c) /\ q = [p EXCEPT !.selected = x]
    BY <1>3 DEF ConsoleInv, Shapes, Turns
  <2>2. PageOK(q) /\ q.call = Null
    BY <1>1, <2>1 DEF PageOK
  <2> QED
    BY <1>3, <2>1, <2>2, IdleStep
<1> QED
  BY <1>2, <1>3 DEF Select, Back

LEMMA OpensInv ==
  ASSUME ConsoleInv, NEW c \in Consoles, OpenCreate(c) \/ OpenOnLine(c)
  PROVE  ConsoleInv'
<1> DEFINE p == console[c]
           q == console'[c]
<1>1. PageOK(p) /\ p # Null /\ p.call = Null
  BY DEF OpenCreate, OpenOnLine, Free, ConsoleInv, Shapes, PageOK
<1>2. PICK kind, copy, i : /\ Opens(c, Dialogue(kind, copy, i))
                           /\ kind = "CREATE" \/ p.selected # Null
  BY DEF OpenCreate, OpenOnLine
<1>3. Turns(c) /\ q = [p EXCEPT !.dialogue = Dialogue(kind, copy, i)]
  BY <1>2 DEF Opens, ConsoleInv, Shapes, Turns
<1>4. q.call = Null /\ q.selected = p.selected /\ q.list = p.list /\ DOMAIN q = DOMAIN p
      /\ q.dialogue = Dialogue(kind, copy, i)
  BY <1>1, <1>3 DEF PageOK
<1>5. "kind" \in DOMAIN q.dialogue /\ q.dialogue.kind = kind
  BY <1>4 DEF Dialogue
<1>6. PageOK(q)
  BY <1>1, <1>2, <1>4, <1>5 DEF PageOK
<1> QED
  BY <1>2, <1>3, <1>4, <1>6, IdleStep DEF Opens

\* Inside a dialogue.
LEMMA DialogueInv ==
  ASSUME ConsoleInv, NEW c \in Consoles,
         \/ Preview(c) \/ CheckConflicts(c) \/ Return(c) \/ Close(c) \/ ReadImpact(c)
         \/ ToggleForce(c)
  PROVE  ConsoleInv'
<1> DEFINE p == console[c]
           q == console'[c]
<1>1. PageOK(p) /\ p # Null /\ p.call = Null /\ p.dialogue # Null
  BY DEF Preview, CheckConflicts, Return, Close, ReadImpact, ToggleForce, Working, ConsoleInv,
         Shapes
<1>2. CASE Close(c)
  <2>1. Turns(c) /\ q = [p EXCEPT !.dialogue = Null]
    BY <1>2 DEF Close, ConsoleInv, Shapes, Turns
  <2>2. PageOK(q) /\ q.call = Null
    BY <1>1, <2>1 DEF PageOK
  <2> QED
    BY <1>2, <2>1, <2>2, IdleStep DEF Close
<1>3. ASSUME NEW d, console' = [console EXCEPT ![c].dialogue = d], UNCHANGED <<lines, busy>>,
             DOMAIN d = DOMAIN p.dialogue, d.kind = p.dialogue.kind
      PROVE  ConsoleInv'
  <2>1. Turns(c) /\ q = [p EXCEPT !.dialogue = d]
    BY <1>3 DEF ConsoleInv, Shapes, Turns
  <2>2. PageOK(q) /\ q.call = Null
    BY <1>1, <1>3, <2>1 DEF PageOK
  <2> QED
    BY <1>3, <2>1, <2>2, IdleStep
<1>4. CASE Preview(c)
  <2>1. PICK f, step :
          console' = [console EXCEPT ![c].dialogue.form = f, ![c].dialogue.step = step]
    BY <1>4, Zenon DEF Preview
  <2>2. Turns(c) /\ q = [p EXCEPT !.dialogue.form = f, !.dialogue.step = step]
    BY <2>1 DEF ConsoleInv, Shapes, Turns
  <2>3. /\ q.call = p.call /\ q.selected = p.selected /\ q.list = p.list /\ DOMAIN q = DOMAIN p
        /\ DOMAIN q.dialogue = DOMAIN p.dialogue /\ q.dialogue.kind = p.dialogue.kind
    BY <1>1, <2>2 DEF PageOK
  <2>4. PageOK(q)
    BY <1>1, <2>3 DEF PageOK
  <2> QED
    BY <1>1, <1>4, <2>2, <2>3, <2>4, IdleStep DEF Preview
<1>5. ASSUME NEW step, console' = [console EXCEPT ![c].dialogue.step = step], UNCHANGED <<lines, busy>>
      PROVE  ConsoleInv'
  <2>1. DOMAIN [p.dialogue EXCEPT !.step = step] = DOMAIN p.dialogue
        /\ [p.dialogue EXCEPT !.step = step].kind = p.dialogue.kind
    BY <1>1 DEF PageOK
  <2> QED
    BY <1>3, <1>5, <2>1
<1>6. CASE ReadImpact(c)
  <2> DEFINE n == busy[console[c].selected]
  <2>1. DOMAIN [p.dialogue EXCEPT !.impact = n] = DOMAIN p.dialogue
        /\ [p.dialogue EXCEPT !.impact = n].kind = p.dialogue.kind
    BY <1>1 DEF PageOK
  <2>2. console' = [console EXCEPT ![c].dialogue.impact = n] /\ UNCHANGED <<lines, busy>>
    BY <1>6 DEF ReadImpact
  <2> HIDE DEF n
  <2> QED
    BY <1>3, <2>1, <2>2
<1>7. CASE ToggleForce(c)
  <2> DEFINE n == ~console[c].dialogue.force
  <2>1. DOMAIN [p.dialogue EXCEPT !.force = n] = DOMAIN p.dialogue
        /\ [p.dialogue EXCEPT !.force = n].kind = p.dialogue.kind
    BY <1>1 DEF PageOK
  <2>2. console' = [console EXCEPT ![c].dialogue.force = n] /\ UNCHANGED <<lines, busy>>
    BY <1>7 DEF ToggleForce
  <2> HIDE DEF n
  <2> QED
    BY <1>3, <2>1, <2>2
<1> QED
  BY <1>2, <1>4, <1>5, <1>6, <1>7 DEF CheckConflicts, Return

-----------------------------------------------------------------------------
(* The orders *)

\* An order is sent on the selected line.
LEMMA ConfirmInv ==
  ASSUME ConsoleInv, NEW c \in Consoles, Confirm(c)
  PROVE  ConsoleInv'
<1> DEFINE p == console[c]
           q == console'[c]
           call == [status |-> "sent", line |-> p.selected, data |-> Payload(p.dialogue)]
<1>1. PageOK(p) /\ p # Null /\ p.dialogue # Null
  BY DEF Confirm, Working, ConsoleInv, Shapes
<1>2. Turns(c) /\ q = [p EXCEPT !.call = call]
  BY DEF Confirm, ConsoleInv, Shapes, Turns
<1>3. q.call = call /\ q.selected = p.selected /\ q.list = p.list /\ DOMAIN q = DOMAIN p
      /\ q.dialogue = p.dialogue
  BY <1>1, <1>2 DEF PageOK
<1>4. PageOK(q) /\ q.call.status = "sent"
  BY <1>1, <1>3 DEF PageOK
<1>5. ~UpdateChecked(c)'
  BY <1>4 DEF UpdateChecked, Ordered
<1> QED
  BY <1>2, <1>4, <1>5, QuietStep DEF Confirm

\* What an answer makes of the page.
LEMMA ShowsPage ==
  ASSUME NEW p, PageOK(p), p.call # Null, p.call.status = "stored"
  PROVE  PageOK(Shows(p)) /\ Shows(p).call = Null
<1> DEFINE l == p.call.line
           shown == [p EXCEPT !.call = Null, !.dialogue = Null]
<1>1. l \in Lines
  BY DEF PageOK
<1>2. /\ DOMAIN shown = DOMAIN p /\ shown.call = Null /\ shown.dialogue = Null
      /\ shown.list = p.list /\ shown.selected = p.selected
  BY DEF PageOK
<1> HIDE DEF shown
<1>3. CASE p.call.data = Archived
  <2>1. Shows(p) = [shown EXCEPT !.list = Restrict(shown.list, DOMAIN shown.list \ {l}), !.selected = Null]
    BY <1>3 DEF Shows, shown
  <2>2. DOMAIN Restrict(shown.list, DOMAIN shown.list \ {l}) \subseteq Lines
    BY <1>2 DEF Restrict, PageOK
  <2> HIDE DEF l
  <2> QED
    BY <1>2, <2>1, <2>2 DEF PageOK
<1>4. CASE p.call.data # Archived
  <2> DEFINE list == [k \in DOMAIN shown.list \cup {l} |-> IF k = l THEN p.call.data ELSE shown.list[k]]
  <2>1. Shows(p) = [shown EXCEPT !.list = list]
    BY <1>4 DEF Shows, shown
  <2>2. DOMAIN list \subseteq Lines
    BY <1>1, <1>2 DEF PageOK
  <2> HIDE DEF list
  <2> QED
    BY <1>2, <2>1, <2>2 DEF PageOK
<1> QED
  BY <1>3, <1>4

LEMMA AnswerInv ==
  ASSUME ConsoleInv, NEW c \in Consoles, Answer(c)
  PROVE  ConsoleInv'
<1>1. PageOK(console[c]) /\ console[c].call # Null /\ console[c].call.status = "stored"
  BY DEF Answer, ConsoleInv, Shapes
<1>2. Turns(c) /\ console'[c] = Shows(console[c])
  BY Turned DEF Answer, ConsoleInv
<1> QED
  BY <1>1, <1>2, ShowsPage, IdleStep DEF Answer

\* The call of page c turns, its dialogue stays.
LEMMA CallTurns ==
  ASSUME Shapes, NEW c \in Consoles, console[c] # Null, console[c].call # Null,
         NEW x, console' = [console EXCEPT ![c].call = x]
  PROVE  /\ Turns(c) /\ console'[c].call = x /\ console'[c].dialogue = console[c].dialogue
         /\ \/ x = Null
            \/ /\ {"status", "line", "data"} \subseteq DOMAIN x
               /\ \/ console[c].dialogue.kind # "CREATE"
                  \/ x.status = "stored"
                  => x.line \in Lines
            => PageOK(console'[c])
<1>1. PageOK(console[c])
  BY DEF Shapes
<1>2. Turns(c) /\ console'[c] = [console[c] EXCEPT !.call = x]
  BY DEF Shapes, Turns
<1>3. /\ console'[c].call = x /\ console'[c].dialogue = console[c].dialogue
      /\ console'[c].selected = console[c].selected /\ console'[c].list = console[c].list
      /\ DOMAIN console'[c] = DOMAIN console[c]
  BY <1>1, <1>2 DEF PageOK
<1> QED
  BY <1>1, <1>2, <1>3 DEF PageOK

\* A refusal gives up the order, and the lock that it may have had.
LEMMA RefusedInv ==
  ASSUME ConsoleInv, NEW c \in Consoles, console[c] # Null, console[c].call # Null,
         Refused(c), UNCHANGED <<lines, busy>>
  PROVE  ConsoleInv'
BY CallTurns, IdleStep DEF Refused, ConsoleInv

\* An order that is stored holds no lock any more.
LEMMA StoredInv ==
  ASSUME ConsoleInv, NEW c \in Consoles, console[c] # Null, console[c].call # Null,
         NEW l \in Lines, NEW r, Stored(c, l, r)
  PROVE  /\ Turns(c) /\ PageOK(console'[c]) /\ ~UpdateChecked(c)'
<1> DEFINE x == [status |-> "stored", line |-> l, data |-> r]
<1>1. {"status", "line", "data"} \subseteq DOMAIN x /\ x.line \in Lines /\ x.status = "stored"
  OBVIOUS
<1>2. console' = [console EXCEPT ![c].call = x]
  BY DEF Stored
<1> HIDE DEF x
<1>3. Turns(c) /\ PageOK(console'[c]) /\ console'[c].call = x
  BY <1>1, <1>2, CallTurns DEF ConsoleInv
<1> QED
  BY <1>1, <1>3 DEF UpdateChecked, Ordered

\* A new line locks no row.
LEMMA CheckNewInv ==
  ASSUME ConsoleInv, NEW c \in Consoles, CheckNew(c)
  PROVE  ConsoleInv'
<1>1. /\ console[c] # Null /\ console[c].call # Null /\ console[c].dialogue.kind = "CREATE"
      /\ PageOK(console[c])
  BY DEF CheckNew, Ordered, ConsoleInv, Shapes
<1>2. CASE Refused(c)
  BY <1>1, <1>2, RefusedInv DEF CheckNew
<1>3. CASE console' = [console EXCEPT ![c].call.status = "checked"]
  <2> DEFINE x == [console[c].call EXCEPT !.status = "checked"]
  <2>1. console' = [console EXCEPT ![c].call = x]
    BY <1>3
  <2>2. {"status", "line", "data"} \subseteq DOMAIN x /\ x.status = "checked"
    BY <1>1 DEF PageOK
  <2> HIDE DEF x
  <2>3. Turns(c) /\ PageOK(console'[c]) /\ console'[c].dialogue = console[c].dialogue
    BY <1>1, <2>1, <2>2, CallTurns DEF ConsoleInv
  <2>4. ~UpdateChecked(c)'
    BY <1>1, <2>3 DEF UpdateChecked, Ordered
  <2> QED
    BY <2>3, <2>4, QuietStep DEF CheckNew
<1> QED
  BY <1>2, <1>3 DEF CheckNew

\* An update is checked: the lock that it takes was free, and what it is allowed
\* on is true.
LEMMA CheckUpdateInv ==
  ASSUME ConsoleInv, NEW c \in Consoles, CheckUpdate(c)
  PROVE  ConsoleInv'
<1> DEFINE l == console[c].call.line
           r == Updated(l, console[c].call.data)
<1>1. /\ console[c] # Null /\ console[c].call # Null /\ PageOK(console[c])
      /\ console[c].dialogue.kind # "CREATE" /\ l \in Lines
      /\ console[c].call.status = "sent"
  BY DEF CheckUpdate, Ordered, ConsoleInv, Shapes, PageOK
<1>2. CASE Refused(c)
  BY <1>1, <1>2, RefusedInv DEF CheckUpdate
<1>3. CASE Stored(c, l, r)
  BY <1>1, <1>3, StoredInv, QuietStep DEF CheckUpdate
<1>4. ASSUME Live(l), Structural(l, r) => ~(busy[l] > 0), ~Locked(l),
             console' = [console EXCEPT ![c].call.status = "checked"]
      PROVE  ConsoleInv'
  <2> DEFINE x == [console[c].call EXCEPT !.status = "checked"]
  <2>1. console' = [console EXCEPT ![c].call = x] /\ UNCHANGED <<lines, busy>>
    BY <1>4 DEF CheckUpdate
  <2>2. /\ {"status", "line", "data"} \subseteq DOMAIN x
        /\ x.line = l /\ x.data = console[c].call.data /\ x.status = "checked"
    BY <1>1 DEF PageOK
  <2> HIDE DEF x
  <2>3. Turns(c) /\ PageOK(console'[c]) /\ console'[c].call = x
    BY <1>1, <2>1, <2>2, CallTurns DEF ConsoleInv
  <2>4. Shapes'
    BY <2>1, <2>3 DEF ConsoleInv, Shapes, Turns
  <2>5. ASSUME NEW d \in Consoles, d # c, UpdateChecked(d)'
        PROVE  UpdateChecked(d) /\ console'[d] = console[d] /\ console[d].call.line # l
    BY <1>4, <2>3, <2>5 DEF Turns, UpdateChecked, Ordered, Locked
  <2>6. OneLock'
    BY <2>2, <2>3, <2>5 DEF ConsoleInv, OneLock
  <2>7. UniqueAcrossLines'
    BY <2>1 DEF ConsoleInv, LinesAreConsistent, UniqueAcrossLines, Live, Conflicts,
                OthersMachines, OthersNumbers
  <2>8. busy[l] \in Nat
    BY <1>1 DEF ConsoleInv, Shapes
  <2>9. Allowed(c)'
    <3>1. console'[c].call.line = l /\ console'[c].call.data = console[c].call.data
      BY <2>2, <2>3
    <3>2. Live(l) /\ (Structural(l, r) => busy[l] = 0)
      BY <1>4, <2>8
    <3> QED
      BY <2>1, <3>1, <3>2 DEF Allowed, Live, Structural, Updated
  <2>10. \A d \in Consoles : d # c /\ UpdateChecked(d)' => Allowed(d)'
    BY <2>1, <2>5, AllowedKept DEF ConsoleInv, LinesAreConsistent
  <2>11. UpdateStaysAllowed'
    BY <2>9, <2>10 DEF UpdateStaysAllowed, Allowed
  <2> QED
    BY <2>4, <2>6, <2>7, <2>11 DEF ConsoleInv, LinesAreConsistent
<1> QED
  BY <1>2, <1>3, <1>4 DEF CheckUpdate

\* A step on line l only, that no other page has locked.
LEMMA OneLine ==
  ASSUME ConsoleInv, NEW c \in Consoles, Turns(c), PageOK(console'[c]), ~UpdateChecked(c)',
         NEW l \in Lines, \A d \in Consoles : UpdateChecked(d) /\ d # c => console[d].call.line # l,
         \A k \in Lines : k # l => lines'[k] = lines[k] /\ busy'[k] = busy[k]
  PROVE  OneLock' /\ UpdateStaysAllowed'
<1>1. ASSUME NEW d \in Consoles, UpdateChecked(d)'
      PROVE  /\ d # c /\ UpdateChecked(d) /\ console'[d] = console[d]
             /\ console[d].call.line \in Lines \ {l}
  <2>1. d # c /\ UpdateChecked(d) /\ console'[d] = console[d]
    BY <1>1 DEF Turns, UpdateChecked, Ordered
  <2>2. console[d].call.line \in Lines
    BY <2>1 DEF UpdateChecked, Ordered, ConsoleInv, Shapes, PageOK
  <2> QED
    BY <2>1, <2>2
<1>2. OneLock'
  BY <1>1 DEF ConsoleInv, OneLock
<1>3. \A d \in Consoles : UpdateChecked(d)' => Allowed(d)'
  <2>1. ASSUME NEW d \in Consoles, UpdateChecked(d)' PROVE Allowed(d)'
    BY <1>1, <2>1, AllowedKept DEF ConsoleInv, LinesAreConsistent
  <2> QED
    BY <2>1
<1> QED
  BY <1>2, <1>3 DEF UpdateStaysAllowed, Allowed

\* A writing that the indexes admit changes one line, locked by this order or new.
LEMMA WriteInv ==
  ASSUME ConsoleInv, NEW c \in Consoles, Write(c)
  PROVE  ConsoleInv'
<1>1. /\ console[c] # Null /\ console[c].call # Null /\ console[c].call.status = "checked"
      /\ console[c].dialogue.kind \in {"CREATE", "EDIT", "MACHINE", "PLAN"}
  BY DEF Write, Ordered
<1>2. PICK l, r :
        /\ l \in Lines
        /\ IF console[c].dialogue.kind = "CREATE" THEN lines[l] = Null ELSE l = console[c].call.line
        /\ \/ /\ Indexed(l, r)
              /\ lines' = [lines EXCEPT ![l] = r]
              /\ Stored(c, l, r)
           \/ ~Indexed(l, r) /\ Refused(c) /\ UNCHANGED lines
        /\ UNCHANGED busy
  BY Zenon DEF Write
<1>3. CASE Refused(c) /\ UNCHANGED lines
  BY <1>1, <1>2, <1>3, RefusedInv
<1>4. CASE Indexed(l, r) /\ lines' = [lines EXCEPT ![l] = r] /\ Stored(c, l, r)
  <2>1. Turns(c) /\ PageOK(console'[c]) /\ ~UpdateChecked(c)'
    BY <1>1, <1>2, <1>4, StoredInv
  <2>2. ASSUME NEW d \in Consoles, UpdateChecked(d), d # c
        PROVE  console[d].call.line # l
    <3>1. CASE console[c].dialogue.kind = "CREATE"
      <4>1. lines[l] = Null
        BY <1>2, <3>1
      <4>2. Live(console[d].call.line)
        BY <2>2 DEF ConsoleInv, LinesAreConsistent, UpdateStaysAllowed
      <4> QED
        BY <4>1, <4>2 DEF Live
    <3>2. CASE console[c].dialogue.kind # "CREATE"
      <4>1. UpdateChecked(c) /\ l = console[c].call.line
        BY <1>1, <1>2, <3>2 DEF UpdateChecked, Ordered
      <4> QED
        BY <2>2, <4>1 DEF ConsoleInv, OneLock
    <3> QED
      BY <3>1, <3>2
  <2>3. \A k \in Lines : k # l => lines'[k] = lines[k] /\ busy'[k] = busy[k]
    BY <1>2, <1>4 DEF ConsoleInv, Shapes
  <2>4. OneLock' /\ UpdateStaysAllowed'
    BY <1>2, <2>1, <2>2, <2>3, OneLine
  <2>5. UniqueAcrossLines'
    BY <1>2, <1>4, WrittenUnique DEF ConsoleInv, Shapes, LinesAreConsistent
  <2>6. Shapes'
    BY <1>2, <1>4, <2>1 DEF ConsoleInv, Shapes, Turns
  <2> QED
    BY <2>4, <2>5, <2>6 DEF ConsoleInv, LinesAreConsistent
<1> QED
  BY <1>2, <1>3, <1>4

\* A line is archived when no update has it locked.
LEMMA ArchiveInv ==
  ASSUME ConsoleInv, NEW c \in Consoles, Archive(c)
  PROVE  ConsoleInv'
<1> DEFINE l == console[c].call.line
<1>1. /\ console[c] # Null /\ console[c].call # Null /\ PageOK(console[c])
      /\ console[c].dialogue.kind # "CREATE" /\ l \in Lines /\ ~Locked(l)
  BY DEF Archive, Ordered, ConsoleInv, Shapes, PageOK
<1>2. CASE Refused(c) /\ UNCHANGED <<lines, busy>>
  BY <1>1, <1>2, RefusedInv
<1>3. CASE /\ lines' = [lines EXCEPT ![l] = Archived]
           /\ busy' = [busy EXCEPT ![l] = 0]
           /\ Stored(c, l, Archived)
  <2>1. Turns(c) /\ PageOK(console'[c]) /\ ~UpdateChecked(c)'
    BY <1>1, <1>3, StoredInv
  <2>2. \A k \in Lines : k # l => lines'[k] = lines[k] /\ busy'[k] = busy[k]
    BY <1>1, <1>3 DEF ConsoleInv, Shapes
  <2>3. OneLock' /\ UpdateStaysAllowed'
    BY <1>1, <2>1, <2>2, OneLine DEF Locked
  <2>4. lines'[l] = Archived
    BY <1>1, <1>3 DEF ConsoleInv, Shapes
  <2>5. \A k \in Lines : Live(k)' => Live(k) /\ lines'[k] = lines[k]
    BY <2>2, <2>4 DEF Live
  <2>6. UniqueAcrossLines'
    BY <2>5 DEF ConsoleInv, LinesAreConsistent, UniqueAcrossLines, Conflicts, OthersMachines,
                OthersNumbers
  <2>7. Shapes'
    BY <1>1, <1>3, <2>1 DEF ConsoleInv, Shapes, Turns
  <2> QED
    BY <2>3, <2>6, <2>7 DEF ConsoleInv, LinesAreConsistent
<1> QED
  BY <1>2, <1>3 DEF Archive

\* A declaration waits for the lock; an incident that ends takes nothing away.
LEMMA WorkshopInv ==
  ASSUME ConsoleInv, NEW l \in Lines, Declare(l) \/ EndIncident(l)
  PROVE  ConsoleInv'
<1>1. lines' = lines /\ console' = console
  BY DEF Declare, EndIncident
<1>2. Shapes'
  BY DEF Declare, EndIncident, ConsoleInv, Shapes
<1>3. OneLock' /\ UniqueAcrossLines'
  BY <1>1 DEF ConsoleInv, OneLock, UpdateChecked, Ordered, LinesAreConsistent,
              UniqueAcrossLines, Live, Conflicts, OthersMachines, OthersNumbers
<1>4. ASSUME NEW d \in Consoles, UpdateChecked(d)' PROVE Allowed(d)'
  <2>1. UpdateChecked(d) /\ console[d].call.line \in Lines
    BY <1>1, <1>4 DEF UpdateChecked, Ordered, ConsoleInv, Shapes, PageOK
  <2>2. busy[console[d].call.line] = 0 => busy'[console[d].call.line] = 0
    BY <2>1 DEF Declare, EndIncident, Locked, ConsoleInv, Shapes
  <2> QED
    BY <1>1, <2>1, <2>2, AllowedKept DEF ConsoleInv, LinesAreConsistent
<1>5. UpdateStaysAllowed'
  BY <1>4 DEF UpdateStaysAllowed, Allowed
<1> QED
  BY <1>2, <1>3, <1>5 DEF ConsoleInv, LinesAreConsistent

LEMMA FailInv ==
  ASSUME ConsoleInv, NEW c \in Consoles, Fail(c)
  PROVE  ConsoleInv'
BY RefusedInv DEF Fail

LEMMA ConsoleInit == Init => ConsoleInv
<1> SUFFICES ASSUME Init PROVE ConsoleInv
  OBVIOUS
<1>1. \A c \in Consoles : ~UpdateChecked(c)
  BY DEF Init, UpdateChecked, Ordered
<1>2. Shapes
  BY DEF Init, Shapes
<1>3. UniqueAcrossLines
  BY DEF Init, UniqueAcrossLines, Live
<1> QED
  BY <1>1, <1>2, <1>3 DEF ConsoleInv, OneLock, LinesAreConsistent, UpdateStaysAllowed

LEMMA ConsoleInductive == ConsoleInv /\ [Next]_vars => ConsoleInv'
<1> SUFFICES ASSUME ConsoleInv, [Next]_vars PROVE ConsoleInv'
  OBVIOUS
<1>1. ASSUME NEW c \in Consoles,
             \/ Enter(c) \/ LoadLines(c) \/ Back(c) \/ Quit(c) \/ \E l \in Lines : Select(c, l)
             \/ OpenCreate(c) \/ OpenOnLine(c) \/ Preview(c) \/ CheckConflicts(c)
             \/ Return(c) \/ Close(c) \/ ReadImpact(c) \/ ToggleForce(c)
      PROVE  ConsoleInv'
  BY <1>1, EnterInv, LoadLinesInv, SelectBackQuitInv, OpensInv, DialogueInv
<1>2. ASSUME NEW c \in Consoles,
             \/ Confirm(c) \/ CheckNew(c) \/ CheckUpdate(c) \/ Write(c) \/ Archive(c)
             \/ Answer(c) \/ Fail(c)
      PROVE  ConsoleInv'
  BY <1>2, ConfirmInv, CheckNewInv, CheckUpdateInv, WriteInv, ArchiveInv, AnswerInv, FailInv
<1>3. ASSUME NEW l \in Lines, Declare(l) \/ EndIncident(l) PROVE ConsoleInv'
  BY <1>3, WorkshopInv
<1>4. CASE UNCHANGED vars
  <2>1. lines' = lines /\ busy' = busy /\ console' = console
    BY <1>4 DEF vars
  <2>2. Shapes'
    BY <2>1 DEF ConsoleInv, Shapes
  <2>3. OneLock' /\ UniqueAcrossLines'
    BY <2>1 DEF ConsoleInv, OneLock, UpdateChecked, Ordered, LinesAreConsistent,
                UniqueAcrossLines, Live, Conflicts, OthersMachines, OthersNumbers
  <2>4. ASSUME NEW d \in Consoles, UpdateChecked(d)' PROVE Allowed(d)'
    <3>1. UpdateChecked(d)
      BY <2>1, <2>4 DEF UpdateChecked, Ordered
    <3> QED
      BY <2>1, <3>1, AllowedKept DEF ConsoleInv, LinesAreConsistent
  <2>5. UpdateStaysAllowed'
    BY <2>4 DEF UpdateStaysAllowed, Allowed
  <2> QED
    BY <2>2, <2>3, <2>5 DEF ConsoleInv, LinesAreConsistent
<1> QED
  BY <1>1, <1>2, <1>3, <1>4 DEF Next

\* Whatever the pages show, and however their orders interleave with each other and
\* with the workshop, no machine and no number is on two lines in service, and what
\* an update was allowed on stays true until it is written.
THEOREM LinesConsistent == Spec => []LinesAreConsistent
<1>1. ConsoleInv => LinesAreConsistent
  BY DEF ConsoleInv
<1> QED
  BY <1>1, ConsoleInit, ConsoleInductive, PTL DEF Spec
=============================================================================
