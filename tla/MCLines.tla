------------------------------ MODULE MCLines -------------------------------
(* Two administrators on their pages of lines. *)
EXTENDS LineConsole, TLC

InDialogue(c) == console[c] # Null /\ console[c].dialogue # Null

Forms(kinds) ==
  {console[c].dialogue : c \in {d \in Consoles : InDialogue(d) /\ console[d].dialogue.kind \in kinds}}

AtRest(c) == console[c] # Null /\ ~InDialogue(c)

Confirms(c) ==
  InDialogue(c) /\ console[c].call = Null /\ console[c].dialogue.step # "form"

Listed(c) == console[c] # Null /\ console[c].loaded = "ready"

Behind(c) ==
  /\ Listed(c) /\ console[c].call = Null
  /\ console[c].list # [l \in {k \in Lines : Live(k)} |-> lines[l]]

\* Two lines in service, free and of one machine; who edits one leaves its machine.
Simple(r) == r.active /\ Len(r.machines) = 1

Pair ==
  /\ \A l \in Lines : busy[l] = 0 /\ lines[l] # Archived /\ (Live(l) => Simple(lines[l]))
  /\ \A c \in Consoles : Listed(c) => \A l \in DOMAIN console[c].list : Simple(console[c].list[l])
  /\ Forms({"ARCHIVE"}) = {}
  /\ \A d \in Forms({"CREATE", "EDIT", "MACHINE", "PLAN"}) :
       /\ Simple(d.form) /\ (d.kind # "CREATE" => Simple(d.copy))
       /\ d.kind = "EDIT" => d.form.machines = d.copy.machines

\* One line, that keeps its number: an edit adds a machine to it or sets its status,
\* a plan moves them, the workshop declares on it, and it may be archived.
Single ==
  /\ Cardinality({l \in Lines : lines[l] # Null}) <= 1 /\ Forms({"MACHINE"}) = {}
  /\ \A c \in Consoles : Listed(c) =>
       \A l \in DOMAIN console[c].list : Live(l) => console[c].list[l].number = lines[l].number
  /\ \A d \in Forms({"CREATE"}) : Len(d.form.machines) = 1
  /\ \A d \in Forms({"EDIT"}) :
       /\ d.form.number = d.copy.number
       /\ d.form.machines = d.copy.machines \/ d.form.active = d.copy.active
       /\ IsPrefix(d.copy.machines, d.form.machines)

\* State constraint: the pages are not both at rest, nor both before a summary to
\* confirm, nor both behind the table.
TwoConsoles ==
  /\ \A c, d \in Consoles : c # d =>
       ~(AtRest(c) /\ AtRest(d)) /\ ~(Confirms(c) /\ Confirms(d)) /\ ~(Behind(c) /\ Behind(d))
  /\ Pair \/ Single

Symmetry == Permutations(Consoles) \cup Permutations(Lines) \cup Permutations(Numbers) \cup Permutations(Machines)

ASSUME ConstantsOK
=============================================================================
