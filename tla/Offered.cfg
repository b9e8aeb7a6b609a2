\* One incident, its declarant and the others.
SPECIFICATION Spec
CONSTANTS
  Incidents = {i1}
  CaseIds = {c1, c2}
  Lines = {l1}
  Numbers = {n1}
  Machines = {m1}
  Heads = {h1, h2}
  Layouts <- BothHeads
  States = {s1}
  Users = {u1, u2}
  Texts = {t1}
  MaxInFlight = 1
  Null = Null
  Keep = Keep
  Blank = Blank
  m1 = m1
  h1 = h1
  h2 = h2
SYMMETRY Symmetry
INVARIANT OfferedIsServed
CONSTRAINT Serving
CHECK_DEADLOCK FALSE
