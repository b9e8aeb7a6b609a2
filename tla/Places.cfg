SPECIFICATION Spec
CONSTANTS
  Incidents = {i1, i2}
  CaseIds = {c1}
  Lines = {l1}
  Numbers = {n1, n2}
  Machines = {m1}
  Heads = {h1, h2}
  Layouts <- TwoHeads
  States = {s1}
  Users = {u1}
  Texts = {t1}
  MaxInFlight = 1
  Null = Null
  Keep = Keep
  Blank = Blank
  m1 = m1
  h1 = h1
  h2 = h2
SYMMETRY Symmetry
INVARIANTS
  OneActivePerPlace
  FrozenBeforeIsCurrent
  ActiveOnLineInService
CONSTRAINT SteadyAccounts
CHECK_DEADLOCK FALSE
