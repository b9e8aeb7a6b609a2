SPECIFICATION Spec
CONSTANTS
  Consoles = {c1, c2}
  Lines = {l1, l2}
  Numbers = {n1, n2}
  Machines = {m1, m2}
  MaxMachines = 2
  MaxBusy = 1
  Archived = Archived
  Null = Null
CONSTRAINT TwoConsoles
SYMMETRY Symmetry
INVARIANT LinesAreConsistent
CHECK_DEADLOCK FALSE
