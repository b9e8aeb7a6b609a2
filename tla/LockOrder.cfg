SPECIFICATION PartsSpec
CONSTANTS
  Incidents = {i1}
  CaseIds = {c1}
  Lines <- LinesV
  Numbers = {10, 20}
  Machines = {m1, m2}
  Heads = {h1}
  Layouts <- LayoutsV
  States = {s1}
  Users = {u1, u2, u3}
  Texts = {x1}
  Places <- Plant
  Corrections <- Moves
  Plants <- TwoLines
  Staff <- OneOfEachRole
  Txs = {t1, t2}
  MaxPerUser = 2
  Null = Null
  Keep = Keep
  Blank = Blank
  m1 = m1
  m2 = m2
  h1 = h1
  s1 = s1
  u1 = u1
  u2 = u2
  u3 = u3
  Parts = {"workshop"}
  Watchers = {u1, u2}
  Requests = {q1, q2}
  MaxEvents = 5
  Ids = {1, 2, 3, 4}
  Ranks = {1, 2, 3}
  Canonical = 2
  Legacy = 99
  Releases <- ReleasesV
  Ledgers <- LedgersV
  Sums = {a, b}
  a = a
  b = b
  Servers = {v1, v2}
  Handlers = {g1, g2}
  BackupFiles = {f1, f2}
  Restores = {r1, r2}
  Foreign = Foreign
  Empty = Empty
  MaxVersion = 1
  KeepDays = 1
  FormIncidents = {i1, i2}
  FormLayout <- ThreePlaces
  i1 = i1
  i2 = i2
  h2 = h2
  MaxEdits = 1
SYMMETRY Symmetry
INVARIANT NoCircularWait
CHECK_DEADLOCK FALSE
