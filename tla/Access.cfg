\* Accounts, the administrator with the board, and the limiter of attempts, the settings.
SPECIFICATION AccessSpec
CONSTANTS
  Users = {u1, u2}
  Badges = {b1, b2}
  Secrets = {s1, s2}
  Logins = {r1, r2}
  MaxVersion = 2
  MaxCodes = 2
  MaxTokens = 1
  Passwords = {p1, p2}
  p1 = p1
  p2 = p2
  Codes = {c1, c2}
  c1 = c1
  c2 = c2
  EnvCode = c2
  LegacyCode = c1
  Orders <- OrdersV
  Requests = {r1, r2}
  MaxFailures = 2
  MaxVersions = 3
  Clients = {u1, u2}
  Window = 1
  FixedMax = 2
  DynamicMaxes = {1, 3}
  MaxEntries = 2
  MaxTime = 2
  MaxCount = 5
  Screens = {u1, u2}
  Labels = {b1, b2}
  Hours = {12}
  DefaultTtl = 12
  Prefs = {k1}
  Emails = {e1}
  EnvEmail = Null
  Scopes = {"admin"}
  Null = Null
CONSTRAINT Constraint
SYMMETRY Symmetry
INVARIANTS
  SessionOfCurrentPassword
  BoardSessionOfCurrentCode
  FailuresBounded
PROPERTIES
  RefusedStaysRefused
  PasswordByCurrentCode
  RevokedStaysRevoked
  SaveTouchesOnlyTyped
CHECK_DEADLOCK FALSE
