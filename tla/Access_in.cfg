SPECIFICATION MCSpec
CONSTANTS
  People = {p1, p2}
  Devices = {d1, d2}
  Sessions = {s1, s2}
  Calls = {c1, c2, c3}
  MaxIssued = 3
  MaxTries = 2
  Handlers = {h1}
  Setup = TRUE
  Targets = {"ACTIVE", "SUSPENDED", "ERROR", "NOT_INSTALLED"}
  None = None
SYMMETRY Symmetry
CHECK_DEADLOCK FALSE
INVARIANTS
  TypesOK
  TakenAway
  TriesBounded
PROPERTIES
  SecretsWorkOnce
  StaleChangesNothing
