SPECIFICATION MCSpec
CONSTANTS
  People = {p1}
  Devices = {d1}
  Sessions = {s1}
  Calls = {c1, c2}
  MaxIssued = 1
  MaxTries = 1
  Handlers = {h1}
  Setup = TRUE
  Targets = {"ACTIVE"}
  None = None
SYMMETRY Symmetry
CHECK_DEADLOCK FALSE
INVARIANTS
  PutOutIsClosed
