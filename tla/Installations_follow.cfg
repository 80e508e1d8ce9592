SPECIFICATION Spec
CONSTANTS
  Handlers = {h1}
  Setup = FALSE
  Targets = {"NOT_INSTALLED"}
  Requests = {c1, c2}
  Absent = Absent
CHECK_DEADLOCK FALSE
INVARIANTS
  BindingsFollow
