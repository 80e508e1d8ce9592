SPECIFICATION Spec
CONSTANTS
  Tables = {t1}
  Visits = {v1, v2}
  Keys = {k1}
  Calls = {c1}
  MaxVersions = 1
  None = None
CHECK_DEADLOCK FALSE
PROPERTIES
  RepeatIsAnswered
