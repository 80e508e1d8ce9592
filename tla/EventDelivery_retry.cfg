SPECIFICATION Spec
CONSTANTS
  Events = {1}
  Consumers = {ticket}
  Listeners <- MCListeners
  Dispatchers = {d1, d2}
  BatchSize = 1
  MaxAttempts = 3
  Bindings = {"run", "block"}
  MaxCrashes = 0
  MaxRetries = 1
CHECK_DEADLOCK FALSE
INVARIANTS
  NoRetryLost
