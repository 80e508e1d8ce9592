SPECIFICATION Spec
CONSTANTS
  Events = {1}
  Consumers = {ticket}
  Listeners <- MCListeners
  Dispatchers = {d1, d2}
  BatchSize = 1
  MaxAttempts = 2
  Bindings = {"run", "skip", "block"}
  MaxCrashes = 1
  MaxRetries = 1
SYMMETRY Symmetry
CHECK_DEADLOCK FALSE
INVARIANTS
  TypeOK
  ProcessedWasHandled
  OnceEachClaim
  RetryIsDelivered
PROPERTIES
  Promised
