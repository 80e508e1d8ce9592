SPECIFICATION Spec
CONSTANTS
  Events = {1}
  Consumers = {ticket}
  Listeners <- MCListeners
  Dispatchers = {d1}
  BatchSize = 1
  MaxAttempts = 3
  Bindings = {"run"}
  MaxCrashes = 0
  MaxRetries = 0
CHECK_DEADLOCK FALSE
PROPERTIES
  ProcessedStaysProcessed
