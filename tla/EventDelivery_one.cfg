SPECIFICATION FairSpec
CONSTANTS
  Events = {1}
  Consumers = {ticket, meter}
  Listeners <- MCListeners
  Dispatchers = {d1}
  BatchSize = 1
  MaxAttempts = 2
  Bindings = {"run", "block"}
  MaxCrashes = 1
  MaxRetries = 1
CHECK_DEADLOCK FALSE
PROPERTIES
  EventFinishes
