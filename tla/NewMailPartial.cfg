\* A server that lets some of the new messages be fetched before the others.
SPECIFICATION Spec
CONSTANTS
  MaxUID = 2
  MaxNotifications = 1
  MaxRetries = 2
  FloodLimit = 1
  MaxQueued = 2
  MaxFaults = 0
  Partial = TRUE
INVARIANT NothingSkipped
CHECK_DEADLOCK FALSE
