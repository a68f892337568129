\* Two messages, of which a check announces one at most; one failed call, refused
\* check or crash.  Once everything is delivered and expunged, nothing need happen.
SPECIFICATION LiveSpec
CONSTANTS
  MaxUID = 2
  MaxNotifications = 1
  MaxRetries = 2
  FloodLimit = 1
  MaxQueued = 1
  MaxFaults = 1
  Partial = FALSE
INVARIANTS TypeOK AnnouncedOnce NothingSkipped
PROPERTY RetriesUntilFound
CHECK_DEADLOCK FALSE
