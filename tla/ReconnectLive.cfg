\* Two reconnection goroutines or timers, two monitors; one caller command and two
\* faults, after which the network behaves.
SPECIFICATION LiveSpec
CONSTANTS
  Attempts = {a1, a2}
  Monitors = {m1, m2}
  Folders = {INBOX, work}
  INBOX = INBOX
  None = None
  QueueCap = 2
  MaxRequests = 1
  MaxFaults = 2
INVARIANTS TypeOK OneAttempt FlagIsOwned ConnectedHasClients NeverWedged
PROPERTY Recovers
