\* Two faults: a lost connection and one failed reconnection.
SPECIFICATION Spec
CONSTANTS
  Attempts = {a1, a2}
  Monitors = {m1, m2}
  Folders = {INBOX, work}
  INBOX = INBOX
  None = None
  QueueCap = 2
  MaxRequests = 1
  MaxFaults = 2
SYMMETRY MCSymmetry
PROPERTY RestartsMonitoredFolder
