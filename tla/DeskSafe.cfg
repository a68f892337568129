\* Six parts of the desk, one at a time.
SPECIFICATION DeskSpec
CONSTANTS
  Folder = {"INBOX", "Trash"}
  MailCommands = 3
  Account = {"a", "b"}
  NoAccount = none
  MaxClients = 4
  MaxChoices = 3
  Mail <- MCMail
  NoMail = none
  MaxReads = 2
  MaxFetches = 2
  Person = {"p", "q", "j"}
  CommaName = {"j"}
  Own <- MCOwn
  Original <- MCOriginal
  File = {"h"}
  NoFile = nofile
  MaxSends = 2
  MaxEdits = 1
  Name = {"INBOX", "Work", "Old"}
  Special = {"INBOX"}
  Letter = {1, 2}
  MaxChanges = 3
  Key = {k1, k2}
  Label = {n1, n2}
  NoLabel = NoLabel
  Dialog = {d1, d2}
  MaxObjects = 2
  MaxBookEdits = 3
CHECK_DEADLOCK FALSE
INVARIANTS BodyIsOfSelected CachedUnderItsFolder NoWorkerLeaked SelectedClientLives
  CopyMeansDelivered ListedMailSurvives ContactsSaved
PROPERTIES MarksTimedMessage ActsOnNamedFolder DraftOutlivesFailure KeepsContacts
