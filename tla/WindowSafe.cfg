\* A user in a hurry: three commands, a failed call, and mail that arrives.
SPECIFICATION Spec
CONSTANTS
  a = a
  b = b
  inbox = inbox
  work = work
  Accounts = {a, b}
  None = None
  Unnamed <- Nameless
  Inbox = inbox
  Messages <- All
  Old <- Some
  Date <- DateOf
  MaxCommands = 3
  MaxFaults = 1
CHECK_DEADLOCK FALSE
INVARIANTS WindowTypeOK SelectionInList NoDuplicates ListIsOfFolder FetchIsOwned SuppressIsOwned
PROPERTIES RemovesOnlyPicked
