\* The list is sorted while a message is being removed.
SPECIFICATION Spec
CONSTANTS
  a = a
  b = b
  inbox = inbox
  work = work
  Accounts = {a, b}
  None = None
  Unnamed <- Nameless
  Inbox = inbox
  Messages <- All
  Old <- Some
  Date <- DateOf
  MaxCommands = 3
  MaxFaults = 1
CHECK_DEADLOCK FALSE
PROPERTY RemovesCaptured
