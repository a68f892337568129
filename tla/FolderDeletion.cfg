\* The deletion of a folder with "move messages", up to the loss of one.
SPECIFICATION SubsSpec
CONSTANTS
  Name = {"INBOX","Work","Old"}
  Special = {"INBOX"}
  Letter = {1,2}
  MaxChanges = 3
INVARIANT ChosenMailSurvives
CHECK_DEADLOCK FALSE
