\* One message that fits, and a server that refuses to show it.
SPECIFICATION Spec
CONSTANTS
  Messages = {m1}
  Mails <- MCMails
  Start = 3
  Earlier = 0
  Tick = 2
  PageSize = 2
  MaxChanges = 0
  Attempts = 2
  MaxFaults = 2
  Absent = Absent
  Words <- MCWords
  Conditions <- MCConditions
INVARIANTS
  InaccessibleIsUnknown
CHECK_DEADLOCK FALSE
