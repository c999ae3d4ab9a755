\* Three messages around a boundary in the middle of a second, two to a list,
\* a change of the mailbox and faults enough to exhaust the attempts.
SPECIFICATION Spec
CONSTANTS
  Messages = {m1, m2, m3}
  Mails <- MCMails
  Start = 3
  Earlier = 0
  Tick = 2
  PageSize = 2
  MaxChanges = 1
  Attempts = 2
  MaxFaults = 2
  Absent = Absent
  Words <- MCWords
  Conditions <- MCConditions
SYMMETRY MessageSymmetry
INVARIANTS
  Inv
  PassIsGrounded
  NothingMissed
  GivenUpHasCause
CHECK_DEADLOCK FALSE
