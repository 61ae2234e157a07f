SPECIFICATION Spec
CONSTANTS
  Words <- MCWords
  Inputs <- MCInputs
  Unreadable = Unreadable
  Desktops <- MCDesktops
  NotRead = NotRead
INVARIANTS
  ShownAsEntered
  BadFilesOnly
CHECK_DEADLOCK FALSE
