SPECIFICATION FairSpec
CONSTANTS
  i1 = i1
  i2 = i2
  i3 = i3
  None = None
  Item = {i1, i2, i3}
  TwoForms = {i1}
  Limit = 2
  MaxTransient = 2
  MaxNotFound = 1
  Console = "between ticks"
INVARIANTS
  TypeOK
PROPERTIES
  TerminalIsLeftAlone
  EveryDueItemIsFetched
CHECK_DEADLOCK FALSE
