SPECIFICATION SmallSpec
CONSTANTS
  a1 = a1
  a2 = a2
  h1 = h1
  cafe = cafe
  mobile = mobile
  None = None
  Article = {a1, a2}
  Host = {h1, cafe, mobile}
  Reps <- CafeAndMobile
  Served <- SecondMoves
  MaxEdit <- ThreeEdits
  Body <- NoEditIsTakenBack
  MaxRefreshes = 2
  Budget = 1
  MaxLog = 2
  NotFoundLimit = 1
  Console = {a1}
  Tagged = {a2}
  Conditional = {a2}
INVARIANTS
  TypeOK
PROPERTIES
  StoreIsImplemented
  ConfirmedWasServed
  PoliteToHosts
CHECK_DEADLOCK FALSE
