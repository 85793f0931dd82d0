SPECIFICATION Spec
CONSTANTS
  milonga = milonga
  lesson = lesson
  social = social
  class = class
  hall = hall
  scheduler = scheduler
  None = None
  Gone = Gone
  MaxId = 5
  Programme <- Programmes
  Reading <- Readings
  Process = {scheduler}
  ReviewAware = TRUE
  Beside = {}
  MaxEdits = 2
  MaxReviews = 1
  MaxAnswers = 1
INVARIANTS
  TypeOK
  NoProgrammeTwice
PROPERTIES
  ReviewedStays
  AnsweredStays
  RefusedDayStays
  UnchangedKeepsItsId
  NoDayMoves
  RereadIsStable
CHECK_DEADLOCK FALSE
