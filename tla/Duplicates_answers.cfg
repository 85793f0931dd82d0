SPECIFICATION FairSpec
CONSTANTS
  v1 = v1
  w1 = w1
  w2 = w2
  scheduler = scheduler
  None = None
  Gone = Gone
  Event = {1, 2, 3}
  Venue = {v1}
  Words = {w1, w2}
  Contradict <- Cities
  Finds <- Nights
  Scanner = {scheduler}
  Beside = {}
  MaxWrites = 1
  MaxAnswers = 3
INVARIANTS
  TypeOK
  AnswersStand
PROPERTIES
  RulesPrevail
CHECK_DEADLOCK FALSE
