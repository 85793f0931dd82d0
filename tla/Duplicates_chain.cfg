SPECIFICATION FairSpec
CONSTANTS
  v1 = v1
  w1 = w1
  w2 = w2
  scheduler = scheduler
  None = None
  Gone = Gone
  Event = {1, 2, 3, 4}
  Venue = {v1}
  Words = {w1, w2}
  Contradict <- NoCities
  Finds <- Nights
  Scanner = {scheduler}
  Beside = {}
  MaxWrites = 2
  MaxAnswers = 0
INVARIANTS
  NoChains
CHECK_DEADLOCK FALSE
