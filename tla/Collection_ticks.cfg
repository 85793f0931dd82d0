SPECIFICATION FairSpec
CONSTANTS
  naver = naver
  None = None
  N = 3
  Interval <- Intervals
  Key <- OneKey
  Provider <- Naver
  Cost <- Costs
  DAILY_BUDGET = 3
  PerTick = 1
  MaxCost = 2
  Recheck = 4
  Longest = 4
  Day = 3
  MaxFaults = 1
INVARIANTS
  TypeOK
  BudgetHolds
PROPERTIES
  RefusalIsRespected
  EveryEnabledSourceIsTried
CHECK_DEADLOCK FALSE
