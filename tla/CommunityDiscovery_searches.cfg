SPECIFICATION FairSpec
CONSTANTS
  cafe = cafe
  site = site
  Key = {cafe, site}
  Name = {1, 2, 3}
  Finding <- Findings
  MaxItems = 2
  MaxCommunities = 2
  MaxRuns = 2
  MaxAnswers = 3
  Typed <- Entries
  Before <- Early
  ByHand = {cafe}
  None = None
  Gone = Gone
  Hand = Hand
INVARIANTS
  TypeOK
  RegisteredIsExisting
  SourceIsOfItsCommunity
PROPERTIES
  AnswersOutlive
  EveryRunEnds
CHECK_DEADLOCK FALSE
