SPECIFICATION BacklogSpec
CONSTANTS
  i1 = i1
  i2 = i2
  h1 = h1
  h2 = h2
  j1 = j1
  j2 = j2
  t1 = t1
  t2 = t2
  scheduler = scheduler
  None = None
  Item = {i1, i2}
  Hash = {h1}
  Judgement = {j1}
  Text = {t1}
  Synth = {}
  NoHtml = {}
  Short = {}
  Linkless = {}
  LongSnippet = {i2}
  MaxEngine = 2
  MaxAttempts = 2
  BatchSize = 1
  Process = {scheduler}
  ReviewAware = FALSE
  Others = {}
INVARIANTS
  PosterIsRead
PROPERTIES
  BodyNeverDowngraded
  ReviewedIsKept
  EveryItemSettles
CHECK_DEADLOCK FALSE
