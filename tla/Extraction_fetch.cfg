SPECIFICATION Spec
SYMMETRY Symmetry
CONSTANTS
  i1 = i1
  i2 = i2
  h1 = h1
  h2 = h2
  j1 = j1
  j2 = j2
  t1 = t1
  t2 = t2
  scheduler = scheduler
  None = None
  Item = {i1}
  Hash = {h1, h2}
  Judgement = {j1}
  Text = {t1, t2}
  Synth = {}
  NoHtml = {}
  Short = {}
  Linkless = {}
  LongSnippet = {}
  MaxEngine = 1
  MaxAttempts = 1
  BatchSize = 1
  Process = {scheduler}
  ReviewAware = FALSE
  Others = {"acquire", "reacquire"}
INVARIANTS
  TypeOK
  IInv
  ReadingIsCurrent
PROPERTIES
  BodyNeverDowngraded
CHECK_DEADLOCK FALSE
