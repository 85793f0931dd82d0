SPECIFICATION SynthSpec
SYMMETRY JudgementSymmetry
CONSTANTS
  i1 = i1
  i2 = i2
  h1 = h1
  h2 = h2
  j1 = j1
  j2 = j2
  t1 = t1
  t2 = t2
  scheduler = scheduler
  None = None
  Item = {i1, i2}
  Hash = {h1, h2}
  Judgement = {j1, j2}
  Text = {t1}
  Synth = {i1}
  NoHtml = {}
  Short = {h2}
  Linkless = {i2}
  LongSnippet = {}
  MaxEngine = 1
  MaxAttempts = 1
  BatchSize = 1
  Process = {scheduler}
  ReviewAware = TRUE
  Others = {"reacquire", "force"}
INVARIANTS
  SynthRecordIsRead
CHECK_DEADLOCK FALSE
