SPECIFICATION SmallSpec
CONSTANTS
  c1 = c1
  c2 = c2
  t1 = t1
  v1 = v1
  scheduler = scheduler
  None = None
  Gone = Gone
  Candidate = {c1, c2}
  Text = {t1}
  Venue = {v1}
  Normalizer = {scheduler}
  Limit = 1
  MaxAttempts = 1
  Finds <- DatedPosts
  Beside = {}
  MaxRev <- TwoAndOne
  MaxReviews <- OneAndNone
  MaxMaster = 1
  MaxChanges = 3
INVARIANTS
  TypeOK
  RowIsCurrent
  ListingIsTold
CHECK_DEADLOCK FALSE
