SPECIFICATION Spec
CONSTANTS
  i1 = i1
  i2 = i2
  i3 = i3
  i4 = i4
  Issue = {i1, i2}
  Nowhere = Nowhere
  Known = {i1}
  Server = {s1, s2}
  Cap = 2
  Retention = 0
  TranscriptRetention = 0
  BatchSize = 1
  LastDay = 1
  MaxRows = 3
  MaxClears = 1
  Item = {i1, i2, i3, i4}
  Scores <- MCScores
  Matches = {i1, i2, i3}
  Near = {i3, i4}
  PerPage = 2
  MaxItems = 3
  TopN = 2
  MaxChanges = 2
  Token = {t1}
  Secret = {x1, x2}
  NoSecret = NoSecret
  Client = {c1, c2}
  TTL = 2
  MaxTime = 3
  LastId = 2
  Missing = {1, 2}
  Chunk = 1
  Limits = {0, 1}
  NoValue = NoValue
  MaxText = 2
  MaxRuns = 1
  MaxHealing = 1
INVARIANTS TypeOK RecordsKept RevocationHolds PagesShowAll
PROPERTIES LinksResolve
CHECK_DEADLOCK FALSE
