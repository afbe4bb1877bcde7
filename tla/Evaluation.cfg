SPECIFICATION Spec
CONSTANTS
  Coroutine = {c1, c2}
  Issue = {i1, i2}
  Open = {i1}
  RoundsOpen = 2
  RoundsClosed = 1
  TokenLimit = 3
  HttpAttempts = 2
  Pacing = TRUE
  MaxTokens = 2
  MaxCalls = 2
  Caller = {a1, a2}
  MaxCallsEach = 2
  MaxProcs = 2
  Task = {t1, t2}
  Concurrency = 1
  OutCap = 2
  ErrCap = 1
  PipeSize = 1
  MaxOut = 3
  MaxErr = 2
  Syncer = {s1, s2}
  Scheduled = s1
  MaxVisits = 2
  MaxDamages = 1
  MaxTimeouts = 2
INVARIANTS TypeOK NeverAnOlderContext SafeEvaluation
PROPERTIES EverythingReturns OnlySuspectsRemoved MirrorsHealed
CHECK_DEADLOCK FALSE
