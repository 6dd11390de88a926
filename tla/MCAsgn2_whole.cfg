\* A well-mannered world: sessions are whole, and sleepers are served.
SPECIFICATION FairSpec
CONSTANTS
  BUFFER_CAPACITY = 2
  MAX_SESSIONS = 4
  PAGE_SIZE = 3
  Frames = {f1, f2}
  NoPage = NoPage
  PinLevels <- OnePin
  SMP = FALSE
  Arrivals <- OnlyNested
  AllocMayFail = FALSE
  MaxBytes = 6
  Readers = {r1, r2}
  ReadSizes = {3}
  NprocLimits = {}
  Signals = FALSE
  CopyMayFail = FALSE
  Manners <- AllManners
  MaxReads = 3
INVARIANTS
  WholeSessions
  SessionsCounted
  RemovedWhenRead
  PagesCounted
PROPERTY
  SleeperServed
CHECK_DEADLOCK FALSE
