\* Anything may happen on one CPU: still no wake-up is lost.
SPECIFICATION Spec
CONSTANTS
  BUFFER_CAPACITY = 1
  MAX_SESSIONS = 2
  PAGE_SIZE = 2
  Frames = {f1, f2}
  NoPage = NoPage
  PinLevels <- OnePin
  SMP = FALSE
  Arrivals <- OnlyNested
  AllocMayFail = FALSE
  MaxBytes = 3
  Readers = {r1, r2}
  ReadSizes = {1}
  NprocLimits = {2}
  Signals = TRUE
  CopyMayFail = TRUE
  Manners <- NoManners
  MaxReads = 2
SYMMETRY Alike
INVARIANTS
  ReaderTypeOK
  NoLostWakeup
  
CHECK_DEADLOCK FALSE
