\* One CPU: the lock compiles to nothing and the order of bytes is lost.
SPECIFICATION FairPortSpec
CONSTANTS
  BUFFER_CAPACITY = 2
  MAX_SESSIONS = 2
  PAGE_SIZE = 3
  Frames = {f1, f2}
  NoPage = NoPage
  PinLevels <- OnePin
  SMP = FALSE
  Arrivals <- OnlyNested
  AllocMayFail = FALSE
  MaxBytes = 4
INVARIANT
  FifoOrder
CHECK_DEADLOCK FALSE
