\* The single-CPU kernel of the board: spin_lock compiles to nothing.
SPECIFICATION FairPortSpec
CONSTANTS
  BUFFER_CAPACITY = 2
  MAX_SESSIONS = 2
  PAGE_SIZE = 3
  Frames = {f1, f2}
  NoPage = NoPage
  PinLevels <- OnePin
  SMP = FALSE
  Arrivals <- OnlyNested
  AllocMayFail = FALSE
  MaxBytes = 4
INVARIANT
  NoStrandedByte
PROPERTY
  EventuallyDrained
CHECK_DEADLOCK FALSE
