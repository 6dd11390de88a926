\* An SMP kernel whose interrupt stays on the CPU that runs the tasklet.
SPECIFICATION PortSpec
CONSTANTS
  BUFFER_CAPACITY = 2
  MAX_SESSIONS = 3
  PAGE_SIZE = 3
  Frames = {f1, f2}
  NoPage = NoPage
  PinLevels <- OnePin
  SMP = TRUE
  Arrivals <- OnlyNested
  AllocMayFail = TRUE
  MaxBytes = 5
INVARIANTS
  TypeOK
  FifoOrder
  SessionFraming
  StoredInOrder
PROPERTY
  ImplementsFifo
CHECK_DEADLOCK FALSE
