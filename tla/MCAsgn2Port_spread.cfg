\* An SMP kernel that may deliver the interrupt to any CPU.
SPECIFICATION PortSpec
CONSTANTS
  BUFFER_CAPACITY = 2
  MAX_SESSIONS = 3
  PAGE_SIZE = 3
  Frames = {f1, f2}
  NoPage = NoPage
  PinLevels <- OnePin
  SMP = TRUE
  Arrivals <- AnyArrival
  AllocMayFail = TRUE
  MaxBytes = 5
INVARIANTS
  MutualExclusion
  BytesCounted
  SizesMatchData
CHECK_DEADLOCK FALSE
