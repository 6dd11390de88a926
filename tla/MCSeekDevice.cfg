\* seek_test beside two processes that open, fork, read, write and seek as they please.
SPECIFICATION Spec
CHECK_DEADLOCK FALSE
CONSTANTS
  Others = {p, q}
  Tester = t
  Files = {f1, f2}
  ramdisk_size = 3
  Lengths = {1, 2}
  Offsets <- MCOffsets
  CopyMayFail = TRUE
SYMMETRY Symmetric
INVARIANTS
  WithinDevice
  MessageReadBack
  PrivateData
