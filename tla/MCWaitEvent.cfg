\* Three processes that read and write, signals, failing copies.
SPECIFICATION FairSpec
CONSTANTS
  Procs = {p1, p2, p3}
  ramdisk_size = 1
  Lengths = {1}
  Signals = TRUE
  CopyMayFail = TRUE
INVARIANTS
  TypeOK
  NothingMissed
  NoLostWakeup
PROPERTY
  DataTaken
