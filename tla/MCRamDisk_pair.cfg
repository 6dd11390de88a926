\* Two open files, none write-only: calls interleave.
SPECIFICATION Spec
CONSTANTS
  PAGE_SIZE = 2
  Frames = {f1, f2}
  NoPage = NoPage
  a = a
  b = b
  Values = {a}
  Junk = a
  Zero = a
  Procs = {p1, p2}
  Modes = {"r", "rw"}
  Payloads <- OneValue
  Counts = {3}
  Offsets = {0, 1}
  Lengths = {1, 2}
  MapOffsets = {0}
  NprocLimits = {2}
  AllocMayFail = FALSE
  CopyMayFail = TRUE
SYMMETRY Alike
INVARIANTS
  TypeOK
  DiskFits
  MapShowsDisk
