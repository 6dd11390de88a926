\* Two processes that have the disk in turn: it is a file.
SPECIFICATION Spec
CONSTANTS
  PAGE_SIZE = 2
  Frames = {f1, f2}
  NoPage = NoPage
  a = a
  b = b
  Values = {a, b}
  Junk = Junk
  Zero = Zero
  Procs = {p1, p2}
  Modes = {"r", "w", "rw"}
  Payloads <- AnyData
  Counts = {1, 3}
  Offsets <- Around
  Lengths = {1, 2}
  MapOffsets = {0}
  NprocLimits = {1}
  AllocMayFail = TRUE
  CopyMayFail = TRUE
SYMMETRY Alike
INVARIANTS
  FileKept
  ReadsBack
