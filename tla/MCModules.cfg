\* Every module of the repository.  A crashed insmod stops the system.
SPECIFICATION FairSpec
CHECK_DEADLOCK FALSE
CONSTANTS
  Groups <- MCGroups
  MaxFiles = 2
  MaxPages = 2
  MayFail = {"region", "major700", "cdev", "add", "proc", "gpiochip", "pins", "irq_number",
             "irq", "class", "device", "ramdisk", "misc", "entries"}
INVARIANTS
  TypeOK
  UnloadedClean
  FailedClean
  ReturnedOnce
  CallsFindData
  OneHolder
PROPERTY
  LockServed
