\* A file of two buffers and a bit, outputs with no room, with all but one byte's, with room for all.
SPECIFICATION FairSpec
CHECK_DEADLOCK FALSE
CONSTANTS
  FileSize = 7
  BUFFER_SIZE = 3
  SizeMod = 8
  Rooms <- MCRooms
INVARIANTS
  TypeOK
  OutputRight
PROPERTY
  EndsOrStuck
