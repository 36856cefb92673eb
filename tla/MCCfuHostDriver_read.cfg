\* The reading of a firmware file may fail after some of it has been read.
SPECIFICATION Spec
CONSTANTS
  Subkeys = 1
  Complete = {1}
  FileSize = 2
  Faults = {"read"}
  Restarts = 0
CHECK_DEADLOCK FALSE
INVARIANT ServesOnlyWholeFiles
