\* Everything that can fail fails.
SPECIFICATION Spec
CONSTANTS
  Subkeys = 3
  Complete = {1, 3}
  FileSize = 2
  Faults = {"config", "enumerate", "values", "open", "alloc", "read", "bind", "start"}
  Restarts = 1
CHECK_DEADLOCK FALSE
INVARIANTS TypeOK PairsAreNamed EveryCompletePairIsOffered ServesTheRequestedFile
