\* A file that yields no packet.
SPECIFICATION Spec
CONSTANTS
  a = a
  b = b
  Tool <- OneRun
  Files <- NoPackets
  AddressModulus = 65536
  Blocks = 2
  SeqModulus = 2
  Concurrent = FALSE
  Registered = {1, 2}
  CrcExempt = {}
  TimerTasks = {"guarded"}
  Target <- SameComponent
  Restarts = 0
CHECK_DEADLOCK FALSE
INVARIANT SuccessMeansInstalled
