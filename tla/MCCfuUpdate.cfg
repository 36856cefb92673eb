\* One run of the tool, with timer, component callback and two restarts.
SPECIFICATION FairSpec
CONSTANTS
  a = a
  b = b
  Tool <- OneRun
  Files <- ThreeBlocks
  AddressModulus = 65536
  Blocks = 3
  SeqModulus = 2
  Concurrent = FALSE
  Registered = {1, 2}
  CrcExempt = {}
  TimerTasks = {"guarded"}
  Target <- SameComponent
  Restarts = 2
CHECK_DEADLOCK FALSE
INVARIANTS TypeOK SuccessMeansInstalled DeliversOnlyIfAccepted
PROPERTIES ToolSpec RunEndsUnlessRestarted
