\* A second run of the tool after the first has ended.
SPECIFICATION Spec
CONSTANTS
  a = a
  b = b
  Tool <- TwoRuns
  Files <- TwoBlocks
  AddressModulus = 65536
  Blocks = 2
  SeqModulus = 2
  Concurrent = FALSE
  Registered = {1, 2}
  CrcExempt = {}
  TimerTasks = {"guarded"}
  Target <- TwoComponents
  Restarts = 0
CHECK_DEADLOCK FALSE
INVARIANT DeliversOnlyIfAccepted
