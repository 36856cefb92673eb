\* The timer callback as a critical section in a task that the engine task can hold up.
SPECIFICATION FairSpec
CONSTANTS
  i1 = i1
  t1 = t1
  Registered <- OneComponent
  OfferedId <- FewIds
  Image <- OneImage
  Cell = {1, 2}
  Token <- OneToken
  CrcExempt = {}
  TimerTasks = {"guarded"}
PROPERTY UpdateEndsOnAnyPlatform
