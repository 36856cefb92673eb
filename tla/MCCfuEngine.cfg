\* Two components, one image, every kind of timer task.
SPECIFICATION FairSpec
CONSTANTS
  i1 = i1
  t1 = t1
  Registered <- TwoComponents
  OfferedId <- SomeIds
  Image <- OneImage
  Cell = {1, 2}
  Token <- OneToken
  CrcExempt = {2}
  TimerTasks = {"highest", "guarded", "bare"}
INVARIANTS TypeOK NoStaleCompletion SessionIsRegistered SwapIsOfOneComponent SessionIsTimed
PROPERTIES UpdateEnds SessionSpec
