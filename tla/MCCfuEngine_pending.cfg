\* Content after the hand-over.
SPECIFICATION Spec
CONSTANTS
  i1 = i1
  t1 = t1
  Registered <- OneComponent
  OfferedId <- FewIds
  Image <- OneImage
  Cell = {1, 2}
  Token <- OneToken
  CrcExempt = {}
  TimerTasks = {"highest"}
INVARIANTS PendingImageIsKept
