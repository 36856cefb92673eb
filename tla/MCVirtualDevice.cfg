\* One host, which waits for every answer, and a device that is stopped once.
SPECIFICATION FairSpec
CONSTANTS
  h1 = h1
  h2 = h2
  v1 = v1
  v2 = v2
  Host <- OneHost
  Id <- AllIds
  Version <- TwoVersions
  Commands = 7
  Restarts = 1
CHECK_DEADLOCK FALSE
INVARIANTS TypeOK SwapPendingMeansAllUpdated ReportedWasOffered
PROPERTIES EveryCommandIsAnswered
