\* Two hosts, each of which waits for its own answers.
SPECIFICATION FairSpec
CONSTANTS
  h1 = h1
  h2 = h2
  v1 = v1
  v2 = v2
  Host <- TwoHosts
  Id <- AllIds
  Version <- OneVersion
  Commands = 3
  Restarts = 0
CHECK_DEADLOCK FALSE
PROPERTY EveryCommandIsAnswered
