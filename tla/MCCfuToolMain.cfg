\* One command, with two registering tasks in the controller.
SPECIFICATION FairSpec
CONSTANTS
  r1 = r1
  r2 = r2
  t1 = t1
  t2 = t2
  FixedVersions <- SomeVersions
  CommandLines <- SomeCommandLines
  SettingsFiles <- SomeSettings
  InterfaceLists <- SomeLists
  Entries <- SomeEntries
  Registration <- TwoRegistrations
  Task <- TwoTasks
  Guarded = TRUE
  CountModulus = 4
  Walks = 2
CHECK_DEADLOCK FALSE
INVARIANTS TypeOK ReportIsSnapshot ListedVersionIsItsOwn IndexIsInRange TargetIsNamed
PROPERTIES ReportEnds CommandEnds
