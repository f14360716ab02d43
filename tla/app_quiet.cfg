CONSTANTS
  t1 = t1
  t2 = t2
  Main = Main
  NoOne = NoOne
  Tasks <- TwoTasks
  MidToggle = FALSE
  RollbackFails = FALSE
  WritesFail = TRUE
  StopFails = FALSE
  Crashes = TRUE
SPECIFICATION FairSpec
INVARIANTS
  EnabledHasPassword
  FailedUninstallRestores
  WatcherOnlyWhenEnabled
PROPERTIES
  OperationsEnd
