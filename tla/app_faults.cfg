CONSTANTS
  t1 = t1
  t2 = t2
  Main = Main
  NoOne = NoOne
  Tasks <- TwoTasks
  MidToggle = FALSE
  RollbackFails = TRUE
  WritesFail = TRUE
  StopFails = TRUE
  Crashes = TRUE
SPECIFICATION Spec
SYMMETRY AnyTask
INVARIANTS
  TypeOK
  OneProtectedOperation
  ProgressIsOwned
  UninstallLeavesNoPassword
PROPERTIES
  ExitingIsFinal
