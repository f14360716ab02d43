CONSTANTS
  t1 = t1
  t2 = t2
  Main = Main
  NoOne = NoOne
  Tasks <- OneTask
  MidToggle = TRUE
  RollbackFails = FALSE
  WritesFail = FALSE
  StopFails = FALSE
  Crashes = FALSE
SPECIFICATION Spec
PROPERTIES
  PausedStaysPaused
