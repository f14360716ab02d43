CONSTANTS
  p1 = p1
  p2 = p2
  d1 = d1
  d2 = d2
  r1 = r1
  r2 = r2
  NoProc = NoProc
  NoDialog = NoDialog
  Procs <- TwoProcs
  Dialogs <- TwoDialogs
  Rules <- TwoRules
  Name = r1
  StableChecks = 3
  MaxWrites = 1
SPECIFICATION FairSpec
CHECK_DEADLOCK FALSE
INVARIANTS
  TypeOK
  EnrolledIsOneRequest
  FileIsWhole
PROPERTIES
  OthersWorkSurvives
  EnrollmentEnds
