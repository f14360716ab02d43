CONSTANTS
  p1 = p1
  p2 = p2
  a1 = a1
  c1 = c1
  c2 = c2
  NoProc = NoProc
  NoTarget = NoTarget
  AnyContext = AnyContext
  Unmatched = Unmatched
  Procs <- TwoProcs
  Agents <- OneAgent
  Contexts <- TwoContexts
  Universal = TRUE
  RequireSingle = TRUE
  DryRun = FALSE
  AutoSubmit = TRUE
  StableChecks = 3
  MaxAge = 1
  Cooldown = 2
  MaxTargets = 1
  Texts = {"alike"}
SPECIFICATION Spec
INVARIANTS
  TypeOK
  AttemptKnowsItsDialog
  SecretOnlyForOpenProcess
  LateAttemptReadsNoSecret
PROPERTIES
  VisibleTargetBarsNewcomers
  ImplementsContract
