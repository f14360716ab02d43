CONSTANTS
  p1 = p1
  p2 = p2
  a1 = a1
  c1 = c1
  c2 = c2
  NoProc = NoProc
  NoTarget = NoTarget
  AnyContext = AnyContext
  Unmatched = Unmatched
  Procs <- TwoProcs
  Agents <- OneAgent
  Contexts <- OneContext
  Universal = FALSE
  RequireSingle = TRUE
  DryRun = FALSE
  AutoSubmit = FALSE
  StableChecks = 3
  MaxAge = 1
  Cooldown = 1
  MaxTargets = 1
  Texts = {}
SPECIFICATION FairSpec
PROPERTIES
  EveryProcessSettles
