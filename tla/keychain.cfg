CONSTANTS
  app = app
  watcher = watcher
  k1 = k1
  k2 = k2
  r1 = r1
  r2 = r2
  r3 = r3
  s1 = s1
  Decoy = Decoy
  NoRef = NoRef
  Keys <- TwoAccounts
  Passwords <- TwoAccounts
  Refs <- ThreeRefs
  Secrets <- OneSecret
  Callers <- BothCallers
  Allowed <- Roles
SPECIFICATION Spec
SYMMETRY SomeOrder
INVARIANTS
  TypeOK
  ConflictDeletesNothing
PROPERTIES
  RemovalIsComplete
  ForeignItemsUntouched
  StoreRemovesNothing
  ImplementsVault
