CONSTANTS
  Versions = {1, 2, 3}
  PageSize = 2
  MaxPages = 2
  Size <- MCSize
  MaxBytes = 3
  MaxFeed = 4
  MaxActs = 1
SPECIFICATION MCSpec
INVARIANTS
  TypeOK
  SelectedIsNewest
PROPERTIES
  InstallsOnlyConfirmed
  NotifiedOnce
  UpdateIsOffered
