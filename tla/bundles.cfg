CONSTANTS
  n1 = n1
  n2 = n2
  Versions <- ThreeVersions
  Pids <- TwoPids
  NoBundle = NoBundle
  Broken = Broken
  MaxUserActs = 2
SPECIFICATION Spec
SYMMETRY AnyPid
INVARIANTS
  TypeOK
  PreviousSurvives
  OutcomeIsTrue
  NothingLeftBehind
PROPERTIES
  UpdateLeavesNoGap
