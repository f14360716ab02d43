CONSTANTS
  g1 = g1
  g2 = g2
  g3 = g3
  c1 = c1
  c2 = c2
  NoThread = NoThread
  Threads <- MCThreads
  Children <- MCChildren
SPECIFICATION FairSpec
INVARIANTS
  TypeOK
  NoStrayWatcher
PROPERTIES
  ImplementsWorker
