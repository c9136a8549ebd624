SPECIFICATION FairSpec
CONSTANTS
  Conns = {c1, c2}
  MaxPauses = 1
INVARIANTS TasksEndClean
PROPERTIES ShutdownEnds QueuedIsAnswered ImplementsService
