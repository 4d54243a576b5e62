SPECIFICATION Spec
SYMMETRY Symmetry
CONSTANTS
  TaskIds = {i1, i2}
  NoId = NoId
  MaxTasks = 2
  MaxEnqueues = 3
  MaxPending = 2
  CacheMax = 2
  Drainers = {d1}
  Answers = {1}
  FailTexts <- AllFailTexts
  Targets <- AllTargets
INVARIANTS
  TypeOK
PROPERTIES
  FinishedStays
CHECK_DEADLOCK FALSE
