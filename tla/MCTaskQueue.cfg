SPECIFICATION Spec
SYMMETRY Symmetry
CONSTANTS
  TaskIds = {i1, i2, i3}
  NoId = NoId
  MaxTasks = 3
  MaxEnqueues = 4
  MaxPending = 2
  CacheMax = 2
  Drainers = {d1}
  Answers = {1}
  FailTexts <- WebhookOnly
  Targets <- WorkingOnly
INVARIANTS
  ProcessingIsPending
  CounterExact
  NoStrandedWaiter
  WatchdogShortcutSafe
PROPERTIES
  NeverForgotten
CHECK_DEADLOCK FALSE
