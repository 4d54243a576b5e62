SPECIFICATION LFairSpec
CONSTANTS
  s1 = s1
  s2 = s2
  r1 = r1
  r2 = r2
  r3 = r3
  c1 = c1
  i1 = i1
  i2 = i2
  i3 = i3
  NoId = NoId
  TaskIds = {i1, i2}
  Requests = {r1, r2}
  Wants <- DistinctIds
  Cancels = {c1}
  Kills <- KillSecond
  Sessions = {s1}
  Drainers = {s1}
  MaySkip = FALSE
  UserTurns = TRUE
  PassesTaskId = FALSE
  MaxTasks = 2
  MaxEnqueues = 4
  MaxPending = 3
  CacheMax = 3
  Answers <- MCAnswers
  FailTexts <- MCFailTexts
  Targets = {"working"}
INVARIANTS
  HandedOnce
  AnswerIsMine
PROPERTIES
  UsesQueue
  EveryRequestAnswered
CHECK_DEADLOCK FALSE
