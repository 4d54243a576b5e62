SPECIFICATION LSpec
CONSTANTS
  s1 = s1
  s2 = s2
  r1 = r1
  r2 = r2
  r3 = r3
  c1 = c1
  i1 = i1
  i2 = i2
  i3 = i3
  NoId = NoId
  TaskIds = {i1, i2}
  Requests = {r1, r2}
  Wants <- DistinctIds
  Cancels = {}
  Kills <- NoKills
  Sessions = {s1, s2}
  Drainers = {s1, s2}
  MaySkip = FALSE
  UserTurns = TRUE
  PassesTaskId = FALSE
  MaxTasks = 2
  MaxEnqueues = 4
  MaxPending = 3
  CacheMax = 3
  Answers <- MCAnswers
  FailTexts <- MCFailTexts
  Targets = {"working"}
INVARIANT HandedOnce
CHECK_DEADLOCK FALSE
