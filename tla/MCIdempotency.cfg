SPECIFICATION IFairSpec
CONSTANTS
  i1 = i1
  i2 = i2
  k1 = k1
  r1 = r1
  r2 = r2
  r3 = r3
  h1 = h1
  h2 = h2
  NoId = NoId
  NoEntry = NoEntry
  TaskIds = {i1, i2}
  Requests = {r1, r2, r3}
  Streaming = {r2}
  Wants <- Repeated
  Keys = {k1}
  Key <- OneKey
  Hash <- TwoPayloads
  MaxTasks = 3
  MaxEnqueues = 3
  MaxPending = 2
  CacheMax = 2
  Drainers = {}
  Targets = {}
  Answers = {1}
  FailTexts <- WebhookOnly
INVARIANTS
  ReplayIsFirstReply
  ReplayNotOthers
PROPERTIES
  RepeatNeverWorks
  ExpiredLeaves
CHECK_DEADLOCK FALSE
