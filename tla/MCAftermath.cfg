SPECIFICATION FairSpec
CONSTANTS
  t1 = t1
  t2 = t2
  t3 = t3
  i1 = i1
  i2 = i2
  a = a
  b = b
  Tasks = {i1, i2}
  Subs = {a, b}
  TaskOf <- MCTaskOf
  Tellers = {t1, t2, t3}
  MaxAttempts = 2
  CleanupAbove = 0
  MaxFailures = 2
  Savers = {t1, t2, t3}
  WorksOn <- MCWorksOn
  Starts <- MCStarts
  MaxSize = 0
  MaxSecond = 1
INVARIANTS
  TypeOK
  CopiesBounded
  ToldInOrder
  SavedExactly
PROPERTIES
  SessionsGoOn
CHECK_DEADLOCK FALSE
