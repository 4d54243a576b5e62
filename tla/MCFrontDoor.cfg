SPECIFICATION Spec
SYMMETRY Symmetry
CONSTANTS
  t1 = t1
  t2 = t2
  n1 = n1
  n2 = n2
  i1 = i1
  i2 = i2
  Names = {n1, n2}
  Threads = {t1, t2}
  Tasks = {i1, i2}
  Burst = 2
  Cost = 1
  MaxEntries = 1
  MaxLag = 1
  MaxClock = 5
  Requests <- MCRequests
  RequireAuth = FALSE
  TokenSet = TRUE
  PageSize = 1
CONSTRAINT Budget
INVARIANTS
  GrantsBounded
  RepliesSound
  NoTaskSkipped
PROPERTIES
  RetryHonoured
