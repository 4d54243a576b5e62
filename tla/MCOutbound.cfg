SPECIFICATION FairSpec
CONSTANTS
  c1 = c1
  c2 = c2
  c3 = c3
  c4 = c4
  i1 = i1
  i2 = i2
  Calls = {c1, c2, c3, c4}
  TaskIds = {i1, i2}
  Window = 2
  MaxCalls = 3
  MaxLag = 1
  MaxClock = 4
  Attempts = 2
  MaxRestarts = 1
  Requests <- MCRequests
CHECK_DEADLOCK FALSE
CONSTRAINT Budget
INVARIANTS
  GrantsSpaced
  NoOrphan
  WorkersSound
  ReportTrue
PROPERTIES
  EveryCallEnds
