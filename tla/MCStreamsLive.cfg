SPECIFICATION FairSpec
CONSTANTS
  c1 = c1
  c2 = c2
  s1 = s1
  s2 = s2
  Sessions = {s1}
  Clients = {c1}
  Poster = c1
  May = {"stream", "cancel", "publish", "leave", "expire", "idle", "reload"}
PROPERTIES
  OutcomeHeard
  StreamsEnd
CHECK_DEADLOCK FALSE
