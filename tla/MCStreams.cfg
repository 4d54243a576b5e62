SPECIFICATION Spec
CONSTANTS
  c1 = c1
  c2 = c2
  s1 = s1
  s2 = s2
  Sessions = {s1, s2}
  Clients = {c1, c2}
  Poster = c1
  May = {"stream", "cancel", "publish", "leave"}
INVARIANTS
  ReadInOrder
  OutcomeTold
CHECK_DEADLOCK FALSE
SYMMETRY Alike
CONSTRAINT Groups
