SPECIFICATION Spec
CHECK_DEADLOCK FALSE
CONSTANTS
  User = {t1, t2}
  PostId = {p1, p2, p3}
  Slot = {c1, c2}
  Requests = 5
  NoPost = NoPost
  Idle = Idle
SYMMETRY Names
INVARIANTS TypeOK PrefsWhole PostWhole PostHasReference
PROPERTIES SavesInOrder
