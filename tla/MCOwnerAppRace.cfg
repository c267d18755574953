SPECIFICATION Spec
CONSTANTS
  o1 = o1
  o2 = o2
  t1 = t1
  t2 = t2
  p1 = p1
  p2 = p2
  NoOne = NoOne
  User <- TwoOwners
  InitRole <- TwoOwnersRole
  RoomId = {r1, r2}
  RowId = {k1, k2}
  Capacity = {1}
  Slot = {c1, c2}
  Client = {p1, p2}
  Threads = 1
  OfficeOps = {"APPROVED"}
  Holder <- TwoPhones
  Impatient = {}
INVARIANTS
  OneHome
