SPECIFICATION Spec
CONSTANTS
  o1 = o1
  o2 = o2
  t1 = t1
  t2 = t2
  p1 = p1
  p2 = p2
  NoOne = NoOne
  User <- OneOwner
  InitRole <- OneOwnerRole
  RoomId = {r1, r2}
  RowId = {k1, k2, k3}
  Capacity = {2}
  Slot = {c1}
  Client = {p1}
  Threads = 1
  OfficeOps = {"APPROVED", "profile", "deleteUser"}
  Holder <- OnePhone
  Impatient = {}
SYMMETRY KeysAndTenants
INVARIANTS
  TypeOK
  OneMaster
  OneHome
  MasterHasHome
