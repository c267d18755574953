SPECIFICATION Spec
CONSTANTS
  o1 = o1
  o2 = o2
  t1 = t1
  t2 = t2
  p1 = p1
  p2 = p2
  NoOne = NoOne
  User <- OneOwnerOneTenant
  InitRole <- OneOwnerOneTenantRole
  RoomId = {r1}
  RowId = {k1, k2}
  Capacity = {1}
  Slot = {c1, c2}
  Client = {p1}
  Threads = 2
  OfficeOps = {"APPROVED", "deleteUser"}
  Holder <- OnePhone
  Impatient = {p1}
SYMMETRY Keys
INVARIANTS
  OwnersDoNotRent
  TenantsNeedApproval
PROPERTIES
  RentalHistory
  MastersKeepHome
  RoomsKeepMaster
