SPECIFICATION Spec
CHECK_DEADLOCK FALSE
CONSTANTS
  User = {t1}
  RoomId = {1}
  PostId = {1}
  FavId = {f1, f2, f3}
  Util = {x1}
  Price = {1}
  Slot = {c1, c2}
  Copies = 2
SYMMETRY Keys
INVARIANTS
  TypeOK
  Findable
  MarksBounded
PROPERTIES
  NoResurrection
  OnlyOverlapOrphans
