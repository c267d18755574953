SPECIFICATION Spec
CHECK_DEADLOCK FALSE
CONSTANTS
  User = {t1, t2}
  RoomId = {1, 2}
  PostId = {1, 2}
  FavId = {f1}
  Util = {x1}
  Price = {1}
  Slot = {c1}
  Copies = 1
SYMMETRY Keys
PROPERTIES
  OthersUntouched
