CONSTANTS
  Peer = {p1, p2}
  p1 = p1
  p2 = p2
  NoLoc = NoLoc
  LUDP_RADIUS = 2
  LUDP_INTERVAL = 1
  LUDP_CACHE_SAVE = 3
  Speed = 1
  Field <- SmallField
  MaxNow = 7
  MaxAir = 2
SPECIFICATION Spec
CHECK_DEADLOCK FALSE
INVARIANTS
  ListedIsAllocated
