CONSTANTS
  Node = {0, 1}
  Link <- PairLink
  Flow <- CrossFlow
  NoLoc = NoLoc
  NETWORK_DIAMETER = 30
  TTL_START = 5
  TTL_THRESHOLD = 7
  TTL_INCREMENT = 2
  RREQ_RETRIES = 3
  INFINITY2 = 255
  MaxSeqno <- PairSeqno
  MaxSent = 1
SPECIFICATION Spec
CHECK_DEADLOCK FALSE
INVARIANTS
  FirstQueryIsNear
