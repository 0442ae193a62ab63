CONSTANTS
  Node = {0, 1, 2, 3}
  Link <- LongLink
  Flow <- LongFlow
  Place <- StraightPlace
  NoLoc = NoLoc
  NETWORK_DIAMETER = 30
  TTL_START = 5
  TTL_THRESHOLD = 7
  TTL_INCREMENT = 2
  RREQ_RETRIES = 3
  INFINITY2 = 255
  MaxSeqno <- LongSeqno
  MaxSent = 2
  MaxHops = 3
SPECIFICATION LongSpec
CHECK_DEADLOCK FALSE
INVARIANTS
  ForwardAssertHolds
