CONSTANTS
  Node = {0, 1, 2}
  Link <- LineLink
  Flow <- LineFlow
  Place <- StraightPlace
  NoLoc = NoLoc
  NETWORK_DIAMETER = 30
  TTL_START = 5
  TTL_THRESHOLD = 7
  TTL_INCREMENT = 2
  RREQ_RETRIES = 3
  INFINITY2 = 255
  MaxSeqno <- LineSeqno
  MaxSent = 2
  MaxHops = 3
SPECIFICATION LineSpec
CHECK_DEADLOCK FALSE
INVARIANTS
  LinkFailureAssertHolds
