CONSTANTS
  Node = {0, 1}
  Link <- PairLink
  Flow <- CrossFlow
  NoLoc = NoLoc
  NETWORK_DIAMETER = 2
  TTL_START = 1
  TTL_THRESHOLD = 1
  TTL_INCREMENT = 1
  RREQ_RETRIES = 0
  INFINITY2 = 255
  MaxSeqno <- LongSeqno
  MaxSent = 3
SPECIFICATION Spec
CHECK_DEADLOCK FALSE
INVARIANTS
  BufferedIsAsked
