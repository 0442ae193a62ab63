CONSTANTS
  Node = {0, 1, 2, 3}
  Link <- LongLink
  Flow <- ShareFlow
  AODV_LOCAL_REPAIR = TRUE
  NETWORK_DIAMETER = 30
  TTL_START = 5
  TTL_THRESHOLD = 7
  TTL_INCREMENT = 2
  RREQ_RETRIES = 1
  INFINITY2 = 255
  MaxSeqno <- LongSeqno
  MaxSent = 2
SPECIFICATION RepairSpec
CHECK_DEADLOCK FALSE
INVARIANTS
  NoAssertFails
