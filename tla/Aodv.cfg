CONSTANTS
  Node = {0, 1, 2, 3}
  Link <- TriangleLink
  Flow <- TriangleFlow
  AODV_LOCAL_REPAIR = FALSE
  NETWORK_DIAMETER = 2
  TTL_START = 1
  TTL_THRESHOLD = 1
  TTL_INCREMENT = 1
  RREQ_RETRIES = 1
  INFINITY2 = 255
  MaxSeqno <- TriangleSeqno
  MaxSent = 1
SPECIFICATION LiveSpec
CHECK_DEADLOCK FALSE
INVARIANTS
  TypeOK
  NoAssertFails
  Sound
  SeqnosIssued
  NextHopCloser
PROPERTIES
  ImplementsRouteOrder
  BufferedServed
