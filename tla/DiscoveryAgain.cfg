CONSTANTS
  Node = {0, 1, 2}
  Link <- TriangleLink
  Flow <- OneWayFlow
  NoLoc = NoLoc
  NETWORK_DIAMETER = 2
  TTL_START = 1
  TTL_THRESHOLD = 1
  TTL_INCREMENT = 1
  RREQ_RETRIES = 0
  INFINITY2 = 255
  MaxSeqno <- TriangleSeqno
  MaxSent = 2
SPECIFICATION Spec
CHECK_DEADLOCK FALSE
INVARIANTS
  TypeOK
  NoAssertFails
  Sound
  SeqnosIssued
  NextHopCloser
  PacketOnce
  NoneBufferedWhenUp
  SearchOver
PROPERTIES
  ImplementsRouteOrder
