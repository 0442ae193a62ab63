CONSTANTS
  r1 = r1
  r2 = r2
  r3 = r3
  d1 = d1
  d2 = d2
  d3 = d3
  h1 = h1
  h2 = h2
  Packet <- Packets
  Routing <- Routings
  Hop = {h1, h2}
  qlim = 4
SYMMETRY Symmetric
SPECIFICATION Spec
CHECK_DEADLOCK FALSE
INVARIANTS
  RoutingFirst
  BelowLimit
  NoneWaitsForNothing
  PacketOnce
