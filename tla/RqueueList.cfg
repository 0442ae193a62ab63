CONSTANTS
  p1 = p1
  p2 = p2
  p3 = p3
  p4 = p4
  a1 = a1
  a2 = a2
  Packet = {p1, p2, p3, p4}
  Address = {a1, a2}
  dst <- FourPackets
  Null = Null
  Limit = 3
  Timeout = 2
SPECIFICATION Spec
INVARIANT VerifyQueue
INVARIANT AgedAtHead
PROPERTY ImplementsBuffer
