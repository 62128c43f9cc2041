\* Two waiters, two pushers, one interrupt packet, a port that is full at once.
SPECIFICATION PortFairSpec
CONSTANTS
  w1 = w1  w2 = w2  p1 = p1  p2 = p2  u1 = u1   i1 = i1  k1 = k1
  NoPacket = NoPacket
  PortWaiters = {w1, w2}
  Pushers = {p1, p2}
  UserPackets = {u1}
  KernelPackets = {k1}
  Interrupts = {i1}
  MaxPackets = 0
  BindInterrupt = TRUE
  MaxSignalCallbacks = 8
INVARIANT DeliveredOnceInOrder
PROPERTY PacketReachesWaiter
CHECK_DEADLOCK FALSE
