SPECIFICATION KFairSpec
CONSTANTS
  o1 = o1  o2 = o2  w1 = w1  w2 = w2  b1 = b1  b2 = b2  s1 = s1  s2 = s2
  Objects = {o1, o2}
  Bits = {s1, s2}
  Waiters = {w1}
  Observers = {b1}
  Targets <- Both
  MaxWaits = 2
  MaxSignalCallbacks = 2
  Pulses = TRUE
  Timeouts = TRUE
INVARIANTS SleepsArmed OnePacketPerObserver
PROPERTY ArmedWaitCompletes
CHECK_DEADLOCK FALSE
