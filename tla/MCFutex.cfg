\* Two waiters, two callers that publish, wake and requeue between two futexes.
SPECIFICATION FairSpec
CONSTANTS
  w1 = w1  w2 = w2  a = a  b = b
  None = None
  Futexes = {1, 2}
  Waiters = {w1, w2}
  Callers = {a, b}
  Kinds = {"publish", "wake", "single", "requeue"}
  Counts = {0, 1}
  MaxValue = 1
  NewOwners = {None}
INVARIANTS SleeperInOnePlace NoLostPublish WakeIsExact
PROPERTY PublishedWakes
CHECK_DEADLOCK FALSE
