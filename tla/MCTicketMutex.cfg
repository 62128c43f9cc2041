\* Two CPUs with a handler each and one lock; try_lock nests on it.
SPECIFICATION FairSpec
CONSTANTS
  Cpus = {c1, c2}
  Locks = {1}
  MaxTicket = 3
  None = None
INVARIANTS MutualExclusion HandlerFindsNoLock FlagRestored
PROPERTY ImplementsMutex
