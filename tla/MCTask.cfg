SPECIFICATION FairSpec
CONSTANTS
  root = root  j1 = j1  p1 = p1  t1 = t1  t2 = t2  k1 = k1  k2 = k2
  Jobs = {root, j1}
  Root = root
  Procs = {p1}
  Threads = {t1, t2}
  Callers = {k1, k2}
  ParentOf <- OneChild
  JobOf <- InChild
  ProcOf <- InFirst
  None = None
  MaxCalls = 2
INVARIANTS KillReachesAll ExitReachesAll TerminatedJobIsDead
PROPERTIES ExitCodeStable KilledJobTerminates
CHECK_DEADLOCK FALSE
