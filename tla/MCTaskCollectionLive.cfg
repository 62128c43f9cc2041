\* One executor, two tasks on one page, masks that come and go.
SPECIFICATION FairSpec
CONSTANTS
  t1 = t1  t2 = t2
  e1 = e1  e2 = e2  w1 = w1  c1 = c1  c2 = c2
  None = None
  Slots = {0, 1}
  NPages = 1
  PageOf <- OnePage
  Tasks = {t1, t2}
  Execs = {e1}
  Cpus = {c1, c2}
  CpuOf <- OneCpu
  Wakers = {w1}
  Masks <- Pinned
PROPERTIES WakeIsServed FinishedIsReclaimed
