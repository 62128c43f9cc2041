\* As MCTaskCollection, asking the unconditional claim about the unwrap.
SPECIFICATION Spec
CONSTANTS
  t1 = t1  t2 = t2
  e1 = e1  e2 = e2  w1 = w1  c1 = c1  c2 = c2
  None = None
  Slots = {0, 1}
  NPages = 2
  PageOf <- TwoPages
  Tasks = {t1, t2}
  Execs = {e1, e2}
  Cpus = {c1}
  CpuOf <- OneCpu
  Wakers = {w1}
  Masks <- OneMask
SYMMETRY SymAll
INVARIANT UnwrapSucceeds
