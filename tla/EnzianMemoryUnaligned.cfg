SPECIFICATION Spec
CONSTANTS
  m1 = m1
  m2 = m2
  t1 = t1
  t2 = t2
  t3 = t3
  Mms <- MCMms
  Threads <- MCThreads
  MmOf <- MCMmOf
  BlockPages = 2
  Blocks = {0, 1}
  FpgaBase = 8
  Layouts <- KernelChosenLayouts
  Orders = {"PUD"}
  Nothing = Nothing
INVARIANTS
  NeverKilled
