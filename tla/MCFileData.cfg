CONSTANTS
  t1 = t1
  t2 = t2
  f1 = f1
  f2 = f2
  Tasks = {t1, t2}
  Files = {f1, f2}
  Handles <- MCHandles
  data <- MCData
  NR_BLOCKS = 6
  FS_BLKSIZ = 2
  SINGLE_INDIRECT = 1
  Lens = {3}
  Places = {0, 5, 29}
  Sizes = {31}
  Stale = 2
  MaxCalls = 4
SPECIFICATION Spec
INVARIANTS BlocksOwned
PROPERTIES ImplementsFlatFiles
