SPECIFICATION Spec
CONSTANTS
  k1 = k1
  k2 = k2
  k3 = k3
  Keys = {k1, k2, k3}
  Values = {v1}
  NULL = NULL
  Hash <- Hashes
  DICTMINSZ = 1
  MaxSize = 4
  AllocMayFail = FALSE
CHECK_DEADLOCK FALSE
INVARIANT ArraysHaveSize
