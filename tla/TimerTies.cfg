SPECIFICATION Spec
CONSTANTS
  a = a
  b = b
  Timers = {a, b}
  Timeout <- Timeouts
  StartId <- Ids
  Repeats = {1}
  Modulus = 64
  MaxWait = 2
  HasFds = TRUE
  Horizon = 3
CHECK_DEADLOCK FALSE
PROPERTY StartOrderTies
