SPECIFICATION FairSpec
CONSTANTS
  a = a
  b = b
  Timers = {a, b}
  Timeout <- Timeouts
  StartId <- Ids
  Repeats = {0, 2}
  Modulus = 64
  MaxWait = 1
  HasFds = TRUE
  Horizon = 3
CHECK_DEADLOCK FALSE
INVARIANTS TypeOK FiresAsOften NeverOversleeps
PROPERTIES NeverEarly TimerFires PassEnds StopsUnlessParked
