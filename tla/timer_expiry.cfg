SPECIFICATION FairSpec
CONSTANTS
  Timers = {x}
  Waiters = {w1, w2}
  Delays = {0, 1}
  Hour = 1
  MaxWait = 2
  Start = 2
  MaxClock = 3
  MaxJumps = 1
  Callers = 1
INVARIANT TypeOK CallbackIffInSet OneShotOnce OnTime
PROPERTY NotEarly OneShotsExpire
CHECK_DEADLOCK FALSE
