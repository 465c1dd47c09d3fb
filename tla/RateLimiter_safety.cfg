SPECIFICATION LimiterSpec
CONSTANTS
  Limit <- MCLimit
  Window = 5
  TicksPerSecond = 2
  MaxTime = 11
INVARIANTS
  WindowLimit
  RetryAfterHonest
CHECK_DEADLOCK FALSE
