\* Three calls against a limit of two, and a fourth that purges by a clock that is
\* ahead, as that of the third is.  The window is longer than lag and skew together,
\* and the clock runs until a member could be older than all three allow.
CONSTANTS
  r1 = r1
  r2 = r2
  r3 = r3
  p1 = p1
  Request <- MCRequest
  Monitor <- MCMonitor
  Limit = 2
  Window = 4
  Lag = 1
  Ahead <- MCAhead
  Skew = 1
  MaxResend = 1
  Horizon = 6
SPECIFICATION Spec
CHECK_DEADLOCK FALSE
SYMMETRY Interchangeable
INVARIANTS
  WindowInv
  LimitHolds
PROPERTIES
  RefusalIsJustified
  RetryAfterIsExact
