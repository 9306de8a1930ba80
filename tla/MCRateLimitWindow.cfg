\* The comment on Rate.Limit, for a limit of one and a lag of one moment.
CONSTANTS
  r1 = r1
  r2 = r2
  r3 = r3
  p1 = p1
  Request <- MCRequest
  Monitor <- MCMonitor
  Limit = 1
  Window = 3
  Lag = 1
  Ahead <- MCLevel
  Skew = 0
  MaxResend = 0
  Horizon = 4
SPECIFICATION Spec
INVARIANT AtMostLimitPerWindow
