\* The comment on Transaction, for a job whose fn may panic.
CONSTANTS
  request = request
  job = job
  Goroutine <- MCGoroutine
  NoOne = NoOne
  Conn = {c1, c2, c3}
  Bounded <- MCRequest
  Panicking <- MCJob
  MaxDepth = 2
  MaxInner = 1
  MaxSent = 1
SPECIFICATION Spec
INVARIANT AutoEnds
