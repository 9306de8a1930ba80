\* A request, whose fn may panic, and a job, each with transactions inside one another;
\* three connections are the fewest with which nobody waits for ever.
CONSTANTS
  request = request
  job = job
  Goroutine <- MCGoroutine
  NoOne = NoOne
  Conn = {c1, c2, c3}
  Bounded <- MCRequest
  Panicking <- MCRequest
  MaxDepth = 2
  MaxInner = 1
  MaxSent = 1
SPECIFICATION FairSpec
INVARIANTS
  NoLeak
  AtomicOutcome
PROPERTIES
  EveryTransactionReturns
