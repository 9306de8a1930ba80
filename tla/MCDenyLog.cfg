\* Two refusals over two months and a half: records of one key or of two, in one month
\* or on both sides of its end.  The clock runs until the first keys have expired.  A
\* ttl of 4 is the shortest that outlasts a month and the lag; with 2 the ranking can
\* expire while its month lasts, and begin anew; with 0 nothing is kept.
CONSTANTS
  Recorder = {r1, r2}
  Key = {k1, k2}
  TTLs = {0, 2, 4}
  MonthLength = 2
  Lag = 2
  MaxResend = 1
  Horizon = 5
SPECIFICATION Spec
SYMMETRY Interchangeable
INVARIANTS
  RankCoversLog
  CleanupRemovesOld
