\* Two users and two callers, so that every pair of calls of one user or of two
\* overlaps; three draws are a login and two refreshes of it at once, or two logins
\* and a refresh.  One reply of each call may be lost.
CONSTANTS
  User = {u1, u2}
  NoUser = NoUser
  Id = {g1, g2, g3}
  NoId = NoId
  AccessExpire = 1
  RefreshExpire = 2
  Caller = {c1, c2}
  MaxRetries = 2
  MaxResend = 1
  MaxLate = 1
  IdReserve = 1
SPECIFICATION ServiceSpec
CONSTRAINT AloneWhileLate
SYMMETRY Interchangeable
INVARIANTS
  NoForkedSession
  InvalidRefreshIsDead
  LogoutIsComplete
PROPERTIES
  RetiredStaysRetired
