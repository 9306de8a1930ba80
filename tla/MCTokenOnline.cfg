\* Two users and four draws: a user with two sessions in a row while another one
\* has a session, and a collision with either.  The access token expires before
\* the session unless it is validated, then after it.
CONSTANTS
  User = {u1, u2}
  NoUser = NoUser
  Id = {g1, g2, g3, g4}
  NoId = NoId
  AccessExpire = 2
  RefreshExpire = 3
SPECIFICATION OnlineSpec
SYMMETRY Interchangeable
INVARIANTS
  StoreInv
  OneSessionPerUser
  TokenSpeaksForOwner
  OnlineReportIsTrue
  OfflineReportIsJustified
PROPERTIES
  LogoutRevokesAll
  OnlyCurrentRefreshes
  RegistrySpec
