\* Every call must return: ids enough for each attempt of each call, and no symmetry.
\* One retransmission and three attempts are enough for a command that meets its own
\* keys, and for a draw that is not the first.
CONSTANTS
  User = {u1}
  NoUser = NoUser
  Id = {g1, g2, g3, g4}
  NoId = NoId
  AccessExpire = 1
  RefreshExpire = 1
  Caller = {c1, c2}
  MaxRetries = 3
  MaxResend = 1
  MaxLate = 0
  IdReserve = 2
SPECIFICATION FairServiceSpec
PROPERTIES
  EveryCallReturns
