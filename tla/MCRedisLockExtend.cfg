\* The comment on Extend, for extensions shorter than, equal to and below the unit of
\* the TTL.
CONSTANTS
  single = single
  batch = batch
  other = other
  k1 = k1
  k2 = k2
  NoClient = NoClient
  Client <- MCClient
  Batch <- MCBatch
  Key <- MCKey
  KeysOf <- MCKeysOf
  LockTTL = 2
  Timeout = 2
  ExtendTTL = {0, 1, 2}
  MaxResend = 1
SPECIFICATION Spec
PROPERTY ExtendNeverShortens
