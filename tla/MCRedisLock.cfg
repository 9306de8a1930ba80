\* A DistributedLock and two BatchLocks with crossed keys: a first holder, one that takes
\* the key when it expires, and one that waits; a late Unlock or Extend of the first, a
\* lost reply, crashes.  A TTL of two leaves room for a delay within the lease and one
\* beyond it; extensions are of the full TTL, and of less than a second.
CONSTANTS
  single = single
  batch = batch
  other = other
  k1 = k1
  k2 = k2
  NoClient = NoClient
  Client <- MCClient
  Batch <- MCBatch
  Key <- MCKey
  KeysOf <- MCKeysOf
  LockTTL = 2
  Timeout = 2
  ExtendTTL = {0, 2}
  MaxResend = 1
SPECIFICATION BoundedSpec
INVARIANTS
  LockInv
  MutualExclusion
PROPERTIES
  LockServiceSpec
  OnlyOwnerTouches
  LockReturns
  CrashedHolderYields
