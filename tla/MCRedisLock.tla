---------------------------- MODULE MCRedisLock ----------------------------
(***************************************************************************)
(* RedisLock for TLC: a DistributedLock, and two BatchLocks that name the  *)
(* same two keys in opposite order, so that the script of either may find  *)
(* its first key free and the second one taken.                            *)
(***************************************************************************)
EXTENDS RedisLock

CONSTANTS single, batch, other, k1, k2

MCClient == {single, batch, other}
MCBatch == {batch, other}
MCKey == {k1, k2}
MCKeysOf ==
  [l \in MCClient |->
     CASE l = single -> <<k1>> [] l = batch -> <<k2, k1>> [] l = other -> <<k1, k2>>]

\* Bound: replies are lost to the DistributedLock only, and it or the first batch may
\* crash; the second batch is the one that meets what they left.
FewFaults ==
  /\ \A l \in Batch : client[l].resent = 0
  /\ client[other].st # "crashed"

BoundedSpec ==
  /\ Init /\ [][Next /\ FewFaults']_vars
  /\ WF_vars(Tick) /\ \A l \in Client : WF_vars(Proceed(l))
===========================================================================
