---------------------------- MODULE MCRateLimit ----------------------------
(***************************************************************************)
(* RateLimit for TLC.  Calls of one kind are interchangeable.              *)
(***************************************************************************)
EXTENDS RateLimit, TLC

CONSTANTS r1, r2, r3, p1

MCRequest == {r1, r2, r3, p1}
MCMonitor == {p1}
Interchangeable == Permutations({r1, r2})
MCAhead == [r \in MCRequest |-> IF r \in {r1, r2} THEN 0 ELSE 1]
MCLevel == [r \in MCRequest |-> 0]
===========================================================================
