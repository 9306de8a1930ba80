-------------------------- MODULE MCTransactions --------------------------
(***************************************************************************)
(* Transactions for TLC: a request, whose context ends, and a background   *)
(* task, whose context does not.                                           *)
(***************************************************************************)
EXTENDS Transactions

CONSTANTS request, job

MCGoroutine == {request, job}
MCRequest == {request}
MCJob == {job}
===========================================================================
