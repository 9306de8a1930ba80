--------------------------- MODULE MCTokenOnline ---------------------------
(***************************************************************************)
(* TokenOnline for TLC.  Users and draws are interchangeable.              *)
(***************************************************************************)
EXTENDS TokenOnline, TLC

Interchangeable == Permutations(User) \union Permutations(Id)
===========================================================================
