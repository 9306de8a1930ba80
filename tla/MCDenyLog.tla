----------------------------- MODULE MCDenyLog -----------------------------
(***************************************************************************)
(* DenyLog for TLC.  Recorders and keys are interchangeable.               *)
(***************************************************************************)
EXTENDS DenyLog, TLC

Interchangeable == Permutations(Recorder) \union Permutations(Key)
===========================================================================
