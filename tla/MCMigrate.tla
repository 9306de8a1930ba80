----------------------------- MODULE MCMigrate -----------------------------
(***************************************************************************)
(* Migrate for TLC: two instances of one release and one of the next.      *)
(***************************************************************************)
EXTENDS Migrate

CONSTANTS a, b, c

MCRunner == {a, b, c}
MCRelease == [r \in MCRunner |-> IF r = c THEN {1, 2, 3} ELSE {1, 3}]
MCRepeatable == {1, 3}
===========================================================================
