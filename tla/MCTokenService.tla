-------------------------- MODULE MCTokenService --------------------------
(***************************************************************************)
(* TokenService for TLC.  Users and callers are interchangeable; ids are   *)
(* drawn in a fixed order.                                                 *)
(***************************************************************************)
EXTENDS TokenService, TLC

Interchangeable == Permutations(User) \union Permutations(Caller)

\* Bound: a command is late only while the first user is alone, no more than one call
\* is under way, and no reply is lost.
InPlay == ({owner[g] : g \in Id} \union {call[c].user : c \in Caller}) \ {NoUser}
AloneWhileLate ==
  late # {} => /\ Cardinality(InPlay) <= 1
               /\ Cardinality({c \in Caller : Pending(c)}) <= 1
               /\ \A c \in Caller : call[c].resent = 0
===========================================================================
