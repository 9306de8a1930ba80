---------------------------- MODULE LockService ----------------------------
(***************************************************************************)
(* What rediscli/lock.go promises, without commands, replies or TTLs: the  *)
(* keys a client needs become its own together and are freed together,     *)
(* and a client is inside only while all of them are its own.              *)
(***************************************************************************)
CONSTANTS
  Client, NoClient,
  Key,
  Needs              \* the set of keys each client needs

VARIABLES
  owner,             \* the client each key belongs to, or NoClient
  inside             \* the clients that may rely on their lock

vars == <<owner, inside>>

Init ==
  /\ owner = [k \in Key |-> NoClient]
  /\ inside = {}

\* Nobody has any of the keys.
Grant(l) ==
  /\ \A k \in Needs[l] : owner[k] = NoClient
  /\ owner' = [k \in Key |-> IF k \in Needs[l] THEN l ELSE owner[k]]
  /\ UNCHANGED inside

Enter(l) ==
  /\ \A k \in Needs[l] : owner[k] = l
  /\ inside' = inside \union {l}
  /\ UNCHANGED owner

\* Clients leave, on their own or because their time is up, and the keys of clients
\* that are outside are freed, at once or later.
Leave(gone) ==
  /\ inside' \subseteq inside
  /\ gone \intersect inside' = {}
  /\ owner' = [k \in Key |-> IF owner[k] \in gone THEN NoClient ELSE owner[k]]

Next ==
  \/ \E l \in Client : Grant(l) \/ Enter(l)
  \/ \E gone \in SUBSET Client : Leave(gone)

Spec == Init /\ [][Next]_vars
===========================================================================
