-------------------------- MODULE SessionRegistry --------------------------
(***************************************************************************)
(* What package auth promises of its sessions, without keys, scripts or    *)
(* TTLs: a user has at most one session, a session is named by an id no    *)
(* other user ever had, and it ends by logout, by the user's next session  *)
(* or by lapse.  A user whose session is there but whose access token      *)
(* lapsed is off line, and nothing but a new session brings him back.      *)
(***************************************************************************)
CONSTANTS User, NoUser, Id, NoId

VARIABLES
  current,           \* the id of each user's session, or NoId
  online,            \* the users whose access token is accepted
  holder             \* the user each id was issued to, or NoUser

vars == <<current, online, holder>>

Init ==
  /\ current = [u \in User |-> NoId]
  /\ online = {}
  /\ holder = [g \in Id |-> NoUser]

\* By logging in, or by exchanging the current session: the new one displaces it.
Begin(u, g) ==
  /\ holder[g] \in {NoUser, u}
  /\ current' = [current EXCEPT ![u] = g]
  /\ online' = online \union {u}
  /\ holder' = [holder EXCEPT ![g] = u]

Logout(u) ==
  /\ current' = [current EXCEPT ![u] = NoId]
  /\ online' = online \ {u}
  /\ UNCHANGED holder

\* Time ends the sessions of some users and the access tokens of others.
Lapse(ended, away) ==
  /\ current' = [u \in User |-> IF u \in ended THEN NoId ELSE current[u]]
  /\ online' = online \ (ended \union away)
  /\ UNCHANGED holder

Next ==
  \/ \E u \in User, g \in Id : Begin(u, g)
  \/ \E u \in User : Logout(u)
  \/ \E ended, away \in SUBSET User : Lapse(ended, away)

Spec == Init /\ [][Next]_vars
===========================================================================
