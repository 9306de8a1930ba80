---------------------------- MODULE TokenStore ----------------------------
(***************************************************************************)
(* The Redis token store of package auth: the four Lua scripts under       *)
(* auth/lua and the four key families they keep for one project and scene. *)
(*                                                                         *)
(*   user:<user>            string, the id of the user's session           *)
(*   token_session:<sid>    hash, the user and the pair of the session     *)
(*   access_token:<at>      string, the id of the session                  *)
(*   refresh_token:<rt>     hash, the user and the access token            *)
(*                                                                         *)
(* A script is one atomic step of Redis, and Redis freezes its clock while *)
(* a script runs: keys given the same TTL by one script expire together.   *)
(* An entry carries its remaining TTL; Tick lets one unit of time pass and *)
(* an entry whose TTL is used up is the absent entry.                      *)
(*                                                                         *)
(* The session id, the access token and the refresh token one call draws   *)
(* are three strings of three key families.  They are named by one member  *)
(* g of Id, the name of the draw; a draw whose string collides with a live *)
(* key of its family has that key's name instead (Drawn).                  *)
(*                                                                         *)
(* A definition named Slip... is a bug a later change could make in the    *)
(* definition after it; the project's mutation runs put it in its place.   *)
(***************************************************************************)
EXTENDS Naturals

CONSTANTS
  User, NoUser,      \* the users, and the absence of one
  Id, NoId,          \* the draws of fresh ids, and the absence of one
  AccessExpire,      \* Config.AccessExpire, in ticks
  RefreshExpire      \* Config.RefreshExpire, in ticks

ASSUME UserAssumption == NoUser \notin User
ASSUME IdAssumption == NoId \notin Id
ASSUME ExpireAssumption ==
  /\ AccessExpire \in Nat \ {0}
  /\ RefreshExpire \in Nat \ {0}

VARIABLES
  userKey,           \* user:<u>
  sessionKey,        \* token_session:<s>
  accessKey,         \* access_token:<a>
  refreshKey,        \* refresh_token:<r>
  owner              \* history: the first user an id was written for

storeVars == <<userKey, sessionKey, accessKey, refreshKey, owner>>

\* The absent entries.
NoUserKey == [ttl |-> 0, sid |-> NoId]
NoSession == [ttl |-> 0, user |-> NoUser, at |-> NoId, rt |-> NoId, seen |-> FALSE]
NoAccess  == [ttl |-> 0, sid |-> NoId]
NoRefresh == [ttl |-> 0, user |-> NoUser, at |-> NoId]

\* The entries a script writes.
NewUserKey(s)       == [ttl |-> RefreshExpire, sid |-> s]
NewSession(u, a, r) == [ttl |-> RefreshExpire, user |-> u, at |-> a, rt |-> r, seen |-> FALSE]
NewAccess(s)        == [ttl |-> AccessExpire, sid |-> s]
NewRefresh(u, a)    == [ttl |-> RefreshExpire, user |-> u, at |-> a]

\* EXISTS, and the reply of GET or HGETALL being there.
Live(entry) == entry.ttl > 0

StoreInit ==
  /\ userKey = [u \in User |-> NoUserKey]
  /\ sessionKey = [s \in Id |-> NoSession]
  /\ accessKey = [a \in Id |-> NoAccess]
  /\ refreshKey = [r \in Id |-> NoRefresh]
  /\ owner = [g \in Id |-> NoUser]

---------------------------------------------------------------------------
(* What the scripts share.                                                 *)

SlipSessionChecked(s, a, r) == Live(sessionKey[s])
SlipTokensChecked(s, a, r) == Live(accessKey[a]) \/ Live(refreshKey[r])

\* The EXISTS checks that open token_create and token_refresh: replies -1 to -3.
Conflict(s, a, r) ==
  \/ Live(sessionKey[s])
  \/ Live(accessKey[a])
  \/ Live(refreshKey[r])

\* The session the user key names, and the pair that session's hash holds.
StoredSession(u) == IF Live(userKey[u]) THEN {userKey[u].sid} ELSE {}
StoredHash(u) == {sessionKey[s] : s \in {x \in StoredSession(u) : Live(sessionKey[x])}}
StoredAccess(u) == {h.at : h \in StoredHash(u)}
SlipNoStoredRefresh(u) == {}
StoredRefresh(u) == {h.rt : h \in StoredHash(u)}

\* DEL of the keys of one family.
Without(keys, gone, absent) ==
  [x \in DOMAIN keys |-> IF x \in gone THEN absent ELSE keys[x]]

\* Drop the user's stored session, then write the new one.
Issue(u, s, a, r) ==
  /\ accessKey' =
       [Without(accessKey, StoredAccess(u), NoAccess) EXCEPT ![a] = NewAccess(s)]
  /\ refreshKey' =
       [Without(refreshKey, StoredRefresh(u), NoRefresh) EXCEPT ![r] = NewRefresh(u, a)]
  /\ sessionKey' =
       [Without(sessionKey, StoredSession(u), NoSession) EXCEPT ![s] = NewSession(u, a, r)]
  /\ userKey' = [userKey EXCEPT ![u] = NewUserKey(s)]
  /\ owner' =
       [g \in Id |-> IF g \in {s, a, r} /\ owner[g] = NoUser THEN u ELSE owner[g]]

\* The refresh hash is there and names the access token presented with it;
\* otherwise the reply is -4 or -5.
Redeemable(at, rt) ==
  /\ Live(refreshKey[rt])
  /\ refreshKey[rt].at = at

\* The access token is there and so is its session; otherwise -2 or -1.
Validates(a) ==
  /\ Live(accessKey[a])
  /\ Live(sessionKey[accessKey[a].sid])

\* The user_id of the session hash that token_validate replies with.
ValidUser(a) == sessionKey[accessKey[a].sid].user

\* One draw: three strings no key has had, but for a collision with a live key.
\* An id carries the time it was drawn, so a string does not come back once its
\* keys are gone; only a retransmitted command names an earlier draw, its own.
Drawn(g, s, a, r) ==
  /\ s = g \/ Live(sessionKey[s])
  /\ a = g \/ Live(accessKey[a])
  /\ r = g \/ Live(refreshKey[r])

---------------------------------------------------------------------------
(* The scripts, and the clock.                                             *)

\* token_create.lua replying 1; a conflicting call changes nothing.
Create(u, s, a, r) ==
  /\ ~Conflict(s, a, r)
  /\ Issue(u, s, a, r)

\* token_refresh.lua replying 1; a conflict, -4 or -5 changes nothing.
Refresh(at, rt, s, a, r) ==
  /\ ~Conflict(s, a, r)
  /\ Redeemable(at, rt)
  /\ Issue(refreshKey[rt].user, s, a, r)

SlipRenewSession(a) ==
  /\ Validates(a)
  /\ accessKey' = [accessKey EXCEPT ![a].ttl = AccessExpire]
  /\ sessionKey' = [sessionKey EXCEPT ![accessKey[a].sid].ttl = RefreshExpire]
  /\ UNCHANGED <<userKey, refreshKey, owner>>

\* token_validate.lua: the access key alone is given a new TTL.
Validate(a) ==
  /\ Validates(a)
  /\ accessKey' = [accessKey EXCEPT ![a].ttl = AccessExpire]
  /\ sessionKey' = [sessionKey EXCEPT ![accessKey[a].sid].seen = TRUE]
  /\ UNCHANGED <<userKey, refreshKey, owner>>

SlipKeepTokens(u) ==
  /\ sessionKey' = Without(sessionKey, StoredSession(u), NoSession)
  /\ userKey' = [userKey EXCEPT ![u] = NoUserKey]
  /\ UNCHANGED <<accessKey, refreshKey, owner>>

\* token_delete.lua: it replies 1 whether or not the user has a session.
Delete(u) ==
  /\ accessKey' = Without(accessKey, StoredAccess(u), NoAccess)
  /\ refreshKey' = Without(refreshKey, StoredRefresh(u), NoRefresh)
  /\ sessionKey' = Without(sessionKey, StoredSession(u), NoSession)
  /\ userKey' = [userKey EXCEPT ![u] = NoUserKey]
  /\ UNCHANGED owner

\* One unit of time for every key of a family.
Aged(keys, absent) ==
  [x \in DOMAIN keys |->
     IF keys[x].ttl > 1 THEN [keys[x] EXCEPT !.ttl = @ - 1] ELSE absent]

Tick ==
  /\ userKey' = Aged(userKey, NoUserKey)
  /\ sessionKey' = Aged(sessionKey, NoSession)
  /\ accessKey' = Aged(accessKey, NoAccess)
  /\ refreshKey' = Aged(refreshKey, NoRefresh)
  /\ UNCHANGED owner

\* A draw is new, or it is the one a retransmitted command of this user carries.
DrawnFor(u, g) == owner[g] \in {NoUser, u}

StoreNext ==
  \/ \E g, s, a, r \in Id :
        /\ Drawn(g, s, a, r)
        /\ \/ \E u \in User : DrawnFor(u, g) /\ Create(u, s, a, r)
           \/ \E at, rt \in Id :
                DrawnFor(refreshKey[rt].user, g) /\ Refresh(at, rt, s, a, r)
  \/ \E a \in Id : Validate(a)
  \/ \E u \in User : Delete(u)
  \/ Tick

StoreSpec == StoreInit /\ [][StoreNext]_storeVars

---------------------------------------------------------------------------
(* Invariants.                                                             *)

UserEntry    == [ttl : 0..RefreshExpire, sid : Id \union {NoId}]
SessionEntry == [ttl : 0..RefreshExpire, user : User \union {NoUser},
                 at : Id \union {NoId}, rt : Id \union {NoId}, seen : BOOLEAN]
AccessEntry  == [ttl : 0..AccessExpire, sid : Id \union {NoId}]
RefreshEntry == [ttl : 0..RefreshExpire, user : User \union {NoUser},
                 at : Id \union {NoId}]

\* Every entry has its shape and a TTL no longer than the one it was given.
TypeOK ==
  /\ userKey \in [User -> UserEntry]
  /\ sessionKey \in [Id -> SessionEntry]
  /\ accessKey \in [Id -> AccessEntry]
  /\ refreshKey \in [Id -> RefreshEntry]
  /\ owner \in [Id -> User \union {NoUser}]

\* The user key names a live session of that user, and they expire together.
UserKeyNamesSession ==
  \A u \in User : Live(userKey[u]) =>
    /\ userKey[u].sid \in Id
    /\ sessionKey[userKey[u].sid].ttl = userKey[u].ttl
    /\ sessionKey[userKey[u].sid].user = u

\* A live session is the one its user's key names, it holds the pair of its own
\* draw, and its refresh token lives exactly as long as it does.
SessionIsCurrent ==
  \A s \in Id : Live(sessionKey[s]) =>
    /\ sessionKey[s].user \in User
    /\ userKey[sessionKey[s].user] = [ttl |-> sessionKey[s].ttl, sid |-> s]
    /\ sessionKey[s].at = s
    /\ sessionKey[s].rt = s
    /\ refreshKey[s].ttl = sessionKey[s].ttl
    /\ owner[s] = sessionKey[s].user

\* A live refresh token belongs to the live session of its draw.
RefreshHasSession ==
  \A r \in Id : Live(refreshKey[r]) =>
    /\ Live(sessionKey[r])
    /\ refreshKey[r].user = sessionKey[r].user
    /\ refreshKey[r].at = r

\* An access token names the session of its draw.  The session need not be there:
\* token_validate renews the access key and not the session, which may expire first.
AccessNamesSession ==
  \A a \in Id : Live(accessKey[a]) => accessKey[a].sid = a /\ owner[a] # NoUser

\* The inductive invariant of the store.
StoreInv ==
  /\ TypeOK
  /\ UserKeyNamesSession
  /\ SessionIsCurrent
  /\ RefreshHasSession
  /\ AccessNamesSession

---------------------------------------------------------------------------
(* What the store promises.                                                *)

\* A user never has two access tokens that validate, nor two refresh tokens that
\* can be redeemed, nor one of each from different pairs: token_create and
\* token_refresh drop what the user key leads to and nothing else, so a token the
\* user key no longer leads to must be dead already.
OneSessionPerUser ==
  /\ \A a, b \in Id :
       Validates(a) /\ Validates(b) /\ ValidUser(a) = ValidUser(b) => a = b
  /\ \A at, bt, r, q \in Id :
       Redeemable(at, r) /\ Redeemable(bt, q) /\ refreshKey[r].user = refreshKey[q].user
         => r = q
  /\ \A a, at, r \in Id :
       Validates(a) /\ Redeemable(at, r) /\ ValidUser(a) = refreshKey[r].user => a = at

\* A token speaks for the user it was first issued to, through collisions of
\* draws, expiries and access keys that outlive their session.
TokenSpeaksForOwner ==
  /\ \A a \in Id : Validates(a) => ValidUser(a) = owner[a]
  /\ \A at, r \in Id : Redeemable(at, r) => refreshKey[r].user = owner[r]

\* After token_delete no token of the user validates or can be redeemed, although
\* the script finds the tokens only by way of the user key and the session hash.
LogoutRevokesAll ==
  [][\A u \in User : Delete(u) =>
       /\ \A a \in Id : Validates(a)' => ValidUser(a)' # u
       /\ \A at, r \in Id : Redeemable(at, r)' => refreshKey'[r].user # u]_storeVars

\* Only the refresh token of the user's current session is ever redeemed:
\* token_refresh does not compare it with the session, the keys have to agree.
OnlyCurrentRefreshes ==
  [][\A g, at, rt \in Id : Refresh(at, rt, g, g, g) =>
       userKey[refreshKey[rt].user].sid = rt]_storeVars

---------------------------------------------------------------------------
(* The store as an implementation of SessionRegistry.                      *)

\* What GetUserOnlineStatus would find if its three reads were one.
Online(u) == \E h \in StoredHash(u) : Live(accessKey[h.at])

Registry ==
  INSTANCE SessionRegistry WITH
    current <- [u \in User |-> userKey[u].sid],
    online <- {u \in User : Online(u)},
    holder <- owner

\* The store implements the registry: a script moves the session of one user and
\* of no other, an id serves one user for ever, and token_validate and the passing
\* of time never put a user on line.
RegistrySpec == Registry!Spec
===========================================================================
