-------------------------- MODULE TokenStoreProof --------------------------
(***************************************************************************)
(* Proofs about TokenStore, and about TokenOnline on top of it, for any    *)
(* number of users and draws and any positive TTLs.                        *)
(***************************************************************************)
EXTENDS TokenOnline, TLAPS

(***************************************************************************)
(* The scripts reach the tokens of a user through his user key and the     *)
(* hash of his session.  Under the invariant the three ways meet: what     *)
(* they find is the session's own draw, and it is every session he has.    *)
(***************************************************************************)
LEMMA StoredIsTheSession ==
  ASSUME StoreInv, NEW u \in User
  PROVE  /\ StoredAccess(u) = StoredSession(u)
         /\ StoredRefresh(u) = StoredSession(u)
         /\ StoredSession(u) \subseteq Id
         /\ \A s \in Id :
              s \in StoredSession(u) <=> Live(sessionKey[s]) /\ sessionKey[s].user = u
<1>1. CASE Live(userKey[u])
  <2> DEFINE k == userKey[u].sid
  <2>1. k \in Id /\ sessionKey[k].ttl = userKey[u].ttl /\ sessionKey[k].user = u
    BY <1>1 DEF StoreInv, UserKeyNamesSession
  <2>2. Live(sessionKey[k])
    BY <1>1, <2>1 DEF Live
  <2>3. sessionKey[k].at = k /\ sessionKey[k].rt = k
    BY <2>1, <2>2 DEF StoreInv, SessionIsCurrent
  <2>4. StoredSession(u) = {k}
    BY <1>1 DEF StoredSession
  <2>5. StoredHash(u) = {sessionKey[k]}
    BY <2>2, <2>4 DEF StoredHash
  <2>6. \A s \in Id : Live(sessionKey[s]) /\ sessionKey[s].user = u => s = k
    <3> SUFFICES ASSUME NEW s \in Id, Live(sessionKey[s]), sessionKey[s].user = u
                 PROVE  s = k
      OBVIOUS
    <3>1. userKey[sessionKey[s].user] = [ttl |-> sessionKey[s].ttl, sid |-> s]
      BY DEF StoreInv, SessionIsCurrent, Live
    <3> QED
      BY <3>1
  <2> QED
    BY <2>1, <2>2, <2>3, <2>4, <2>5, <2>6 DEF StoredAccess, StoredRefresh
<1>2. CASE ~Live(userKey[u])
  <2>1. StoredSession(u) = {}
    BY <1>2 DEF StoredSession
  <2>2. StoredHash(u) = {}
    BY <2>1 DEF StoredHash
  <2>3. \A s \in Id : Live(sessionKey[s]) => sessionKey[s].user # u
    <3> SUFFICES ASSUME NEW s \in Id, Live(sessionKey[s]), sessionKey[s].user = u
                 PROVE  FALSE
      OBVIOUS
    <3>1. userKey[sessionKey[s].user] = [ttl |-> sessionKey[s].ttl, sid |-> s]
      BY DEF StoreInv, SessionIsCurrent, Live
    <3> QED
      BY <1>2, <3>1 DEF Live
  <2> QED
    BY <2>1, <2>2, <2>3 DEF StoredAccess, StoredRefresh
<1> QED
  BY <1>1, <1>2

(***************************************************************************)
(* A draw that passes the conflict checks is three new strings.            *)
(***************************************************************************)
LEMMA NoConflictIsFresh ==
  ASSUME NEW g \in Id, NEW s \in Id, NEW a \in Id, NEW r \in Id,
         Drawn(g, s, a, r), ~Conflict(s, a, r)
  PROVE  s = g /\ a = g /\ r = g
BY DEF Drawn, Conflict

(***************************************************************************)
(* The entries after Issue, one key at a time.                             *)
(***************************************************************************)
LEMMA IssueEffect ==
  ASSUME StoreInv, NEW u \in User, NEW g \in Id, Issue(u, g, g, g)
  PROVE  /\ userKey' = [userKey EXCEPT ![u] = NewUserKey(g)]
         /\ sessionKey' = [x \in Id |->
              IF x = g THEN NewSession(u, g, g)
              ELSE IF x \in StoredSession(u) THEN NoSession ELSE sessionKey[x]]
         /\ accessKey' = [x \in Id |->
              IF x = g THEN NewAccess(g)
              ELSE IF x \in StoredSession(u) THEN NoAccess ELSE accessKey[x]]
         /\ refreshKey' = [x \in Id |->
              IF x = g THEN NewRefresh(u, g)
              ELSE IF x \in StoredSession(u) THEN NoRefresh ELSE refreshKey[x]]
         /\ owner' = [x \in Id |-> IF x = g /\ owner[x] = NoUser THEN u ELSE owner[x]]
<1>1. StoredAccess(u) = StoredSession(u) /\ StoredRefresh(u) = StoredSession(u)
  BY StoredIsTheSession
<1>2. DOMAIN sessionKey = Id /\ DOMAIN accessKey = Id /\ DOMAIN refreshKey = Id
  BY DEF StoreInv, TypeOK
<1> QED
  BY <1>1, <1>2 DEF Issue, Without

\* A new session leaves every entry well formed.
LEMMA IssueTypeOK ==
  ASSUME StoreInv, NEW u \in User, NEW g \in Id, Issue(u, g, g, g)
  PROVE  TypeOK'
<1>1. NoSession \in SessionEntry /\ NoAccess \in AccessEntry /\ NoRefresh \in RefreshEntry
  BY ExpireAssumption
     DEF NoSession, NoAccess, NoRefresh, SessionEntry, AccessEntry, RefreshEntry
<1>2. /\ NewUserKey(g) \in UserEntry
      /\ NewSession(u, g, g) \in SessionEntry
      /\ NewAccess(g) \in AccessEntry
      /\ NewRefresh(u, g) \in RefreshEntry
  BY ExpireAssumption
     DEF UserEntry, SessionEntry, AccessEntry, RefreshEntry,
         NewUserKey, NewSession, NewAccess, NewRefresh
<1>3. TypeOK
  BY DEF StoreInv
<1>4. userKey' \in [User -> UserEntry]
  BY <1>2, <1>3, IssueEffect DEF TypeOK
<1>5. sessionKey' \in [Id -> SessionEntry]
  <2>1. \A x \in Id : sessionKey[x] \in SessionEntry
    BY <1>3 DEF TypeOK
  <2> QED
    BY <1>1, <1>2, <2>1, IssueEffect
<1>6. accessKey' \in [Id -> AccessEntry]
  <2>1. \A x \in Id : accessKey[x] \in AccessEntry
    BY <1>3 DEF TypeOK
  <2> QED
    BY <1>1, <1>2, <2>1, IssueEffect
<1>7. refreshKey' \in [Id -> RefreshEntry]
  <2>1. \A x \in Id : refreshKey[x] \in RefreshEntry
    BY <1>3 DEF TypeOK
  <2> QED
    BY <1>1, <1>2, <2>1, IssueEffect
<1>8. owner' \in [Id -> User \union {NoUser}]
  BY <1>3, IssueEffect DEF TypeOK
<1> QED
  BY <1>4, <1>5, <1>6, <1>7, <1>8 DEF TypeOK

\* A new session leaves the sessions of the other users as they are: their ids are
\* neither the new one, which had no key, nor one the script dropped.
LEMMA IssueInv ==
  ASSUME StoreInv, NEW u \in User, NEW g \in Id,
         DrawnFor(u, g), ~Conflict(g, g, g), Issue(u, g, g, g)
  PROVE  StoreInv'
<1> DEFINE stored == StoredSession(u)
<1>1. ~Live(sessionKey[g]) /\ ~Live(refreshKey[g]) /\ ~Live(accessKey[g])
  BY DEF Conflict
<1>2. \A s \in Id : s \in stored <=> Live(sessionKey[s]) /\ sessionKey[s].user = u
  BY StoredIsTheSession
<1>3. /\ userKey'[u] = NewUserKey(g)
      /\ \A v \in User \ {u} : userKey'[v] = userKey[v]
  BY IssueEffect DEF StoreInv, TypeOK
<1>4. /\ sessionKey'[g] = NewSession(u, g, g)
      /\ accessKey'[g] = NewAccess(g)
      /\ refreshKey'[g] = NewRefresh(u, g)
      /\ owner'[g] = u
  BY IssueEffect DEF DrawnFor
<1>5. \A x \in Id \ {g} : x \in stored =>
        ~Live(sessionKey'[x]) /\ ~Live(accessKey'[x]) /\ ~Live(refreshKey'[x])
  BY IssueEffect DEF Live, NoSession, NoAccess, NoRefresh
<1>6. \A x \in Id \ {g} : x \notin stored =>
        /\ sessionKey'[x] = sessionKey[x]
        /\ accessKey'[x] = accessKey[x]
        /\ refreshKey'[x] = refreshKey[x]
  BY IssueEffect
<1>7. \A x \in Id \ {g} : owner'[x] = owner[x]
  BY IssueEffect
<1>8. TypeOK'
  BY IssueTypeOK
<1>9. UserKeyNamesSession'
  <2> SUFFICES ASSUME NEW v \in User, Live(userKey'[v])
               PROVE  /\ userKey'[v].sid \in Id
                      /\ sessionKey'[userKey'[v].sid].ttl = userKey'[v].ttl
                      /\ sessionKey'[userKey'[v].sid].user = v
    BY DEF UserKeyNamesSession
  <2>1. CASE v = u
    BY <1>3, <1>4, <2>1 DEF NewUserKey, NewSession
  <2>2. CASE v # u
    <3> DEFINE k == userKey[v].sid
    <3>1. userKey'[v] = userKey[v]
      BY <1>3, <2>2
    <3>2. k \in Id /\ sessionKey[k].ttl = userKey[v].ttl /\ sessionKey[k].user = v
      BY <3>1 DEF StoreInv, UserKeyNamesSession
    <3>3. k # g /\ k \notin stored
      BY <1>1, <1>2, <2>2, <3>1, <3>2 DEF Live
    <3> QED
      BY <1>6, <3>1, <3>2, <3>3
  <2> QED
    BY <2>1, <2>2
<1>10. SessionIsCurrent'
  <2> SUFFICES ASSUME NEW s \in Id, Live(sessionKey'[s])
               PROVE  /\ sessionKey'[s].user \in User
                      /\ userKey'[sessionKey'[s].user] = [ttl |-> sessionKey'[s].ttl, sid |-> s]
                      /\ sessionKey'[s].at = s
                      /\ sessionKey'[s].rt = s
                      /\ refreshKey'[s].ttl = sessionKey'[s].ttl
                      /\ owner'[s] = sessionKey'[s].user
    BY DEF SessionIsCurrent
  <2>1. CASE s = g
    BY <1>3, <1>4, <2>1 DEF NewUserKey, NewSession, NewRefresh
  <2>2. CASE s # g
    <3>1. s \notin stored
      BY <1>5, <2>2
    <3>2. sessionKey'[s] = sessionKey[s] /\ refreshKey'[s] = refreshKey[s] /\ owner'[s] = owner[s]
      BY <1>6, <1>7, <2>2, <3>1
    <3>3. sessionKey[s].user # u
      BY <1>2, <3>1, <3>2
    <3>4. /\ sessionKey[s].user \in User
          /\ userKey[sessionKey[s].user] = [ttl |-> sessionKey[s].ttl, sid |-> s]
          /\ sessionKey[s].at = s
          /\ sessionKey[s].rt = s
          /\ refreshKey[s].ttl = sessionKey[s].ttl
          /\ owner[s] = sessionKey[s].user
      BY <3>2 DEF StoreInv, SessionIsCurrent
    <3> QED
      BY <1>3, <3>2, <3>3, <3>4
  <2> QED
    BY <2>1, <2>2
<1>11. RefreshHasSession'
  <2> SUFFICES ASSUME NEW r \in Id, Live(refreshKey'[r])
               PROVE  /\ Live(sessionKey'[r])
                      /\ refreshKey'[r].user = sessionKey'[r].user
                      /\ refreshKey'[r].at = r
    BY DEF RefreshHasSession
  <2>1. CASE r = g
    BY <1>4, <2>1, ExpireAssumption DEF NewSession, NewRefresh, Live
  <2>2. CASE r # g
    <3>1. sessionKey'[r] = sessionKey[r] /\ refreshKey'[r] = refreshKey[r]
      BY <1>5, <1>6, <2>2
    <3> QED
      BY <3>1 DEF StoreInv, RefreshHasSession
  <2> QED
    BY <2>1, <2>2
<1>12. AccessNamesSession'
  <2> SUFFICES ASSUME NEW a \in Id, Live(accessKey'[a])
               PROVE  accessKey'[a].sid = a /\ owner'[a] # NoUser
    BY DEF AccessNamesSession
  <2>1. CASE a = g
    BY <1>4, <2>1, UserAssumption DEF NewAccess
  <2>2. CASE a # g
    <3>1. accessKey'[a] = accessKey[a] /\ owner'[a] = owner[a]
      BY <1>5, <1>6, <1>7, <2>2
    <3> QED
      BY <3>1 DEF StoreInv, AccessNamesSession
  <2> QED
    BY <2>1, <2>2
<1> QED
  BY <1>8, <1>9, <1>10, <1>11, <1>12 DEF StoreInv

\* Logout takes the user's one session and its draw, and touches nothing else.
LEMMA DeleteInv ==
  ASSUME StoreInv, NEW u \in User, Delete(u)
  PROVE  StoreInv'
<1> DEFINE stored == StoredSession(u)
<1>1. /\ StoredAccess(u) = stored
      /\ StoredRefresh(u) = stored
      /\ \A s \in Id : s \in stored <=> Live(sessionKey[s]) /\ sessionKey[s].user = u
  BY StoredIsTheSession
<1>2. TypeOK
  BY DEF StoreInv
<1>3. /\ sessionKey' = [x \in Id |-> IF x \in stored THEN NoSession ELSE sessionKey[x]]
      /\ accessKey' = [x \in Id |-> IF x \in stored THEN NoAccess ELSE accessKey[x]]
      /\ refreshKey' = [x \in Id |-> IF x \in stored THEN NoRefresh ELSE refreshKey[x]]
      /\ userKey' = [userKey EXCEPT ![u] = NoUserKey]
      /\ owner' = owner
  BY <1>1, <1>2 DEF Delete, Without, TypeOK
<1>4. /\ NoSession \in SessionEntry
      /\ NoAccess \in AccessEntry
      /\ NoRefresh \in RefreshEntry
      /\ NoUserKey \in UserEntry
  BY ExpireAssumption
     DEF NoSession, NoAccess, NoRefresh, NoUserKey,
         SessionEntry, AccessEntry, RefreshEntry, UserEntry
<1>5. TypeOK'
  <2>1. \A x \in Id : /\ sessionKey[x] \in SessionEntry
                      /\ accessKey[x] \in AccessEntry
                      /\ refreshKey[x] \in RefreshEntry
    BY <1>2 DEF TypeOK
  <2> QED
    BY <1>2, <1>3, <1>4, <2>1 DEF TypeOK
<1>6. ~Live(NoUserKey) /\ ~Live(NoSession) /\ ~Live(NoAccess) /\ ~Live(NoRefresh)
  BY DEF Live, NoUserKey, NoSession, NoAccess, NoRefresh
<1>7. userKey'[u] = NoUserKey /\ \A v \in User \ {u} : userKey'[v] = userKey[v]
  BY <1>2, <1>3 DEF TypeOK
<1>8. UserKeyNamesSession'
  <2> SUFFICES ASSUME NEW v \in User, Live(userKey'[v])
               PROVE  /\ userKey'[v].sid \in Id
                      /\ sessionKey'[userKey'[v].sid].ttl = userKey'[v].ttl
                      /\ sessionKey'[userKey'[v].sid].user = v
    BY DEF UserKeyNamesSession
  <2> DEFINE k == userKey[v].sid
  <2>1. v # u /\ userKey'[v] = userKey[v]
    BY <1>6, <1>7
  <2>2. k \in Id /\ sessionKey[k].ttl = userKey[v].ttl /\ sessionKey[k].user = v
    BY <2>1 DEF StoreInv, UserKeyNamesSession
  <2>3. k \notin stored
    BY <1>1, <2>1, <2>2
  <2> QED
    BY <1>3, <2>1, <2>2, <2>3
<1>9. SessionIsCurrent'
  <2> SUFFICES ASSUME NEW s \in Id, Live(sessionKey'[s])
               PROVE  /\ sessionKey'[s].user \in User
                      /\ userKey'[sessionKey'[s].user] = [ttl |-> sessionKey'[s].ttl, sid |-> s]
                      /\ sessionKey'[s].at = s
                      /\ sessionKey'[s].rt = s
                      /\ refreshKey'[s].ttl = sessionKey'[s].ttl
                      /\ owner'[s] = sessionKey'[s].user
    BY DEF SessionIsCurrent
  <2>1. sessionKey'[s] = sessionKey[s] /\ refreshKey'[s] = refreshKey[s] /\ s \notin stored
    BY <1>3, <1>6
  <2>2. /\ sessionKey[s].user \in User
        /\ userKey[sessionKey[s].user] = [ttl |-> sessionKey[s].ttl, sid |-> s]
        /\ sessionKey[s].at = s
        /\ sessionKey[s].rt = s
        /\ refreshKey[s].ttl = sessionKey[s].ttl
        /\ owner[s] = sessionKey[s].user
    BY <2>1 DEF StoreInv, SessionIsCurrent
  <2>3. sessionKey[s].user # u
    BY <1>1, <2>1
  <2> QED
    BY <1>3, <1>7, <2>1, <2>2, <2>3
<1>10. RefreshHasSession'
  <2> SUFFICES ASSUME NEW r \in Id, Live(refreshKey'[r])
               PROVE  /\ Live(sessionKey'[r])
                      /\ refreshKey'[r].user = sessionKey'[r].user
                      /\ refreshKey'[r].at = r
    BY DEF RefreshHasSession
  <2>1. sessionKey'[r] = sessionKey[r] /\ refreshKey'[r] = refreshKey[r]
    BY <1>3, <1>6
  <2> QED
    BY <2>1 DEF StoreInv, RefreshHasSession
<1>11. AccessNamesSession'
  BY <1>3, <1>6 DEF StoreInv, AccessNamesSession
<1> QED
  BY <1>5, <1>8, <1>9, <1>10, <1>11 DEF StoreInv

\* token_validate renews the access key and nothing the others depend on.
LEMMA ValidateInv ==
  ASSUME StoreInv, NEW a \in Id, Validate(a)
  PROVE  StoreInv'
<1>1. Live(accessKey[a]) /\ accessKey[a].sid = a /\ TypeOK
  BY DEF Validate, Validates, StoreInv, AccessNamesSession
<1>2. /\ accessKey' = [accessKey EXCEPT ![a].ttl = AccessExpire]
      /\ sessionKey' = [sessionKey EXCEPT ![a].seen = TRUE]
      /\ UNCHANGED <<userKey, refreshKey, owner>>
  BY <1>1 DEF Validate
<1>3. \A x \in Id :
        /\ sessionKey'[x].ttl = sessionKey[x].ttl
        /\ sessionKey'[x].user = sessionKey[x].user
        /\ sessionKey'[x].at = sessionKey[x].at
        /\ sessionKey'[x].rt = sessionKey[x].rt
        /\ accessKey'[x].sid = accessKey[x].sid
        /\ x # a => accessKey'[x] = accessKey[x]
  BY <1>1, <1>2 DEF TypeOK, SessionEntry, AccessEntry
<1>4. TypeOK'
  <2>1. accessKey' \in [Id -> AccessEntry]
    <3>1. AccessExpire \in 0..AccessExpire
      BY ExpireAssumption
    <3> QED
      BY <1>1, <1>2, <3>1 DEF TypeOK, AccessEntry
  <2>2. sessionKey' \in [Id -> SessionEntry]
    BY <1>1, <1>2 DEF TypeOK, SessionEntry
  <2> QED
    BY <1>1, <1>2, <2>1, <2>2 DEF TypeOK
<1>5. UserKeyNamesSession'
  BY <1>2, <1>3 DEF StoreInv, UserKeyNamesSession, Live
<1>6. SessionIsCurrent'
  BY <1>2, <1>3 DEF StoreInv, SessionIsCurrent, Live
<1>7. RefreshHasSession'
  BY <1>2, <1>3 DEF StoreInv, RefreshHasSession, Live
<1>8. AccessNamesSession'
  BY <1>1, <1>2, <1>3 DEF StoreInv, AccessNamesSession
<1> QED
  BY <1>4, <1>5, <1>6, <1>7, <1>8 DEF StoreInv

\* A unit of time ages a session, the user key that names it and its refresh token
\* alike, so the three of them expire in one step.
LEMMA TickInv ==
  ASSUME StoreInv, Tick
  PROVE  StoreInv'
<1>1. TypeOK
  BY DEF StoreInv
<1>2. \A u \in User :
        /\ userKey[u].ttl > 1 =>
             /\ userKey'[u].ttl = userKey[u].ttl - 1
             /\ userKey'[u].sid = userKey[u].sid
        /\ ~(userKey[u].ttl > 1) => userKey'[u] = NoUserKey
        /\ userKey[u].ttl \in Nat
  BY <1>1, ExpireAssumption DEF Tick, Aged, TypeOK, UserEntry
<1>2a. \A u \in User :
        userKey[u].ttl > 1 =>
          userKey'[u] = [ttl |-> userKey[u].ttl - 1, sid |-> userKey[u].sid]
  BY <1>1 DEF Tick, Aged, TypeOK, UserEntry
<1>3. \A s \in Id :
        /\ sessionKey[s].ttl > 1 =>
             /\ sessionKey'[s].ttl = sessionKey[s].ttl - 1
             /\ sessionKey'[s].user = sessionKey[s].user
             /\ sessionKey'[s].at = sessionKey[s].at
             /\ sessionKey'[s].rt = sessionKey[s].rt
        /\ ~(sessionKey[s].ttl > 1) => sessionKey'[s] = NoSession
        /\ sessionKey[s].ttl \in Nat
  BY <1>1, ExpireAssumption DEF Tick, Aged, TypeOK, SessionEntry
<1>4. \A r \in Id :
        /\ refreshKey[r].ttl > 1 =>
             /\ refreshKey'[r].ttl = refreshKey[r].ttl - 1
             /\ refreshKey'[r].user = refreshKey[r].user
             /\ refreshKey'[r].at = refreshKey[r].at
        /\ ~(refreshKey[r].ttl > 1) => refreshKey'[r] = NoRefresh
        /\ refreshKey[r].ttl \in Nat
  BY <1>1, ExpireAssumption DEF Tick, Aged, TypeOK, RefreshEntry
<1>5. \A a \in Id :
        /\ accessKey[a].ttl > 1 => accessKey'[a].sid = accessKey[a].sid
        /\ ~(accessKey[a].ttl > 1) => accessKey'[a] = NoAccess
        /\ accessKey[a].ttl \in Nat
  BY <1>1, ExpireAssumption DEF Tick, Aged, TypeOK, AccessEntry
<1>6. owner' = owner
  BY DEF Tick
<1>7. NoUserKey.ttl = 0 /\ NoSession.ttl = 0 /\ NoRefresh.ttl = 0 /\ NoAccess.ttl = 0
  BY DEF NoUserKey, NoSession, NoRefresh, NoAccess
<1>8. TypeOK'
  <2>1. userKey' \in [User -> UserEntry]
    BY <1>1, ExpireAssumption DEF Tick, Aged, TypeOK, UserEntry, NoUserKey
  <2>2. sessionKey' \in [Id -> SessionEntry]
    <3>1. NoSession \in SessionEntry
      BY ExpireAssumption DEF NoSession, SessionEntry
    <3>2. ASSUME NEW e \in SessionEntry, e.ttl > 1
          PROVE  [e EXCEPT !.ttl = @ - 1] \in SessionEntry
      <4>1. e.ttl - 1 \in 0..RefreshExpire
        BY <3>2, ExpireAssumption DEF SessionEntry
      <4> QED
        BY <4>1 DEF SessionEntry
    <3>3. \A s \in Id : sessionKey[s] \in SessionEntry
      BY <1>1 DEF TypeOK
    <3>4. sessionKey' = [s \in Id |->
             IF sessionKey[s].ttl > 1 THEN [sessionKey[s] EXCEPT !.ttl = @ - 1]
             ELSE NoSession]
      BY <1>1 DEF Tick, Aged, TypeOK
    <3> QED
      BY <3>1, <3>2, <3>3, <3>4
  <2>3. accessKey' \in [Id -> AccessEntry]
    BY <1>1, ExpireAssumption DEF Tick, Aged, TypeOK, AccessEntry, NoAccess
  <2>4. refreshKey' \in [Id -> RefreshEntry]
    BY <1>1, ExpireAssumption DEF Tick, Aged, TypeOK, RefreshEntry, NoRefresh
  <2> QED
    BY <1>1, <1>6, <2>1, <2>2, <2>3, <2>4 DEF TypeOK
<1>9. UserKeyNamesSession'
  <2> SUFFICES ASSUME NEW u \in User, Live(userKey'[u])
               PROVE  /\ userKey'[u].sid \in Id
                      /\ sessionKey'[userKey'[u].sid].ttl = userKey'[u].ttl
                      /\ sessionKey'[userKey'[u].sid].user = u
    BY DEF UserKeyNamesSession
  <2> DEFINE k == userKey[u].sid
  <2>1. userKey[u].ttl > 1 /\ Live(userKey[u])
    BY <1>2, <1>7 DEF Live
  <2>2. k \in Id /\ sessionKey[k].ttl = userKey[u].ttl /\ sessionKey[k].user = u
    BY <2>1 DEF StoreInv, UserKeyNamesSession
  <2> QED
    BY <1>2, <1>3, <2>1, <2>2
<1>10. SessionIsCurrent'
  <2> SUFFICES ASSUME NEW s \in Id, Live(sessionKey'[s])
               PROVE  /\ sessionKey'[s].user \in User
                      /\ userKey'[sessionKey'[s].user] = [ttl |-> sessionKey'[s].ttl, sid |-> s]
                      /\ sessionKey'[s].at = s
                      /\ sessionKey'[s].rt = s
                      /\ refreshKey'[s].ttl = sessionKey'[s].ttl
                      /\ owner'[s] = sessionKey'[s].user
    BY DEF SessionIsCurrent
  <2>1. sessionKey[s].ttl > 1 /\ Live(sessionKey[s])
    BY <1>3, <1>7 DEF Live
  <2>2. /\ sessionKey[s].user \in User
        /\ userKey[sessionKey[s].user] = [ttl |-> sessionKey[s].ttl, sid |-> s]
        /\ sessionKey[s].at = s
        /\ sessionKey[s].rt = s
        /\ refreshKey[s].ttl = sessionKey[s].ttl
        /\ owner[s] = sessionKey[s].user
    BY <2>1 DEF StoreInv, SessionIsCurrent
  <2> QED
    BY <1>2a, <1>3, <1>4, <1>6, <2>1, <2>2
<1>11. RefreshHasSession'
  <2> SUFFICES ASSUME NEW r \in Id, Live(refreshKey'[r])
               PROVE  /\ Live(sessionKey'[r])
                      /\ refreshKey'[r].user = sessionKey'[r].user
                      /\ refreshKey'[r].at = r
    BY DEF RefreshHasSession
  <2>1. refreshKey[r].ttl > 1 /\ Live(refreshKey[r])
    BY <1>4, <1>7 DEF Live
  <2>2. Live(sessionKey[r]) /\ refreshKey[r].user = sessionKey[r].user /\ refreshKey[r].at = r
    BY <2>1 DEF StoreInv, RefreshHasSession
  <2>3. refreshKey[r].ttl = sessionKey[r].ttl
    BY <2>2 DEF StoreInv, SessionIsCurrent
  <2> QED
    BY <1>3, <1>4, <2>1, <2>2, <2>3 DEF Live
<1>12. AccessNamesSession'
  BY <1>5, <1>6, <1>7 DEF StoreInv, AccessNamesSession, Live
<1> QED
  BY <1>8, <1>9, <1>10, <1>11, <1>12 DEF StoreInv

\* The empty store satisfies the invariant.
LEMMA InitInv == StoreInit => StoreInv
<1> SUFFICES ASSUME StoreInit PROVE StoreInv
  OBVIOUS
<1>1. TypeOK
  BY ExpireAssumption
     DEF StoreInit, TypeOK, UserEntry, SessionEntry, AccessEntry, RefreshEntry,
         NoUserKey, NoSession, NoAccess, NoRefresh
<1>2. UserKeyNamesSession /\ SessionIsCurrent /\ RefreshHasSession /\ AccessNamesSession
  BY DEF StoreInit, UserKeyNamesSession, SessionIsCurrent, RefreshHasSession,
         AccessNamesSession, Live, NoUserKey, NoSession, NoAccess, NoRefresh
<1> QED
  BY <1>1, <1>2 DEF StoreInv

\* A step of the store is a new session, a validation, a logout or a tick.
LEMMA StoreSteps ==
  ASSUME StoreInv, StoreNext
  PROVE  \/ \E u \in User, g \in Id :
              DrawnFor(u, g) /\ ~Conflict(g, g, g) /\ Issue(u, g, g, g)
         \/ \E a \in Id : Validate(a)
         \/ \E u \in User : Delete(u)
         \/ Tick
<1>1. CASE \E g, s, a, r \in Id :
             /\ Drawn(g, s, a, r)
             /\ \/ \E u \in User : DrawnFor(u, g) /\ Create(u, s, a, r)
                \/ \E at, rt \in Id :
                     DrawnFor(refreshKey[rt].user, g) /\ Refresh(at, rt, s, a, r)
  <2>1. PICK g \in Id, s \in Id, a \in Id, r \in Id :
             /\ Drawn(g, s, a, r)
             /\ \/ \E u \in User : DrawnFor(u, g) /\ Create(u, s, a, r)
                \/ \E at, rt \in Id :
                     DrawnFor(refreshKey[rt].user, g) /\ Refresh(at, rt, s, a, r)
    BY <1>1
  <2>2. ~Conflict(s, a, r)
    BY <2>1 DEF Create, Refresh
  <2>3. s = g /\ a = g /\ r = g
    BY <2>1, <2>2, NoConflictIsFresh
  <2>4. CASE \E u \in User : DrawnFor(u, g) /\ Create(u, s, a, r)
    BY <2>3, <2>4 DEF Create
  <2>5. CASE \E at, rt \in Id :
               DrawnFor(refreshKey[rt].user, g) /\ Refresh(at, rt, s, a, r)
    <3>1. PICK at \in Id, rt \in Id :
                 DrawnFor(refreshKey[rt].user, g) /\ Refresh(at, rt, s, a, r)
      BY <2>5
    <3>2. refreshKey[rt].user \in User
      BY <3>1 DEF Refresh, Redeemable, StoreInv, RefreshHasSession, SessionIsCurrent
    <3> QED
      BY <2>3, <3>1, <3>2 DEF Refresh
  <2> QED
    BY <2>1, <2>4, <2>5
<1> QED
  BY <1>1 DEF StoreNext

\* The invariant is inductive.
LEMMA NextInv == StoreInv /\ [StoreNext]_storeVars => StoreInv'
<1> SUFFICES ASSUME StoreInv, [StoreNext]_storeVars PROVE StoreInv'
  OBVIOUS
<1>1. CASE StoreNext
  BY <1>1, StoreSteps, IssueInv, ValidateInv, DeleteInv, TickInv
<1>2. CASE UNCHANGED storeVars
  BY <1>2 DEF storeVars, StoreInv, TypeOK, UserKeyNamesSession, SessionIsCurrent,
              RefreshHasSession, AccessNamesSession
<1> QED
  BY <1>1, <1>2

\* The four key families agree at every moment: the user key, the session and its
\* refresh token come and go together, and each access token names its own session.
THEOREM StoreConsistent == StoreSpec => []StoreInv
<1>1. StoreInit => StoreInv
  BY InitInv
<1>2. StoreInv /\ [StoreNext]_storeVars => StoreInv'
  BY NextInv
<1> QED
  BY <1>1, <1>2, PTL DEF StoreSpec

\* A user never has two pairs that work, nor halves of two pairs.
THEOREM OneSession == StoreSpec => []OneSessionPerUser
<1>1. StoreInv => OneSessionPerUser
  <2> SUFFICES ASSUME StoreInv PROVE OneSessionPerUser
    OBVIOUS
  <2>1. ASSUME NEW a \in Id, Validates(a)
        PROVE  Live(sessionKey[a]) /\ ValidUser(a) = sessionKey[a].user
    BY <2>1 DEF Validates, ValidUser, StoreInv, AccessNamesSession
  <2>2. ASSUME NEW at \in Id, NEW r \in Id, Redeemable(at, r)
        PROVE  Live(sessionKey[r]) /\ refreshKey[r].user = sessionKey[r].user /\ at = r
    BY <2>2 DEF Redeemable, StoreInv, RefreshHasSession
  <2>3. ASSUME NEW s \in Id, NEW t \in Id, Live(sessionKey[s]), Live(sessionKey[t]),
               sessionKey[s].user = sessionKey[t].user
        PROVE  s = t
    <3>1. userKey[sessionKey[s].user] = [ttl |-> sessionKey[s].ttl, sid |-> s]
      BY <2>3 DEF StoreInv, SessionIsCurrent
    <3>2. userKey[sessionKey[t].user] = [ttl |-> sessionKey[t].ttl, sid |-> t]
      BY <2>3 DEF StoreInv, SessionIsCurrent
    <3> QED
      BY <2>3, <3>1, <3>2
  <2> QED
    BY <2>1, <2>2, <2>3 DEF OneSessionPerUser
<1> QED
  BY <1>1, StoreConsistent, PTL

\* A token speaks for the user it was issued to and never for another.
THEOREM SpeaksForOwner == StoreSpec => []TokenSpeaksForOwner
<1>1. StoreInv => TokenSpeaksForOwner
  <2> SUFFICES ASSUME StoreInv PROVE TokenSpeaksForOwner
    OBVIOUS
  <2>1. \A s \in Id : Live(sessionKey[s]) => owner[s] = sessionKey[s].user
    BY DEF StoreInv, SessionIsCurrent
  <2>2. \A a \in Id : Validates(a) => ValidUser(a) = owner[a]
    BY <2>1 DEF Validates, ValidUser, StoreInv, AccessNamesSession
  <2>3. \A at, r \in Id : Redeemable(at, r) => refreshKey[r].user = owner[r]
    BY <2>1 DEF Redeemable, StoreInv, RefreshHasSession
  <2> QED
    BY <2>2, <2>3 DEF TokenSpeaksForOwner
<1> QED
  BY <1>1, StoreConsistent, PTL

\* After a logout nothing of the user is left that validates or can be redeemed.
THEOREM LogoutRevokes == StoreSpec => LogoutRevokesAll
<1> DEFINE Revoked(u) ==
      /\ \A a \in Id : Validates(a)' => ValidUser(a)' # u
      /\ \A at, r \in Id : Redeemable(at, r)' => refreshKey'[r].user # u
<1>1. ASSUME StoreInv, NEW u \in User, Delete(u)
      PROVE  Revoked(u)
  <2>1. StoreInv'
    BY <1>1, DeleteInv
  <2>2. \A s \in Id : Live(sessionKey'[s]) => sessionKey'[s].user # u
    <3>1. sessionKey' = Without(sessionKey, StoredSession(u), NoSession)
      BY <1>1 DEF Delete
    <3>2. \A s \in Id : s \in StoredSession(u)
                        <=> Live(sessionKey[s]) /\ sessionKey[s].user = u
      BY <1>1, StoredIsTheSession
    <3> QED
      BY <1>1, <3>1, <3>2 DEF Without, Live, NoSession, StoreInv, TypeOK
  <2>3. ASSUME NEW a \in Id, Validates(a)'
        PROVE  ValidUser(a)' # u
    BY <2>1, <2>2, <2>3 DEF Validates, ValidUser, StoreInv, AccessNamesSession
  <2>4. ASSUME NEW at \in Id, NEW r \in Id, Redeemable(at, r)'
        PROVE  refreshKey'[r].user # u
    BY <2>1, <2>2, <2>4 DEF Redeemable, StoreInv, RefreshHasSession
  <2> QED
    BY <2>3, <2>4
<1>2. StoreInv => \A u \in User : Delete(u) => Revoked(u)
  BY <1>1
<1>3. StoreInv /\ [StoreNext]_storeVars
        => [\A u \in User : Delete(u) => Revoked(u)]_storeVars
  BY <1>2
<1> QED
  BY <1>3, StoreConsistent, PTL DEF StoreSpec, LogoutRevokesAll

\* Only the current session of its user is ever exchanged for a new one.
THEOREM CurrentRefreshes == StoreSpec => OnlyCurrentRefreshes
<1> DEFINE Current == \A g, at, rt \in Id : Refresh(at, rt, g, g, g) =>
                        userKey[refreshKey[rt].user].sid = rt
<1>1. ASSUME StoreInv, NEW g \in Id, NEW at \in Id, NEW rt \in Id, Refresh(at, rt, g, g, g)
      PROVE  userKey[refreshKey[rt].user].sid = rt
  <2>1. Live(sessionKey[rt]) /\ refreshKey[rt].user = sessionKey[rt].user
    BY <1>1 DEF Refresh, Redeemable, StoreInv, RefreshHasSession
  <2>2. userKey[sessionKey[rt].user] = [ttl |-> sessionKey[rt].ttl, sid |-> rt]
    BY <1>1, <2>1 DEF StoreInv, SessionIsCurrent
  <2> QED
    BY <2>1, <2>2
<1>2. StoreInv => Current
  BY <1>1
<1>3. StoreInv /\ [StoreNext]_storeVars => [Current]_storeVars
  BY <1>2
<1> QED
  BY <1>3, StoreConsistent, PTL DEF StoreSpec, OnlyCurrentRefreshes

---------------------------------------------------------------------------
(* The store implements SessionRegistry.                                   *)

\* A user is on line when his user key leads to a live access key.
LEMMA OnlineIs ==
  ASSUME StoreInv, NEW u \in User
  PROVE  Online(u) <=> Live(userKey[u]) /\ Live(accessKey[userKey[u].sid])
<1>1. StoredAccess(u) = StoredSession(u)
  BY StoredIsTheSession
<1>2. Online(u) <=> \E a \in StoredAccess(u) : Live(accessKey[a])
  BY DEF Online, StoredAccess
<1> QED
  BY <1>1, <1>2 DEF StoredSession

\* The same in the state after a step.
LEMMA OnlineIsNext ==
  ASSUME StoreInv', NEW u \in User
  PROVE  Online(u)' <=> Live(userKey'[u]) /\ Live(accessKey'[userKey'[u].sid])
<1>1. (StoreInv => (Online(u) <=> Live(userKey[u]) /\ Live(accessKey[userKey[u].sid])))'
  BY OnlineIs, PTL
<1> QED
  BY <1>1

\* A new session is a Begin of the registry: one user's session moves, by an id that
\* was nobody's or his own, and he is on line.
LEMMA IssueBegins ==
  ASSUME StoreInv, StoreInv', NEW u \in User, NEW g \in Id,
         DrawnFor(u, g), ~Conflict(g, g, g), Issue(u, g, g, g)
  PROVE  Registry!Begin(u, g)
<1>1. TypeOK
  BY DEF StoreInv
<1>2. \A v \in User : userKey'[v] = IF v = u THEN NewUserKey(g) ELSE userKey[v]
  BY <1>1, IssueEffect DEF TypeOK
<1>3. Online(u)'
  BY <1>2, IssueEffect, OnlineIsNext, ExpireAssumption DEF Live, NewUserKey, NewAccess
<1>4. ASSUME NEW v \in User \ {u}
      PROVE  Online(v)' <=> Online(v)
  <2> DEFINE k == userKey[v].sid
  <2>1. userKey'[v] = userKey[v]
    BY <1>2
  <2>2. CASE Live(userKey[v])
    <3>1. k \in Id /\ sessionKey[k].user = v /\ Live(sessionKey[k])
      BY <2>2 DEF StoreInv, UserKeyNamesSession, Live
    <3>2. k # g /\ k \notin StoredSession(u)
      BY <3>1, StoredIsTheSession DEF Conflict
    <3>3. accessKey'[k] = accessKey[k]
      BY <3>1, <3>2, IssueEffect
    <3> QED
      BY <2>1, <3>3, OnlineIs, OnlineIsNext
  <2>3. CASE ~Live(userKey[v])
    BY <2>1, <2>3, OnlineIs, OnlineIsNext
  <2> QED
    BY <2>2, <2>3
<1>5. {v \in User : Online(v)'} = {v \in User : Online(v)} \union {u}
  BY <1>3, <1>4
<1>6. [v \in User |-> userKey'[v].sid] = [[v \in User |-> userKey[v].sid] EXCEPT ![u] = g]
  <2>1. \A v \in User : userKey'[v].sid = IF v = u THEN g ELSE userKey[v].sid
    BY <1>2 DEF NewUserKey
  <2> QED
    BY <2>1
<1>7. owner[g] \in {NoUser, u} /\ owner' = [owner EXCEPT ![g] = u]
  BY <1>1, IssueEffect DEF DrawnFor, TypeOK
<1> QED
  BY <1>5, <1>6, <1>7 DEF Registry!Begin

\* token_delete is a Logout of the registry.
LEMMA DeleteLogsOut ==
  ASSUME StoreInv, StoreInv', NEW u \in User, Delete(u)
  PROVE  Registry!Logout(u)
<1>1. TypeOK
  BY DEF StoreInv
<1>2. \A v \in User : userKey'[v] = IF v = u THEN NoUserKey ELSE userKey[v]
  BY <1>1 DEF Delete, TypeOK
<1>3. ~Online(u)'
  BY <1>2, OnlineIsNext DEF Live, NoUserKey
<1>4. ASSUME NEW v \in User \ {u}
      PROVE  Online(v)' <=> Online(v)
  <2> DEFINE k == userKey[v].sid
  <2>1. userKey'[v] = userKey[v]
    BY <1>2
  <2>2. CASE Live(userKey[v])
    <3>1. k \in Id /\ sessionKey[k].user = v
      BY <2>2 DEF StoreInv, UserKeyNamesSession
    <3>2. k \notin StoredAccess(u)
      BY <3>1, StoredIsTheSession
    <3>3. accessKey'[k] = accessKey[k]
      BY <1>1, <3>1, <3>2 DEF Delete, Without, TypeOK
    <3> QED
      BY <2>1, <3>3, OnlineIs, OnlineIsNext
  <2>3. CASE ~Live(userKey[v])
    BY <2>1, <2>3, OnlineIs, OnlineIsNext
  <2> QED
    BY <2>2, <2>3
<1>5. {v \in User : Online(v)'} = {v \in User : Online(v)} \ {u}
  BY <1>3, <1>4
<1>6. [v \in User |-> userKey'[v].sid]
        = [[v \in User |-> userKey[v].sid] EXCEPT ![u] = NoId]
  <2>1. \A v \in User : userKey'[v].sid = IF v = u THEN NoId ELSE userKey[v].sid
    BY <1>2 DEF NoUserKey
  <2> QED
    BY <2>1
<1> QED
  BY <1>5, <1>6 DEF Registry!Logout, Delete

\* token_validate is a stuttering step of the registry.
LEMMA ValidateStutters ==
  ASSUME StoreInv, StoreInv', NEW a \in Id, Validate(a)
  PROVE  UNCHANGED Registry!vars
<1>1. \A x \in Id : Live(accessKey'[x]) <=> Live(accessKey[x])
  BY ExpireAssumption DEF Validate, Validates, Live, StoreInv, TypeOK, AccessEntry
<1>2. UNCHANGED <<userKey, owner>>
  BY DEF Validate
<1>3. ASSUME NEW v \in User
      PROVE  Online(v)' <=> Online(v)
  <2>1. Live(userKey[v]) => userKey[v].sid \in Id
    BY DEF StoreInv, UserKeyNamesSession
  <2> QED
    BY <1>1, <1>2, <2>1, OnlineIs, OnlineIsNext
<1>4. {v \in User : Online(v)'} = {v \in User : Online(v)}
  BY <1>3
<1> QED
  BY <1>2, <1>4 DEF Registry!vars

\* Time is a Lapse of the registry: of those whose session expires and of those who
\* lose the access token alone.
LEMMA TickLapses ==
  ASSUME StoreInv, StoreInv', Tick
  PROVE  Registry!Next
<1>0. PICK ended \in SUBSET User, away \in SUBSET User :
        /\ ended = {u \in User : ~Live(userKey'[u])}
        /\ away = {u \in User : ~Live(accessKey'[userKey[u].sid])}
  OBVIOUS
<1>1. TypeOK
  BY DEF StoreInv
<1>2. \A u \in User :
        IF Live(userKey'[u]) THEN Live(userKey[u]) /\ userKey'[u].sid = userKey[u].sid
                             ELSE userKey'[u].sid = NoId
  BY <1>1 DEF Tick, Aged, TypeOK, UserEntry, Live, NoUserKey
<1>3. \A a \in Id : Live(accessKey'[a]) => Live(accessKey[a])
  BY <1>1 DEF Tick, Aged, TypeOK, AccessEntry, Live, NoAccess
<1>4. ASSUME NEW u \in User
      PROVE  Online(u)' <=> Online(u) /\ u \notin ended /\ u \notin away
  <2>1. Live(userKey[u]) => userKey[u].sid \in Id
    BY DEF StoreInv, UserKeyNamesSession
  <2> QED
    BY <1>0, <1>2, <1>3, <2>1, OnlineIs, OnlineIsNext
<1>5. {u \in User : Online(u)'} = {u \in User : Online(u)} \ (ended \union away)
  BY <1>4
<1>6. [u \in User |-> userKey'[u].sid]
        = [u \in User |-> IF u \in ended THEN NoId
                          ELSE [v \in User |-> userKey[v].sid][u]]
  BY <1>0, <1>2
<1>7. Registry!Lapse(ended, away)
  BY <1>5, <1>6 DEF Registry!Lapse, Tick
<1> QED
  BY <1>7, Zenon DEF Registry!Next

\* Every step of the store is a step of the registry or none of its business.
THEOREM StoreImplementsRegistry == StoreSpec => RegistrySpec
<1>1. StoreInit => Registry!Init
  <2> SUFFICES ASSUME StoreInit PROVE Registry!Init
    OBVIOUS
  <2>1. \A u \in User : userKey[u] = NoUserKey
    BY DEF StoreInit
  <2>2. \A u \in User : ~Online(u)
    <3> SUFFICES ASSUME NEW u \in User PROVE ~Online(u)
      OBVIOUS
    <3>1. StoredSession(u) = {}
      BY <2>1 DEF StoredSession, Live, NoUserKey
    <3>2. StoredHash(u) = {}
      BY <3>1 DEF StoredHash
    <3> QED
      BY <3>2 DEF Online
  <2>3. [u \in User |-> userKey[u].sid] = [u \in User |-> NoId]
    BY <2>1 DEF NoUserKey
  <2> QED
    BY <2>2, <2>3 DEF Registry!Init, StoreInit
<1>2. StoreInv /\ StoreInv' /\ [StoreNext]_storeVars => [Registry!Next]_(Registry!vars)
  <2> SUFFICES ASSUME StoreInv, StoreInv', [StoreNext]_storeVars
               PROVE  [Registry!Next]_(Registry!vars)
    OBVIOUS
  <2>1. ASSUME NEW u \in User, NEW g \in Id,
               DrawnFor(u, g), ~Conflict(g, g, g), Issue(u, g, g, g)
        PROVE  Registry!Next
    BY <2>1, IssueBegins DEF Registry!Next
  <2>2. ASSUME NEW a \in Id, Validate(a)
        PROVE  UNCHANGED Registry!vars
    BY <2>2, ValidateStutters
  <2>3. ASSUME NEW u \in User, Delete(u)
        PROVE  Registry!Next
    BY <2>3, DeleteLogsOut DEF Registry!Next
  <2>4. Tick => Registry!Next
    BY TickLapses
  <2>5. CASE UNCHANGED storeVars
    BY <2>5 DEF storeVars, Registry!vars, Online, StoredHash, StoredSession
  <2> QED
    BY <2>1, <2>2, <2>3, <2>4, <2>5, StoreSteps
<1>3. RegistrySpec <=> Registry!Init /\ [][Registry!Next]_(Registry!vars)
  BY DEF RegistrySpec, Registry!Spec
<1> QED
  BY <1>1, <1>2, <1>3, StoreConsistent, PTL DEF StoreSpec

-----------------------------------------------------------------------------
(***************************************************************************)
(* What GetUserOnlineStatus reports, for any number of users and draws,    *)
(* whatever scripts and expiries fall between its three reads.             *)
(*                                                                         *)
(* An access key that is live when the third read looks at it was live     *)
(* when the second read saw its session, or it has been written since, for *)
(* the same user; in both cases he was on line at that moment.             *)
(***************************************************************************)

LookupType ==
  [at : {"idle", "user", "session", "access", "online", "offline"},
   user : User \union {NoUser}, sid : Id \union {NoId}, access : Id \union {NoId},
   seenOnline : BOOLEAN, seenOffline : BOOLEAN, moved : BOOLEAN, failed : BOOLEAN]

Reading == lookup.at \in {"user", "session", "access"}

\* While a lookup goes on it has seen the present moment.
SeesNow ==
  Reading =>
    /\ lookup.user \in User
    /\ Online(lookup.user) => lookup.seenOnline
    /\ ~Online(lookup.user) => lookup.seenOffline

\* What a read found is the user's, and it is his user key's unless that moved.
Found(id) ==
  /\ id \in Id /\ owner[id] = lookup.user
  /\ \/ lookup.moved
     \/ Live(userKey[lookup.user]) /\ userKey[lookup.user].sid = id

LookupInv ==
  /\ lookup \in LookupType
  /\ SeesNow
  /\ lookup.at = "session" => Found(lookup.sid)
  /\ lookup.at = "access" =>
       /\ Found(lookup.access)
       /\ Live(accessKey[lookup.access]) => lookup.seenOnline
  /\ OnlineReportIsTrue
  /\ OfflineReportIsJustified

OnlineInv == StoreInv /\ LookupInv

---------------------------------------------------------------------------
(* What a step of the store does to what a lookup looks at.                *)

\* A user key that is not there is the absent entry, or was not there before.
LEMMA UserKeyGoes ==
  ASSUME StoreInv, StoreNext, NEW u \in User, ~Live(userKey'[u])
  PROVE  userKey'[u] \in {userKey[u], NoUserKey}
<1>1. userKey \in [User -> UserEntry]
  BY DEF StoreInv, TypeOK
<1>2. ASSUME NEW v \in User, NEW g \in Id, Issue(v, g, g, g)
      PROVE  userKey'[u] \in {userKey[u], NoUserKey}
  BY <1>1, <1>2, ExpireAssumption DEF Issue, NewUserKey, Live
<1>3. CASE Tick
  <2>1. userKey'[u] = IF userKey[u].ttl > 1 THEN [userKey[u] EXCEPT !.ttl = @ - 1]
                                            ELSE NoUserKey
    BY <1>1, <1>3 DEF Tick, Aged
  <2> QED
    BY <1>1, <2>1, ExpireAssumption DEF Live, UserEntry
<1>4. CASE \E v \in User : Delete(v)
  BY <1>1, <1>4 DEF Delete
<1>5. CASE \E a \in Id : Validate(a)
  BY <1>5 DEF Validate
<1> QED
  BY <1>2, <1>3, <1>4, <1>5, StoreSteps

\* An access key that comes to life is written, and puts its owner on line.
LEMMA AccessComesOnline ==
  ASSUME StoreInv, StoreNext, NEW u \in User, NEW a \in Id, owner[a] = u,
         ~Live(accessKey[a]), Live(accessKey'[a])
  PROVE  Online(u)'
<1>1. accessKey \in [Id -> AccessEntry]
  BY DEF StoreInv, TypeOK
<1>2. StoreInv'
  BY NextInv
<1>3. CASE \E v \in User, g \in Id : DrawnFor(v, g) /\ Issue(v, g, g, g)
  <2>1. PICK v \in User, g \in Id : DrawnFor(v, g) /\ Issue(v, g, g, g)
    BY <1>3
  <2>2. a = g
    BY <2>1, IssueEffect DEF Live, NoAccess
  <2>3. v = u
    BY <2>1, <2>2, UserAssumption DEF DrawnFor
  <2>4. Live(userKey'[v]) /\ userKey'[v].sid = a
    BY <2>1, <2>2, IssueEffect, ExpireAssumption DEF NewUserKey, Live, StoreInv, TypeOK
  <2>5. Online(v)'
    BY <1>2, <2>4, OnlineIsNext
  <2> QED
    BY <2>3, <2>5
<1>4. CASE Tick
  <2>1. accessKey'[a] = IF accessKey[a].ttl > 1 THEN [accessKey[a] EXCEPT !.ttl = @ - 1]
                                                ELSE NoAccess
    BY <1>1, <1>4 DEF Tick, Aged
  <2> QED
    BY <1>1, <2>1 DEF Live, AccessEntry, NoAccess
<1>5. CASE \E v \in User : Delete(v)
  BY <1>1, <1>5 DEF Delete, Without, Live, NoAccess
<1>6. CASE \E b \in Id : Validate(b)
  BY <1>1, <1>6 DEF Validate, Validates, Live, AccessEntry
<1> QED
  BY <1>3, <1>4, <1>5, <1>6, StoreSteps

\* The owner of a draw is for ever.
LEMMA OwnerStays ==
  ASSUME StoreInv, StoreNext, NEW g \in Id, owner[g] \in User
  PROVE  owner'[g] = owner[g]
BY StoreSteps, UserAssumption DEF Issue, Validate, Delete, Tick

---------------------------------------------------------------------------
(* The invariant.                                                          *)

LEMMA LookupInit == OnlineInit => OnlineInv
<1> SUFFICES ASSUME OnlineInit PROVE OnlineInv
  OBVIOUS
<1>1. StoreInv /\ lookup = Idle
  BY InitInv DEF OnlineInit
<1> QED
  BY <1>1 DEF Idle, OnlineInv, LookupInv, LookupType, SeesNow, Reading, OnlineReportIsTrue,
              OfflineReportIsJustified

LEMMA BeginLookupKeeps ==
  ASSUME OnlineInv, NEW u \in User, BeginLookup(u)
  PROVE  LookupInv'
<1>1. Online(u)' = Online(u)
  BY DEF BeginLookup, storeVars, Online, StoredHash, StoredSession, Live
<1>2. /\ lookup'.at = "user" /\ lookup'.user = u
      /\ lookup'.seenOnline = Online(u) /\ lookup'.seenOffline = ~Online(u)
      /\ lookup'.sid = NoId /\ lookup'.access = NoId
      /\ lookup'.moved = FALSE /\ lookup'.failed = FALSE
  BY DEF BeginLookup, Idle
<1>3. Online(u) \in BOOLEAN
  BY DEF Online
<1>4. lookup' \in LookupType
  BY <1>2, <1>3 DEF BeginLookup, Idle, LookupType
<1>5. SeesNow'
  BY <1>1, <1>2 DEF SeesNow
<1> QED
  BY <1>2, <1>4, <1>5 DEF LookupInv, OnlineReportIsTrue, OfflineReportIsJustified

\* A read changes how far the lookup is and what it found, not what it has seen.
LEMMA ReadKeeps ==
  ASSUME OnlineInv, Reading, UNCHANGED storeVars, NEW new \in LookupType, lookup' = new,
         new.user = lookup.user, new.moved = lookup.moved,
         new.seenOnline = lookup.seenOnline, new.seenOffline = lookup.seenOffline,
         new.at = "session" => Found(new.sid),
         new.at = "access" => /\ Found(new.access)
                              /\ Live(accessKey[new.access]) => lookup.seenOnline,
         new.at = "online" => lookup.seenOnline,
         new.at = "offline" => lookup.seenOffline \/ lookup.moved \/ new.failed
  PROVE  LookupInv'
<1>1. UNCHANGED <<userKey, sessionKey, accessKey, refreshKey, owner>>
  BY DEF storeVars
<1>2. Online(lookup.user)' <=> Online(lookup.user)
  BY <1>1 DEF Online, StoredHash, StoredSession, Live
<1>3. SeesNow'
  BY <1>2 DEF OnlineInv, LookupInv, SeesNow
<1>4. \A id \in Id : Found(id) => Found(id)'
  BY <1>1 DEF Found, Live
<1>5. /\ lookup'.at = "session" => Found(lookup.sid)'
      /\ lookup'.at = "access" => Found(lookup.access)'
  BY <1>1 DEF Found, Live
<1>6. lookup'.at = "access" /\ Live(accessKey[lookup.access])' => lookup'.seenOnline
  BY <1>1 DEF Live
<1> QED
  BY <1>3, <1>5, <1>6 DEF LookupInv, OnlineReportIsTrue, OfflineReportIsJustified

LEMMA ReadsKeep ==
  ASSUME OnlineInv, ReadUser \/ ReadSession \/ ReadAccess \/ ReadError
  PROVE  LookupInv' /\ UNCHANGED storeVars
<1>1. Reading /\ UNCHANGED storeVars
  BY DEF ReadUser, ReadSession, ReadAccess, ReadError, Reading
<1>2. /\ StoreInv /\ lookup \in LookupType /\ lookup.user \in User
      /\ Online(lookup.user) => lookup.seenOnline
      /\ ~Online(lookup.user) => lookup.seenOffline
  BY <1>1 DEF OnlineInv, LookupInv, SeesNow
<1> DEFINE u == lookup.user
<1>3. CASE ReadUser
  <2>1. CASE Live(userKey[u])
    <3> DEFINE k == userKey[u].sid
               new == [lookup EXCEPT !.at = "session", !.sid = k]
    <3>1. k \in Id /\ owner[k] = u
      BY <1>2, <2>1 DEF StoreInv, UserKeyNamesSession, SessionIsCurrent, Live
    <3>2. Found(k)
      BY <2>1, <3>1 DEF Found
    <3>3. /\ new \in LookupType /\ lookup' = new /\ new.at = "session" /\ new.sid = k
          /\ new.user = lookup.user /\ new.moved = lookup.moved
          /\ new.seenOnline = lookup.seenOnline /\ new.seenOffline = lookup.seenOffline
      BY <1>2, <1>3, <2>1, <3>1 DEF LookupType, ReadUser
    <3> HIDE DEF new, k
    <3> QED
      BY <1>1, <3>2, <3>3, ReadKeeps
  <2>2. CASE ~Live(userKey[u])
    <3> DEFINE new == [lookup EXCEPT !.at = "offline"]
    <3>1. lookup.seenOffline
      BY <1>2, <2>2, OnlineIs
    <3>2. /\ new \in LookupType /\ lookup' = new /\ new.at = "offline"
          /\ new.user = lookup.user /\ new.moved = lookup.moved
          /\ new.seenOnline = lookup.seenOnline /\ new.seenOffline = lookup.seenOffline
      BY <1>2, <1>3, <2>2 DEF LookupType, ReadUser
    <3> HIDE DEF new
    <3> QED
      BY <1>1, <3>1, <3>2, ReadKeeps
  <2> QED
    BY <1>1, <2>1, <2>2
<1>4. CASE ReadSession
  <2> DEFINE k == lookup.sid
  <2>1. Found(k)
    BY <1>4 DEF ReadSession, OnlineInv, LookupInv
  <2>2. CASE Live(sessionKey[k])
    <3> DEFINE new == [lookup EXCEPT !.at = "access", !.access = sessionKey[k].at]
    <3>1. sessionKey[k].at = k /\ sessionKey[k].user = u
      BY <1>2, <2>1, <2>2 DEF Found, StoreInv, SessionIsCurrent
    <3>2. userKey[u] = [ttl |-> sessionKey[k].ttl, sid |-> k]
      BY <1>2, <2>1, <2>2, <3>1 DEF Found, StoreInv, SessionIsCurrent
    <3>3. Live(accessKey[k]) => lookup.seenOnline
      BY <1>2, <2>2, <3>2, OnlineIs DEF Live
    <3>4. /\ new \in LookupType /\ lookup' = new /\ new.at = "access" /\ new.access = k
          /\ new.user = lookup.user /\ new.moved = lookup.moved
          /\ new.seenOnline = lookup.seenOnline /\ new.seenOffline = lookup.seenOffline
      BY <1>2, <1>4, <2>1, <2>2, <3>1 DEF LookupType, ReadSession, Found
    <3> HIDE DEF new, k
    <3> QED
      BY <1>1, <2>1, <3>3, <3>4, ReadKeeps
  <2>3. CASE ~Live(sessionKey[k])
    <3> DEFINE new == [lookup EXCEPT !.at = "offline"]
    <3>1. lookup.moved
      BY <1>2, <2>1, <2>3 DEF Found, StoreInv, UserKeyNamesSession, Live
    <3>2. /\ new \in LookupType /\ lookup' = new /\ new.at = "offline"
          /\ new.user = lookup.user /\ new.moved = lookup.moved
          /\ new.seenOnline = lookup.seenOnline /\ new.seenOffline = lookup.seenOffline
      BY <1>2, <1>4, <2>3 DEF LookupType, ReadSession
    <3> HIDE DEF new
    <3> QED
      BY <1>1, <3>1, <3>2, ReadKeeps
  <2> QED
    BY <1>1, <2>2, <2>3
<1>5. CASE ReadAccess
  <2> DEFINE a == lookup.access
             new == [lookup EXCEPT
                     !.at = IF Live(accessKey[a]) THEN "online" ELSE "offline"]
  <2>1. Found(a) /\ (Live(accessKey[a]) => lookup.seenOnline)
    BY <1>5 DEF ReadAccess, OnlineInv, LookupInv
  <2>2. ~Live(accessKey[a]) => lookup.seenOffline \/ lookup.moved
    BY <1>2, <2>1, OnlineIs DEF Found
  <2>3. /\ new \in LookupType /\ lookup' = new
        /\ new.at = IF Live(accessKey[a]) THEN "online" ELSE "offline"
        /\ new.user = lookup.user /\ new.moved = lookup.moved
        /\ new.seenOnline = lookup.seenOnline /\ new.seenOffline = lookup.seenOffline
    BY <1>2, <1>5 DEF LookupType, ReadAccess
  <2> HIDE DEF new, a
  <2> QED
    BY <1>1, <2>1, <2>2, <2>3, ReadKeeps
<1>6. CASE ReadError
  <2> DEFINE new == [lookup EXCEPT !.at = "offline", !.failed = TRUE]
  <2>1. /\ new \in LookupType /\ lookup' = new /\ new.at = "offline" /\ new.failed
        /\ new.user = lookup.user /\ new.moved = lookup.moved
        /\ new.seenOnline = lookup.seenOnline /\ new.seenOffline = lookup.seenOffline
    BY <1>2, <1>6 DEF LookupType, ReadError
  <2> HIDE DEF new
  <2> QED
    BY <1>1, <2>1, ReadKeeps
<1> QED
  BY <1>1, <1>3, <1>4, <1>5, <1>6

\* A step of the store between two reads.
LEMMA MeanwhileKeeps ==
  ASSUME OnlineInv, Meanwhile
  PROVE  LookupInv'
<1>1. StoreInv /\ StoreNext /\ StoreInv'
  BY NextInv DEF OnlineInv, Meanwhile
<1>2. CASE lookup' = Idle
  BY <1>2 DEF Idle, LookupInv, LookupType, SeesNow, Reading, OnlineReportIsTrue,
              OfflineReportIsJustified
<1>3. CASE /\ Reading
           /\ \E u \in User :
                /\ u = lookup.user
                /\ lookup' = [lookup EXCEPT
                     !.seenOnline = @ \/ Online(u)',
                     !.seenOffline = @ \/ ~Online(u)',
                     !.moved = @ \/ userKey'[u].sid # userKey[u].sid]
  <2>1. PICK u \in User :
                /\ u = lookup.user
                /\ lookup' = [lookup EXCEPT
                     !.seenOnline = @ \/ Online(u)',
                     !.seenOffline = @ \/ ~Online(u)',
                     !.moved = @ \/ userKey'[u].sid # userKey[u].sid]
    BY <1>3
  <2>2. lookup \in LookupType
    BY DEF OnlineInv, LookupInv
  <2>3. Online(u)' \in BOOLEAN
    BY DEF Online
  <2>4. /\ lookup'.at = lookup.at /\ lookup'.user = u
        /\ lookup'.sid = lookup.sid /\ lookup'.access = lookup.access
        /\ lookup'.seenOnline = (lookup.seenOnline \/ Online(u)')
        /\ lookup'.seenOffline = (lookup.seenOffline \/ ~Online(u)')
        /\ lookup'.moved = (lookup.moved \/ userKey'[u].sid # userKey[u].sid)
    BY <2>1, <2>2 DEF LookupType
  <2>5. lookup' \in LookupType
    BY <2>1, <2>2, <2>3 DEF LookupType
  <2>6. SeesNow'
    BY <2>1, <2>4 DEF SeesNow
  <2>7. ASSUME NEW id \in Id, Found(id)
        PROVE  Found(id)'
    <3>1. owner'[id] = u
      BY <1>1, <2>1, <2>7, OwnerStays DEF Found
    <3>2. CASE lookup'.moved
      BY <2>4, <3>1, <3>2 DEF Found
    <3>3. CASE ~lookup'.moved
      <4>1. userKey'[u].sid = id /\ Live(userKey[u]) /\ userKey[u].sid = id
        BY <2>1, <2>4, <2>7, <3>3 DEF Found
      <4>2. Live(userKey'[u])
        <5> SUFFICES ASSUME ~Live(userKey'[u]) PROVE FALSE
          OBVIOUS
        <5>1. userKey'[u] = userKey[u]
          BY <1>1, <4>1, UserKeyGoes, IdAssumption DEF NoUserKey
        <5> QED
          BY <4>1, <5>1 DEF Live
      <4> QED
        BY <2>4, <3>1, <4>1, <4>2 DEF Found
    <3> QED
      BY <3>2, <3>3
  <2>8. lookup'.at = "session" => Found(lookup.sid)'
    <3> SUFFICES ASSUME lookup'.at = "session" PROVE Found(lookup.sid)'
      OBVIOUS
    <3>1. PICK id : id = lookup.sid
      OBVIOUS
    <3>2. Found(id) /\ id \in Id
      BY <2>4, <3>1 DEF OnlineInv, LookupInv, Found
    <3> QED
      BY <2>4, <2>7, <3>1, <3>2 DEF Found
  <2>9. lookup'.at = "access" => /\ Found(lookup.access)'
                                 /\ Live(accessKey[lookup.access])' => lookup'.seenOnline
    <3> SUFFICES ASSUME lookup'.at = "access"
                 PROVE  /\ Found(lookup.access)'
                        /\ Live(accessKey[lookup.access])' => lookup'.seenOnline
      OBVIOUS
    <3>1. PICK id : id = lookup.access
      OBVIOUS
    <3>2. /\ Found(id) /\ id \in Id /\ owner[id] = u
          /\ Live(accessKey[id]) => lookup.seenOnline
      BY <2>1, <2>4, <3>1 DEF OnlineInv, LookupInv, Found
    <3>3. Found(lookup.access)'
      BY <2>4, <2>7, <3>1, <3>2 DEF Found
    <3>4. Live(accessKey'[id]) => lookup'.seenOnline
      BY <1>1, <2>4, <3>2, AccessComesOnline
    <3> QED
      BY <2>4, <3>1, <3>3, <3>4 DEF Live
  <2>10. OnlineReportIsTrue' /\ OfflineReportIsJustified'
    BY <1>3, <2>4 DEF Reading, OnlineReportIsTrue, OfflineReportIsJustified
  <2> QED
    BY <2>5, <2>6, <2>8, <2>9, <2>10 DEF LookupInv
<1> QED
  BY <1>2, <1>3 DEF Meanwhile, Reading

LEMMA LookupStep == OnlineInv /\ [OnlineNext]_onlineVars => OnlineInv'
<1> SUFFICES ASSUME OnlineInv, [OnlineNext]_onlineVars PROVE OnlineInv'
  OBVIOUS
<1>1. LookupInv'
  <2>1. CASE UNCHANGED onlineVars
    BY <2>1 DEF onlineVars, storeVars, OnlineInv, LookupInv, SeesNow, Reading, Found, Live,
                Online, StoredHash, StoredSession, OnlineReportIsTrue,
                OfflineReportIsJustified
  <2> QED
    BY <2>1, BeginLookupKeeps, ReadsKeep, MeanwhileKeeps DEF OnlineNext
<1>2. StoreInv'
  <2>1. [StoreNext]_storeVars
    BY ReadsKeep DEF OnlineNext, BeginLookup, Meanwhile, onlineVars
  <2> QED
    BY <2>1, NextInv DEF OnlineInv
<1> QED
  BY <1>1, <1>2 DEF OnlineInv

LEMMA LookupHolds == OnlineSpec => []OnlineInv
BY LookupInit, LookupStep, PTL DEF OnlineSpec

---------------------------------------------------------------------------
(* The theorems.                                                           *)

\* A user is reported on line only if he was at some moment of the lookup.
THEOREM OnlineIsTrue == OnlineSpec => []OnlineReportIsTrue
<1>1. OnlineInv => OnlineReportIsTrue
  BY DEF OnlineInv, LookupInv
<1> QED
  BY <1>1, LookupHolds, PTL

\* A user is reported off line only if he was at some moment of the lookup, or his
\* session moved meanwhile, or a read failed.
THEOREM OfflineIsJustified == OnlineSpec => []OfflineReportIsJustified
<1>1. OnlineInv => OfflineReportIsJustified
  BY DEF OnlineInv, LookupInv
<1> QED
  BY <1>1, LookupHolds, PTL
=============================================================================
