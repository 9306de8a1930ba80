---------------------------- MODULE TokenOnline ----------------------------
(***************************************************************************)
(* GetUserOnlineStatus against the token store.  For each user it issues   *)
(* three Redis commands, GET, HGETALL and EXISTS, and any script and any   *)
(* expiry may fall between two of them.  The users of one call are handled *)
(* one after the other and share nothing, so one lookup is one user.       *)
(***************************************************************************)
EXTENDS TokenStore

VARIABLE
  lookup             \* the user being looked up: the reads so far, the reply

onlineVars == <<storeVars, lookup>>

\* seenOnline, seenOffline, moved and failed are history: what was true at some
\* moment since the lookup began, whether the user's session was replaced or
\* ended, and whether a read returned an error.
Idle ==
  [at |-> "idle", user |-> NoUser, sid |-> NoId, access |-> NoId,
   seenOnline |-> FALSE, seenOffline |-> FALSE, moved |-> FALSE, failed |-> FALSE]

OnlineInit == StoreInit /\ lookup = Idle

\* The loop turns to user u.
BeginLookup(u) ==
  /\ lookup.at \in {"idle", "online", "offline"}
  /\ lookup' = [Idle EXCEPT !.at = "user", !.user = u,
                            !.seenOnline = Online(u), !.seenOffline = ~Online(u)]
  /\ UNCHANGED storeVars

\* GET user:<u>; an absent key ends the lookup.
ReadUser ==
  /\ lookup.at = "user"
  /\ LET entry == userKey[lookup.user] IN
       lookup' = IF Live(entry)
                   THEN [lookup EXCEPT !.at = "session", !.sid = entry.sid]
                   ELSE [lookup EXCEPT !.at = "offline"]
  /\ UNCHANGED storeVars

\* HGETALL token_session:<sid>; an empty reply ends the lookup.
ReadSession ==
  /\ lookup.at = "session"
  /\ LET hash == sessionKey[lookup.sid] IN
       lookup' = IF Live(hash)
                   THEN [lookup EXCEPT !.at = "access", !.access = hash.at]
                   ELSE [lookup EXCEPT !.at = "offline"]
  /\ UNCHANGED storeVars

SlipSessionIsEnough ==
  /\ lookup.at = "access"
  /\ lookup' = [lookup EXCEPT !.at = "online"]
  /\ UNCHANGED storeVars

SlipMoreThanOne ==
  /\ lookup.at = "access"
  /\ lookup' = [lookup EXCEPT !.at = "offline"]
  /\ UNCHANGED storeVars

\* EXISTS access_token:<at>.
ReadAccess ==
  /\ lookup.at = "access"
  /\ lookup' = [lookup EXCEPT
                  !.at = IF Live(accessKey[lookup.access]) THEN "online" ELSE "offline"]
  /\ UNCHANGED storeVars

\* Any of the three commands fails: the error is dropped and the user is reported
\* off line.
ReadError ==
  /\ lookup.at \in {"user", "session", "access"}
  /\ lookup' = [lookup EXCEPT !.at = "offline", !.failed = TRUE]
  /\ UNCHANGED storeVars

\* A step of the store while the lookup is on its way.
Meanwhile ==
  /\ StoreNext
  /\ \/ /\ lookup.at \in {"idle", "online", "offline"}
        /\ lookup' = Idle
     \/ /\ lookup.at \in {"user", "session", "access"}
        /\ \E u \in User :
             /\ u = lookup.user
             /\ lookup' = [lookup EXCEPT
                  !.seenOnline = @ \/ Online(u)',
                  !.seenOffline = @ \/ ~Online(u)',
                  !.moved = @ \/ userKey'[u].sid # userKey[u].sid]

OnlineNext ==
  \/ \E u \in User : BeginLookup(u)
  \/ ReadUser
  \/ ReadSession
  \/ ReadAccess
  \/ ReadError
  \/ Meanwhile

OnlineSpec == OnlineInit /\ [][OnlineNext]_onlineVars

---------------------------------------------------------------------------
\* A user reported on line was on line at some moment of the lookup, although the
\* three reads may see the keys of different moments and an access key may outlive
\* its session.
OnlineReportIsTrue == lookup.at = "online" => lookup.seenOnline

\* A user reported off line was off line at some moment of the lookup, or changed
\* sessions while it went on, or a read failed: with none of these the report is
\* exact.
OfflineReportIsJustified ==
  lookup.at = "offline" => lookup.seenOffline \/ lookup.moved \/ lookup.failed
===========================================================================
