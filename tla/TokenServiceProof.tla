-------------------------- MODULE TokenServiceProof --------------------------
(***************************************************************************)
(* The service uses the store as TokenStore says, for any number of users, *)
(* draws, callers, retries, retransmissions and late commands; so what is  *)
(* proved of the store holds under the service.                            *)
(*                                                                         *)
(* What has to be shown is that a command that is sent again, or late,     *)
(* still has its ids to itself: nobody else has drawn them, and what they  *)
(* were written for is the user the command is about.                      *)
(***************************************************************************)
EXTENDS TokenService, TokenStoreProof

\* The user a call or a late command would issue a pair for.
Issuer(m) == IF m.op = "create" THEN m.user ELSE owner[m.rt]

\* A command with the draw g, for u, is being executed, may be sent again, or is late.
Claims(g, u) ==
  \/ \E c \in Caller : Pending(c) /\ call[c].gen = g /\ Issuer(call[c]) = u
  \/ \E m \in late : m.gen = g /\ Issuer(m) = u

\* A draw is claimed for one user, and written for no other.
ClaimInv ==
  \A g \in Id, u \in User : Claims(g, u) =>
    /\ DrawnFor(u, g)
    /\ \A v \in User : Claims(g, v) => v = u

\* What is presented with a command: tokens that were issued.
Presented(m) ==
  /\ m.op \in {"create", "refresh", "validate", "delete"}
  /\ m.op \in {"create", "delete"} => m.user \in User
  /\ m.op \in {"refresh", "validate"} => m.at \in Id
  /\ m.op = "refresh" => m.rt \in Id /\ owner[m.rt] \in User
  /\ m.gen # NoId => m.op \in {"create", "refresh"}

CommandInv ==
  /\ \A c \in Caller : Pending(c) => Presented(call[c])
  /\ \A m \in late : Presented(m) /\ (m.op \in {"create", "refresh"} => m.gen # NoId)

\* A pair on its way to the caller, or known to one, was written for a user.
PairsOwned ==
  /\ \A c \in Caller :
       call[c].st = "replied" /\ call[c].code = "ok" /\ Draws(c)
         => call[c].gen \in Id /\ owner[call[c].gen] \in User
  /\ \A g \in known : owner[g] \in User

ServiceInv ==
  /\ StoreInv
  /\ ServiceTypeOK
  /\ CommandInv
  /\ PairsOwned
  /\ ClaimInv

---------------------------------------------------------------------------
(* Facts about the store.                                                  *)

\* The owners after a new session of u under the draw g.
Written(g, u) == [x \in Id |-> IF x = g /\ owner[x] = NoUser THEN u ELSE owner[x]]

\* A token that can be redeemed belongs to its owner.
LEMMA RedeemedByOwner ==
  ASSUME StoreInv, NEW at \in Id, NEW rt \in Id, Redeemable(at, rt)
  PROVE  refreshKey[rt].user = owner[rt] /\ owner[rt] \in User
BY DEF StoreInv, Redeemable, RefreshHasSession, SessionIsCurrent

\* A script that opens a session for the user its draw is claimed by is a step of the
\* store.
LEMMA CreateIsStep ==
  ASSUME StoreInv, NEW u \in User, NEW g \in Id, NEW s \in Id, NEW a \in Id, NEW r \in Id,
         Drawn(g, s, a, r), DrawnFor(u, g), Create(u, s, a, r)
  PROVE  StoreNext /\ s = g /\ a = g /\ r = g /\ owner' = Written(g, u)
<1>1. s = g /\ a = g /\ r = g
  BY NoConflictIsFresh DEF Create
<1>2. owner' = Written(g, u)
  BY <1>1, IssueEffect DEF Create, Written
<1> QED
  BY <1>1, <1>2 DEF StoreNext

LEMMA RefreshIsStep ==
  ASSUME StoreInv, NEW at \in Id, NEW rt \in Id,
         NEW g \in Id, NEW s \in Id, NEW a \in Id, NEW r \in Id,
         Drawn(g, s, a, r), DrawnFor(owner[rt], g), Refresh(at, rt, s, a, r)
  PROVE  StoreNext /\ s = g /\ a = g /\ r = g /\ owner' = Written(g, owner[rt])
<1>1. refreshKey[rt].user = owner[rt] /\ owner[rt] \in User
  BY RedeemedByOwner DEF Refresh
<1>2. s = g /\ a = g /\ r = g
  BY NoConflictIsFresh DEF Refresh
<1>3. owner' = Written(g, owner[rt])
  BY <1>1, <1>2, IssueEffect DEF Refresh, Written
<1> QED
  BY <1>1, <1>2, <1>3 DEF StoreNext

\* What a step may do to the owners: write one draw, for u, that had none.
Writes(g, u) == owner' = owner \/ owner' = Written(g, u)

\* The owner of a draw is for ever.
OwnersStay == \A x \in Id : owner[x] \in User => owner'[x] = owner[x]

LEMMA WritesOnce ==
  ASSUME NEW g \in Id, NEW u \in User, Writes(g, u)
  PROVE  OwnersStay
BY UserAssumption DEF Writes, Written, OwnersStay

---------------------------------------------------------------------------
(* Claims.                                                                 *)

\* A step in which the callers in S and the late commands come to other claims: what
\* is claimed after it was claimed before, or by one of these.
LEMMA ClaimsAfter ==
  ASSUME ServiceInv, OwnersStay, NEW S \in SUBSET Caller,
         \A d \in Caller \ S : call'[d] = call[d]
  PROVE  \A h \in Id, v \in User : Claims(h, v)' =>
           \/ Claims(h, v)
           \/ \E e \in S : Pending(e)' /\ call'[e].gen = h /\ Issuer(call[e])' = v
           \/ \E m \in late' \ late : m.gen = h /\ Issuer(m)' = v
<1> SUFFICES ASSUME NEW h \in Id, NEW v \in User, Claims(h, v)'
             PROVE  \/ Claims(h, v)
                    \/ \E e \in S : Pending(e)' /\ call'[e].gen = h /\ Issuer(call[e])' = v
                    \/ \E m \in late' \ late : m.gen = h /\ Issuer(m)' = v
  OBVIOUS
<1>1. \A x \in Id : owner[x] \in User => owner'[x] = owner[x]
  BY DEF OwnersStay
<1>2. CASE \E c \in Caller : Pending(c)' /\ call'[c].gen = h /\ Issuer(call[c])' = v
  <2>1. PICK c \in Caller : Pending(c)' /\ call'[c].gen = h /\ Issuer(call[c])' = v
    BY <1>2
  <2>2. CASE c \notin S
    <3>1. call'[c] = call[c] /\ Pending(c)
      BY <2>1, <2>2 DEF Pending
    <3>2. call[c].gen # NoId
      BY <2>1, <3>1, IdAssumption
    <3>3. call[c].op = "create" \/ (call[c].rt \in Id /\ owner[call[c].rt] \in User)
      BY <3>1, <3>2 DEF ServiceInv, CommandInv, Presented
    <3>4. Issuer(call[c]) = v
      BY <1>1, <2>1, <3>1, <3>3 DEF Issuer
    <3> QED
      BY <2>1, <3>1, <3>4 DEF Claims
  <2> QED
    BY <2>1, <2>2
<1>3. CASE \E m \in late' : m.gen = h /\ Issuer(m)' = v
  <2>1. PICK m \in late' : m.gen = h /\ Issuer(m)' = v
    BY <1>3
  <2>2. CASE m \in late
    <3>1. m.op = "create" \/ (m.rt \in Id /\ owner[m.rt] \in User)
      BY <2>1, <2>2, IdAssumption DEF ServiceInv, CommandInv, Presented
    <3> QED
      BY <1>1, <2>1, <2>2, <3>1 DEF Claims, Issuer
  <2> QED
    BY <2>1, <2>2
<1> QED
  BY <1>2, <1>3 DEF Claims

\* The claims stay exclusive when a step adds one for a draw that is claimed by the
\* same user, or new and claimed by nobody, and writes no other.
LEMMA ClaimsKept ==
  ASSUME ServiceInv, NEW g \in Id, NEW u \in User, Writes(g, u),
         Claims(g, u) \/ (owner[g] = NoUser /\ \A v \in User : ~Claims(g, v)),
         \A h \in Id, v \in User : Claims(h, v)' => Claims(h, v) \/ (h = g /\ v = u)
  PROVE  ClaimInv'
<1> SUFFICES ASSUME NEW h \in Id, NEW v \in User, Claims(h, v)'
             PROVE  DrawnFor(v, h)' /\ \A w \in User : Claims(h, w)' => w = v
  BY DEF ClaimInv
<1>1. ClaimInv
  BY DEF ServiceInv
<1>2. h # g => Claims(h, v) /\ owner'[h] = owner[h]
  BY DEF Writes, Written
<1>3. h = g => v = u
  BY <1>1 DEF ClaimInv
<1>4. h = g => owner'[h] \in {NoUser, u}
  BY <1>1 DEF ClaimInv, DrawnFor, Writes, Written
<1> QED
  BY <1>1, <1>2, <1>3, <1>4 DEF ClaimInv, DrawnFor

LEMMA NoNewClaims ==
  ASSUME ServiceInv, owner' = owner,
         \A h \in Id, v \in User : Claims(h, v)' => Claims(h, v)
  PROVE  ClaimInv'
BY DEF ServiceInv, ClaimInv, DrawnFor

---------------------------------------------------------------------------
(* The other parts of the invariant, for the callers a step leaves alone.  *)

LEMMA CommandsKept ==
  ASSUME ServiceInv, OwnersStay, NEW S \in SUBSET Caller,
         \A d \in Caller \ S : call'[d] = call[d],
         \A c \in S : Pending(c)' => Presented(call[c])',
         \A m \in late' \ late :
           Presented(m)' /\ (m.op \in {"create", "refresh"} => m.gen # NoId)
  PROVE  CommandInv'
<1>1. ASSUME NEW d \in Caller, Pending(d)' PROVE Presented(call[d])'
  <2>1. CASE d \in S
    BY <1>1, <2>1
  <2>2. CASE d \notin S
    <3>1. call'[d] = call[d] /\ Presented(call[d])
      BY <1>1, <2>2 DEF Pending, ServiceInv, CommandInv
    <3> QED
      BY <3>1 DEF Presented, OwnersStay
  <2> QED
    BY <2>1, <2>2
<1>2. ASSUME NEW m \in late'
      PROVE  Presented(m)' /\ (m.op \in {"create", "refresh"} => m.gen # NoId)
  <2>1. CASE m \in late
    BY <2>1 DEF ServiceInv, CommandInv, Presented, OwnersStay
  <2> QED
    BY <2>1, <1>2
<1> QED
  BY <1>1, <1>2 DEF CommandInv

LEMMA PairsKept ==
  ASSUME ServiceInv, OwnersStay, NEW S \in SUBSET Caller,
         \A d \in Caller \ S : call'[d] = call[d],
         \A c \in S : call'[c].st = "replied" /\ call'[c].code = "ok" /\ Draws(c)'
                        => call'[c].gen \in Id /\ owner'[call'[c].gen] \in User,
         \A g \in known' \ known : g \in Id /\ owner[g] \in User
  PROVE  PairsOwned'
<1>1. \A x \in Id : owner[x] \in User => owner'[x] \in User
  BY DEF OwnersStay
<1>2. known \subseteq Id
  BY DEF ServiceInv, ServiceTypeOK
<1>3. \A g \in known' : owner'[g] \in User
  BY <1>1, <1>2 DEF ServiceInv, PairsOwned
<1>4. ASSUME NEW d \in Caller, call'[d].st = "replied", call'[d].code = "ok", Draws(d)'
      PROVE  call'[d].gen \in Id /\ owner'[call'[d].gen] \in User
  <2>1. CASE d \in S
    BY <1>4, <2>1
  <2>2. CASE d \notin S
    BY <1>1, <1>4, <2>2 DEF ServiceInv, PairsOwned, Draws
  <2> QED
    BY <2>1, <2>2
<1> QED
  BY <1>3, <1>4 DEF PairsOwned

\* A caller's record after the fields a step changes.
LEMMA CallKept ==
  ASSUME ServiceTypeOK, NEW c \in Caller, NEW new \in CallType,
         call' = [call EXCEPT ![c] = new]
  PROVE  /\ call' \in [Caller -> CallType]
         /\ call'[c] = new
         /\ \A d \in Caller \ {c} : call'[d] = call[d]
BY DEF ServiceTypeOK

---------------------------------------------------------------------------
(* The command of a draw.                                                  *)

\* It is a step of the store or changes nothing there, and writes its own draw.
LEMMA IssueRuns ==
  ASSUME ServiceInv, NEW c \in Caller, Pending(c), Draws(c), NEW lost, NEW name,
         NEW g \in Id, NEW s \in Id, NEW a \in Id, NEW r \in Id,
         Drawn(g, s, a, r), DrawnFor(Issuer(call[c]), g), {s, a, r} = {g} => name = g,
         RunCreate(c, lost, name, s, a, r) \/ RunRefresh(c, lost, name, s, a, r)
  PROVE  /\ Issuer(call[c]) \in User
         /\ [StoreNext]_storeVars
         /\ Writes(g, Issuer(call[c]))
         /\ \E code \in {"ok", "conflict", "invalid"} :
              /\ call' = [call EXCEPT ![c].st = "replied", ![c].gen = name,
                                      ![c].resent = lost, ![c].code = code]
              /\ code = "ok" => name = g /\ owner'[g] \in User
         /\ parent' \in [Id -> Id \union {NoId}]
<1> DEFINE u == Issuer(call[c])
<1>1. StoreInv /\ parent \in [Id -> Id \union {NoId}] /\ Presented(call[c])
  BY DEF ServiceInv, ServiceTypeOK, CommandInv
<1>2. u \in User
  BY <1>1 DEF Presented, Draws, Issuer
<1>3. Written(g, u)[g] \in User
  BY <1>2 DEF Written, DrawnFor
<1>4. CASE RunCreate(c, lost, name, s, a, r)
  <2>1. call[c].op = "create" /\ parent' = parent /\ u = call[c].user
    BY <1>4 DEF RunCreate, Issuer
  <2>2. CASE Create(call[c].user, s, a, r) /\ Answer(c, lost, name, "ok")
    <3>1. StoreNext /\ s = g /\ a = g /\ r = g /\ owner' = Written(g, u)
      BY <1>1, <1>2, <2>1, <2>2, CreateIsStep
    <3> QED
      BY <1>1, <1>2, <1>3, <2>1, <2>2, <3>1 DEF Answer, Writes
  <2>3. CASE Answer(c, lost, name, "conflict") /\ UNCHANGED storeVars
    BY <1>1, <1>2, <2>1, <2>3 DEF Answer, Writes, storeVars
  <2> QED
    BY <1>4, <2>2, <2>3 DEF RunCreate
<1>5. CASE RunRefresh(c, lost, name, s, a, r)
  <2>1. /\ call[c].op = "refresh" /\ u = owner[call[c].rt]
        /\ call[c].at \in Id /\ call[c].rt \in Id
    BY <1>1, <1>5 DEF RunRefresh, Issuer, Presented
  <2>2. CASE /\ Refresh(call[c].at, call[c].rt, s, a, r)
             /\ Answer(c, lost, name, "ok")
             /\ parent' = [parent EXCEPT ![s] = call[c].rt]
    <3>1. StoreNext /\ s = g /\ a = g /\ r = g /\ owner' = Written(g, u)
      BY <1>1, <2>1, <2>2, RefreshIsStep
    <3>2. parent' \in [Id -> Id \union {NoId}]
      BY <1>1, <2>1, <2>2
    <3> QED
      BY <1>2, <1>3, <2>2, <3>1, <3>2 DEF Answer, Writes
  <2>3. CASE /\ \E code \in {"conflict", "invalid"} : Answer(c, lost, name, code)
             /\ UNCHANGED <<storeVars, parent>>
    BY <1>1, <1>2, <2>3 DEF Answer, Writes, storeVars
  <2> QED
    BY <1>5, <2>2, <2>3 DEF RunRefresh
<1> QED
  BY <1>4, <1>5

\* Such a command keeps the invariant when its draw is claimed by the call, or is new
\* and claimed by nobody.
LEMMA IssueKeeps ==
  ASSUME ServiceInv, NEW c \in Caller, Pending(c), Draws(c), NEW lost \in 0..MaxResend,
         NEW g \in Id, NEW s \in Id, NEW a \in Id, NEW r \in Id, NEW name \in {g, NoId},
         Drawn(g, s, a, r), {s, a, r} = {g} => name = g,
         Claims(g, Issuer(call[c])) \/ (owner[g] = NoUser /\ \A v \in User : ~Claims(g, v)),
         RunCreate(c, lost, name, s, a, r) \/ RunRefresh(c, lost, name, s, a, r),
         UNCHANGED <<late, known, revived>>
  PROVE  ServiceInv' /\ [StoreNext]_storeVars
<1> DEFINE u == Issuer(call[c])
<1>1. StoreInv /\ ServiceTypeOK /\ Presented(call[c]) /\ call[c] \in CallType
  BY DEF ServiceInv, ServiceTypeOK, CommandInv
<1>2. u \in User
  BY <1>1 DEF Presented, Draws, Issuer
<1>3. DrawnFor(u, g)
  BY <1>2 DEF ServiceInv, ClaimInv, DrawnFor
<1>4. /\ [StoreNext]_storeVars
      /\ Writes(g, u)
      /\ parent' \in [Id -> Id \union {NoId}]
  BY <1>3, IssueRuns
<1>5. PICK code \in {"ok", "conflict", "invalid"} :
        /\ call' = [call EXCEPT ![c].st = "replied", ![c].gen = name,
                                ![c].resent = lost, ![c].code = code]
        /\ code = "ok" => name = g /\ owner'[g] \in User
  BY <1>3, IssueRuns
<1> DEFINE new == [call[c] EXCEPT !.st = "replied", !.gen = name, !.resent = lost,
                                  !.code = code]
<1>6. new \in CallType
  BY <1>1 DEF CallType
<1>7. call' = [call EXCEPT ![c] = new]
  BY <1>1, <1>5 DEF ServiceTypeOK
<1>8. /\ call' \in [Caller -> CallType] /\ call'[c] = new
      /\ \A d \in Caller \ {c} : call'[d] = call[d]
  BY <1>1, <1>6, <1>7, CallKept
<1>9. /\ new.op = call[c].op /\ new.user = call[c].user /\ new.at = call[c].at
      /\ new.rt = call[c].rt /\ new.gen = name /\ new.code = code
  BY <1>1 DEF CallType
<1>10. OwnersStay
  BY <1>2, <1>4, WritesOnce
<1>11. Presented(call[c])'
  BY <1>1, <1>8, <1>9, <1>10 DEF Presented, OwnersStay, Draws
<1>12. Issuer(call[c])' = u
  BY <1>1, <1>8, <1>9, <1>10 DEF Issuer, Presented, OwnersStay, Draws
<1>13. StoreInv'
  BY <1>1, <1>4, NextInv
<1>14. ServiceTypeOK'
  BY <1>1, <1>4, <1>8, <1>13 DEF ServiceTypeOK, StoreInv
<1>15. /\ {c} \in SUBSET Caller
       /\ \A e \in {c} : Presented(call[e])'
       /\ \A e \in {c} : call'[e].st = "replied" /\ call'[e].code = "ok" /\ Draws(e)'
                            => call'[e].gen \in Id /\ owner'[call'[e].gen] \in User
       /\ late' \ late = {} /\ known' \ known = {}
  BY <1>5, <1>8, <1>9, <1>11
<1>16. CommandInv'
  BY <1>8, <1>10, <1>15, CommandsKept
<1>17. PairsOwned'
  BY <1>8, <1>10, <1>15, PairsKept
<1>18. \A h \in Id, v \in User : Claims(h, v)' => Claims(h, v) \/ (h = g /\ v = u)
  <2>1. \A h \in Id, v \in User : Claims(h, v)' =>
          \/ Claims(h, v)
          \/ \E e \in {c} : Pending(e)' /\ call'[e].gen = h /\ Issuer(call[e])' = v
          \/ \E m \in late' \ late : m.gen = h /\ Issuer(m)' = v
    BY <1>8, <1>10, <1>15, ClaimsAfter
  <2>2. \A e \in {c} : Issuer(call[e])' = u /\ call'[e].gen = name
    BY <1>8, <1>9, <1>12 DEF Issuer
  <2>3. \A h \in Id : h = name => h = g
    BY IdAssumption
  <2> HIDE DEF u
  <2> QED
    BY <1>15, <2>1, <2>2, <2>3
<1>19. ClaimInv'
  BY <1>2, <1>4, <1>18, ClaimsKept
<1> QED
  BY <1>4, <1>13, <1>14, <1>16, <1>17, <1>19 DEF ServiceInv

---------------------------------------------------------------------------
(* The other steps of a call: those that leave no draw with it.            *)

LEMMA CallerMoves ==
  ASSUME ServiceInv, StoreInv', owner' = owner,
         NEW c \in Caller, NEW new \in CallType, call' = [call EXCEPT ![c] = new],
         new.st \in {"ready", "replied"} => Presented(new),
         new.gen = NoId,
         new.code = "ok" => new.op \notin {"create", "refresh"} \/ new.st # "replied",
         known \subseteq known', \A g \in known' \ known : g \in Id /\ owner[g] \in User,
         UNCHANGED <<late, parent, revived>>
  PROVE  ServiceInv'
<1>1. ServiceTypeOK
  BY DEF ServiceInv
<1>2. /\ call' \in [Caller -> CallType] /\ call'[c] = new
      /\ \A d \in Caller \ {c} : call'[d] = call[d]
  BY <1>1, CallKept
<1>3. OwnersStay
  BY DEF OwnersStay
<1>4. ServiceTypeOK'
  BY <1>1, <1>2 DEF ServiceTypeOK, StoreInv
<1>5. /\ {c} \in SUBSET Caller
      /\ \A e \in {c} : Pending(e)' => Presented(call[e])'
      /\ \A e \in {c} : call'[e].st = "replied" /\ call'[e].code = "ok" /\ Draws(e)'
                           => call'[e].gen \in Id /\ owner'[call'[e].gen] \in User
      /\ late' \ late = {}
  BY <1>2 DEF Pending, Presented, Draws
<1>6. CommandInv'
  BY <1>2, <1>3, <1>5, CommandsKept
<1>7. PairsOwned'
  BY <1>2, <1>3, <1>5, PairsKept
<1>8. \A h \in Id, v \in User : Claims(h, v)' => Claims(h, v)
  <2>1. \A h \in Id, v \in User : Claims(h, v)' =>
          \/ Claims(h, v)
          \/ \E e \in {c} : Pending(e)' /\ call'[e].gen = h /\ Issuer(call[e])' = v
          \/ \E m \in late' \ late : m.gen = h /\ Issuer(m)' = v
    BY <1>2, <1>3, <1>5, ClaimsAfter
  <2> QED
    BY <1>2, <1>5, <2>1, IdAssumption
<1>9. ClaimInv'
  BY <1>8, NoNewClaims
<1> QED
  BY <1>4, <1>6, <1>7, <1>9 DEF ServiceInv

\* A call begins, with a user or with tokens that are known.
LEMMA BeginKeeps ==
  ASSUME ServiceInv, NEW c \in Caller,
         \/ \E u \in User : CallCreate(c, u) \/ CallDelete(c, u)
         \/ \E at, rt \in known : CallRefresh(c, at, rt)
         \/ \E at \in known : CallValidate(c, at)
  PROVE  ServiceInv' /\ UNCHANGED storeVars
<1>1. known \subseteq Id /\ \A g \in known : owner[g] \in User
  BY DEF ServiceInv, ServiceTypeOK, PairsOwned
<1> DEFINE Fresh(new) == /\ new \in CallType /\ Presented(new)
                         /\ new.gen = NoId /\ new.code = "none"
<1>2. Resting \in CallType /\ Resting.gen = NoId /\ Resting.code = "none"
  BY RetryAssumption DEF Resting, CallType
<1>3. PICK new : Begin(c, new) /\ Fresh(new)
  <2>1. ASSUME NEW u \in User, CallCreate(c, u)
        PROVE  \E new : Begin(c, new) /\ Fresh(new)
    <3> DEFINE new == [Resting EXCEPT !.st = "ready", !.op = "create", !.user = u]
    <3>1. Fresh(new)
      BY <1>2 DEF CallType, Presented
    <3> QED
      BY <2>1, <3>1 DEF CallCreate
  <2>2. ASSUME NEW u \in User, CallDelete(c, u)
        PROVE  \E new : Begin(c, new) /\ Fresh(new)
    <3> DEFINE new == [Resting EXCEPT !.st = "ready", !.op = "delete", !.user = u,
                                      !.before = {g \in known : owner[g] = u}]
    <3>1. Fresh(new)
      BY <1>1, <1>2 DEF CallType, Presented
    <3> QED
      BY <2>2, <3>1 DEF CallDelete
  <2>3. ASSUME NEW at \in known, NEW rt \in known, CallRefresh(c, at, rt)
        PROVE  \E new : Begin(c, new) /\ Fresh(new)
    <3> DEFINE new == [Resting EXCEPT !.st = "ready", !.op = "refresh", !.at = at,
                                      !.rt = rt]
    <3>1. Fresh(new)
      BY <1>1, <1>2 DEF CallType, Presented
    <3> QED
      BY <2>3, <3>1 DEF CallRefresh
  <2>4. ASSUME NEW at \in known, CallValidate(c, at)
        PROVE  \E new : Begin(c, new) /\ Fresh(new)
    <3> DEFINE new == [Resting EXCEPT !.st = "ready", !.op = "validate", !.at = at]
    <3>1. Fresh(new)
      BY <1>1, <1>2 DEF CallType, Presented
    <3> QED
      BY <2>4, <3>1 DEF CallValidate
  <2> HIDE DEF Fresh
  <2> QED
    BY <2>1, <2>2, <2>3, <2>4
<1>4. /\ call' = [call EXCEPT ![c] = new]
      /\ UNCHANGED <<storeVars, late, known, parent, revived>>
  BY <1>3 DEF Begin
<1>5. StoreInv' /\ owner' = owner
  BY <1>4, NextInv DEF storeVars, ServiceInv
<1> QED
  BY <1>3, <1>4, <1>5, CallerMoves

\* A call of validate or delete runs its script.
LEMMA OtherKeeps ==
  ASSUME ServiceInv, NEW c \in Caller, Pending(c), NEW lost \in 0..MaxResend,
         RunValidate(c, lost) \/ RunDelete(c, lost), UNCHANGED <<late, known, revived>>
  PROVE  ServiceInv' /\ [StoreNext]_storeVars
<1>1. StoreInv /\ ServiceTypeOK /\ Presented(call[c]) /\ call[c] \in CallType
  BY DEF ServiceInv, ServiceTypeOK, CommandInv
<1>2. call[c].op \in {"validate", "delete"} /\ parent' = parent
  BY DEF RunValidate, RunDelete
<1>3. [StoreNext]_storeVars /\ owner' = owner
  BY <1>1 DEF RunValidate, RunDelete, StoreNext, Validate, Delete, Presented, storeVars
<1>4. PICK code \in {"ok", "invalid"} : Answer(c, lost, NoId, code)
  BY DEF RunValidate, RunDelete
<1> DEFINE new == [call[c] EXCEPT !.st = "replied", !.gen = NoId, !.resent = lost,
                                  !.code = code]
<1>5. new \in CallType /\ new.op = call[c].op /\ new.gen = NoId
  BY <1>1 DEF CallType
<1>6. call' = [call EXCEPT ![c] = new]
  BY <1>1, <1>4 DEF Answer, ServiceTypeOK
<1>7. Presented(new)
  BY <1>1, <1>2, <1>5 DEF Presented, CallType
<1>8. StoreInv'
  BY <1>1, <1>3, NextInv
<1> QED
  BY <1>2, <1>3, <1>5, <1>6, <1>7, <1>8, CallerMoves

\* The command of the call's own draw runs, once more perhaps.
LEMMA OwnDrawKeeps ==
  ASSUME ServiceInv, NEW c \in Caller, Pending(c), NEW lost \in 0..MaxResend,
         call[c].gen # NoId, RunIssue(c, lost, call[c].gen),
         UNCHANGED <<late, known, revived>>
  PROVE  ServiceInv' /\ [StoreNext]_storeVars
<1> DEFINE g == call[c].gen
<1>1. g \in Id
  BY DEF ServiceInv, ServiceTypeOK, CallType
<1>2. Draws(c)
  BY DEF RunIssue, RunCreate, RunRefresh, Draws
<1>3. Issuer(call[c]) \in User
  BY <1>2 DEF Issuer, Draws, ServiceInv, CommandInv, Presented
<1>4. Claims(g, Issuer(call[c]))
  BY DEF Claims
<1>5. Drawn(g, g, g, g) /\ ({g, g, g} = {g} => g = g) /\ g \in {g, NoId}
  BY DEF Drawn
<1>6. RunCreate(c, lost, g, g, g, g) \/ RunRefresh(c, lost, g, g, g, g)
  BY DEF RunIssue
<1> HIDE DEF g
<1> QED
  BY <1>1, <1>2, <1>4, <1>5, <1>6, IssueKeeps

\* A draw that GenerateToken may return is claimed by nobody.
LEMMA UndrawnIsFree ==
  ASSUME Undrawn # {}
  PROVE  /\ NextDraw \in Id
         /\ owner[NextDraw] = NoUser
         /\ \A v \in User : ~Claims(NextDraw, v)
<1>1. NextDraw \in Undrawn
  BY DEF NextDraw
<1> QED
  BY <1>1 DEF Undrawn, InCommands, Claims

LEMMA AttemptKeeps ==
  ASSUME ServiceInv, NEW c \in Caller, Attempt(c)
  PROVE  ServiceInv' /\ [StoreNext]_storeVars
<1> DEFINE lost == call[c].resent
<1>1. Pending(c) /\ lost \in 0..MaxResend /\ UNCHANGED <<late, known, revived>>
  BY DEF Attempt, Pending, ServiceInv, ServiceTypeOK, CallType
<1>2. CASE /\ Draws(c) /\ Undrawn # {}
           /\ \E g \in {NextDraw}, s, a, r \in Id :
                /\ Drawn(g, s, a, r)
                /\ LET name == IF {s, a, r} = {g} THEN g ELSE NoId IN
                     \/ RunCreate(c, lost, name, s, a, r)
                     \/ RunRefresh(c, lost, name, s, a, r)
  <2>1. PICK s \in Id, a \in Id, r \in Id, name \in {NextDraw, NoId} :
          /\ Drawn(NextDraw, s, a, r)
          /\ {s, a, r} = {NextDraw} => name = NextDraw
          /\ RunCreate(c, lost, name, s, a, r) \/ RunRefresh(c, lost, name, s, a, r)
    BY <1>2
  <2> HIDE DEF lost
  <2> QED
    BY <1>1, <1>2, <2>1, UndrawnIsFree, IssueKeeps
<1>3. CASE call[c].gen # NoId /\ RunIssue(c, lost, call[c].gen)
  BY <1>1, <1>3, OwnDrawKeeps
<1>4. CASE RunValidate(c, lost) \/ RunDelete(c, lost)
  BY <1>1, <1>4, OtherKeeps
<1> QED
  BY <1>2, <1>3, <1>4 DEF Attempt

LEMMA ResendKeeps ==
  ASSUME ServiceInv, NEW c \in Caller, Resend(c)
  PROVE  ServiceInv' /\ [StoreNext]_storeVars
<1> DEFINE lost == call[c].resent + 1
<1>1. Pending(c) /\ lost \in 0..MaxResend /\ UNCHANGED <<late, known, revived>>
  BY RetryAssumption DEF Resend, Pending, ServiceInv, ServiceTypeOK, CallType
<1> QED
  BY <1>1, OwnDrawKeeps, OtherKeeps DEF Resend

\* The call leaves its command on its way and keeps the draw.
LEMMA TimeOutKeeps ==
  ASSUME ServiceInv, NEW c \in Caller, TimeOut(c)
  PROVE  ServiceInv' /\ UNCHANGED storeVars
<1> DEFINE g == IF ~Draws(c) THEN NoId ELSE IF call[c].gen = NoId THEN NextDraw
                                               ELSE call[c].gen
           new == [call[c] EXCEPT !.gen = g]
           u == Issuer(call[c])
<1>0. PICK command :
        command = [op |-> call[c].op, user |-> call[c].user, at |-> call[c].at,
                   rt |-> call[c].rt, gen |-> g]
  OBVIOUS
<1>1. /\ call[c].st = "ready" /\ late' = late \union {command}
      /\ call' = [call EXCEPT ![c].gen = g]
      /\ UNCHANGED <<storeVars, known, parent, revived>>
      /\ Draws(c) /\ call[c].gen = NoId => Undrawn # {}
  BY <1>0 DEF TimeOut
<1>2. /\ StoreInv /\ ServiceTypeOK /\ Presented(call[c]) /\ call[c] \in CallType
  BY <1>1 DEF ServiceInv, ServiceTypeOK, CommandInv, Pending
<1>3. /\ Draws(c) => g \in Id /\ u \in User
      /\ ~Draws(c) => g = NoId
  BY <1>1, <1>2, UndrawnIsFree DEF Presented, Draws, Issuer, CallType
<1>4. Draws(c) => Claims(g, u) \/ (owner[g] = NoUser /\ \A v \in User : ~Claims(g, v))
  <2>1. CASE call[c].gen = NoId
    BY <1>1, <2>1, UndrawnIsFree
  <2>2. CASE call[c].gen # NoId
    BY <1>1, <2>2 DEF Claims, Pending
  <2> QED
    BY <2>1, <2>2
<1> HIDE DEF g
<1>5. new \in CallType /\ call' = [call EXCEPT ![c] = new]
  BY <1>1, <1>2, <1>3 DEF CallType, ServiceTypeOK
<1>6. /\ new.st = call[c].st /\ new.op = call[c].op /\ new.user = call[c].user
      /\ new.at = call[c].at /\ new.rt = call[c].rt /\ new.gen = g
  BY <1>2 DEF CallType
<1>7. /\ call' \in [Caller -> CallType] /\ call'[c] = new
      /\ \A d \in Caller \ {c} : call'[d] = call[d]
  BY <1>2, <1>5, CallKept
<1>8. command \in CommandType
  BY <1>0, <1>2, <1>3 DEF CommandType, CallType, Presented
<1>9. owner' = owner /\ OwnersStay /\ StoreInv' /\ UNCHANGED storeVars
  BY <1>1, <1>2, NextInv DEF storeVars, OwnersStay
<1>10. ServiceTypeOK'
  BY <1>1, <1>2, <1>7, <1>8, <1>9 DEF ServiceTypeOK, StoreInv
<1>11. /\ {c} \in SUBSET Caller
       /\ \A e \in {c} : Presented(call[e])'
       /\ \A e \in {c} : call'[e].st = "replied" /\ call'[e].code = "ok" /\ Draws(e)'
                            => call'[e].gen \in Id /\ owner'[call'[e].gen] \in User
       /\ late' \ late \subseteq {command} /\ known' \ known = {}
  BY <1>1, <1>2, <1>3, <1>6, <1>7, <1>9 DEF Presented, Draws
<1>12. /\ Presented(command)'
       /\ command.op \in {"create", "refresh"} => command.gen # NoId
  BY <1>0, <1>2, <1>3, <1>9, IdAssumption DEF Presented, Draws
<1>13. \A m \in late' \ late :
         Presented(m)' /\ (m.op \in {"create", "refresh"} => m.gen # NoId)
  BY <1>11, <1>12
<1>14. CommandInv'
  BY <1>7, <1>9, <1>11, <1>13, CommandsKept
<1>15. PairsOwned'
  BY <1>7, <1>9, <1>11, PairsKept
<1>16. \A h \in Id, v \in User : Claims(h, v)' => Claims(h, v) \/ (h = g /\ v = u)
  <2>1. \A h \in Id, v \in User : Claims(h, v)' =>
          \/ Claims(h, v)
          \/ \E e \in {c} : Pending(e)' /\ call'[e].gen = h /\ Issuer(call[e])' = v
          \/ \E m \in late' \ late : m.gen = h /\ Issuer(m)' = v
    BY <1>7, <1>9, <1>11, ClaimsAfter
  <2>2. \A e \in {c} : Issuer(call[e])' = u /\ call'[e].gen = g
    BY <1>6, <1>7, <1>9 DEF Issuer
  <2>3. \A m \in late' \ late : Issuer(m)' = u /\ m.gen = g
    BY <1>0, <1>9, <1>11 DEF Issuer
  <2> HIDE DEF u
  <2> QED
    BY <2>1, <2>2, <2>3
<1>17. ClaimInv'
  <2>1. CASE Draws(c)
    <3>1. Writes(g, u)
      BY <1>9 DEF Writes
    <3> HIDE DEF u
    <3> QED
      BY <1>3, <1>4, <1>16, <2>1, <3>1, ClaimsKept
  <2>2. CASE ~Draws(c)
    BY <1>3, <1>9, <1>16, <2>2, NoNewClaims, IdAssumption
  <2> QED
    BY <2>1, <2>2
<1> QED
  BY <1>9, <1>10, <1>14, <1>15, <1>17 DEF ServiceInv

\* A step that leaves the callers alone, and may take away a late command.
LEMMA LateKeeps ==
  ASSUME ServiceInv, StoreInv', call' = call, late' \subseteq late, known' = known,
         revived' \subseteq known, parent' \in [Id -> Id \union {NoId}],
         \/ owner' = owner
         \/ \E g \in Id, u \in User : Writes(g, u) /\ Claims(g, u)
  PROVE  ServiceInv'
<1>1. ServiceTypeOK'
  BY DEF ServiceInv, ServiceTypeOK, StoreInv
<1>2. OwnersStay
  BY WritesOnce DEF OwnersStay
<1>3. /\ {} \in SUBSET Caller
      /\ \A d \in Caller \ {} : call'[d] = call[d]
      /\ \A e \in {} : Presented(call[e])'
      /\ \A e \in {} : call'[e].st = "replied" /\ call'[e].code = "ok" /\ Draws(e)'
                         => call'[e].gen \in Id /\ owner'[call'[e].gen] \in User
      /\ late' \ late = {} /\ known' \ known = {}
  OBVIOUS
<1>4. CommandInv'
  BY <1>2, <1>3, CommandsKept
<1>5. PairsOwned'
  BY <1>2, <1>3, PairsKept
<1>6. \A h \in Id, v \in User : Claims(h, v)' => Claims(h, v)
  <2>1. \A h \in Id, v \in User : Claims(h, v)' =>
          \/ Claims(h, v)
          \/ \E e \in {} : Pending(e)' /\ call'[e].gen = h /\ Issuer(call[e])' = v
          \/ \E m \in late' \ late : m.gen = h /\ Issuer(m)' = v
    BY <1>2, <1>3, ClaimsAfter
  <2> QED
    BY <1>3, <2>1
<1>7. ClaimInv'
  BY <1>6, NoNewClaims, ClaimsKept
<1> QED
  BY <1>1, <1>4, <1>5, <1>7 DEF ServiceInv

\* A late command runs: its draw is its own still.
LEMMA RunLateKeeps ==
  ASSUME ServiceInv, NEW m \in late, RunLate(m)
  PROVE  ServiceInv' /\ [StoreNext]_storeVars
<1> DEFINE g == m.gen
           u == Issuer(m)
<1>1. /\ StoreInv /\ ServiceTypeOK /\ m \in CommandType /\ Presented(m)
      /\ m.op \in {"create", "refresh"} => g \in Id
  BY DEF ServiceInv, ServiceTypeOK, CommandInv, CommandType
<1>2. call' = call /\ late' \subseteq late /\ known' = known
  BY DEF RunLate
<1>3. CASE /\ \/ m.op = "create" /\ Create(m.user, g, g, g)
              \/ m.op = "refresh" /\ Refresh(m.at, m.rt, g, g, g)
           /\ parent' = IF m.op = "refresh" THEN [parent EXCEPT ![g] = m.rt] ELSE parent
           /\ revived' = IF g \in known THEN revived \union {g} ELSE revived
  <2>1. g \in Id /\ u \in User
    BY <1>1, <1>3 DEF Presented, Issuer
  <2>2. Claims(g, u)
    BY DEF Claims
  <2>3. Drawn(g, g, g, g) /\ DrawnFor(u, g)
    BY <2>1, <2>2 DEF Drawn, ServiceInv, ClaimInv
  <2>4. StoreNext /\ owner' = Written(g, u)
    <3>1. CASE m.op = "create" /\ Create(m.user, g, g, g)
      <4>1. u = m.user
        BY <3>1 DEF Issuer
      <4> HIDE DEF g, u
      <4> QED
        BY <1>1, <2>1, <2>3, <3>1, <4>1, CreateIsStep
    <3>2. CASE m.op = "refresh" /\ Refresh(m.at, m.rt, g, g, g)
      <4>1. u = owner[m.rt] /\ m.at \in Id /\ m.rt \in Id
        BY <1>1, <3>2 DEF Issuer, Presented
      <4> HIDE DEF g, u
      <4> QED
        BY <1>1, <2>1, <2>3, <3>2, <4>1, RefreshIsStep
    <3> QED
      BY <1>3, <3>1, <3>2
  <2>5. StoreInv'
    BY <1>1, <2>4, NextInv
  <2>6. revived' \subseteq known /\ parent' \in [Id -> Id \union {NoId}]
    BY <1>1, <1>3 DEF ServiceTypeOK, Presented
  <2>7. Writes(g, u)
    BY <2>4 DEF Writes
  <2> HIDE DEF g, u
  <2> QED
    BY <1>2, <2>1, <2>2, <2>4, <2>5, <2>6, <2>7, LateKeeps
<1>4. CASE /\ \/ m.op = "validate" /\ Validate(m.at)
              \/ m.op = "delete" /\ Delete(m.user)
           /\ UNCHANGED <<parent, revived>>
  <2>1. StoreNext /\ owner' = owner
    BY <1>1, <1>4 DEF StoreNext, Validate, Delete, Presented
  <2>2. StoreInv'
    BY <1>1, <2>1, NextInv
  <2> QED
    BY <1>1, <1>2, <1>4, <2>1, <2>2, LateKeeps DEF ServiceTypeOK
<1>5. CASE UNCHANGED <<storeVars, parent, revived>>
  <2>1. StoreInv' /\ owner' = owner /\ UNCHANGED storeVars
    BY <1>1, <1>5, NextInv DEF storeVars
  <2> QED
    BY <1>1, <1>2, <1>5, <2>1, LateKeeps DEF ServiceTypeOK
<1> QED
  BY <1>3, <1>4, <1>5 DEF RunLate

\* The call returns with an outcome: it holds no draw any more.
LEMMA ReturnMoves ==
  ASSUME ServiceInv, NEW c \in Caller, NEW outcome, Return(c, outcome)
  PROVE  \E new \in CallType :
           /\ call' = [call EXCEPT ![c] = new]
           /\ new.st \in {"idle", "done"} /\ new.gen = NoId
<1>1. call \in [Caller -> CallType] /\ call[c] \in CallType
  BY DEF ServiceInv, ServiceTypeOK
<1>2. Resting \in CallType /\ Resting.gen = NoId /\ Resting.st = "idle"
  BY RetryAssumption DEF Resting, CallType
<1>3. CASE <<call[c].op, outcome>> \in {<<"refresh", "invalid">>, <<"delete", "ok">>}
  <2> DEFINE new == [Resting EXCEPT !.st = "done", !.op = call[c].op, !.code = outcome,
                       !.at = call[c].at, !.rt = call[c].rt, !.before = call[c].before]
  <2>1. new \in CallType /\ new.st = "done" /\ new.gen = NoId
    BY <1>1, <1>2, <1>3 DEF CallType
  <2>2. call' = [call EXCEPT ![c] = new]
    BY <1>1, <1>3 DEF Return
  <2> HIDE DEF new
  <2> QED
    BY <2>1, <2>2
<1>4. CASE <<call[c].op, outcome>> \notin {<<"refresh", "invalid">>, <<"delete", "ok">>}
  <2>1. call' = [call EXCEPT ![c] = Resting]
    BY <1>1, <1>4 DEF Return
  <2> QED
    BY <1>2, <2>1
<1> QED
  BY <1>3, <1>4

LEMMA ReturnKeeps ==
  ASSUME ServiceInv, NEW c \in Caller, ReturnReply(c) \/ Retry(c) \/ ReturnInternal(c)
  PROVE  ServiceInv' /\ UNCHANGED storeVars
<1>1. StoreInv' /\ owner' = owner /\ UNCHANGED <<storeVars, late, parent, revived>>
  BY NextInv DEF ServiceInv, storeVars, ReturnReply, Retry, ReturnInternal
<1>2. call[c] \in CallType /\ call \in [Caller -> CallType]
  BY DEF ServiceInv, ServiceTypeOK
<1>3. ASSUME NEW outcome, Return(c, outcome), known \subseteq known',
             \A g \in known' \ known : g \in Id /\ owner[g] \in User
      PROVE  ServiceInv'
  <2>1. PICK new \in CallType :
          /\ call' = [call EXCEPT ![c] = new]
          /\ new.st \in {"idle", "done"} /\ new.gen = NoId
    BY <1>3, ReturnMoves
  <2> QED
    BY <1>1, <1>3, <2>1, CallerMoves
<1>4. CASE ReturnReply(c)
  <2>1. known \subseteq known' /\ \A g \in known' \ known : g \in Id /\ owner[g] \in User
    BY <1>4 DEF ReturnReply, ServiceInv, PairsOwned
  <2> QED
    BY <1>1, <1>3, <1>4, <2>1 DEF ReturnReply
<1>5. CASE ReturnInternal(c)
  BY <1>1, <1>3, <1>5 DEF ReturnInternal
<1>6. CASE Retry(c)
  <2>1. CASE call[c].try + 1 < MaxRetries
    <3> DEFINE new == [call[c] EXCEPT !.st = "ready", !.gen = NoId, !.try = @ + 1]
    <3>1. call[c].st = "replied" /\ call[c].code = "conflict" /\ known' = known
      BY <1>6 DEF Retry
    <3>2. Presented(call[c])
      BY <3>1 DEF ServiceInv, CommandInv, Pending
    <3>2a. call[c].try + 1 \in 0..(MaxRetries - 1)
      <4>1. call[c].try \in 0..(MaxRetries - 1) /\ MaxRetries \in Nat
        BY <1>2, RetryAssumption DEF CallType
      <4> QED
        BY <2>1, <4>1
    <3>3. new \in CallType /\ new.gen = NoId /\ new.code = "conflict"
      BY <1>2, <3>1, <3>2a DEF CallType
    <3>4. Presented(new)
      BY <1>2, <3>2 DEF Presented, CallType
    <3>5. call' = [call EXCEPT ![c] = new]
      BY <1>2, <1>6, <2>1 DEF Retry
    <3> HIDE DEF new
    <3> QED
      BY <1>1, <3>1, <3>3, <3>4, <3>5, CallerMoves
  <2>2. CASE ~(call[c].try + 1 < MaxRetries)
    BY <1>1, <1>3, <1>6, <2>2 DEF Retry
  <2> QED
    BY <2>1, <2>2
<1> QED
  BY <1>1, <1>4, <1>5, <1>6

---------------------------------------------------------------------------
(* The theorems.                                                           *)

LEMMA ServiceInitInv == ServiceInit => ServiceInv
<1> SUFFICES ASSUME ServiceInit PROVE ServiceInv
  OBVIOUS
<1>1. StoreInv
  BY InitInv DEF ServiceInit
<1>2. Resting \in CallType /\ Resting.st = "idle"
  BY RetryAssumption DEF Resting, CallType
<1>3. ServiceTypeOK
  BY <1>1, <1>2 DEF ServiceInit, ServiceTypeOK, StoreInv
<1>4. CommandInv /\ PairsOwned /\ ClaimInv
  BY <1>2 DEF ServiceInit, CommandInv, PairsOwned, ClaimInv, Claims, Pending
<1> QED
  BY <1>1, <1>3, <1>4 DEF ServiceInv

\* Every step of the service is a step of the store, or leaves it alone.
LEMMA ServiceStep ==
  ServiceInv /\ [ServiceNext]_serviceVars => ServiceInv' /\ [StoreNext]_storeVars
<1> SUFFICES ASSUME ServiceInv, [ServiceNext]_serviceVars
             PROVE  ServiceInv' /\ [StoreNext]_storeVars
  OBVIOUS
<1>1. ASSUME NEW c \in Caller,
             \/ \E u \in User : CallCreate(c, u) \/ CallDelete(c, u)
             \/ \E at, rt \in known : CallRefresh(c, at, rt)
             \/ \E at \in known : CallValidate(c, at)
      PROVE  ServiceInv' /\ [StoreNext]_storeVars
  BY <1>1, BeginKeeps
<1>2. ASSUME NEW c \in Caller, Attempt(c) PROVE ServiceInv' /\ [StoreNext]_storeVars
  BY <1>2, AttemptKeeps
<1>3. ASSUME NEW c \in Caller, Resend(c) PROVE ServiceInv' /\ [StoreNext]_storeVars
  BY <1>3, ResendKeeps
<1>4. ASSUME NEW c \in Caller, TimeOut(c) PROVE ServiceInv' /\ [StoreNext]_storeVars
  BY <1>4, TimeOutKeeps
<1>5. ASSUME NEW c \in Caller, ReturnReply(c) \/ Retry(c) \/ ReturnInternal(c)
      PROVE  ServiceInv' /\ [StoreNext]_storeVars
  BY <1>5, ReturnKeeps
<1>6. ASSUME NEW m \in late, RunLate(m) PROVE ServiceInv' /\ [StoreNext]_storeVars
  BY <1>6, RunLateKeeps
<1>7. CASE Tick /\ UNCHANGED callVars
  <2>1. StoreNext /\ owner' = owner
    BY <1>7 DEF StoreNext, Tick
  <2>2. StoreInv'
    BY <2>1, NextInv DEF ServiceInv
  <2> QED
    BY <1>7, <2>1, <2>2, LateKeeps DEF callVars, ServiceInv, ServiceTypeOK
<1>8. CASE UNCHANGED serviceVars
  <2>1. StoreInv' /\ owner' = owner /\ UNCHANGED storeVars
    BY <1>8, NextInv DEF ServiceInv, serviceVars, storeVars
  <2> QED
    BY <1>8, <2>1, LateKeeps DEF serviceVars, callVars, ServiceInv, ServiceTypeOK
<1> QED
  BY <1>1, <1>2, <1>3, <1>4, <1>5, <1>6, <1>7, <1>8 DEF ServiceNext

\* The service uses the store as the store requires, whatever is sent again or late:
\* every draw a command carries is new or its own user's.
THEOREM ServiceImplementsStore == ServiceSpec => StoreSpec
<1>1. ServiceInit => ServiceInv /\ StoreInit
  BY ServiceInitInv DEF ServiceInit
<1>2. ServiceInv /\ [ServiceNext]_serviceVars => ServiceInv' /\ [StoreNext]_storeVars
  BY ServiceStep
<1> QED
  BY <1>1, <1>2, PTL DEF ServiceSpec, StoreSpec

\* Calls, commands and what callers know have their types: no call is tried more often
\* than maxRetries allows.
THEOREM ServiceTypes == ServiceSpec => []ServiceTypeOK
<1>1. ServiceInit => ServiceInv
  BY ServiceInitInv
<1>2. ServiceInv /\ [ServiceNext]_serviceVars => ServiceInv'
  BY ServiceStep
<1>3. ServiceInv => ServiceTypeOK
  BY DEF ServiceInv
<1> QED
  BY <1>1, <1>2, <1>3, PTL DEF ServiceSpec

\* So under the service too a user never has two pairs that work.
THEOREM ServiceOneSession == ServiceSpec => []OneSessionPerUser
BY ServiceImplementsStore, OneSession

\* And what its callers see is the registry: one session after the other, for all their
\* retries and late commands.
THEOREM ServiceImplementsRegistry == ServiceSpec => RegistrySpec
BY ServiceImplementsStore, StoreImplementsRegistry

-----------------------------------------------------------------------------
(***************************************************************************)
(* What callers can rely on.  The argument has one turning point: a pair   *)
(* that is known is written by no call that is under way (HeldApart), and  *)
(* a late command that writes it is put down as reviving it.  Hence a pair *)
(* that is known and not revived can only die (RetiredStep), and what was  *)
(* found dead once, by a refresh, a logout or a reply "invalid", is dead   *)
(* for good.                                                               *)
(***************************************************************************)

\* The draw of a call under way is known to nobody, and no other call has it.
HeldApart ==
  \A c \in Caller : Pending(c) /\ call[c].gen # NoId =>
    /\ call[c].gen \notin known
    /\ \A d \in Caller : Pending(d) /\ call[d].gen = call[c].gen => d = c

\* A refresh token that bought a session was known, is gone, and bought no other;
\* unless it was revived.
Exchanged ==
  /\ \A m \in late : m.op = "refresh" => m.rt \in known
  /\ \A g \in Id : parent[g] # NoId =>
       /\ parent[g] \in known
       /\ parent[g] \in revived \/ ~Redeemable(parent[g], parent[g])
  /\ \A g, h \in Id :
       parent[g] = parent[h] /\ parent[g] \notin revived \union {NoId} => g = h

\* A call that has been told its refresh token is invalid, or is about to be.
ToldInvalid(k) ==
  k.op = "refresh" /\ (k.st = "done" \/ (k.st = "replied" /\ k.code = "invalid"))

\* A call of Delete whose script has run.
LoggedOut(k) == k.op = "delete" /\ k.st \in {"replied", "done"}

\* What a call presents is known, and what it found dead is dead.
Sound(k) ==
  /\ k.op = "refresh" /\ k.st # "idle" => k.at \in known /\ k.rt \in known
  /\ ToldInvalid(k) => ~Redeemable(k.at, k.rt) \/ k.rt \in revived
  /\ k.op = "delete" /\ k.st # "idle" => k.before \subseteq known
  /\ k.op = "delete" /\ k.st \in {"ready", "replied"} =>
       \A g \in k.before : owner[g] = k.user
  /\ LoggedOut(k) => \A g \in k.before \ revived : ~Validates(g) /\ ~Redeemable(g, g)

SoundInv == \A c \in Caller : Sound(call[c])

SafetyInv ==
  /\ ServiceInv
  /\ HeldApart
  /\ Exchanged
  /\ SoundInv

---------------------------------------------------------------------------
(* A pair that no script writes can only die.                              *)

\* A session is opened under the draw g.
Writing(g) == ~Conflict(g, g, g) /\ \E u \in User : Issue(u, g, g, g)

\* A step of the store that opens no session.
Quiet ==
  \/ \E a \in Id : Validate(a)
  \/ \E u \in User : Delete(u)
  \/ Tick
  \/ UNCHANGED storeVars

LEMMA DeadStays ==
  ASSUME StoreInv, NEW h \in Id, Quiet \/ \E g \in Id \ {h} : Writing(g)
  PROVE  /\ Validates(h)' => Validates(h)
         /\ Redeemable(h, h)' => Redeemable(h, h)
<1> USE DEF Validates, Redeemable, Live
<1>1. TypeOK /\ (accessKey[h].ttl > 0 => accessKey[h].sid = h)
  BY DEF StoreInv, AccessNamesSession
<1>2. CASE \E g \in Id \ {h} : Writing(g)
  <2>1. PICK g \in Id \ {h}, u \in User : Issue(u, g, g, g)
    BY <1>2 DEF Writing
  <2>2. /\ accessKey'[h] \in {NoAccess, accessKey[h]}
        /\ sessionKey'[h] \in {NoSession, sessionKey[h]}
        /\ refreshKey'[h] \in {NoRefresh, refreshKey[h]}
    BY <2>1, IssueEffect
  <2> QED
    BY <1>1, <2>2 DEF NoAccess, NoSession, NoRefresh
<1>3. CASE \E a \in Id : Validate(a)
  <2>1. PICK a \in Id : Validate(a)
    BY <1>3
  <2>2. /\ accessKey' = [accessKey EXCEPT ![a].ttl = AccessExpire]
        /\ sessionKey' = [sessionKey EXCEPT ![accessKey[a].sid].seen = TRUE]
        /\ refreshKey' = refreshKey
        /\ accessKey[a].ttl > 0 /\ sessionKey[accessKey[a].sid].ttl > 0
    BY <2>1 DEF Validate
  <2>3. /\ accessKey'[h].sid = accessKey[h].sid
        /\ h # a => accessKey'[h] = accessKey[h]
    BY <1>1, <2>2 DEF TypeOK, AccessEntry
  <2>4. sessionKey'[h].ttl = sessionKey[h].ttl
    BY <1>1, <2>2 DEF TypeOK, SessionEntry
  <2>5. accessKey[a].sid = a
    BY <2>2 DEF StoreInv, AccessNamesSession
  <2> QED
    BY <1>1, <2>2, <2>3, <2>4, <2>5
<1>4. CASE \E u \in User : Delete(u)
  <2>1. /\ accessKey'[h] \in {NoAccess, accessKey[h]}
        /\ sessionKey'[h] \in {NoSession, sessionKey[h]}
        /\ refreshKey'[h] \in {NoRefresh, refreshKey[h]}
    BY <1>1, <1>4 DEF Delete, Without, TypeOK
  <2> QED
    BY <1>1, <2>1 DEF NoAccess, NoSession, NoRefresh
<1>5. CASE Tick
  <2>1. /\ accessKey'[h].ttl > 0 =>
             accessKey[h].ttl > 0 /\ accessKey'[h].sid = accessKey[h].sid
        /\ sessionKey'[h].ttl > 0 => sessionKey[h].ttl > 0
        /\ refreshKey'[h].ttl > 0 =>
             refreshKey[h].ttl > 0 /\ refreshKey'[h].at = refreshKey[h].at
    <3>1. accessKey'[h] =
            IF accessKey[h].ttl > 1 THEN [accessKey[h] EXCEPT !.ttl = @ - 1] ELSE NoAccess
      BY <1>1, <1>5 DEF Tick, Aged, TypeOK
    <3>2. sessionKey'[h] =
            IF sessionKey[h].ttl > 1 THEN [sessionKey[h] EXCEPT !.ttl = @ - 1] ELSE NoSession
      BY <1>1, <1>5 DEF Tick, Aged, TypeOK
    <3>3. refreshKey'[h] =
            IF refreshKey[h].ttl > 1 THEN [refreshKey[h] EXCEPT !.ttl = @ - 1] ELSE NoRefresh
      BY <1>1, <1>5 DEF Tick, Aged, TypeOK
    <3>4. accessKey[h] \in AccessEntry /\ sessionKey[h] \in SessionEntry
            /\ refreshKey[h] \in RefreshEntry
      BY <1>1 DEF TypeOK
    <3>5. accessKey[h].ttl \in Nat /\ sessionKey[h].ttl \in Nat /\ refreshKey[h].ttl \in Nat
      BY <3>4, ExpireAssumption DEF AccessEntry, SessionEntry, RefreshEntry
    <3> QED
      BY <3>1, <3>2, <3>3, <3>4, <3>5
         DEF NoAccess, NoSession, NoRefresh, AccessEntry, SessionEntry, RefreshEntry
  <2> QED
    BY <1>1, <2>1
<1>6. CASE UNCHANGED storeVars
  BY <1>6 DEF storeVars
<1> QED
  BY <1>2, <1>3, <1>4, <1>5, <1>6 DEF Quiet

\* After a logout no pair written for the user works.
LEMMA DeleteKills ==
  ASSUME StoreInv, NEW u \in User, Delete(u), NEW g \in Id, owner[g] = u
  PROVE  ~Validates(g)' /\ ~Redeemable(g, g)'
<1>1. TypeOK /\ (Live(accessKey[g]) => accessKey[g].sid = g)
  BY DEF StoreInv, AccessNamesSession
<1>2. /\ accessKey'[g] \in {NoAccess, accessKey[g]}
      /\ refreshKey'[g] = IF g \in StoredSession(u) THEN NoRefresh ELSE refreshKey[g]
      /\ sessionKey'[g] = IF g \in StoredSession(u) THEN NoSession ELSE sessionKey[g]
  BY <1>1, StoredIsTheSession DEF Delete, Without, TypeOK
<1>3. Live(sessionKey[g]) => g \in StoredSession(u)
  BY StoredIsTheSession DEF StoreInv, SessionIsCurrent
<1>4. Live(refreshKey[g]) => g \in StoredSession(u)
  BY <1>3 DEF StoreInv, RefreshHasSession
<1> QED
  BY <1>1, <1>2, <1>3, <1>4 DEF Validates, Redeemable, Live, NoAccess, NoRefresh, NoSession

\* A redeemed refresh token is gone.
LEMMA RedeemedIsGone ==
  ASSUME StoreInv, NEW g \in Id, NEW at \in Id, NEW rt \in Id, Refresh(at, rt, g, g, g)
  PROVE  /\ Writing(g) /\ rt # g
         /\ Redeemable(rt, rt) /\ ~Redeemable(rt, rt)'
<1>1. refreshKey[rt].user = owner[rt] /\ owner[rt] \in User
  BY RedeemedByOwner DEF Refresh
<1>2. Live(refreshKey[rt]) /\ ~Live(refreshKey[g]) /\ ~Conflict(g, g, g)
  BY DEF Refresh, Redeemable, Conflict
<1>3. Redeemable(rt, rt)
  BY <1>2 DEF Redeemable, StoreInv, RefreshHasSession
<1>4. rt \in StoredSession(owner[rt])
  BY <1>1, <1>2, StoredIsTheSession DEF StoreInv, RefreshHasSession
<1>5. refreshKey'[rt] = NoRefresh
  BY <1>1, <1>2, <1>4, IssueEffect DEF Refresh
<1> QED
  BY <1>1, <1>2, <1>3, <1>5 DEF Writing, Refresh, Redeemable, Live, NoRefresh

---------------------------------------------------------------------------
(* What the steps of the service do to the store.                          *)

\* A command of a draw: it opens the session of its draw, or it changes nothing and its
\* reply says why.
LEMMA IssueOutcome ==
  ASSUME ServiceInv, NEW c \in Caller, Pending(c), NEW lost, NEW name,
         NEW g \in Id, NEW s \in Id, NEW a \in Id, NEW r \in Id, Drawn(g, s, a, r),
         RunCreate(c, lost, name, s, a, r) \/ RunRefresh(c, lost, name, s, a, r)
  PROVE  \/ /\ Writing(g)
            /\ Answer(c, lost, name, "ok")
            /\ \/ parent' = parent
               \/ /\ call[c].op = "refresh"
                  /\ Refresh(call[c].at, call[c].rt, g, g, g)
                  /\ parent' = [parent EXCEPT ![g] = call[c].rt]
         \/ /\ UNCHANGED <<storeVars, parent>>
            /\ \/ Answer(c, lost, name, "conflict")
               \/ /\ call[c].op = "refresh"
                  /\ ~Redeemable(call[c].at, call[c].rt)
                  /\ Answer(c, lost, name, "invalid")
<1>1. StoreInv /\ Presented(call[c])
  BY DEF ServiceInv, CommandInv
<1>2. CASE RunCreate(c, lost, name, s, a, r)
  <2>1. call[c].user \in User /\ parent' = parent
    BY <1>1, <1>2 DEF RunCreate, Presented
  <2>2. CASE Create(call[c].user, s, a, r) /\ Answer(c, lost, name, "ok")
    <3>1. s = g /\ a = g /\ r = g
      BY <2>2, NoConflictIsFresh DEF Create
    <3> QED
      BY <2>1, <2>2, <3>1 DEF Create, Writing
  <2> QED
    BY <1>2, <2>1, <2>2 DEF RunCreate
<1>3. CASE RunRefresh(c, lost, name, s, a, r)
  <2>1. call[c].op = "refresh" /\ call[c].at \in Id /\ call[c].rt \in Id
    BY <1>1, <1>3 DEF RunRefresh, Presented
  <2>2. CASE /\ Refresh(call[c].at, call[c].rt, s, a, r)
             /\ Answer(c, lost, name, "ok")
             /\ parent' = [parent EXCEPT ![s] = call[c].rt]
    <3>1. s = g /\ a = g /\ r = g
      BY <2>2, NoConflictIsFresh DEF Refresh
    <3>2. Writing(g)
      BY <1>1, <2>1, <2>2, <3>1, RedeemedIsGone
    <3> QED
      BY <2>1, <2>2, <3>1, <3>2
  <2> QED
    BY <1>3, <2>1, <2>2 DEF RunRefresh
<1> QED
  BY <1>2, <1>3

\* A new draw is known to nobody, and no call has it.
LEMMA NewDrawIsApart ==
  ASSUME ServiceInv, Undrawn # {}
  PROVE  /\ NextDraw \in Id \ known
         /\ \A d \in Caller : Pending(d) => call[d].gen # NextDraw
<1>1. NextDraw \in Undrawn
  BY DEF NextDraw
<1> QED
  BY <1>1, UserAssumption DEF Undrawn, InCommands, ServiceInv, PairsOwned

\* What a caller's script does: it opens the session of a draw that is known to nobody
\* and apart from the other calls, or it is one of the other scripts.
Runs(c) ==
  \E lost \in Nat, g \in Id \ known, s, a, r \in Id : \E name \in {g, NoId} :
    /\ \A d \in Caller : Pending(d) /\ call[d].gen = g => d = c
    /\ Drawn(g, s, a, r)
    /\ RunCreate(c, lost, name, s, a, r) \/ RunRefresh(c, lost, name, s, a, r)

RunsOther(c) == \E lost \in Nat : RunValidate(c, lost) \/ RunDelete(c, lost)

LEMMA CommandRuns ==
  ASSUME ServiceInv, HeldApart, NEW c \in Caller, Attempt(c) \/ Resend(c)
  PROVE  /\ Pending(c) /\ UNCHANGED <<late, known, revived>>
         /\ Runs(c) \/ RunsOther(c)
<1>1. Pending(c) /\ UNCHANGED <<late, known, revived>>
  BY DEF Attempt, Resend, Pending
<1>2. call[c].resent \in Nat /\ call[c].resent + 1 \in Nat
  BY RetryAssumption DEF ServiceInv, ServiceTypeOK, CallType
<1>3. ASSUME NEW lost \in Nat, call[c].gen # NoId, RunIssue(c, lost, call[c].gen)
      PROVE  Runs(c)
  <2>1. PICK g : g = call[c].gen
    OBVIOUS
  <2>2. g \in Id \ known /\ \A d \in Caller : Pending(d) /\ call[d].gen = g => d = c
    BY <1>1, <1>3, <2>1 DEF HeldApart, ServiceInv, ServiceTypeOK, CallType
  <2>3. Drawn(g, g, g, g)
    BY DEF Drawn
  <2>4. RunCreate(c, lost, g, g, g, g) \/ RunRefresh(c, lost, g, g, g, g)
    BY <1>3, <2>1 DEF RunIssue
  <2>5. \E name \in {g, NoId} :
          /\ \A d \in Caller : Pending(d) /\ call[d].gen = g => d = c
          /\ Drawn(g, g, g, g)
          /\ RunCreate(c, lost, name, g, g, g) \/ RunRefresh(c, lost, name, g, g, g)
    BY <2>2, <2>3, <2>4
  <2> QED
    BY <2>2, <2>5 DEF Runs
<1>4. CASE Attempt(c)
  <2>1. CASE /\ Undrawn # {}
             /\ \E g \in {NextDraw}, s, a, r \in Id :
                  /\ Drawn(g, s, a, r)
                  /\ LET name == IF {s, a, r} = {g} THEN g ELSE NoId IN
                       \/ RunCreate(c, call[c].resent, name, s, a, r)
                       \/ RunRefresh(c, call[c].resent, name, s, a, r)
    <3>1. PICK g \in {NextDraw} : \E s, a, r \in Id :
                  /\ Drawn(g, s, a, r)
                  /\ LET name == IF {s, a, r} = {g} THEN g ELSE NoId IN
                       \/ RunCreate(c, call[c].resent, name, s, a, r)
                       \/ RunRefresh(c, call[c].resent, name, s, a, r)
      BY <2>1
    <3>2. PICK s \in Id, a \in Id, r \in Id : \E name \in {g, NoId} :
            /\ Drawn(g, s, a, r)
            /\ \/ RunCreate(c, call[c].resent, name, s, a, r)
               \/ RunRefresh(c, call[c].resent, name, s, a, r)
      BY <3>1
    <3>3. g \in Id \ known /\ \A d \in Caller : Pending(d) /\ call[d].gen = g => d = c
      BY <2>1, <3>1, NewDrawIsApart
    <3> QED
      BY <1>1, <1>2, <3>2, <3>3 DEF Runs
  <2>2. ASSUME RunValidate(c, call[c].resent) \/ RunDelete(c, call[c].resent)
        PROVE  RunsOther(c)
    BY <1>2, <2>2 DEF RunsOther
  <2>3. ASSUME call[c].gen # NoId, RunIssue(c, call[c].resent, call[c].gen)
        PROVE  Runs(c)
    BY <1>2, <1>3, <2>3
  <2> QED
    BY <1>1, <1>4, <2>1, <2>2, <2>3 DEF Attempt
<1>5. CASE Resend(c)
  BY <1>1, <1>2, <1>3, <1>5 DEF Resend, RunsOther
<1> QED
  BY <1>1, <1>4, <1>5

\* What is known and not revived is written by no step.
Untouched == \A h \in known \ revived' : Quiet \/ \E g \in Id \ {h} : Writing(g)

LEMMA CommandUntouched ==
  ASSUME ServiceInv, NEW c \in Caller, Pending(c), Runs(c) \/ RunsOther(c)
  PROVE  Untouched
<1>1. CASE Runs(c)
  <2>1. PICK lost \in Nat, g \in Id \ known, s \in Id, a \in Id, r \in Id :
          \E name \in {g, NoId} :
            /\ Drawn(g, s, a, r)
            /\ RunCreate(c, lost, name, s, a, r) \/ RunRefresh(c, lost, name, s, a, r)
    BY <1>1 DEF Runs
  <2>2. Writing(g) \/ UNCHANGED storeVars
    BY <2>1, IssueOutcome
  <2> QED
    BY <2>2 DEF Untouched, Quiet
<1>2. CASE RunsOther(c)
  <2>1. Presented(call[c])
    BY DEF ServiceInv, CommandInv
  <2> QED
    BY <1>2, <2>1 DEF RunsOther, RunValidate, RunDelete, Presented, Untouched, Quiet
<1> QED
  BY <1>1, <1>2

LEMMA LateUntouched ==
  ASSUME ServiceInv, NEW m \in late, RunLate(m)
  PROVE  Untouched /\ revived \subseteq revived'
<1>1. StoreInv /\ Presented(m) /\ (m.op \in {"create", "refresh"} => m.gen \in Id)
  BY DEF ServiceInv, ServiceTypeOK, CommandInv, CommandType
<1>2. CASE /\ \/ m.op = "create" /\ Create(m.user, m.gen, m.gen, m.gen)
              \/ m.op = "refresh" /\ Refresh(m.at, m.rt, m.gen, m.gen, m.gen)
           /\ revived' = IF m.gen \in known THEN revived \union {m.gen} ELSE revived
  <2>1. Writing(m.gen) /\ m.gen \in Id
    BY <1>1, <1>2, RedeemedIsGone DEF Create, Writing, Presented
  <2>2. \A h \in known \ revived' : m.gen \in Id \ {h}
    BY <1>2, <2>1
  <2> QED
    BY <1>2, <2>1, <2>2 DEF Untouched
<1>3. CASE (\/ m.op = "validate" /\ Validate(m.at)
            \/ m.op = "delete" /\ Delete(m.user)) /\ UNCHANGED revived
  BY <1>1, <1>3 DEF Presented, Untouched, Quiet
<1>4. CASE UNCHANGED <<storeVars, revived>>
  BY <1>4 DEF Untouched, Quiet
<1> QED
  BY <1>2, <1>3, <1>4 DEF RunLate

\* The steps of a caller that run no script.
Talks(c) ==
  \/ \E u \in User : CallCreate(c, u) \/ CallDelete(c, u)
  \/ \E at, rt \in known : CallRefresh(c, at, rt)
  \/ \E at \in known : CallValidate(c, at)
  \/ TimeOut(c)
  \/ ReturnReply(c)
  \/ Retry(c)
  \/ ReturnInternal(c)

LEMMA TalksOnly ==
  ASSUME NEW c \in Caller, Talks(c)
  PROVE  UNCHANGED <<storeVars, parent, revived>> /\ known \subseteq known'
BY DEF Talks, CallCreate, CallDelete, CallRefresh, CallValidate, Begin, TimeOut,
       ReturnReply, Retry, ReturnInternal

LEMMA StepKinds ==
  ASSUME [ServiceNext]_serviceVars
  PROVE  \/ \E c \in Caller : Attempt(c) \/ Resend(c)
         \/ \E c \in Caller : Talks(c)
         \/ \E m \in late : RunLate(m)
         \/ Tick /\ UNCHANGED callVars
         \/ UNCHANGED serviceVars
BY DEF ServiceNext, Talks

LEMMA StepUntouched ==
  ASSUME ServiceInv, HeldApart, [ServiceNext]_serviceVars
  PROVE  Untouched /\ known \subseteq known' /\ revived \subseteq revived'
<1>1. ASSUME NEW c \in Caller, Attempt(c) \/ Resend(c)
      PROVE  Untouched /\ known \subseteq known' /\ revived \subseteq revived'
  BY <1>1, CommandRuns, CommandUntouched
<1>2. ASSUME NEW c \in Caller, Talks(c)
      PROVE  Untouched /\ known \subseteq known' /\ revived \subseteq revived'
  BY <1>2, TalksOnly DEF Untouched, Quiet
<1>3. ASSUME NEW m \in late, RunLate(m)
      PROVE  Untouched /\ known \subseteq known' /\ revived \subseteq revived'
  BY <1>3, LateUntouched DEF RunLate
<1>4. CASE Tick /\ UNCHANGED callVars
  BY <1>4 DEF Untouched, Quiet, callVars
<1>5. CASE UNCHANGED serviceVars
  BY <1>5 DEF Untouched, Quiet, callVars, serviceVars
<1> QED
  BY <1>1, <1>2, <1>3, <1>4, <1>5, StepKinds

\* A pair that is known and not revived can only die.
OnlyDies == \A h \in known \ revived' : /\ Validates(h)' => Validates(h)
                                        /\ Redeemable(h, h)' => Redeemable(h, h)

LEMMA RetiredStep ==
  ASSUME ServiceInv, HeldApart, [ServiceNext]_serviceVars
  PROVE  OnlyDies /\ known \subseteq known' /\ revived \subseteq revived'
<1>1. StoreInv /\ known \subseteq Id
  BY DEF ServiceInv, ServiceTypeOK
<1>2. Untouched /\ known \subseteq known' /\ revived \subseteq revived'
  BY StepUntouched
<1>3. ASSUME NEW h \in known \ revived'
      PROVE  /\ Validates(h)' => Validates(h)
             /\ Redeemable(h, h)' => Redeemable(h, h)
  <2>1. h \in Id /\ (Quiet \/ \E g \in Id \ {h} : Writing(g))
    BY <1>1, <1>2, <1>3 DEF Untouched
  <2> QED
    BY <1>1, <2>1, DeadStays
<1> QED
  BY <1>2, <1>3 DEF OnlyDies

---------------------------------------------------------------------------
(* The parts of the invariant.                                             *)

\* The call after its reply.
LEMMA AnswerIs ==
  ASSUME ServiceTypeOK, NEW c \in Caller, NEW lost, NEW g, NEW code,
         Answer(c, lost, g, code)
  PROVE  /\ \A d \in Caller \ {c} : call'[d] = call[d]
         /\ call'[c].st = "replied" /\ call'[c].gen = g /\ call'[c].code = code
         /\ call'[c].op = call[c].op /\ call'[c].user = call[c].user
         /\ call'[c].at = call[c].at /\ call'[c].rt = call[c].rt
         /\ call'[c].before = call[c].before
<1>1. call \in [Caller -> CallType] /\ call[c] \in CallType
  BY DEF ServiceTypeOK
<1>2. call'[c] = [call[c] EXCEPT !.st = "replied", !.gen = g, !.resent = lost,
                                 !.code = code]
  BY <1>1 DEF Answer
<1>3. \A d \in Caller \ {c} : call'[d] = call[d]
  BY <1>1 DEF Answer
<1> QED
  BY <1>1, <1>2, <1>3 DEF CallType

\* The call after it returned.
LEMMA ReturnIs ==
  ASSUME ServiceTypeOK, NEW c \in Caller, NEW outcome, Return(c, outcome)
  PROVE  /\ \A d \in Caller \ {c} : call'[d] = call[d]
         /\ \/ call'[c] = Resting
            \/ /\ <<call[c].op, outcome>> \in {<<"refresh", "invalid">>, <<"delete", "ok">>}
               /\ call'[c].st = "done" /\ call'[c].op = call[c].op
               /\ call'[c].at = call[c].at /\ call'[c].rt = call[c].rt
               /\ call'[c].before = call[c].before
<1>1. call \in [Caller -> CallType] /\ call[c] \in CallType
  BY DEF ServiceTypeOK
<1>2. \A d \in Caller \ {c} : call'[d] = call[d]
  BY <1>1 DEF Return
<1>3. CASE <<call[c].op, outcome>> \in {<<"refresh", "invalid">>, <<"delete", "ok">>}
  <2>1. call'[c] = [Resting EXCEPT !.st = "done", !.op = call[c].op, !.code = outcome,
                      !.at = call[c].at, !.rt = call[c].rt, !.before = call[c].before]
    BY <1>1, <1>3 DEF Return
  <2> QED
    BY <1>2, <1>3, <2>1 DEF Resting
<1>4. CASE <<call[c].op, outcome>> \notin {<<"refresh", "invalid">>, <<"delete", "ok">>}
  BY <1>1, <1>2, <1>4 DEF Return
<1> QED
  BY <1>3, <1>4

LEMMA HeldKept ==
  ASSUME HeldApart, NEW c \in Caller, \A d \in Caller \ {c} : call'[d] = call[d],
         \/ call'[c].st \notin {"ready", "replied"}
         \/ call'[c].gen = NoId
         \/ /\ call'[c].gen \notin known
            /\ \A d \in Caller : Pending(d) /\ call[d].gen = call'[c].gen => d = c,
         \/ known' = known
         \/ /\ call'[c].st \notin {"ready", "replied"}
            /\ Pending(c) /\ call[c].gen # NoId /\ known' = known \union {call[c].gen}
  PROVE  HeldApart'
<1>1. \A d \in Caller \ {c} : Pending(d)' <=> Pending(d)
  BY DEF Pending
<1>2. Pending(c)' => call'[c].st \in {"ready", "replied"}
  BY DEF Pending
<1> SUFFICES ASSUME NEW d \in Caller, Pending(d)', call'[d].gen # NoId
             PROVE  /\ call'[d].gen \notin known'
                    /\ \A e \in Caller : Pending(e)' /\ call'[e].gen = call'[d].gen => e = d
  BY DEF HeldApart
<1>3. call'[d].gen \notin known'
  <2>1. CASE d = c
    BY <1>2, <2>1
  <2>2. CASE d # c
    BY <1>1, <2>2 DEF HeldApart
  <2> QED
    BY <2>1, <2>2
<1>4. ASSUME NEW e \in Caller, Pending(e)', call'[e].gen = call'[d].gen
      PROVE  e = d
  <2>1. CASE d = c /\ e # c
    BY <1>1, <1>2, <1>4, <2>1
  <2>2. CASE d # c /\ e = c
    BY <1>1, <1>2, <1>4, <2>2
  <2>3. CASE d # c /\ e # c
    BY <1>1, <1>4, <2>3 DEF HeldApart
  <2> QED
    BY <2>1, <2>2, <2>3
<1> QED
  BY <1>3, <1>4

LEMMA CommandHeld ==
  ASSUME ServiceInv, HeldApart, NEW c \in Caller, Attempt(c) \/ Resend(c)
  PROVE  HeldApart'
<1>1. ServiceTypeOK /\ Pending(c) /\ known' = known /\ (Runs(c) \/ RunsOther(c))
  BY CommandRuns DEF ServiceInv
<1>2. CASE Runs(c)
  <2>1. PICK lost \in Nat, g \in Id \ known, s \in Id, a \in Id, r \in Id :
          \E name \in {g, NoId} :
            /\ \A d \in Caller : Pending(d) /\ call[d].gen = g => d = c
            /\ Drawn(g, s, a, r)
            /\ RunCreate(c, lost, name, s, a, r) \/ RunRefresh(c, lost, name, s, a, r)
    BY <1>2 DEF Runs
  <2>2. PICK name \in {g, NoId} :
            /\ \A d \in Caller : Pending(d) /\ call[d].gen = g => d = c
            /\ Drawn(g, s, a, r)
            /\ RunCreate(c, lost, name, s, a, r) \/ RunRefresh(c, lost, name, s, a, r)
    BY <2>1
  <2>3. \E code \in {"ok", "conflict", "invalid"} : Answer(c, lost, name, code)
    BY <2>2 DEF RunCreate, RunRefresh
  <2>4. /\ \A d \in Caller \ {c} : call'[d] = call[d]
        /\ call'[c].gen = name
    BY <1>1, <2>3, AnswerIs
  <2> QED
    BY <1>1, <2>2, <2>4, HeldKept
<1>3. CASE RunsOther(c)
  <2>1. \E lost \in Nat, code \in {"ok", "invalid"} : Answer(c, lost, NoId, code)
    BY <1>3 DEF RunsOther, RunValidate, RunDelete
  <2>2. /\ \A d \in Caller \ {c} : call'[d] = call[d]
        /\ call'[c].gen = NoId
    BY <1>1, <2>1, AnswerIs
  <2> QED
    BY <1>1, <2>2, HeldKept
<1> QED
  BY <1>1, <1>2, <1>3

LEMMA TalkHeld ==
  ASSUME ServiceInv, HeldApart, NEW c \in Caller, Talks(c)
  PROVE  HeldApart'
<1>1. ServiceTypeOK /\ call \in [Caller -> CallType] /\ call[c] \in CallType
  BY DEF ServiceInv, ServiceTypeOK
<1>2. ASSUME NEW new, Begin(c, new), new.gen = NoId PROVE HeldApart'
  <2>1. call'[c].gen = NoId /\ known' = known /\ \A d \in Caller \ {c} : call'[d] = call[d]
    BY <1>1, <1>2 DEF Begin
  <2> QED
    BY <2>1, HeldKept
<1>3. CASE \/ \E u \in User : CallCreate(c, u) \/ CallDelete(c, u)
           \/ \E at, rt \in known : CallRefresh(c, at, rt)
           \/ \E at \in known : CallValidate(c, at)
  BY <1>2, <1>3 DEF CallCreate, CallDelete, CallRefresh, CallValidate, Resting
<1>4. CASE TimeOut(c)
  <2>1. PICK g : /\ g = IF ~Draws(c) THEN NoId
                        ELSE IF call[c].gen = NoId THEN NextDraw ELSE call[c].gen
                 /\ call' = [call EXCEPT ![c].gen = g]
    BY <1>4 DEF TimeOut
  <2>2. Pending(c) /\ known' = known /\ (Draws(c) /\ call[c].gen = NoId => Undrawn # {})
    BY <1>4 DEF TimeOut, Pending
  <2>3. /\ \A d \in Caller \ {c} : call'[d] = call[d]
        /\ call'[c].gen = g
    BY <1>1, <2>1 DEF CallType
  <2>4. \/ g = NoId
        \/ g \notin known /\ \A d \in Caller : Pending(d) /\ call[d].gen = g => d = c
    <3>1. CASE g = NextDraw /\ Undrawn # {}
      BY <3>1, NewDrawIsApart
    <3>2. CASE g = call[c].gen
      BY <2>2, <3>2 DEF HeldApart
    <3> QED
      BY <2>1, <2>2, <3>1, <3>2
  <2> QED
    BY <2>2, <2>3, <2>4, HeldKept
<1>5. CASE ReturnReply(c)
  <2>1. /\ call'[c].st \notin {"ready", "replied"}
        /\ \A d \in Caller \ {c} : call'[d] = call[d]
    BY <1>1, <1>5, ReturnIs DEF ReturnReply, Resting
  <2>2. \/ known' = known
        \/ Pending(c) /\ call[c].gen # NoId /\ known' = known \union {call[c].gen}
    BY <1>5, IdAssumption DEF ReturnReply, Pending, ServiceInv, PairsOwned
  <2> QED
    BY <2>1, <2>2, HeldKept
<1>6. ASSUME NEW outcome, Return(c, outcome), known' = known PROVE HeldApart'
  <2>1. /\ call'[c].st \notin {"ready", "replied"}
        /\ \A d \in Caller \ {c} : call'[d] = call[d]
    BY <1>1, <1>6, ReturnIs DEF Resting
  <2> QED
    BY <1>6, <2>1, HeldKept
<1>7. CASE ReturnInternal(c)
  BY <1>6, <1>7 DEF ReturnInternal
<1>8. CASE Retry(c)
  <2>1. CASE call' = [call EXCEPT ![c].st = "ready", ![c].gen = NoId, ![c].try = @ + 1]
    <3>1. call'[c].gen = NoId /\ \A d \in Caller \ {c} : call'[d] = call[d]
      BY <1>1, <2>1 DEF CallType
    <3> QED
      BY <1>8, <3>1, HeldKept DEF Retry
  <2> QED
    BY <1>6, <1>8, <2>1 DEF Retry
<1> QED
  BY <1>3, <1>4, <1>5, <1>7, <1>8 DEF Talks

LEMMA HeldStep ==
  ASSUME ServiceInv, HeldApart, [ServiceNext]_serviceVars
  PROVE  HeldApart'
<1>1. ASSUME UNCHANGED <<call, known>> PROVE HeldApart'
  BY <1>1 DEF HeldApart, Pending
<1> QED
  BY <1>1, CommandHeld, TalkHeld, StepKinds DEF RunLate, callVars, serviceVars

\* An exchange puts down a token that was redeemable until then, and is not any more.
LEMMA ExchangedKept ==
  ASSUME ServiceInv, Exchanged, OnlyDies, known \subseteq known',
         revived \subseteq revived',
         \A m \in late' \ late : m.op = "refresh" => m.rt \in known,
         \/ parent' = parent
         \/ \E g \in Id, at \in Id, rt \in known :
              Refresh(at, rt, g, g, g) /\ parent' = [parent EXCEPT ![g] = rt]
  PROVE  Exchanged'
<1>1. StoreInv /\ parent \in [Id -> Id \union {NoId}] /\ known \subseteq Id
  BY DEF ServiceInv, ServiceTypeOK
<1>2. \A m \in late' : m.op = "refresh" => m.rt \in known'
  BY DEF Exchanged
<1>3. \A h \in known : h \in revived' \/ ~Redeemable(h, h) =>
        h \in revived' \/ ~Redeemable(h, h)'
  BY DEF OnlyDies
<1>4. CASE parent' = parent
  <2>1. ASSUME NEW g \in Id, parent[g] # NoId
        PROVE  /\ parent[g] \in known'
               /\ parent[g] \in revived' \/ ~Redeemable(parent[g], parent[g])'
    <3>1. PICK h \in known : h = parent[g]
      BY <2>1 DEF Exchanged
    <3>2. h \in revived' \/ ~Redeemable(h, h)
      BY <2>1, <3>1 DEF Exchanged
    <3> QED
      BY <1>3, <1>4, <3>1, <3>2
  <2>2. \A g \in Id : parent'[g] # NoId =>
          /\ parent'[g] \in known'
          /\ parent'[g] \in revived' \/ ~Redeemable(parent[g], parent[g])'
    BY <1>4, <2>1
  <2>3. \A g, h \in Id :
          parent'[g] = parent'[h] /\ parent'[g] \notin revived' \union {NoId} => g = h
    BY <1>4 DEF Exchanged
  <2> QED
    BY <1>2, <2>2, <2>3 DEF Exchanged
<1>5. CASE \E g \in Id, at \in Id, rt \in known :
              Refresh(at, rt, g, g, g) /\ parent' = [parent EXCEPT ![g] = rt]
  <2>1. PICK n \in Id, at \in Id, rt \in known :
          Refresh(at, rt, n, n, n) /\ parent' = [parent EXCEPT ![n] = rt]
    BY <1>5
  <2>2. Redeemable(rt, rt) /\ ~Redeemable(rt, rt)'
    BY <1>1, <2>1, RedeemedIsGone
  <2>3. \A g \in Id : parent'[g] = IF g = n THEN rt ELSE parent[g]
    BY <1>1, <2>1
  <2>4. ASSUME NEW g \in Id, parent'[g] # NoId
        PROVE  \E h \in known : h = parent'[g] /\ (h \in revived' \/ ~Redeemable(h, h)')
    <3>1. CASE g = n
      BY <2>2, <2>3, <3>1
    <3>2. CASE g # n
      <4>1. PICK h \in known : h = parent[g]
        BY <2>3, <2>4, <3>2 DEF Exchanged
      <4>2. h \in revived' \/ ~Redeemable(h, h)
        BY <2>3, <2>4, <3>2, <4>1 DEF Exchanged
      <4> QED
        BY <1>3, <2>3, <3>2, <4>1, <4>2
    <3> QED
      BY <3>1, <3>2
  <2>5. ASSUME NEW g \in Id, NEW h \in Id,
               parent'[g] = parent'[h], parent'[g] \notin revived' \union {NoId}
        PROVE  g = h
    <3>1. \A x \in Id : parent[x] = rt => rt \in revived \union {NoId}
      BY <2>2 DEF Exchanged
    <3> QED
      BY <2>3, <2>5, <3>1 DEF Exchanged
  <2>6. \A g \in Id : parent'[g] # NoId =>
          /\ parent'[g] \in known'
          /\ parent'[g] \in revived' \/ ~Redeemable(parent[g], parent[g])'
    BY <2>4
  <2> QED
    BY <1>2, <2>5, <2>6 DEF Exchanged
<1> QED
  BY <1>4, <1>5

LEMMA ExchangedStep ==
  ASSUME SafetyInv, [ServiceNext]_serviceVars
  PROVE  Exchanged'
<1>1. /\ ServiceInv /\ HeldApart /\ Exchanged /\ StoreInv
      /\ OnlyDies /\ known \subseteq known' /\ revived \subseteq revived'
  BY RetiredStep DEF SafetyInv, ServiceInv
<1>2. ASSUME NEW c \in Caller, call[c].op = "refresh", Pending(c)
      PROVE  call[c].at \in Id /\ call[c].rt \in known
  <2>1. Sound(call[c]) /\ Presented(call[c])
    BY <1>1, <1>2 DEF SafetyInv, SoundInv, ServiceInv, CommandInv
  <2> QED
    BY <1>2, <2>1 DEF Sound, Presented, Pending
<1>3. ASSUME NEW c \in Caller, Attempt(c) \/ Resend(c)
      PROVE  Exchanged'
  <2>1. Pending(c) /\ UNCHANGED <<late, known, revived>> /\ (Runs(c) \/ RunsOther(c))
    BY <1>1, <1>3, CommandRuns
  <2>2. CASE Runs(c)
    <3>1. PICK lost \in Nat, g \in Id \ known, s \in Id, a \in Id, r \in Id :
            \E name \in {g, NoId} :
              /\ Drawn(g, s, a, r)
              /\ RunCreate(c, lost, name, s, a, r) \/ RunRefresh(c, lost, name, s, a, r)
      BY <2>2 DEF Runs
    <3>2. \/ parent' = parent
          \/ /\ call[c].op = "refresh"
             /\ Refresh(call[c].at, call[c].rt, g, g, g)
             /\ parent' = [parent EXCEPT ![g] = call[c].rt]
      BY <1>1, <2>1, <3>1, IssueOutcome
    <3>3. \/ parent' = parent
          \/ \E n \in Id, at \in Id, rt \in known :
               Refresh(at, rt, n, n, n) /\ parent' = [parent EXCEPT ![n] = rt]
      BY <1>2, <2>1, <3>2
    <3> QED
      BY <1>1, <2>1, <3>3, ExchangedKept
  <2>3. CASE RunsOther(c)
    <3>1. parent' = parent
      BY <2>3 DEF RunsOther, RunValidate, RunDelete
    <3> QED
      BY <1>1, <2>1, <3>1, ExchangedKept
  <2> QED
    BY <2>1, <2>2, <2>3
<1>4. ASSUME NEW c \in Caller, Talks(c)
      PROVE  Exchanged'
  <2>1. \A m \in late' \ late : m.op = "refresh" => m.rt \in known
    <3>1. CASE TimeOut(c)
      <4>1. \A m \in late' \ late : m.op = call[c].op /\ m.rt = call[c].rt
        BY <3>1 DEF TimeOut
      <4>2. Pending(c)
        BY <3>1 DEF TimeOut, Pending
      <4> QED
        BY <1>2, <4>1, <4>2
    <3>2. CASE ~TimeOut(c)
      BY <1>4, <3>2 DEF Talks, CallCreate, CallDelete, CallRefresh, CallValidate, Begin,
                        ReturnReply, Retry, ReturnInternal
    <3> QED
      BY <3>1, <3>2
  <2> QED
    BY <1>1, <1>4, <2>1, TalksOnly, ExchangedKept
<1>5. ASSUME NEW m \in late, RunLate(m)
      PROVE  Exchanged'
  <2>1. late' \subseteq late /\ Presented(m) /\ m.gen \in Id \union {NoId}
    BY <1>1, <1>5 DEF RunLate, ServiceInv, CommandInv, ServiceTypeOK, CommandType
  <2>2. m.op \in {"create", "refresh"} => m.gen \in Id
    BY <1>1, <2>1 DEF ServiceInv, CommandInv
  <2>3. \/ parent' = parent
        \/ /\ m.op = "refresh" /\ Refresh(m.at, m.rt, m.gen, m.gen, m.gen)
           /\ parent' = [parent EXCEPT ![m.gen] = m.rt]
    BY <1>5 DEF RunLate
  <2>4. m.op = "refresh" => m.at \in Id /\ m.rt \in known
    BY <1>1, <2>1 DEF Presented, Exchanged
  <2>5. \/ parent' = parent
        \/ \E n \in Id, at \in Id, rt \in known :
             Refresh(at, rt, n, n, n) /\ parent' = [parent EXCEPT ![n] = rt]
    BY <2>2, <2>3, <2>4
  <2> QED
    BY <1>1, <2>1, <2>5, ExchangedKept
<1>6. CASE UNCHANGED callVars
  BY <1>1, <1>6, ExchangedKept DEF callVars
<1> QED
  BY <1>3, <1>4, <1>5, <1>6, StepKinds DEF serviceVars

\* What a call relies on stays true while it does nothing: it is about what is known.
LEMMA SoundStays ==
  ASSUME ServiceInv, StoreInv', OwnersStay, OnlyDies,
         known \subseteq known', revived \subseteq revived',
         NEW k \in CallType, Sound(k), Presented(k) \/ k.st \notin {"ready", "replied"}
  PROVE  Sound(k)'
<1>1. /\ k.op = "refresh" /\ k.st # "idle" => k.at \in known' /\ k.rt \in known'
      /\ k.op = "delete" /\ k.st # "idle" => k.before \subseteq known'
  BY DEF Sound
<1>2. ASSUME ToldInvalid(k), Redeemable(k.at, k.rt)'
      PROVE  k.rt \in revived'
  <2>1. k.at \in known /\ k.rt \in known
    BY <1>2 DEF ToldInvalid, Sound
  <2>2. k.rt \in Id
    BY <2>1 DEF ServiceInv, ServiceTypeOK
  <2>3. k.at = k.rt
    BY <1>2, <2>2 DEF Redeemable, StoreInv, RefreshHasSession
  <2> QED
    BY <1>2, <2>1, <2>3 DEF Sound, OnlyDies
<1>3. ASSUME k.op = "delete", k.st \in {"ready", "replied"}, NEW g \in k.before
      PROVE  owner'[g] = k.user
  <2>1. owner[g] = k.user /\ g \in Id /\ k.user \in User
    BY <1>3 DEF Sound, Presented, CallType
  <2> QED
    BY <2>1 DEF OwnersStay
<1>4. ASSUME LoggedOut(k), NEW g \in k.before \ revived'
      PROVE  ~Validates(g)' /\ ~Redeemable(g, g)'
  <2>1. g \in known \ revived' /\ ~Validates(g) /\ ~Redeemable(g, g)
    BY <1>4 DEF LoggedOut, Sound
  <2> QED
    BY <2>1 DEF OnlyDies
<1> QED
  BY <1>1, <1>2, <1>3, <1>4 DEF Sound, ToldInvalid, LoggedOut

LEMMA SoundKept ==
  ASSUME SafetyInv, StoreInv', OwnersStay, OnlyDies,
         known \subseteq known', revived \subseteq revived',
         NEW S \in SUBSET Caller, \A d \in Caller \ S : call'[d] = call[d],
         \A d \in S : Sound(call[d])'
  PROVE  SoundInv'
<1> SUFFICES ASSUME NEW d \in Caller PROVE Sound(call[d])'
  BY DEF SoundInv
<1>1. CASE d \in S
  BY <1>1
<1>2. CASE d \notin S
  <2>1. PICK k \in CallType : k = call[d]
    BY DEF SafetyInv, ServiceInv, ServiceTypeOK
  <2>2. Sound(k) /\ (Presented(k) \/ k.st \notin {"ready", "replied"})
    BY <2>1 DEF SafetyInv, SoundInv, ServiceInv, CommandInv, Pending
  <2>3. Sound(k)'
    BY <2>1, <2>2, SoundStays DEF SafetyInv
  <2>4. call'[d] = k
    BY <1>2, <2>1
  <2> QED
    BY <2>3, <2>4 DEF Sound, ToldInvalid, LoggedOut
<1> QED
  BY <1>1, <1>2

LEMMA CommandSound ==
  ASSUME SafetyInv, NEW c \in Caller, Attempt(c) \/ Resend(c)
  PROVE  Sound(call[c])'
<1>1. /\ ServiceInv /\ HeldApart /\ StoreInv /\ ServiceTypeOK /\ Sound(call[c])
      /\ call[c] \in CallType
  BY DEF SafetyInv, SoundInv, ServiceInv, ServiceTypeOK
<1>2. Pending(c) /\ UNCHANGED <<late, known, revived>> /\ (Runs(c) \/ RunsOther(c))
  BY <1>1, CommandRuns
<1>3. Presented(call[c]) /\ call[c].st \in {"ready", "replied"}
  BY <1>1, <1>2 DEF ServiceInv, CommandInv, Pending
<1>4. CASE Runs(c)
  <2>1. PICK lost \in Nat, g \in Id \ known, s \in Id, a \in Id, r \in Id :
          \E name \in {g, NoId} :
            /\ Drawn(g, s, a, r)
            /\ RunCreate(c, lost, name, s, a, r) \/ RunRefresh(c, lost, name, s, a, r)
    BY <1>4 DEF Runs
  <2>2. PICK name \in {g, NoId} :
            /\ Drawn(g, s, a, r)
            /\ RunCreate(c, lost, name, s, a, r) \/ RunRefresh(c, lost, name, s, a, r)
    BY <2>1
  <2>3. call[c].op # "delete"
    BY <2>2 DEF RunCreate, RunRefresh
  <2>4. PICK code \in {"ok", "conflict", "invalid"} :
          /\ Answer(c, lost, name, code)
          /\ code = "invalid" => ~Redeemable(call[c].at, call[c].rt) /\ UNCHANGED storeVars
    BY <1>1, <1>2, <2>2, IssueOutcome
  <2>5. /\ call'[c].st = "replied" /\ call'[c].code = code /\ call'[c].op = call[c].op
        /\ call'[c].at = call[c].at /\ call'[c].rt = call[c].rt
    BY <1>1, <2>4, AnswerIs
  <2>6. code = "invalid" => ~Redeemable(call[c].at, call[c].rt)'
    BY <2>4, <2>5 DEF Redeemable, Live, storeVars
  <2> QED
    BY <1>1, <1>2, <1>3, <2>3, <2>5, <2>6 DEF Sound, ToldInvalid, LoggedOut
<1>5. ASSUME NEW lost \in Nat, RunValidate(c, lost)
      PROVE  Sound(call[c])'
  <2>1. /\ call[c].op = "validate"
        /\ \E code \in {"ok", "invalid"} : Answer(c, lost, NoId, code)
    BY <1>5 DEF RunValidate
  <2>2. call'[c].op = "validate"
    BY <1>1, <2>1, AnswerIs
  <2> QED
    BY <2>2 DEF Sound, ToldInvalid, LoggedOut
<1>6. ASSUME NEW lost \in Nat, RunDelete(c, lost)
      PROVE  Sound(call[c])'
  <2>1. call[c].op = "delete" /\ Delete(call[c].user) /\ Answer(c, lost, NoId, "ok")
    BY <1>6 DEF RunDelete
  <2>2. /\ call'[c].op = "delete" /\ call'[c].user = call[c].user
        /\ call'[c].before = call[c].before
    BY <1>1, <2>1, AnswerIs
  <2>3. /\ call[c].before \subseteq known /\ call[c].user \in User
        /\ \A g \in call[c].before : g \in Id /\ owner[g] = call[c].user
    BY <1>1, <1>3, <2>1 DEF Sound, Presented, CallType
  <2>4. \A g \in call[c].before : ~Validates(g)' /\ ~Redeemable(g, g)'
    BY <1>1, <2>1, <2>3, DeleteKills
  <2>5. owner' = owner
    BY <2>1 DEF Delete
  <2> QED
    BY <1>2, <2>2, <2>3, <2>4, <2>5 DEF Sound, ToldInvalid, LoggedOut
<1> QED
  BY <1>2, <1>4, <1>5, <1>6 DEF RunsOther

LEMMA TalkSound ==
  ASSUME SafetyInv, NEW c \in Caller, Talks(c)
  PROVE  Sound(call[c])'
<1>1. /\ ServiceTypeOK /\ Sound(call[c]) /\ call \in [Caller -> CallType]
      /\ call[c] \in CallType
  BY DEF SafetyInv, SoundInv, ServiceInv, ServiceTypeOK
<1>2. UNCHANGED <<storeVars, parent, revived>> /\ known \subseteq known'
  BY TalksOnly
<1>3. ASSUME NEW u \in User, CallCreate(c, u)
      PROVE  Sound(call[c])'
  BY <1>1, <1>3 DEF CallCreate, Begin, Resting, Sound, ToldInvalid, LoggedOut
<1>4. ASSUME NEW u \in User, CallDelete(c, u)
      PROVE  Sound(call[c])'
  <2>1. /\ call'[c].op = "delete" /\ call'[c].st = "ready" /\ call'[c].user = u
        /\ call'[c].before = {g \in known : owner[g] = u}
    BY <1>1, <1>4 DEF CallDelete, Begin, Resting
  <2> QED
    BY <1>2, <2>1 DEF Sound, ToldInvalid, LoggedOut, storeVars
<1>5. ASSUME NEW at \in known, NEW rt \in known, CallRefresh(c, at, rt)
      PROVE  Sound(call[c])'
  <2>1. /\ call'[c].op = "refresh" /\ call'[c].st = "ready"
        /\ call'[c].at = at /\ call'[c].rt = rt
    BY <1>1, <1>5 DEF CallRefresh, Begin, Resting
  <2> QED
    BY <1>2, <2>1 DEF Sound, ToldInvalid, LoggedOut
<1>6. ASSUME NEW at \in known, CallValidate(c, at)
      PROVE  Sound(call[c])'
  BY <1>1, <1>6 DEF CallValidate, Begin, Resting, Sound, ToldInvalid, LoggedOut
<1>7. ASSUME call[c].st \in {"ready", "replied"}, call'[c].st = "ready",
             call'[c].op = call[c].op, call'[c].user = call[c].user,
             call'[c].at = call[c].at, call'[c].rt = call[c].rt,
             call'[c].before = call[c].before
      PROVE  Sound(call[c])'
  BY <1>1, <1>2, <1>7 DEF Sound, ToldInvalid, LoggedOut, storeVars
<1>8. CASE TimeOut(c)
  <2>1. PICK g : call' = [call EXCEPT ![c].gen = g]
    BY <1>8 DEF TimeOut
  <2>2. call[c].st = "ready"
    BY <1>8 DEF TimeOut
  <2> QED
    BY <1>1, <1>7, <2>1, <2>2 DEF CallType
<1>9. ASSUME NEW outcome, Return(c, outcome), call[c].st = "replied",
             outcome = call[c].code \/ outcome \in {"failed", "internal"}
      PROVE  Sound(call[c])'
  <2>1. CASE call'[c] = Resting
    BY <2>1 DEF Resting, Sound, ToldInvalid, LoggedOut
  <2>2. CASE /\ <<call[c].op, outcome>> \in {<<"refresh", "invalid">>, <<"delete", "ok">>}
             /\ call'[c].st = "done" /\ call'[c].op = call[c].op
             /\ call'[c].at = call[c].at /\ call'[c].rt = call[c].rt
             /\ call'[c].before = call[c].before
    <3>1. ToldInvalid(call[c]) \/ LoggedOut(call[c])
      BY <1>9, <2>2 DEF ToldInvalid, LoggedOut
    <3> QED
      BY <1>1, <1>2, <2>2, <3>1
         DEF Sound, ToldInvalid, LoggedOut, Redeemable, Validates, Live, storeVars
  <2> QED
    BY <1>1, <1>9, <2>1, <2>2, ReturnIs
<1>10. CASE ReturnReply(c)
  BY <1>9, <1>10 DEF ReturnReply
<1>11. CASE ReturnInternal(c)
  <2>1. call'[c] = Resting
    BY <1>1, <1>11, ReturnIs DEF ReturnInternal
  <2> QED
    BY <2>1 DEF Resting, Sound, ToldInvalid, LoggedOut
<1>12. CASE Retry(c)
  <2>1. CASE call' = [call EXCEPT ![c].st = "ready", ![c].gen = NoId, ![c].try = @ + 1]
    BY <1>1, <1>7, <1>12, <2>1 DEF Retry, CallType
  <2> QED
    BY <1>9, <1>12, <2>1 DEF Retry
<1> QED
  BY <1>3, <1>4, <1>5, <1>6, <1>8, <1>10, <1>11, <1>12 DEF Talks

---------------------------------------------------------------------------
(* The theorems.                                                           *)

LEMMA OwnersStayInStore ==
  ASSUME StoreInv, [StoreNext]_storeVars
  PROVE  OwnersStay
<1>1. ASSUME NEW u, NEW s, NEW a, NEW r, Issue(u, s, a, r) PROVE OwnersStay
  BY <1>1, UserAssumption DEF Issue, OwnersStay
<1>2. CASE owner' = owner
  BY <1>2 DEF OwnersStay
<1> QED
  BY <1>1, <1>2 DEF StoreNext, Create, Refresh, Validate, Delete, Tick, storeVars

LEMMA SafetyInit == ServiceInit => SafetyInv
<1> SUFFICES ASSUME ServiceInit PROVE SafetyInv
  OBVIOUS
<1>1. ServiceInv
  BY ServiceInitInv
<1>2. HeldApart /\ SoundInv
  BY DEF ServiceInit, HeldApart, Pending, Resting, SoundInv, Sound, ToldInvalid, LoggedOut
<1>3. Exchanged
  BY DEF ServiceInit, Exchanged
<1> QED
  BY <1>1, <1>2, <1>3 DEF SafetyInv

LEMMA SafetyStep ==
  SafetyInv /\ [ServiceNext]_serviceVars => SafetyInv' /\ OnlyDies
<1> SUFFICES ASSUME SafetyInv, [ServiceNext]_serviceVars
             PROVE  SafetyInv' /\ OnlyDies
  OBVIOUS
<1>1. ServiceInv /\ HeldApart /\ StoreInv
  BY DEF SafetyInv, ServiceInv
<1>2. ServiceInv' /\ StoreInv' /\ [StoreNext]_storeVars
  BY <1>1, ServiceStep DEF ServiceInv
<1>3. OwnersStay
  BY <1>1, <1>2, OwnersStayInStore
<1>4. OnlyDies /\ known \subseteq known' /\ revived \subseteq revived'
  BY <1>1, RetiredStep
<1>5. HeldApart' /\ Exchanged'
  BY <1>1, HeldStep, ExchangedStep
<1>6. ASSUME NEW c \in Caller, \A d \in Caller \ {c} : call'[d] = call[d], Sound(call[c])'
      PROVE  SoundInv'
  <2>1. {c} \in SUBSET Caller /\ \A d \in {c} : Sound(call[d])'
    BY <1>6
  <2> QED
    BY <1>2, <1>3, <1>4, <1>6, <2>1, SoundKept
<1>7. ASSUME call' = call PROVE SoundInv'
  <2>1. {} \in SUBSET Caller /\ \A d \in {} : Sound(call[d])'
    OBVIOUS
  <2>2. \A d \in Caller \ {} : call'[d] = call[d]
    BY <1>7
  <2> QED
    BY <1>2, <1>3, <1>4, <2>1, <2>2, SoundKept
<1>8. ASSUME NEW c \in Caller, Attempt(c) \/ Resend(c) PROVE SoundInv'
  <2>1. \A d \in Caller \ {c} : call'[d] = call[d]
    <3>1. Runs(c) \/ RunsOther(c)
      BY <1>1, <1>8, CommandRuns
    <3>2. \E lost, g, code : Answer(c, lost, g, code)
      BY <3>1 DEF Runs, RunsOther, RunCreate, RunRefresh, RunValidate, RunDelete
    <3> QED
      BY <1>1, <3>2, AnswerIs DEF ServiceInv
  <2> QED
    BY <1>6, <1>8, <2>1, CommandSound
<1>9. ASSUME NEW c \in Caller, Talks(c) PROVE SoundInv'
  <2>1. \A d \in Caller \ {c} : call'[d] = call[d]
    <3>1. call \in [Caller -> CallType]
      BY <1>1 DEF ServiceInv, ServiceTypeOK
    <3>2. CASE \E outcome : Return(c, outcome)
      BY <1>1, <3>2, ReturnIs DEF ServiceInv
    <3>3. CASE \E new : Begin(c, new)
      BY <3>1, <3>3 DEF Begin
    <3>4. CASE TimeOut(c) \/ (Retry(c) /\ ~\E outcome : Return(c, outcome))
      BY <3>1, <3>4 DEF TimeOut, Retry
    <3> QED
      BY <1>9, <3>2, <3>3, <3>4
      DEF Talks, CallCreate, CallDelete, CallRefresh, CallValidate,
                                    ReturnReply, ReturnInternal
  <2> QED
    BY <1>6, <1>9, <2>1, TalkSound
<1>10. SoundInv'
  BY <1>7, <1>8, <1>9, StepKinds DEF RunLate, callVars, serviceVars
<1> QED
  BY <1>2, <1>4, <1>5, <1>10 DEF SafetyInv

LEMMA SafetyHolds == ServiceSpec => []SafetyInv
BY SafetyInit, SafetyStep, PTL DEF ServiceSpec

\* A pair that was handed out and no longer works never works again, whatever is sent
\* again, tried again or late, unless a late command of its own draw revived it.
THEOREM RetiredForGood == ServiceSpec => RetiredStaysRetired
<1> DEFINE Retires == \A g \in known \ revived' :
                        /\ ~Validates(g) => ~Validates(g)'
                        /\ ~Redeemable(g, g) => ~Redeemable(g, g)'
<1>1. SafetyInv /\ [ServiceNext]_serviceVars => [Retires]_serviceVars
  BY SafetyStep DEF OnlyDies
<1> QED
  BY <1>1, SafetyHolds, PTL DEF ServiceSpec, RetiredStaysRetired

\* Two pairs that were handed out never descend from one refresh token, unless that was
\* revived.
THEOREM OneHeir == ServiceSpec => []NoForkedSession
<1>1. SafetyInv => NoForkedSession
  BY DEF SafetyInv, ServiceInv, ServiceTypeOK, Exchanged, NoForkedSession
<1> QED
  BY <1>1, SafetyHolds, PTL

\* Who was told that his pair is invalid cannot redeem it then or later, unless it was
\* revived.
THEOREM InvalidIsDead == ServiceSpec => []InvalidRefreshIsDead
<1>1. SafetyInv => InvalidRefreshIsDead
  BY DEF SafetyInv, SoundInv, Sound, ToldInvalid, InvalidRefreshIsDead
<1> QED
  BY <1>1, SafetyHolds, PTL

\* A logout that has returned leaves no pair working that was handed out before it
\* began, unless it was revived.
THEOREM LogoutCompletes == ServiceSpec => []LogoutIsComplete
<1>1. SafetyInv => LogoutIsComplete
  BY DEF SafetyInv, SoundInv, Sound, LoggedOut, LogoutIsComplete
<1> QED
  BY <1>1, SafetyHolds, PTL
=============================================================================
