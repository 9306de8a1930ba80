--------------------------- MODULE TokenService ---------------------------
(***************************************************************************)
(* The token service on top of the store: calls of Create, Refresh,        *)
(* Validate and Delete by concurrent callers, the repository that draws    *)
(* ids and runs a script, go-redis that sends the command again when the   *)
(* reply is lost, and the retry loop of the service.                       *)
(*                                                                         *)
(* A retransmitted command carries the ids of the first one, so a script   *)
(* that took effect meets its own keys and answers "conflict"; the service *)
(* then tries again with new ids.  A command that times out may be late    *)
(* rather than lost: it runs whenever Redis gets it, perhaps long after    *)
(* the call has returned.                                                  *)
(***************************************************************************)
EXTENDS TokenStore, FiniteSets

CONSTANTS
  Caller,            \* goroutines that call the service
  MaxRetries,        \* maxRetries of service_impl.go
  MaxResend,         \* bound: replies lost in the course of one call
  MaxLate,           \* bound: late commands on their way at a time
  IdReserve          \* bound: ids left for a call when it begins

ASSUME RetryAssumption == MaxRetries \in Nat \ {0} /\ {MaxResend, MaxLate, IdReserve} \subseteq Nat

VARIABLES
  call,              \* what each caller is doing
  late,              \* commands that timed out and are on their way still
  known,             \* history: the pairs the service returned to somebody
  parent,            \* history: the refresh token each pair was exchanged for
  revived            \* history: the known pairs that a late command wrote again

callVars == <<call, late, known, parent, revived>>
serviceVars == <<storeVars, callVars>>

\* at and rt are the pair presented, gen the draw of this attempt, try the attempts
\* answered by a conflict, resent the replies lost, code the reply on its way or,
\* in a call that is done, its outcome.  before is history: the pairs of the user
\* that were known when a logout began.
Resting ==
  [st |-> "idle", op |-> "none", user |-> NoUser, at |-> NoId, rt |-> NoId,
   gen |-> NoId, try |-> 0, resent |-> 0, code |-> "none", before |-> {}]

ServiceInit ==
  /\ StoreInit
  /\ call = [c \in Caller |-> Resting]
  /\ late = {}
  /\ known = {}
  /\ parent = [g \in Id |-> NoId]
  /\ revived = {}

---------------------------------------------------------------------------
(* The ids.                                                                *)

Pending(c) == call[c].st \in {"ready", "replied"}
Draws(c) == call[c].op \in {"create", "refresh"}

InCommands == {call[c].gen : c \in {d \in Caller : Pending(d)}} \union {m.gen : m \in late}

SlipNoTimePrefix == {g \in Id : ~Conflict(g, g, g)} \ InCommands

\* The ids GenerateToken may still return: not written by a script before, and not
\* in a command that go-redis may send again, or that is late.
Undrawn == {g \in Id : owner[g] = NoUser} \ InCommands

\* Undrawn ids are alike, so the model takes the same one every time.
NextDraw == CHOOSE g \in Undrawn : TRUE

\* Bound: a call that draws begins while IdReserve ids are left for each of the
\* calls that draw.  With MaxRetries of them no call ever runs out, nor with
\* 1 + MaxResend of them when nothing is late.
IdsSuffice ==
  Cardinality(Undrawn) >= IdReserve * (1 + Cardinality({c \in Caller : Pending(c) /\ Draws(c)}))

---------------------------------------------------------------------------
(* The caller's side.                                                      *)

Begin(c, request) ==
  /\ ~Pending(c)
  /\ call' = [call EXCEPT ![c] = request]
  /\ UNCHANGED <<storeVars, late, known, parent, revived>>

CallCreate(c, u) ==
  /\ IdsSuffice
  /\ Begin(c, [Resting EXCEPT !.st = "ready", !.op = "create", !.user = u])

\* A caller presents tokens that were handed out, not always of one pair.
CallRefresh(c, at, rt) ==
  /\ IdsSuffice
  /\ Begin(c, [Resting EXCEPT !.st = "ready", !.op = "refresh", !.at = at, !.rt = rt])

CallValidate(c, at) ==
  Begin(c, [Resting EXCEPT !.st = "ready", !.op = "validate", !.at = at])

CallDelete(c, u) ==
  Begin(c, [Resting EXCEPT !.st = "ready", !.op = "delete", !.user = u,
                           !.before = {g \in known : owner[g] = u}])

---------------------------------------------------------------------------
(* The repository: one command and the reply it puts on its way.  lost     *)
(* counts the replies of this call that were lost before.                  *)

Answer(c, lost, g, code) ==
  call' = [call EXCEPT ![c].st = "replied", ![c].gen = g, ![c].resent = lost,
                       ![c].code = code]

\* g names the draw, or is NoId when one of the three ids collides.
RunCreate(c, lost, g, s, a, r) ==
  /\ call[c].op = "create"
  /\ \/ /\ Create(call[c].user, s, a, r)
        /\ Answer(c, lost, g, "ok")
     \/ /\ Conflict(s, a, r)
        /\ Answer(c, lost, g, "conflict")
        /\ UNCHANGED storeVars
  /\ UNCHANGED parent

RunRefresh(c, lost, g, s, a, r) ==
  LET at == call[c].at
      rt == call[c].rt
  IN
  /\ call[c].op = "refresh"
  /\ \/ /\ Refresh(at, rt, s, a, r)
        /\ Answer(c, lost, g, "ok")
        /\ parent' = [parent EXCEPT ![s] = rt]
     \/ /\ Conflict(s, a, r)
        /\ Answer(c, lost, g, "conflict")
        /\ UNCHANGED <<storeVars, parent>>
     \/ /\ ~Conflict(s, a, r)
        /\ ~Redeemable(at, rt)
        /\ Answer(c, lost, g, "invalid")
        /\ UNCHANGED <<storeVars, parent>>

RunValidate(c, lost) ==
  /\ call[c].op = "validate"
  /\ \/ /\ Validate(call[c].at)
        /\ Answer(c, lost, NoId, "ok")
     \/ /\ ~Validates(call[c].at)
        /\ Answer(c, lost, NoId, "invalid")
        /\ UNCHANGED storeVars
  /\ UNCHANGED parent

RunDelete(c, lost) ==
  /\ call[c].op = "delete"
  /\ Delete(call[c].user)
  /\ Answer(c, lost, NoId, "ok")
  /\ UNCHANGED parent

\* The command of one draw, whose three ids are new.
RunIssue(c, lost, g) == RunCreate(c, lost, g, g, g, g) \/ RunRefresh(c, lost, g, g, g, g)

\* An attempt draws three ids and runs the script; after a time-out the ids are there.
Attempt(c) ==
  LET lost == call[c].resent IN
  /\ call[c].st = "ready"
  /\ \/ /\ Draws(c) /\ call[c].gen = NoId /\ Undrawn # {}
        /\ \E g \in {NextDraw}, s, a, r \in Id :
             /\ Drawn(g, s, a, r)
             /\ LET name == IF {s, a, r} = {g} THEN g ELSE NoId IN
                  \/ RunCreate(c, lost, name, s, a, r)
                  \/ RunRefresh(c, lost, name, s, a, r)
     \/ call[c].gen # NoId /\ RunIssue(c, lost, call[c].gen)
     \/ RunValidate(c, lost)
     \/ RunDelete(c, lost)
  /\ UNCHANGED <<late, known, revived>>

\* The reply is lost and go-redis sends the command again, ids and all.  (Not the
\* command whose ids collided by chance: its reply is lost without consequence.)
Resend(c) ==
  LET lost == call[c].resent + 1
      g == call[c].gen
  IN
  /\ call[c].st = "replied"
  /\ lost <= MaxResend
  /\ \/ g # NoId /\ RunIssue(c, lost, g)
     \/ RunValidate(c, lost)
     \/ RunDelete(c, lost)
  /\ UNCHANGED <<late, known, revived>>

\* A command gets no answer in time and is late: go-redis sends another copy, or gives
\* up.  The bound is on those that are late at a time.
TimeOut(c) ==
  LET g == IF ~Draws(c) THEN NoId ELSE IF call[c].gen = NoId THEN NextDraw ELSE call[c].gen
      command == [op |-> call[c].op, user |-> call[c].user, at |-> call[c].at,
                  rt |-> call[c].rt, gen |-> g]
  IN
  /\ call[c].st = "ready"
  /\ Draws(c) /\ call[c].gen = NoId => Undrawn # {}
  /\ Cardinality(late) < MaxLate /\ command \notin late
  /\ late' = late \union {command}
  /\ call' = [call EXCEPT ![c].gen = g]
  /\ UNCHANGED <<storeVars, known, parent, revived>>

\* A late command runs, and nobody reads its reply.
RunLate(m) ==
  LET g == m.gen IN
  /\ m \in late
  /\ late' = late \ {m}
  /\ \/ /\ \/ m.op = "create" /\ Create(m.user, g, g, g)
           \/ m.op = "refresh" /\ Refresh(m.at, m.rt, g, g, g)
        /\ parent' = IF m.op = "refresh" THEN [parent EXCEPT ![g] = m.rt] ELSE parent
        /\ revived' = IF g \in known THEN revived \union {g} ELSE revived
     \/ /\ \/ m.op = "validate" /\ Validate(m.at)
           \/ m.op = "delete" /\ Delete(m.user)
        /\ UNCHANGED <<parent, revived>>
     \/ /\ \/ m.op = "create" /\ Conflict(g, g, g)
           \/ m.op = "refresh" /\ (Conflict(g, g, g) \/ ~Redeemable(m.at, m.rt))
           \/ m.op = "validate" /\ ~Validates(m.at)
        /\ UNCHANGED <<storeVars, parent, revived>>
  /\ UNCHANGED <<call, known>>

---------------------------------------------------------------------------
(* The service.                                                            *)

\* The call returns.  What stays of it is the outcome the caller may rely on later:
\* that a pair is invalid, or that a user is logged out.
Return(c, outcome) ==
  call' = [call EXCEPT ![c] =
    IF <<@.op, outcome>> \in {<<"refresh", "invalid">>, <<"delete", "ok">>}
      THEN [Resting EXCEPT !.st = "done", !.op = call[c].op, !.code = outcome,
              !.at = call[c].at, !.rt = call[c].rt, !.before = call[c].before]
      ELSE Resting]

\* Success, and the pair is the caller's; or the token is invalid.
ReturnReply(c) ==
  /\ call[c].st = "replied"
  /\ call[c].code \in {"ok", "invalid"}
  /\ Return(c, call[c].code)
  /\ known' = IF call[c].code = "ok" /\ Draws(c) THEN known \union {call[c].gen} ELSE known
  /\ UNCHANGED <<storeVars, late, parent, revived>>

SlipNoCount(c) ==
  /\ call[c].st = "replied"
  /\ call[c].code = "conflict"
  /\ call' = [call EXCEPT ![c].st = "ready", ![c].gen = NoId]
  /\ UNCHANGED <<storeVars, late, known, parent, revived>>

SlipFailedIsInvalid(c) ==
  /\ call[c].st = "replied"
  /\ call[c].code = "conflict"
  /\ Return(c, "invalid")
  /\ UNCHANGED <<storeVars, late, known, parent, revived>>

\* A conflict is tried again with new ids, until maxRetries attempts have failed.
Retry(c) ==
  /\ call[c].st = "replied"
  /\ call[c].code = "conflict"
  /\ IF call[c].try + 1 < MaxRetries
       THEN call' = [call EXCEPT ![c].st = "ready", ![c].gen = NoId, ![c].try = @ + 1]
       ELSE Return(c, "failed")
  /\ UNCHANGED <<storeVars, late, known, parent, revived>>

\* Redis cannot be reached, or go-redis runs out of retransmissions: whether the
\* script ran or not, the caller gets an internal error at once.
ReturnInternal(c) ==
  /\ Pending(c)
  /\ Return(c, "internal")
  /\ UNCHANGED <<storeVars, late, known, parent, revived>>

Serve(c) == Attempt(c) \/ ReturnReply(c) \/ Retry(c)

ServiceNext ==
  \/ \E c \in Caller :
       \/ \E u \in User : CallCreate(c, u) \/ CallDelete(c, u)
       \/ \E at, rt \in known : CallRefresh(c, at, rt)
       \/ \E at \in known : CallValidate(c, at)
       \/ Attempt(c)
       \/ Resend(c)
       \/ TimeOut(c)
       \/ ReturnReply(c)
       \/ Retry(c)
       \/ ReturnInternal(c)
  \/ \E m \in late : RunLate(m)
  \/ Tick /\ UNCHANGED callVars

ServiceSpec == ServiceInit /\ [][ServiceNext]_serviceVars

\* A call is one goroutine that runs until it returns: go-redis answers every
\* command with a reply or an error.
FairServiceSpec == ServiceSpec /\ \A c \in Caller : WF_serviceVars(Serve(c))

---------------------------------------------------------------------------
(* What callers can rely on.                                               *)

CallType ==
  [st : {"idle", "ready", "replied", "done"},
   op : {"none", "create", "refresh", "validate", "delete"},
   user : User \union {NoUser}, at : Id \union {NoId}, rt : Id \union {NoId},
   gen : Id \union {NoId}, try : 0..(MaxRetries - 1), resent : 0..MaxResend,
   code : {"none", "ok", "conflict", "invalid"},
   before : SUBSET Id]

CommandType ==
  [op : {"create", "refresh", "validate", "delete"},
   user : User \union {NoUser}, at : Id \union {NoId}, rt : Id \union {NoId},
   gen : Id \union {NoId}]

\* Callers and their calls: no call is tried maxRetries times and then once more.
ServiceTypeOK ==
  /\ TypeOK
  /\ call \in [Caller -> CallType]
  /\ late \subseteq CommandType
  /\ known \subseteq Id /\ revived \subseteq known
  /\ parent \in [Id -> Id \union {NoId}]

\* A token that was handed out and no longer works never works again, whatever
\* calls, retransmissions and retries are under way: only the command that issued
\* a pair can write it again.  While it is answered in time that is before the pair
\* is handed out; a late copy of it revives the pair, once all its keys are gone.
RetiredStaysRetired ==
  [][\A g \in known \ revived' :
       /\ ~Validates(g) => ~Validates(g)'
       /\ ~Redeemable(g, g) => ~Redeemable(g, g)']_serviceVars

\* A refresh token buys one session: two pairs handed out never descend from the
\* same one, not even when two callers present it at once, a reply is lost, or the
\* command is late; unless the token itself was revived.
NoForkedSession ==
  \A g, h \in known :
    parent[g] = parent[h] /\ parent[g] \notin revived \union {NoId} => g = h

\* A caller told that his pair is invalid may throw it away: it cannot be redeemed
\* then or later.  (It may have been redeemed by this very call, its reply lost.)
InvalidRefreshIsDead ==
  \A c \in Caller :
    call[c].st = "done" /\ call[c].op = "refresh"
      => ~Redeemable(call[c].at, call[c].rt) \/ call[c].rt \in revived

\* Once a logout has returned, no pair handed out before it began works, although
\* logins and refreshes of the same user may overlap it, or be late from before.
LogoutIsComplete ==
  \A c \in Caller :
    call[c].st = "done" /\ call[c].op = "delete"
      => \A g \in call[c].before \ revived : ~Validates(g) /\ ~Redeemable(g, g)

\* Every call returns: conflicts end the retry loop after maxRetries attempts.
EveryCallReturns == \A c \in Caller : Pending(c) ~> ~Pending(c)
===========================================================================
