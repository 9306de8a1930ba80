----------------------------- MODULE RateLimit -----------------------------
(***************************************************************************)
(* The sliding-window limiter of package ratelimit for one key: the ZSET   *)
(* of admitted requests, the scripts luaAllow, luaPeek, luaEntries and the *)
(* DEL of Reset, and GinMiddleware around Allow.                           *)
(*                                                                         *)
(* The limiter reads the clock of its own host BEFORE the script runs: a   *)
(* script may run up to Lag later, after scripts that read a later clock,  *)
(* and the clock of a host may be ahead of real time by up to Skew.  A     *)
(* lost reply makes go-redis send the same command again, with the same    *)
(* member and the same time.                                               *)
(*                                                                         *)
(* A request is one call and its member of the ZSET; its score is the time *)
(* it read.  clock is real time, which Redis counts the key's TTL with.    *)
(*                                                                         *)
(* A definition named Slip... is a bug a later change could make in the    *)
(* definition after it; the project's mutation runs put it in its place.   *)
(***************************************************************************)
EXTENDS Naturals, FiniteSets

CONSTANTS
  Request,           \* the calls, each with the member it would write
  Monitor,           \* those of them that Peek, read Entries or Reset; the others Allow
  Limit, Window,     \* the Rate of the key
  Lag,               \* how long a command may be under way
  Ahead,             \* how far the clock of each caller's host is ahead of real time
  Skew,              \* the most that a clock is ahead
  MaxResend,         \* bound: replies lost in the course of one call
  Horizon            \* bound: the last moment of the clock

ASSUME RequestAssumption == IsFiniteSet(Request) /\ Monitor \subseteq Request
ASSUME RateAssumption == {Limit, Lag, Skew, MaxResend, Horizon} \subseteq Nat /\ Window \in Nat \ {0}
ASSUME ClockAssumption == Ahead \in [Request -> 0..Skew]

VARIABLES
  clock,
  zset,              \* the members of the ZSET
  ttl,               \* the TTL of its key, 0 when the key is absent
  req,               \* the calls
  admitted, at       \* history: the requests admitted since the last Reset, and when

vars == <<clock, zset, ttl, req, admitted, at>>

NoReply == [allowed |-> FALSE, remaining |-> 0, retry |-> 0, total |-> 0]
Fresh == [st |-> "new", op |-> "none", sent |-> 0, now |-> 0, resent |-> 0, reply |-> NoReply]

Init ==
  /\ clock = 0
  /\ zset = {}
  /\ ttl = 0
  /\ req = [r \in Request |-> Fresh]
  /\ admitted = {}
  /\ at = [r \in Request |-> 0]

Waiting(r) == req[r].st \in {"sent", "ran"}

---------------------------------------------------------------------------
(* The scripts, run with the time n.                                       *)

SlipNoPurge(n) == zset
SlipNoWindow(n) == {m \in zset : req[m].now > n}

\* What ZREMRANGEBYSCORE up to n - window leaves.
Kept(n) == {m \in zset : req[m].now + Window > n}

\* The score of the oldest member, for a set that has one.
OldestIn(members) == CHOOSE t \in {req[m].now : m \in members} : \A m \in members : t <= req[m].now

SlipFromNow(members, n) == IF members # {} THEN Window ELSE 0

\* How long until the oldest member leaves the window.
RetryAfter(members, n) ==
  IF members # {} /\ OldestIn(members) + Window > n THEN OldestIn(members) + Window - n ELSE 0

Full(members, n) ==
  [allowed |-> FALSE, remaining |-> 0, retry |-> RetryAfter(members, n), total |-> Cardinality(members)]

\* An empty ZSET is no key, and loses its TTL.
Purge(members) ==
  /\ zset' = members
  /\ ttl' = IF members = {} THEN 0 ELSE ttl

Answer(r, lost, reply) ==
  req' = [req EXCEPT ![r].st = "ran", ![r].resent = lost, ![r].reply = reply]

\* luaAllow with room: ZADD, which a retransmitted command repeats without effect,
\* and PEXPIRE.
Admit(r, lost) ==
  LET kept == Kept(req[r].now)
      count == Cardinality(kept)
  IN
  /\ req[r].op = "allow"
  /\ count < Limit
  /\ zset' = kept \union {r}
  /\ ttl' = Window
  /\ Answer(r, lost, [allowed |-> TRUE, remaining |-> Limit - count - 1,
                      retry |-> 0, total |-> count + 1])
  /\ admitted' = admitted \union {r}
  /\ at' = [at EXCEPT ![r] = clock]

SlipAddAnyway(r, lost) ==
  LET kept == Kept(req[r].now) IN
  /\ req[r].op = "allow"
  /\ Cardinality(kept) >= Limit
  /\ zset' = kept \union {r}
  /\ ttl' = Window
  /\ Answer(r, lost, Full(kept, req[r].now))
  /\ UNCHANGED <<admitted, at>>

\* luaAllow without room.
Refuse(r, lost) ==
  LET kept == Kept(req[r].now) IN
  /\ req[r].op = "allow"
  /\ Cardinality(kept) >= Limit
  /\ Purge(kept)
  /\ Answer(r, lost, Full(kept, req[r].now))
  /\ UNCHANGED <<admitted, at>>

\* luaPeek, and luaEntries, whose reply is the ZSET itself: nothing is recorded,
\* but what is stale by the caller's clock is gone.
Look(r, lost) ==
  LET kept == Kept(req[r].now)
      count == Cardinality(kept)
  IN
  /\ req[r].op = "look"
  /\ Purge(kept)
  /\ Answer(r, lost,
       IF count >= Limit THEN Full(kept, req[r].now)
       ELSE [allowed |-> TRUE, remaining |-> Limit - count, retry |-> 0, total |-> count])
  /\ UNCHANGED <<admitted, at>>

\* Reset: the key is deleted, and the count begins anew.
Clear(r, lost) ==
  /\ req[r].op = "reset"
  /\ Purge({})
  /\ Answer(r, lost, NoReply)
  /\ admitted' = {}
  /\ UNCHANGED at

Run(r, lost) ==
  /\ Admit(r, lost) \/ Refuse(r, lost) \/ Look(r, lost) \/ Clear(r, lost)
  /\ UNCHANGED clock

---------------------------------------------------------------------------
(* The callers.                                                            *)

\* The limiter reads its host's clock and sends the script.
Send(r, op) ==
  /\ req[r].st = "new"
  /\ req' = [req EXCEPT ![r].st = "sent", ![r].op = op, ![r].sent = clock,
                        ![r].now = clock + Ahead[r]]
  /\ UNCHANGED <<clock, zset, ttl, admitted, at>>

\* The calls of the limiter; Peek stands for Entries too, whose script purges alike.
Allow(r) == r \notin Monitor /\ Send(r, "allow")
Peek(r) == r \in Monitor /\ Send(r, "look")
Reset(r) == r \in Monitor /\ Send(r, "reset")

Arrive(r) == req[r].st = "sent" /\ Run(r, req[r].resent)

Resend(r) == req[r].st = "ran" /\ req[r].resent < MaxResend /\ Run(r, req[r].resent + 1)

\* The call is over; the time of an admitted one is kept, for it is the score of its
\* member.
Close(r, st) ==
  /\ req' = [req EXCEPT ![r] =
       [Fresh EXCEPT !.st = st, !.now = IF r \in admitted THEN req[r].now ELSE 0]]
  /\ UNCHANGED <<clock, zset, ttl, admitted, at>>

\* GinMiddleware goes on to the handler or aborts as Allow says.
Return(r) ==
  /\ req[r].st = "ran"
  /\ Close(r, IF req[r].op = "allow" /\ ~req[r].reply.allowed THEN "refused" ELSE "passed")

\* Redis cannot be reached, or go-redis gives up, whether the script ran or not:
\* the middleware lets the request pass.
Fail(r) == Waiting(r) /\ Close(r, "passed")

\* The TTL runs down; no command is under way for longer than Lag.
Tick ==
  /\ clock < Horizon
  /\ \A r \in Request : Waiting(r) => clock < req[r].sent + Lag
  /\ clock' = clock + 1
  /\ ttl' = IF ttl > 0 THEN ttl - 1 ELSE 0
  /\ zset' = IF ttl > 1 THEN zset ELSE {}
  /\ UNCHANGED <<req, admitted, at>>

Next ==
  \/ \E r \in Request :
       \/ Allow(r) \/ Peek(r) \/ Reset(r)
       \/ Arrive(r) \/ Resend(r) \/ Return(r) \/ Fail(r)
  \/ Tick

Spec == Init /\ [][Next]_vars

---------------------------------------------------------------------------
(* What the limiter promises.                                              *)

ReplyType == [allowed : BOOLEAN, remaining : 0..Limit, retry : 0..(Window + Lag + Skew),
              total : 0..Limit]
CallType ==
  [st : {"new", "sent", "ran", "passed", "refused"}, op : {"none", "allow", "look", "reset"},
   sent : Nat, now : Nat, resent : 0..MaxResend, reply : ReplyType]

TypeOK ==
  /\ clock \in Nat
  /\ zset \subseteq Request
  /\ ttl \in 0..Window
  /\ req \in [Request -> CallType]
  /\ admitted \subseteq Request
  /\ at \in [Request -> Nat]

\* A command under way is at most Lag old, and no clock is more than Skew ahead.
InFlight ==
  \A r \in Request : Waiting(r) =>
    /\ req[r].sent <= clock /\ clock <= req[r].sent + Lag
    /\ req[r].sent <= req[r].now /\ req[r].now <= req[r].sent + Skew

\* When a request was admitted, by its own clock and by the real one.
AdmittedWhen ==
  \A r \in admitted :
    /\ req[r].st # "new"
    /\ at[r] <= clock
    /\ at[r] <= req[r].now + Lag
    /\ req[r].now <= at[r] + Skew

Recent(r) == at[r] + Window > clock + Lag + Skew

\* The inductive invariant: the ZSET never holds more than Limit members, all of
\* them admitted, and whoever was admitted less than Window - Lag - Skew ago is
\* still among them.
WindowInv ==
  /\ TypeOK
  /\ InFlight
  /\ AdmittedWhen
  /\ zset \subseteq admitted
  /\ Cardinality(zset) <= Limit
  /\ zset = {} <=> ttl = 0
  /\ zset # {} => \A r \in admitted : at[r] + Window <= clock + ttl
  /\ \A r \in admitted : Recent(r) => r \in zset

\* In no interval of Window - Lag - Skew are more than Limit requests admitted:
\* neither commands that overtake each other nor retransmissions, purges by a Peek
\* whose clock is ahead or the expiry of the key make room before its time.
LimitHolds == Cardinality({r \in admitted : Recent(r)}) <= Limit

Refused(r) ==
  /\ req'[r].st = "ran" /\ req'[r].op = "allow" /\ ~req'[r].reply.allowed
  /\ req[r].st = "sent" \/ req[r].resent # req'[r].resent

\* Nobody is refused without cause: Limit requests were admitted within the last
\* Window + Lag + Skew.  (One of them may be an earlier copy of the command itself.)
RefusalIsJustified ==
  [][\A r \in Request : Refused(r) =>
       Cardinality({m \in admitted : clock < at[m] + Window + Lag + Skew}) >= Limit]_vars

\* How many of members are still in the window at time t.
CountAt(members, t) == Cardinality({m \in members : req[m].now + Window > t})

\* RetryAfter is exact: with nothing else admitted, a call at that time by the same
\* clock finds room, and a call a moment earlier does not.
RetryAfterIsExact ==
  [][\A r \in Request : Refused(r) /\ Limit > 0 =>
       LET then == req'[r].now + req'[r].reply.retry IN
       CountAt(zset', then) < Limit /\ CountAt(zset', then - 1) >= Limit]_vars

\* "Limit: the most requests in the window" (limiter.go): no more than Limit
\* requests are admitted in an interval of Window.
AtMostLimitPerWindow ==
  Cardinality({r \in admitted : at[r] + Window > clock}) <= Limit
===========================================================================
