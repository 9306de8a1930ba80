----------------------------- MODULE RedisLock -----------------------------
(***************************************************************************)
(* rediscli/lock.go: DistributedLock (SET NX with a TTL, and scripts that  *)
(* compare the value before they delete or expire the key) and BatchLock   *)
(* (one script that sets all keys or none).                                *)
(*                                                                         *)
(* A client is one lock instance and the goroutine that uses it.  Its      *)
(* commands and Redis's replies travel: time may pass, and the commands of *)
(* others may run, between sending a command, running it and reading the   *)
(* reply; a reply may be lost, and then go-redis sends the command again   *)
(* or gives up; a process may crash at any point.                          *)
(*                                                                         *)
(* The value of a key is the instance that set it (uniqueValue).  TTLs,    *)
(* the timeout of Lock and the client's own idea of its lease are counted  *)
(* in ticks; a key with TTL 0 is absent.                                   *)
(***************************************************************************)
EXTENDS Naturals, Sequences, Functions

CONSTANTS
  Client, NoClient,  \* lock instances, and the absence of one
  Batch,             \* the clients that are a BatchLock
  Key,               \* the keys
  KeysOf,            \* the keys of each client, in the order given
  LockTTL,           \* the ttl of every instance
  Timeout,           \* the timeout passed to Lock
  ExtendTTL,         \* the ttls passed to Extend, in whole seconds
  MaxResend          \* bound: replies lost in the course of one call

\* A definition named Slip... is a bug a later change could make in the definition
\* after it; the project's mutation runs put it in its place.

ASSUME ClientAssumption == NoClient \notin Client /\ Batch \subseteq Client
ASSUME KeysAssumption ==
  /\ KeysOf \in [Client -> Seq(Key)]
  /\ \A l \in Client \ Batch : Len(KeysOf[l]) = 1
ASSUME TimeAssumption ==
  /\ LockTTL \in Nat \ {0}
  /\ ExtendTTL \subseteq Nat
  /\ {Timeout, MaxResend} \subseteq Nat

VARIABLES
  lock,              \* the keys: who set each of them, and its TTL
  client             \* the clients

vars == <<lock, client>>

Free == [ttl |-> 0, by |-> NoClient]

\* lease is the client's idea of how long it still holds the lock, counted from the
\* moment it sent the command; fresh counts from the command on its way; wait is
\* what is left of the timeout.
Resting ==
  [st |-> "idle", op |-> "none", code |-> "none", ttl |-> 0,
   fresh |-> 0, lease |-> 0, wait |-> 0, resent |-> 0]

Init ==
  /\ lock = [k \in Key |-> Free]
  /\ client = [l \in Client |-> Resting]

Keys(l) == Range(KeysOf[l])
Live(k) == lock[k].ttl > 0
Owns(l, k) == Live(k) /\ lock[k].by = l

---------------------------------------------------------------------------
(* What the commands do in Redis.                                          *)

\* SETNX, or the batch script: a key given twice fails on its own first SET.
Acquirable(l) == (\A k \in Keys(l) : ~Live(k)) /\ IsInjective(KeysOf[l])

SlipNoRollback(l) ==
  lock' = [k \in Key |->
    IF \E i \in DOMAIN KeysOf[l] : KeysOf[l][i] = k /\ \A j \in 1..i : ~Live(KeysOf[l][j])
      THEN [ttl |-> LockTTL, by |-> l] ELSE lock[k]]

SlipRenewOnWait(l) ==
  lock' = [k \in Key |->
    IF k \in Keys(l)
      THEN [ttl |-> LockTTL, by |-> IF Live(k) THEN lock[k].by ELSE l] ELSE lock[k]]

\* All keys, or none: the keys set before a failure are deleted again.
Acquire(l) ==
  lock' = [k \in Key |->
    IF k \in Keys(l) /\ Acquirable(l) THEN [ttl |-> LockTTL, by |-> l] ELSE lock[k]]

SlipNoCompare(l) == lock' = [k \in Key |-> IF k \in Keys(l) THEN Free ELSE lock[k]]

\* DEL of the keys whose value is this instance's.
Release(l) ==
  lock' = [k \in Key |-> IF k \in Keys(l) /\ Owns(l, k) THEN Free ELSE lock[k]]

SlipExpireAnyway(l, d) ==
  lock' = [k \in Key |->
    IF k \in Keys(l) /\ Live(k)
      THEN IF d = 0 THEN Free ELSE [lock[k] EXCEPT !.ttl = d]
      ELSE lock[k]]

\* EXPIRE of the key whose value is this instance's.  The TTL is set to d, whatever
\* it was; EXPIRE with 0, a duration below one second, deletes the key.
Expire(l, d) ==
  lock' = [k \in Key |->
    IF k \in Keys(l) /\ Owns(l, k)
      THEN IF d = 0 THEN Free ELSE [ttl |-> d, by |-> l]
      ELSE lock[k]]

\* The command of a client runs; lost counts the replies of this call lost before.
Run(l, lost) ==
  LET me == client[l]
      held == \E k \in Keys(l) : Owns(l, k)
      Answer(ok) ==
        client' = [client EXCEPT ![l].st = "answered", ![l].resent = lost,
                                 ![l].code = IF ok THEN "ok" ELSE "no"]
  IN
  \/ me.op \in {"lock", "try"} /\ Acquire(l) /\ Answer(Acquirable(l))
  \/ me.op = "unlock" /\ Release(l) /\ Answer(held)
  \/ me.op = "extend" /\ Expire(l, me.ttl) /\ Answer(held)

\* The command arrives.
Arrive(l) ==
  /\ client[l].st = "asking"
  /\ Run(l, client[l].resent)

\* The reply is lost and go-redis sends the command again.
Resend(l) ==
  /\ client[l].st = "answered"
  /\ client[l].resent < MaxResend
  /\ Run(l, client[l].resent + 1)

---------------------------------------------------------------------------
(* The client.                                                             *)

\* Lock and TryLock on an instance that does not hold the lock.  A BatchLock has no
\* TryLock.
Ask(l, op) ==
  /\ client[l].st = "idle"
  /\ client' = [client EXCEPT ![l] = [Resting EXCEPT
       !.st = "asking", !.op = op, !.fresh = LockTTL,
       !.wait = IF op = "lock" THEN Timeout ELSE 0]]
  /\ UNCHANGED lock

Lock(l) == Ask(l, "lock")
TryLock(l) == l \notin Batch /\ Ask(l, "try")

\* Unlock ends the critical section before anything else, and may be called by a
\* client that holds nothing.
Unlock(l) ==
  /\ client[l].st \in {"idle", "held"}
  /\ client' = [client EXCEPT ![l] = [Resting EXCEPT !.st = "asking", !.op = "unlock"]]
  /\ UNCHANGED lock

\* From here on the key may have the TTL d, so the lease is no longer than that.  A
\* client that holds nothing, as far as it knows, may call it too.
Extend(l, d) ==
  /\ l \notin Batch
  /\ client[l].st \in {"idle", "held"}
  /\ client' = [client EXCEPT ![l] = [Resting EXCEPT
       !.st = "asking", !.op = "extend", !.ttl = d, !.fresh = d,
       !.lease = IF client[l].lease < d THEN client[l].lease ELSE d]]
  /\ UNCHANGED lock

Holding(lease) == [Resting EXCEPT !.st = "held", !.lease = lease]

\* The reply says yes.
Succeed(l) ==
  /\ client[l].st = "answered" /\ client[l].code = "ok"
  /\ client' = [client EXCEPT ![l] =
       IF client[l].op = "unlock" THEN Resting ELSE Holding(client[l].fresh)]
  /\ UNCHANGED lock

AskingAgain(c) == [c EXCEPT !.st = "asking", !.code = "none", !.fresh = LockTTL]

SlipNoDeadline(l) ==
  /\ client[l].st = "answered" /\ client[l].code = "no"
  /\ client' = [client EXCEPT ![l] =
       IF client[l].op = "lock"
         THEN AskingAgain(client[l])
         ELSE Resting]
  /\ UNCHANGED lock

\* The reply says no: Lock sleeps and asks again until its deadline has passed, the
\* others return an error or false.
Refused(l) ==
  /\ client[l].st = "answered" /\ client[l].code = "no"
  /\ client' = [client EXCEPT ![l] =
       IF client[l].op = "lock" /\ client[l].wait > 0
         THEN AskingAgain(client[l])
         ELSE Resting]
  /\ UNCHANGED lock

\* Redis cannot be reached or go-redis gives up: an error, whether the command ran
\* or not.  Only a failed Extend leaves the client with its lease, if it had one.
Fail(l) ==
  /\ client[l].st \in {"asking", "answered"}
  /\ client' = [client EXCEPT ![l] =
       IF client[l].op = "extend" /\ client[l].lease > 0
         THEN Holding(client[l].lease) ELSE Resting]
  /\ UNCHANGED lock

\* The process dies; a command on its way dies with it.
Crash(l) ==
  /\ client[l].st # "crashed"
  /\ client' = [client EXCEPT ![l] = [Resting EXCEPT !.st = "crashed"]]
  /\ UNCHANGED lock

---------------------------------------------------------------------------
Less(n) == IF n > 0 THEN n - 1 ELSE 0

Tick ==
  /\ lock' = [k \in Key |->
       IF lock[k].ttl > 1 THEN [lock[k] EXCEPT !.ttl = @ - 1] ELSE Free]
  /\ client' = [l \in Client |->
       [client[l] EXCEPT !.fresh = Less(@), !.lease = Less(@), !.wait = Less(@)]]

Proceed(l) == Arrive(l) \/ Succeed(l) \/ Refused(l)

Next ==
  \/ \E l \in Client :
       \/ Lock(l) \/ TryLock(l) \/ Unlock(l)
       \/ \E d \in ExtendTTL : Extend(l, d)
       \/ Arrive(l) \/ Resend(l)
       \/ Succeed(l) \/ Refused(l) \/ Fail(l)
       \/ Crash(l)
  \/ Tick

Spec == Init /\ [][Next]_vars

\* Time passes, and a goroutine in a call goes on until the call returns.
FairSpec == Spec /\ WF_vars(Tick) /\ \A l \in Client : WF_vars(Proceed(l))

---------------------------------------------------------------------------
(* What the lock promises.                                                 *)

TTLs == {LockTTL} \union ExtendTTL
Within(n) == \E t \in TTLs : n <= t

Entry == {Free} \union [ttl : {n \in Nat : n > 0 /\ Within(n)}, by : Client]
State ==
  [st : {"idle", "asking", "answered", "held", "crashed"},
   op : {"none", "lock", "try", "unlock", "extend"},
   code : {"none", "ok", "no"},
   ttl : {0} \union ExtendTTL,
   fresh : {n \in Nat : Within(n)},
   lease : {n \in Nat : Within(n)},
   wait : 0..Timeout,
   resent : 0..MaxResend]

\* No key ever has a TTL beyond those the callers gave, and an absent key no owner.
TypeOK ==
  /\ lock \in [Key -> Entry]
  /\ client \in [Client -> State]

\* A lease is covered by keys of the client that live at least as long, and so is
\* the lease that a positive reply on its way will grant.
Covered(l, t) == \A k \in Keys(l) : lock[k].by = l /\ lock[k].ttl >= t

LeaseCovered ==
  \A l \in Client :
    /\ client[l].lease > 0 => Covered(l, client[l].lease)
    /\ /\ client[l].st = "answered" /\ client[l].code = "ok"
       /\ client[l].op # "unlock" /\ client[l].fresh > 0
       => Covered(l, client[l].fresh)

\* What an extension and a lock request on their way may grant, and who has a lease.
CallShape ==
  \A l \in Client :
    /\ client[l].lease > 0 => client[l].st = "held" \/ client[l].op = "extend"
    /\ client[l].op = "extend" =>
         l \notin Batch /\ client[l].lease <= client[l].ttl /\ client[l].fresh <= client[l].ttl
    /\ client[l].op \in {"lock", "try"} => client[l].fresh <= LockTTL

\* The keys of a batch share one fate, TTL included.
BatchUniform ==
  \A l \in Batch : \A j, k \in Keys(l) : Owns(l, j) => lock[k] = lock[j]

\* A key belongs only to a client that asks for it.
OwnedAsAsked == \A k \in Key : Live(k) => k \in Keys(lock[k].by)

\* The inductive invariant: the client's lease, kept on one side of the network, is
\* never ahead of the TTL kept on the other.
LockInv ==
  /\ TypeOK
  /\ CallShape
  /\ LeaseCovered
  /\ BatchUniform
  /\ OwnedAsAsked

\* Two clients that count their lease from the moment they asked are never inside
\* at once with a key in common: delays, lost replies, crashes and the Unlock of a
\* client whose key expired long ago never let a second one in before its time.
MutualExclusion ==
  \A l, m \in Client :
    l # m /\ client[l].lease > 0 /\ client[m].lease > 0 => Keys(l) \intersect Keys(m) = {}

\* A BatchLock owns all of its keys or none, so two of them that name the same keys
\* in another order never each hold a part and wait for the rest.
AllOrNothing ==
  \A l \in Batch :
    (\E k \in Keys(l) : Owns(l, k)) => \A k \in Keys(l) : Owns(l, k)

\* No command of a client alters a key that another client owns: not the Unlock or
\* Extend of one whose key expired and was taken, not the failed Lock of one that
\* waits.
Moves(l) == client'[l].st # client[l].st \/ client'[l].resent # client[l].resent

OnlyOwnerTouches ==
  [][\A l \in Client, k \in Key :
       Moves(l) /\ Live(k) /\ lock[k].by # l => lock'[k] = lock[k]]_vars

\* The keys and the clients as an implementation of LockService: a client is inside
\* while its own count of the lease runs.
Service ==
  INSTANCE LockService WITH
    Needs <- [l \in Client |-> Keys(l)],
    owner <- [k \in Key |-> lock[k].by],
    inside <- {l \in Client : client[l].lease > 0}

\* Over a network that delays and loses, with clients that crash, the lock is the
\* service: the keys of a client are taken together and only when all are free, they
\* are freed together and never under a client that is inside, and no client is inside
\* that does not own them all.
LockServiceSpec == Service!Spec

\* Lock returns: with the lock, or with an error once its timeout has passed.
LockReturns ==
  \A l \in Client :
    client[l].op = "lock" ~> client[l].op # "lock"

\* A crashed holder does not keep the others out for ever.
CrashedHolderYields ==
  \A l \in Client, k \in Key :
    client[l].st = "crashed" /\ Owns(l, k) ~> ~Owns(l, k)

\* "Extend extends the lock TTL if still owned" (lock.go): it never leaves the key
\* with less time than it had.  The code sets the TTL to the argument, so it does.
ExtendNeverShortens ==
  [][\A l \in Client, k \in Key :
       /\ client[l].op = "extend" /\ client'[l].op = "extend"
       /\ client[l].st = "asking" /\ client'[l].st = "answered"
       /\ Owns(l, k)
       => lock'[k].ttl >= lock[k].ttl]_vars
===========================================================================
