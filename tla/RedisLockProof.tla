--------------------------- MODULE RedisLockProof ---------------------------
(***************************************************************************)
(* Proofs about RedisLock, for any clients, keys, TTLs and timeouts.       *)
(***************************************************************************)
EXTENDS RedisLock, TLAPS

\* Every client's keys are keys, and a client that is no batch has exactly one.
LEMMA KeysAreKeys ==
  ASSUME NEW l \in Client
  PROVE  /\ Keys(l) \subseteq Key
         /\ l \notin Batch => \A j, k \in Keys(l) : j = k
<1>1. KeysOf[l] \in Seq(Key)
  BY KeysAssumption
<1>2. l \notin Batch => Len(KeysOf[l]) = 1
  BY KeysAssumption
<1> QED
  BY <1>1, <1>2 DEF Keys, Range

\* The key entries a command may leave.
LEMMA EntryTypes ==
  /\ \A l \in Client : [ttl |-> LockTTL, by |-> l] \in Entry
  /\ \A l \in Client, d \in ExtendTTL : d # 0 => [ttl |-> d, by |-> l] \in Entry
  /\ Free \in Entry
  /\ \A e \in Entry : e.ttl \in Nat
  /\ \A e \in Entry : e.ttl > 0 => e.by \in Client
BY TimeAssumption DEF Entry, Free, Within, TTLs

\* The client records the actions leave.
LEMMA StateTypes ==
  /\ Resting \in State
  /\ \A n \in Nat : Within(n) => Holding(n) \in State
  /\ Within(0) /\ Within(LockTTL) /\ \A d \in ExtendTTL : Within(d)
<1>1. Within(0) /\ Within(LockTTL) /\ \A d \in ExtendTTL : Within(d)
  BY TimeAssumption DEF Within, TTLs
<1>2. 0 \in 0..Timeout /\ 0 \in 0..MaxResend
  BY TimeAssumption
<1>3. Resting \in State
  BY <1>1, <1>2 DEF State, Resting
<1>4. ASSUME NEW n \in Nat, Within(n)
      PROVE  Holding(n) \in State
  BY <1>2, <1>4, <1>3, <1>1 DEF State, Resting, Holding
<1> QED
  BY <1>1, <1>3, <1>4

\* With all keys free and all clients at rest the invariant holds.
LEMMA InitInv == Init => LockInv
<1> SUFFICES ASSUME Init PROVE LockInv
  OBVIOUS
<1>1. TypeOK
  BY EntryTypes, StateTypes DEF Init, TypeOK
<1>2. \A l \in Client : client[l] = Resting
  BY DEF Init
<1>3. \A k \in Key : lock[k] = Free
  BY DEF Init
<1>4. CallShape
  BY <1>2 DEF CallShape, Resting
<1>5. LeaseCovered
  BY <1>2 DEF LeaseCovered, Resting
<1>6. BatchUniform
  <2>1. \A l \in Client : Keys(l) \subseteq Key
    BY KeysAreKeys
  <2> QED
    BY <1>3, <2>1, ClientAssumption DEF BatchUniform
<1>7. OwnedAsAsked
  BY <1>3 DEF OwnedAsAsked, Live, Free
<1> QED
  BY <1>1, <1>4, <1>5, <1>6, <1>7 DEF LockInv

\* A command of l leaves the keys of the others alone.
LEMMA ForeignKeysStay ==
  ASSUME NEW l \in Client,
         Acquire(l) \/ Release(l) \/ \E d \in ExtendTTL : Expire(l, d)
  PROVE  \A k \in Key : Live(k) /\ lock[k].by # l => lock'[k] = lock[k]
<1>1. CASE Acquire(l)
  BY <1>1 DEF Acquire, Acquirable
<1>2. CASE Release(l)
  BY <1>2 DEF Release, Owns
<1>3. ASSUME NEW d \in ExtendTTL, Expire(l, d)
      PROVE  \A k \in Key : Live(k) /\ lock[k].by # l => lock'[k] = lock[k]
  BY <1>3 DEF Expire, Owns
<1> QED
  BY <1>1, <1>2, <1>3

\* Covered in the state a step leads to, for a lease of either state.
CoveredNext(l, t) == \A k \in Keys(l) : lock'[k].by = l /\ lock'[k].ttl >= t

\* A step of one client that leaves the keys of the others alone keeps the
\* invariant when its own new record is well formed and its leases are covered.
LEMMA OneClientMoves ==
  ASSUME LockInv, NEW l \in Client, NEW rec \in State,
         client' = [client EXCEPT ![l] = rec],
         lock' \in [Key -> Entry],
         \A k \in Key : Live(k) /\ lock[k].by # l => lock'[k] = lock[k],
         \A k \in Key : \/ lock'[k] = lock[k]
                        \/ lock'[k] = Free
                        \/ lock'[k].by = l /\ k \in Keys(l),
         rec.lease > 0 => rec.st = "held" \/ rec.op = "extend",
         rec.op = "extend" => l \notin Batch /\ rec.lease <= rec.ttl
           /\ rec.fresh <= rec.ttl,
         rec.op \in {"lock", "try"} => rec.fresh <= LockTTL,
         rec.lease > 0 => CoveredNext(l, rec.lease),
         rec.st = "answered" /\ rec.code = "ok" /\ rec.op # "unlock"
           /\ rec.fresh > 0 => CoveredNext(l, rec.fresh),
         BatchUniform'
  PROVE  LockInv'
<1>1. TypeOK /\ TypeOK'
  BY DEF LockInv, TypeOK
<1>2. /\ client'[l] = rec
      /\ \A m \in Client : m # l => client'[m] = client[m]
  BY <1>1 DEF TypeOK
<1>3. CallShape'
  BY <1>2 DEF LockInv, CallShape
<1>4. ASSUME NEW m \in Client, m # l, NEW t \in Nat, t > 0, Covered(m, t)
      PROVE  CoveredNext(m, t)
  <2>1. \A k \in Keys(m) : Live(k) /\ lock[k].by # l
    BY <1>1, <1>4, KeysAreKeys, EntryTypes DEF Covered, Live, TypeOK
  <2> QED
    BY <1>4, <2>1, KeysAreKeys DEF Covered, CoveredNext
<1>5. LeaseCovered'
  <2> SUFFICES ASSUME NEW m \in Client
               PROVE  /\ client'[m].lease > 0 => CoveredNext(m, client'[m].lease)
                      /\ /\ client'[m].st = "answered" /\ client'[m].code = "ok"
                         /\ client'[m].op # "unlock"
                         /\ client'[m].fresh > 0
                         => CoveredNext(m, client'[m].fresh)
    BY DEF LeaseCovered, Covered, CoveredNext
  <2>1. CASE m = l
    BY <1>2, <2>1
  <2>2. CASE m # l
    <3>1. client'[m] = client[m]
      BY <1>2, <2>2
    <3>2. client[m].lease \in Nat /\ client[m].fresh \in Nat
      BY <1>1 DEF TypeOK, State
    <3>3. client[m].lease > 0 => CoveredNext(m, client[m].lease)
      BY <1>4, <2>2, <3>2 DEF LockInv, LeaseCovered
    <3>4. /\ client[m].st = "answered" /\ client[m].code = "ok"
          /\ client[m].op # "unlock"
          /\ client[m].fresh > 0
          => CoveredNext(m, client[m].fresh)
      BY <1>4, <2>2, <3>2 DEF LockInv, LeaseCovered
    <3> QED
      BY <3>1, <3>3, <3>4
  <2> QED
    BY <2>1, <2>2
<1>6. OwnedAsAsked'
  BY DEF LockInv, OwnedAsAsked, Live, Free
<1> QED
  BY <1>1, <1>3, <1>5, <1>6 DEF LockInv

\* What a command of l leaves of a key: as it was, absent, or one of l's keys, set by l.
LEMMA CommandEffect ==
  ASSUME TypeOK, NEW l \in Client,
         Acquire(l) \/ Release(l) \/ \E d \in ExtendTTL : Expire(l, d)
  PROVE  /\ lock' \in [Key -> Entry]
         /\ \A k \in Key : \/ lock'[k] = lock[k]
                           \/ lock'[k] = Free
                           \/ lock'[k].by = l /\ k \in Keys(l)
<1> DEFINE Effect == \A k \in Key : \/ lock'[k] = lock[k]
                                    \/ lock'[k] = Free
                                    \/ lock'[k].by = l /\ k \in Keys(l)
<1>1. CASE Acquire(l)
  <2>1. lock' \in [Key -> Entry]
    BY <1>1, EntryTypes DEF Acquire, TypeOK
  <2>2. Effect
    BY <1>1 DEF Acquire
  <2> QED
    BY <2>1, <2>2
<1>2. CASE Release(l)
  <2>1. lock' \in [Key -> Entry]
    BY <1>2, EntryTypes DEF Release, TypeOK
  <2>2. Effect
    BY <1>2 DEF Release
  <2> QED
    BY <2>1, <2>2
<1>3. ASSUME NEW d \in ExtendTTL, Expire(l, d)
      PROVE  lock' \in [Key -> Entry] /\ Effect
  <2>1. lock' \in [Key -> Entry]
    BY <1>3, EntryTypes DEF Expire, TypeOK
  <2>2. Effect
    BY <1>3 DEF Expire
  <2> QED
    BY <2>1, <2>2
<1> QED
  BY <1>1, <1>2, <1>3

\* A command keeps the keys of every batch together; Extend is not for batches.
LEMMA CommandKeepsBatches ==
  ASSUME LockInv, NEW l \in Client,
         \/ Acquire(l)
         \/ Release(l)
         \/ l \notin Batch /\ \E d \in ExtendTTL : Expire(l, d)
  PROVE  BatchUniform'
<1> USE DEF LockInv
<1>1. \A k \in Key : lock'[k] = lock[k] \/ lock'[k] = Free \/ lock'[k].by = l
  BY CommandEffect
<1>2. \A k \in Key : Live(k) /\ lock[k].by # l => lock'[k] = lock[k]
  BY ForeignKeysStay
<1>3. ASSUME NEW m \in Batch, NEW j \in Keys(m), NEW k \in Keys(m),
             lock'[j].ttl > 0, lock'[j].by = m
      PROVE  lock'[k] = lock'[j]
  <2>1. m \in Client /\ j \in Key /\ k \in Key
    BY ClientAssumption, KeysAreKeys
  <2>2. CASE m # l
    <3>1. lock'[j] = lock[j]
      BY <1>1, <1>3, <2>1, <2>2 DEF Free
    <3>2. Owns(m, j)
      BY <1>3, <3>1 DEF Owns, Live
    <3>3. lock[k] = lock[j]
      BY <3>2 DEF BatchUniform
    <3> QED
      BY <1>2, <2>1, <2>2, <3>1, <3>2, <3>3 DEF Owns, Live
  <2>3. CASE m = l /\ Acquire(l)
    <3>1. CASE Acquirable(l)
      BY <2>1, <2>3, <3>1 DEF Acquire
    <3>2. CASE ~Acquirable(l)
      <4>1. lock'[j] = lock[j] /\ lock'[k] = lock[k]
        BY <2>1, <2>3, <3>2 DEF Acquire
      <4> QED
        BY <1>3, <4>1 DEF BatchUniform, Owns, Live
    <3> QED
      BY <3>1, <3>2
  <2>4. CASE m = l /\ Release(l)
    <3>1. lock'[j] = IF Owns(l, j) THEN Free ELSE lock[j]
      BY <2>1, <2>4 DEF Release
    <3> QED
      BY <1>3, <2>4, <3>1 DEF Free, Owns, Live
  <2> QED
    BY <2>2, <2>3, <2>4
<1> QED
  BY <1>3 DEF BatchUniform, Owns, Live

\* What a positive answer is worth: the keys are the client's, for at least the TTL
\* the command gave.
LEMMA LockGrants ==
  ASSUME TypeOK, NEW l \in Client, Acquire(l), Acquirable(l), NEW t \in Nat, t <= LockTTL
  PROVE  CoveredNext(l, t)
BY KeysAreKeys, TimeAssumption DEF Acquire, CoveredNext, TypeOK

\* A positive reply to Extend: the key is the client's and has the TTL of the command.
LEMMA ExtendGrants ==
  ASSUME TypeOK, NEW l \in Client, l \notin Batch, NEW d \in ExtendTTL, Expire(l, d),
         \A k \in Keys(l) : Owns(l, k), NEW t \in Nat, 0 < t, t <= d
  PROVE  CoveredNext(l, t)
<1>1. \A k \in Keys(l) : k \in Key
  BY KeysAreKeys
<1>2. d \in Nat /\ d # 0
  BY TimeAssumption
<1> QED
  BY <1>1, <1>2 DEF Expire, CoveredNext, TypeOK

\* A command that runs, whichever and however often, keeps the invariant.
LEMMA RunKeeps ==
  ASSUME LockInv, NEW l \in Client, NEW lost \in 0..MaxResend,
         client[l].st \in {"asking", "answered"}, Run(l, lost)
  PROVE  LockInv'
<1> DEFINE Reply(ok) == [client[l] EXCEPT !.st = "answered", !.resent = lost,
                                          !.code = IF ok THEN "ok" ELSE "no"]
<1>1. TypeOK /\ client[l] \in State
  BY DEF LockInv, TypeOK
<1>2. ASSUME NEW ok \in BOOLEAN
      PROVE  /\ Reply(ok) \in State
             /\ Reply(ok).st = "answered"
             /\ ok <=> Reply(ok).code = "ok"
             /\ Reply(ok).op = client[l].op /\ Reply(ok).ttl = client[l].ttl
             /\ Reply(ok).fresh = client[l].fresh /\ Reply(ok).lease = client[l].lease
  BY <1>1 DEF State
<1>3. /\ client[l].lease \in Nat /\ client[l].fresh \in Nat
      /\ client[l].ttl \in {0} \union ExtendTTL
  BY <1>1 DEF State
<1>4. /\ client[l].lease > 0 => client[l].op = "extend"
      /\ client[l].op = "extend" =>
           l \notin Batch /\ client[l].lease <= client[l].ttl
           /\ client[l].fresh <= client[l].ttl
      /\ client[l].op \in {"lock", "try"} => client[l].fresh <= LockTTL
  BY DEF LockInv, CallShape
<1> HIDE DEF Reply
<1>5. CASE client[l].op \in {"lock", "try"}
  <2>1. Acquire(l) /\ client' = [client EXCEPT ![l] = Reply(Acquirable(l))]
    BY <1>5, <1>1 DEF Run, Reply
  <2>2. Acquirable(l) \in BOOLEAN
    BY DEF Acquirable, IsInjective
  <2>3. Acquirable(l) /\ client[l].fresh > 0 => CoveredNext(l, client[l].fresh)
    BY <2>1, <1>1, <1>3, <1>4, <1>5, LockGrants
  <2> QED
    BY <1>1, <1>2, <1>3, <1>4, <1>5, <2>1, <2>2, <2>3, OneClientMoves, CommandEffect,
       ForeignKeysStay, CommandKeepsBatches
<1>6. CASE client[l].op = "unlock"
  <2> DEFINE held == \E k \in Keys(l) : Owns(l, k)
  <2>1. Release(l) /\ client' = [client EXCEPT ![l] = Reply(held)]
    BY <1>6, <1>1 DEF Run, Reply
  <2> QED
    BY <1>1, <1>2, <1>3, <1>4, <1>6, <2>1, OneClientMoves, CommandEffect,
       ForeignKeysStay, CommandKeepsBatches
<1>7. CASE client[l].op = "extend"
  <2> DEFINE held == \E k \in Keys(l) : Owns(l, k)
  <2> DEFINE d == client[l].ttl
  <2>1. Expire(l, d) /\ client' = [client EXCEPT ![l] = Reply(held)]
    BY <1>7, <1>1 DEF Run, Reply
  <2>2. held \in BOOLEAN
    OBVIOUS
  <2>3. held => \A k \in Keys(l) : Owns(l, k)
    BY <1>4, <1>7, KeysAreKeys
  <2>4. client[l].lease > 0 => \A k \in Keys(l) : Owns(l, k)
    <3>1. client[l].lease > 0 => Covered(l, client[l].lease)
      BY DEF LockInv, LeaseCovered
    <3>2. \A k \in Keys(l) : lock[k].ttl \in Nat
      BY <1>1, KeysAreKeys, EntryTypes DEF TypeOK
    <3> QED
      BY <1>3, <3>1, <3>2 DEF Covered, Owns, Live
  <2> HIDE DEF held
  <2>5. CASE d \in ExtendTTL
    <3>1. client[l].lease > 0 => CoveredNext(l, client[l].lease)
      BY <1>1, <1>3, <1>4, <1>7, <2>1, <2>4, <2>5, ExtendGrants
    <3>2. held /\ client[l].fresh > 0 => CoveredNext(l, client[l].fresh)
      BY <1>1, <1>3, <1>4, <1>7, <2>1, <2>3, <2>5, ExtendGrants
    <3>3. BatchUniform'
      BY <1>4, <1>7, <2>1, <2>5, CommandKeepsBatches
    <3>4. /\ lock' \in [Key -> Entry]
          /\ \A k \in Key : Live(k) /\ lock[k].by # l => lock'[k] = lock[k]
          /\ \A k \in Key : \/ lock'[k] = lock[k]
                            \/ lock'[k] = Free
                            \/ lock'[k].by = l /\ k \in Keys(l)
      BY <1>1, <2>1, <2>5, CommandEffect, ForeignKeysStay
    <3> QED
      BY <1>2, <1>3, <1>4, <1>7, <2>1, <2>2, <3>1, <3>2, <3>3, <3>4, OneClientMoves
  <2>6. CASE d = 0
    <3>1. Release(l)
      BY <2>1, <2>6 DEF Expire, Release
    <3>2. client[l].lease = 0 /\ client[l].fresh = 0
      BY <1>3, <1>4, <1>7, <2>6
    <3>3. /\ lock' \in [Key -> Entry]
          /\ \A k \in Key : Live(k) /\ lock[k].by # l => lock'[k] = lock[k]
          /\ \A k \in Key : \/ lock'[k] = lock[k]
                            \/ lock'[k] = Free
                            \/ lock'[k].by = l /\ k \in Keys(l)
          /\ BatchUniform'
      BY <1>1, <3>1, CommandEffect, ForeignKeysStay, CommandKeepsBatches
    <3>4. /\ Reply(held) \in State
          /\ Reply(held).op = "extend" /\ Reply(held).ttl = client[l].ttl
          /\ Reply(held).lease = 0 /\ Reply(held).fresh = 0
      BY <1>2, <1>7, <2>2, <3>2
    <3>5. /\ ~(Reply(held).lease > 0) /\ ~(Reply(held).fresh > 0)
          /\ Reply(held).lease <= Reply(held).ttl /\ Reply(held).fresh <= Reply(held).ttl
      BY <3>4, <2>6
    <3>6. l \notin Batch
      BY <1>4, <1>7
    <3>7. client' = [client EXCEPT ![l] = Reply(held)]
      BY <2>1
    <3> QED
      BY <3>3, <3>4, <3>5, <3>6, <3>7, OneClientMoves
  <2> QED
    BY <1>3, <2>5, <2>6
<1> QED
  BY <1>5, <1>6, <1>7 DEF Run

\* A step of one client alone, into a record that is not a reply.
LEMMA ClientMovesAlone ==
  ASSUME LockInv, NEW l \in Client, NEW rec \in State,
         client' = [client EXCEPT ![l] = rec], lock' = lock,
         rec.st # "answered",
         rec.lease > 0 => rec.st = "held" \/ rec.op = "extend",
         rec.op = "extend" => l \notin Batch /\ rec.lease <= rec.ttl
           /\ rec.fresh <= rec.ttl,
         rec.op \in {"lock", "try"} => rec.fresh <= LockTTL,
         rec.lease > 0 => Covered(l, rec.lease)
  PROVE  LockInv'
<1>1. lock' \in [Key -> Entry]
  BY DEF LockInv, TypeOK
<1>2. BatchUniform'
  BY DEF LockInv, BatchUniform, Owns, Live
<1>3. rec.lease > 0 => CoveredNext(l, rec.lease)
  BY DEF Covered, CoveredNext
<1>4. \A k \in Key : Live(k) /\ lock[k].by # l => lock'[k] = lock[k]
  OBVIOUS
<1>5. \A k \in Key : \/ lock'[k] = lock[k]
                     \/ lock'[k] = Free
                     \/ lock'[k].by = l /\ k \in Keys(l)
  OBVIOUS
<1>6. ~(rec.st = "answered" /\ rec.code = "ok" /\ rec.op # "unlock" /\ rec.fresh > 0)
  OBVIOUS
<1> QED
  BY <1>1, <1>2, <1>3, <1>4, <1>5, <1>6, OneClientMoves

\* The record of a client that asks again, field by field.
LEMMA AskAgainShape ==
  ASSUME NEW c \in State
  PROVE  /\ AskingAgain(c) \in State /\ AskingAgain(c).st = "asking"
         /\ AskingAgain(c).op = c.op /\ AskingAgain(c).lease = c.lease
         /\ AskingAgain(c).fresh = LockTTL
<1>1. AskingAgain(c) \in State
  BY StateTypes, TimeAssumption DEF State, AskingAgain
<1>2. /\ AskingAgain(c).st = "asking" /\ AskingAgain(c).op = c.op
      /\ AskingAgain(c).lease = c.lease /\ AskingAgain(c).fresh = LockTTL
  BY DEF State, AskingAgain
<1> QED
  BY <1>1, <1>2

\* A client that comes to rest, alive or dead.
LEMMA RestKeeps ==
  ASSUME LockInv, NEW l \in Client, NEW st \in {"idle", "crashed"},
         client' = [client EXCEPT ![l] = [Resting EXCEPT !.st = st]], lock' = lock
  PROVE  LockInv'
<1> DEFINE r == [Resting EXCEPT !.st = st]
<1>1. r \in State /\ r.st = st /\ r.op = "none" /\ r.lease = 0
  BY StateTypes DEF State, Resting
<1> HIDE DEF r
<1>2. ~(r.lease > 0) /\ r.op # "extend" /\ r.op \notin {"lock", "try"} /\ r.st # "answered"
  BY <1>1
<1>3. client' = [client EXCEPT ![l] = r] /\ lock' = lock
  BY DEF r
<1> QED
  BY <1>1, <1>2, <1>3, ClientMovesAlone

\* A client that is inside, or inside still, with a covered lease.
LEMMA HoldKeeps ==
  ASSUME LockInv, NEW l \in Client, NEW n \in Nat, Within(n), n > 0 => Covered(l, n),
         client' = [client EXCEPT ![l] = Holding(n)], lock' = lock
  PROVE  LockInv'
<1>1. /\ Holding(n) \in State /\ Holding(n).st = "held"
      /\ Holding(n).op = "none" /\ Holding(n).lease = n
  BY StateTypes DEF Holding, Resting
<1> QED
  BY <1>1, ClientMovesAlone

\* Lock and TryLock.
LEMMA AskKeeps ==
  ASSUME LockInv, NEW l \in Client, NEW op \in {"lock", "try"}, Ask(l, op)
  PROVE  LockInv'
<1> DEFINE w == IF op = "lock" THEN Timeout ELSE 0
<1> DEFINE r == [Resting EXCEPT !.st = "asking", !.op = op, !.fresh = LockTTL, !.wait = w]
<1>1. r \in State /\ r.st = "asking" /\ r.op = op /\ r.lease = 0 /\ r.fresh = LockTTL
  <2>1. LockTTL \in Nat /\ Within(LockTTL) /\ w \in 0..Timeout
    BY StateTypes, TimeAssumption
  <2> QED
    BY <2>1, StateTypes DEF State, Resting
<1>2. client' = [client EXCEPT ![l] = r] /\ lock' = lock
  BY DEF Ask
<1> HIDE DEF r
<1>3. ~(r.lease > 0) /\ r.fresh <= LockTTL /\ r.op # "extend"
  BY <1>1, TimeAssumption
<1> QED
  BY <1>1, <1>2, <1>3, ClientMovesAlone

\* Unlock.
LEMMA UnlockKeeps ==
  ASSUME LockInv, NEW l \in Client, Unlock(l)
  PROVE  LockInv'
<1> DEFINE r == [Resting EXCEPT !.st = "asking", !.op = "unlock"]
<1>1. r \in State /\ r.st = "asking" /\ r.op = "unlock" /\ r.lease = 0
  BY StateTypes DEF State, Resting
<1>2. client' = [client EXCEPT ![l] = r] /\ lock' = lock
  BY DEF Unlock
<1> HIDE DEF r
<1>3. ~(r.lease > 0) /\ r.op # "extend" /\ r.op \notin {"lock", "try"}
  BY <1>1
<1> QED
  BY <1>1, <1>2, <1>3, ClientMovesAlone

\* Extend: the lease shrinks to what the extension may leave.
LEMMA ExtendKeeps ==
  ASSUME LockInv, NEW l \in Client, NEW d \in ExtendTTL, Extend(l, d)
  PROVE  LockInv'
<1> DEFINE n == IF client[l].lease < d THEN client[l].lease ELSE d
<1> DEFINE r == [Resting EXCEPT !.st = "asking", !.op = "extend", !.ttl = d, !.fresh = d,
                                !.lease = n]
<1>1. client[l].lease \in Nat /\ Within(client[l].lease) /\ d \in Nat /\ Within(d)
  BY StateTypes, TimeAssumption DEF LockInv, TypeOK, State
<1>2. n \in Nat /\ Within(n) /\ n <= d /\ n <= client[l].lease
  BY <1>1
<1>3. client' = [client EXCEPT ![l] = r] /\ lock' = lock
  BY DEF Extend
<1> HIDE DEF n
<1>4. /\ r \in State /\ r.st = "asking" /\ r.op = "extend" /\ r.ttl = d
      /\ r.fresh = d /\ r.lease = n
  BY <1>1, <1>2, StateTypes DEF State, Resting
<1> HIDE DEF r
<1>5. r.lease > 0 => Covered(l, r.lease)
  <2>1. client[l].lease > 0 => Covered(l, client[l].lease)
    BY DEF LockInv, LeaseCovered
  <2>2. \A k \in Keys(l) : lock[k].ttl \in Nat
    BY KeysAreKeys, EntryTypes DEF LockInv, TypeOK
  <2> QED
    BY <1>1, <1>2, <1>4, <2>1, <2>2 DEF Covered
<1>6. r.lease <= r.ttl /\ r.fresh <= r.ttl /\ l \notin Batch
  BY <1>1, <1>2, <1>4 DEF Extend
<1> QED
  BY <1>3, <1>4, <1>5, <1>6, ClientMovesAlone

\* A positive reply: the client is inside for as long as the request was fresh.
LEMMA SucceedKeeps ==
  ASSUME LockInv, NEW l \in Client, Succeed(l)
  PROVE  LockInv'
<1>1. client[l] \in State
  BY DEF LockInv, TypeOK
<1>2. client[l].fresh \in Nat /\ Within(client[l].fresh)
  BY <1>1 DEF State
<1>3. CASE client[l].op = "unlock"
  <2>1. client' = [client EXCEPT ![l] = Resting] /\ lock' = lock
    BY <1>3 DEF Succeed
  <2> QED
    BY <2>1, RestKeeps DEF Resting
<1>4. CASE client[l].op # "unlock"
  <2>1. client' = [client EXCEPT ![l] = Holding(client[l].fresh)] /\ lock' = lock
    BY <1>4 DEF Succeed
  <2>2. client[l].fresh > 0 => Covered(l, client[l].fresh)
    BY <1>4 DEF LockInv, LeaseCovered, Succeed
  <2> QED
    BY <1>2, <2>1, <2>2, HoldKeeps
<1> QED
  BY <1>3, <1>4

\* A negative reply.
LEMMA RefusedKeeps ==
  ASSUME LockInv, NEW l \in Client, Refused(l)
  PROVE  LockInv'
<1>1. CASE client[l].op = "lock" /\ client[l].wait > 0
  <2> DEFINE r == AskingAgain(client[l])
  <2>1. client' = [client EXCEPT ![l] = r] /\ lock' = lock
    BY <1>1 DEF Refused
  <2>2. client[l] \in State
    BY DEF LockInv, TypeOK
  <2>3. /\ r \in State /\ r.st = "asking" /\ r.op = "lock"
        /\ r.lease = client[l].lease /\ r.fresh = LockTTL
    BY <1>1, <2>2, AskAgainShape
  <2>4. ~(client[l].lease > 0)
    BY <1>1 DEF LockInv, CallShape, Refused
  <2> HIDE DEF r
  <2>5. ~(r.lease > 0) /\ r.fresh <= LockTTL /\ r.op # "extend"
    BY <2>3, <2>4, TimeAssumption
  <2> QED
    BY <2>1, <2>3, <2>5, ClientMovesAlone
<1>2. CASE ~(client[l].op = "lock" /\ client[l].wait > 0)
  <2>1. client' = [client EXCEPT ![l] = Resting] /\ lock' = lock
    BY <1>2 DEF Refused
  <2> QED
    BY <2>1, RestKeeps DEF Resting
<1> QED
  BY <1>1, <1>2

\* An error, and the death of the process.
LEMMA FailAndCrashKeep ==
  ASSUME LockInv, NEW l \in Client, Fail(l) \/ Crash(l)
  PROVE  LockInv'
<1>1. client[l].lease \in Nat /\ Within(client[l].lease)
  BY DEF LockInv, TypeOK, State
<1>2. client[l].lease > 0 => Covered(l, client[l].lease)
  BY DEF LockInv, LeaseCovered
<1>3. CASE Fail(l) /\ client[l].op = "extend" /\ client[l].lease > 0
  <2>1. client' = [client EXCEPT ![l] = Holding(client[l].lease)] /\ lock' = lock
    BY <1>3 DEF Fail
  <2> QED
    BY <1>1, <1>2, <2>1, HoldKeeps
<1>4. CASE Fail(l) /\ ~(client[l].op = "extend" /\ client[l].lease > 0)
  <2>1. client' = [client EXCEPT ![l] = Resting] /\ lock' = lock
    BY <1>4 DEF Fail
  <2> QED
    BY <2>1, RestKeeps DEF Resting
<1>5. CASE Crash(l)
  <2>1. client' = [client EXCEPT ![l] = [Resting EXCEPT !.st = "crashed"]] /\ lock' = lock
    BY <1>5 DEF Crash
  <2> QED
    BY <2>1, RestKeeps
<1> QED
  BY <1>3, <1>4, <1>5

\* Time: leases and TTLs shrink together, and a batch's keys expire together.
LEMMA TickKeeps ==
  ASSUME LockInv, Tick
  PROVE  LockInv'
<1>1. TypeOK
  BY DEF LockInv
<1>2. ASSUME NEW k \in Key
      PROVE  /\ lock'[k] \in Entry
             /\ lock[k].ttl > 1 => lock'[k].ttl = lock[k].ttl - 1
                  /\ lock'[k].by = lock[k].by
             /\ ~(lock[k].ttl > 1) => lock'[k] = Free
  <2>1. lock[k] \in Entry /\ lock[k].ttl \in Nat
    BY <1>1, EntryTypes DEF TypeOK
  <2>2. CASE lock[k].ttl > 1
    <3>1. lock[k] \in [ttl : {n \in Nat : n > 0 /\ Within(n)}, by : Client]
      BY <2>1, <2>2 DEF Entry, Free
    <3>2. lock'[k] = [lock[k] EXCEPT !.ttl = @ - 1]
      BY <2>2 DEF Tick
    <3>3. lock[k].ttl - 1 \in Nat /\ lock[k].ttl - 1 > 0
      BY <2>1, <2>2
    <3>4. Within(lock[k].ttl - 1)
      BY <3>1, <3>3, <2>1, TimeAssumption DEF Within, TTLs
    <3> QED
      BY <2>2, <3>1, <3>2, <3>3, <3>4 DEF Entry
  <2>3. CASE ~(lock[k].ttl > 1)
    BY <2>3, EntryTypes DEF Tick
  <2> QED
    BY <2>2, <2>3
<1>3. ASSUME NEW l \in Client
      PROVE  /\ client'[l] \in State
             /\ client'[l].lease = Less(client[l].lease)
             /\ client'[l].fresh = Less(client[l].fresh)
             /\ client'[l].st = client[l].st /\ client'[l].op = client[l].op
             /\ client'[l].code = client[l].code /\ client'[l].ttl = client[l].ttl
  <2>1. client[l] \in State
    BY <1>1 DEF TypeOK
  <2>2. client'[l] = [client[l] EXCEPT !.fresh = Less(@), !.lease = Less(@),
                                       !.wait = Less(@)]
    BY DEF Tick
  <2>3. ASSUME NEW n \in Nat, Within(n)
        PROVE  Less(n) \in Nat /\ Within(Less(n))
    BY <2>3, StateTypes, TimeAssumption DEF Less, Within, TTLs
  <2>4. ASSUME NEW n \in 0..Timeout
        PROVE  Less(n) \in 0..Timeout
    BY <2>4, TimeAssumption DEF Less
  <2>5. /\ Less(client[l].fresh) \in Nat /\ Within(Less(client[l].fresh))
        /\ Less(client[l].lease) \in Nat /\ Within(Less(client[l].lease))
        /\ Less(client[l].wait) \in 0..Timeout
    BY <2>1, <2>3, <2>4 DEF State
  <2>6. client'[l] \in State
    BY <2>1, <2>2, <2>5 DEF State
  <2>7. /\ client'[l].lease = Less(client[l].lease)
        /\ client'[l].fresh = Less(client[l].fresh)
        /\ client'[l].st = client[l].st /\ client'[l].op = client[l].op
        /\ client'[l].code = client[l].code /\ client'[l].ttl = client[l].ttl
    BY <2>1, <2>2 DEF State
  <2> QED
    BY <2>6, <2>7
<1>4. TypeOK'
  <2>1. lock' = [k \in Key |-> lock'[k]] /\ client' = [l \in Client |-> client'[l]]
    BY DEF Tick
  <2>2. \A k \in Key : lock'[k] \in Entry
    BY <1>2
  <2>3. \A l \in Client : client'[l] \in State
    BY <1>3
  <2>4. lock' \in [Key -> Entry]
    BY <2>1, <2>2
  <2>5. client' \in [Client -> State]
    BY <2>1, <2>3
  <2> QED
    BY <2>4, <2>5 DEF TypeOK
<1>5. \A l \in Client : client[l].lease \in Nat /\ client[l].fresh \in Nat
                        /\ client[l].ttl \in Nat
  <2>1. \A n \in {0} \union ExtendTTL : n \in Nat
    BY TimeAssumption
  <2>2. \A c \in State : /\ c.lease \in Nat /\ c.fresh \in Nat
                         /\ c.ttl \in {0} \union ExtendTTL
    BY DEF State
  <2> QED
    BY <1>1, <2>1, <2>2 DEF TypeOK
<1>6. CallShape'
  <2> SUFFICES ASSUME NEW l \in Client
               PROVE  /\ client'[l].lease > 0 =>
                           client'[l].st = "held" \/ client'[l].op = "extend"
                      /\ client'[l].op = "extend" =>
                           /\ l \notin Batch
                           /\ client'[l].lease <= client'[l].ttl
                           /\ client'[l].fresh <= client'[l].ttl
                      /\ client'[l].op \in {"lock", "try"} => client'[l].fresh <= LockTTL
    BY DEF CallShape
  <2>1. \A n \in Nat : /\ Less(n) <= n
                       /\ Less(n) \in Nat
                       /\ Less(n) > 0 => n > 0
    BY DEF Less
  <2>2. LockTTL \in Nat
    BY TimeAssumption
  <2>3. /\ client[l].lease > 0 => client[l].st = "held" \/ client[l].op = "extend"
        /\ client[l].op = "extend" =>
             l \notin Batch /\ client[l].lease <= client[l].ttl
             /\ client[l].fresh <= client[l].ttl
        /\ client[l].op \in {"lock", "try"} => client[l].fresh <= LockTTL
    BY DEF LockInv, CallShape
  <2> QED
    BY <1>3, <1>5, <2>1, <2>2, <2>3
<1>7. ASSUME NEW l \in Client, NEW t \in Nat, Less(t) > 0, Covered(l, t)
      PROVE  CoveredNext(l, Less(t))
  <2>1. t > 1 /\ Less(t) = t - 1
    BY <1>7 DEF Less
  <2>2. \A k \in Keys(l) : k \in Key /\ lock[k].ttl \in Nat
    BY <1>1, KeysAreKeys, EntryTypes DEF TypeOK
  <2> QED
    BY <1>2, <1>7, <2>1, <2>2 DEF Covered, CoveredNext
<1>8. LeaseCovered'
  <2> SUFFICES ASSUME NEW l \in Client
               PROVE  /\ client'[l].lease > 0 => CoveredNext(l, client'[l].lease)
                      /\ /\ client'[l].st = "answered" /\ client'[l].code = "ok"
                         /\ client'[l].op # "unlock" /\ client'[l].fresh > 0
                         => CoveredNext(l, client'[l].fresh)
    BY DEF LeaseCovered, Covered, CoveredNext
  <2>1. \A n \in Nat : Less(n) > 0 => n > 0
    BY DEF Less
  <2> QED
    BY <1>3, <1>5, <1>7, <2>1 DEF LockInv, LeaseCovered
<1>9. BatchUniform'
  <2> SUFFICES ASSUME NEW l \in Batch, NEW j \in Keys(l), NEW k \in Keys(l),
                      lock'[j].ttl > 0, lock'[j].by = l
               PROVE  lock'[k] = lock'[j]
    BY DEF BatchUniform, Owns, Live
  <2>1. l \in Client /\ j \in Key /\ k \in Key
    BY ClientAssumption, KeysAreKeys
  <2>2. lock[j].ttl \in Nat
    BY <1>1, <2>1, EntryTypes DEF TypeOK
  <2>3. lock[j].ttl > 1 /\ lock[j].by = l
    BY <1>2, <2>1 DEF Free
  <2>4. lock[k] = lock[j]
    BY <2>2, <2>3 DEF LockInv, BatchUniform, Owns, Live
  <2> QED
    BY <2>1, <2>4 DEF Tick
<1>10. OwnedAsAsked'
  <2> SUFFICES ASSUME NEW k \in Key, lock'[k].ttl > 0
               PROVE  k \in Keys(lock'[k].by)
    BY DEF OwnedAsAsked, Live
  <2>1. lock[k].ttl \in Nat
    BY <1>1, EntryTypes DEF TypeOK
  <2>2. lock[k].ttl > 1 /\ lock'[k].by = lock[k].by
    BY <1>2 DEF Free
  <2> QED
    BY <2>1, <2>2 DEF LockInv, OwnedAsAsked, Live
<1> QED
  BY <1>4, <1>6, <1>8, <1>9, <1>10 DEF LockInv

\* The invariant is inductive.
LEMMA NextInv == LockInv /\ [Next]_vars => LockInv'
<1> SUFFICES ASSUME LockInv, [Next]_vars
             PROVE  LockInv'
  OBVIOUS
<1>1. ASSUME NEW l \in Client, Lock(l) \/ TryLock(l)
      PROVE  LockInv'
  BY <1>1, AskKeeps DEF Lock, TryLock
<1>2. ASSUME NEW l \in Client, Unlock(l)
      PROVE  LockInv'
  BY <1>2, UnlockKeeps
<1>3. ASSUME NEW l \in Client, NEW d \in ExtendTTL, Extend(l, d)
      PROVE  LockInv'
  BY <1>3, ExtendKeeps
<1>4. ASSUME NEW l \in Client, Arrive(l) \/ Resend(l)
      PROVE  LockInv'
  <2>1. client[l].resent \in 0..MaxResend
    BY DEF LockInv, TypeOK, State
  <2>2. CASE Arrive(l)
    BY <2>1, <2>2, RunKeeps DEF Arrive
  <2>3. CASE Resend(l)
    <3>1. client[l].resent + 1 \in 0..MaxResend
      BY <2>1, <2>3, TimeAssumption DEF Resend
    <3> QED
      BY <2>3, <3>1, RunKeeps DEF Resend
  <2> QED
    BY <1>4, <2>2, <2>3
<1>5. ASSUME NEW l \in Client, Succeed(l)
      PROVE  LockInv'
  BY <1>5, SucceedKeeps
<1>6. ASSUME NEW l \in Client, Refused(l)
      PROVE  LockInv'
  BY <1>6, RefusedKeeps
<1>7. ASSUME NEW l \in Client, Fail(l) \/ Crash(l)
      PROVE  LockInv'
  BY <1>7, FailAndCrashKeep
<1>8. CASE Tick
  BY <1>8, TickKeeps
<1>9. CASE UNCHANGED vars
  BY <1>9 DEF vars, LockInv, TypeOK, CallShape, LeaseCovered, Covered, BatchUniform,
     OwnedAsAsked, Owns, Live
<1> QED
  BY <1>1, <1>2, <1>3, <1>4, <1>5, <1>6, <1>7, <1>8, <1>9 DEF Next

---------------------------------------------------------------------------
\* The client's lease never outlives the TTL in Redis: the inductive invariant holds
\* for any number of clients, keys, delays, lost replies and crashes.
THEOREM LeaseWithinTTL == Spec => []LockInv
BY InitInv, NextInv, PTL DEF Spec

\* No two clients inside at once with a key in common.
THEOREM Exclusive == Spec => []MutualExclusion
<1>1. LockInv => MutualExclusion
  BY DEF LockInv, LeaseCovered, Covered, MutualExclusion
<1> QED
  BY <1>1, LeaseWithinTTL, PTL

\* A BatchLock has all of its keys or none.
THEOREM BatchIsAtomic == Spec => []AllOrNothing
<1>1. LockInv => AllOrNothing
  BY DEF LockInv, BatchUniform, AllOrNothing, Owns, Live
<1> QED
  BY <1>1, LeaseWithinTTL, PTL

\* A step of a client alters no key that another owns.
THEOREM OwnersKeysAreSafe == Spec => OnlyOwnerTouches
<1> DEFINE Safe == \A l \in Client, k \in Key :
                     Moves(l) /\ Live(k) /\ lock[k].by # l => lock'[k] = lock[k]
<1>1. LockInv /\ [Next]_vars => [Safe]_vars
  <2> SUFFICES ASSUME LockInv, Next, NEW l \in Client, NEW k \in Key,
                      Moves(l), Live(k), lock[k].by # l
               PROVE  lock'[k] = lock[k]
    OBVIOUS
  <2>1. client \in [Client -> State]
    BY DEF LockInv, TypeOK
  <2>2. CASE lock' = lock
    BY <2>2
  <2>3. ASSUME NEW m \in Client, NEW lost \in Nat, Run(m, lost)
        PROVE  lock'[k] = lock[k]
    <3>1. m = l
      BY <2>1, <2>3 DEF Run, Moves
    <3>2. client[l].ttl \in ExtendTTL \union {0}
      BY <2>1 DEF State
    <3>3. Acquire(l) \/ Release(l) \/ \E d \in ExtendTTL : Expire(l, d)
      BY <2>3, <3>1, <3>2 DEF Run, Expire, Release
    <3> QED
      BY <3>3, ForeignKeysStay
  <2>4. CASE Tick
    BY <2>1, <2>4 DEF Tick, Moves, State
  <2>5. \A m \in Client : client[m].resent \in Nat
    BY <2>1 DEF State
  <2>6. ASSUME NEW m \in Client, Arrive(m) \/ Resend(m)
        PROVE  lock'[k] = lock[k]
    <3>1. PICK lost \in Nat : Run(m, lost)
      BY <2>5, <2>6 DEF Arrive, Resend
    <3> QED
      BY <2>3, <3>1
  <2>7. ASSUME NEW m \in Client,
               \/ Lock(m) \/ TryLock(m) \/ Unlock(m)
               \/ \E d \in ExtendTTL : Extend(m, d)
               \/ Succeed(m) \/ Refused(m) \/ Fail(m) \/ Crash(m)
        PROVE  lock' = lock
    BY <2>7 DEF Lock, TryLock, Ask, Unlock, Extend, Succeed, Refused, Fail, Crash
  <2> QED
    BY <2>2, <2>4, <2>6, <2>7 DEF Next
<1> QED
  BY <1>1, LeaseWithinTTL, PTL DEF Spec, OnlyOwnerTouches

---------------------------------------------------------------------------
(* The lock implements LockService.                                        *)

\* An entry belongs to a client exactly when it lives.
LEMMA OwnedIsLive ==
  ASSUME TypeOK, NEW k \in Key
  PROVE  /\ lock[k].by \in Client => Live(k)
         /\ ~Live(k) => lock[k] = Free
<1>1. lock[k] \in Entry
  BY DEF TypeOK
<1> QED
  BY <1>1, ClientAssumption DEF Entry, Free, Live

\* The keys of one client live and die together.
LEMMA SameFate ==
  ASSUME LockInv, NEW l \in Client, NEW j \in Key, NEW k \in Key,
         lock[j].by = l, lock[k].by = l
  PROVE  lock[j] = lock[k]
<1>1. Live(j) /\ Live(k)
  BY OwnedIsLive DEF LockInv
<1>2. j \in Keys(l) /\ k \in Keys(l)
  BY <1>1 DEF LockInv, OwnedAsAsked
<1> QED
  BY <1>1, <1>2, KeysAreKeys DEF LockInv, BatchUniform, Owns

\* A client with a lease owns its keys, in the state a step leads to.
LEMMA LeaseOwnsNext ==
  ASSUME LockInv', NEW l \in Client, client'[l].lease > 0, NEW k \in Keys(l)
  PROVE  lock'[k].by = l
BY DEF LockInv, LeaseCovered, Covered

\* A step of one client that leaves the keys alone: it is inside from now on, or some
\* clients fewer are.
LEMMA ClientStepServes ==
  ASSUME LockInv, LockInv', NEW l \in Client, lock' = lock,
         \A m \in Client \ {l} : client'[m] = client[m]
  PROVE  Service!Next
<1>1. CASE client'[l].lease > 0
  <2>1. \A k \in Keys(l) : k \in Key /\ lock[k].by = l
    BY <1>1, LeaseOwnsNext, KeysAreKeys
  <2>2. {m \in Client : client'[m].lease > 0} = {m \in Client : client[m].lease > 0} \union {l}
    BY <1>1
  <2>3. Service!Enter(l)
    BY <2>1, <2>2 DEF Service!Enter
  <2> QED
    BY <2>3 DEF Service!Next
<1>2. CASE ~(client'[l].lease > 0)
  <2>1. {m \in Client : client'[m].lease > 0} \subseteq {m \in Client : client[m].lease > 0}
    BY <1>2
  <2>2. Service!Leave({})
    BY <2>1 DEF Service!Leave
  <2> QED
    BY <2>2 DEF Service!Next
<1> QED
  BY <1>1, <1>2

\* A script that frees the keys of a client without a lease.
LEMMA FreeingServes ==
  ASSUME LockInv, NEW l \in Client, Release(l), ~(client[l].lease > 0),
         \A m \in Client : client'[m].lease = client[m].lease
  PROVE  Service!Next
<1>1. ASSUME NEW k \in Key
      PROVE  lock'[k].by = IF lock[k].by = l THEN NoClient ELSE lock[k].by
  <2>1. lock[k].by = l => Live(k) /\ k \in Keys(l)
    BY OwnedIsLive DEF LockInv, OwnedAsAsked
  <2> QED
    BY <2>1 DEF Release, Owns, Free
<1>2. {m \in Client : client'[m].lease > 0} = {m \in Client : client[m].lease > 0}
  OBVIOUS
<1>3. Service!Leave({l})
  BY <1>1, <1>2 DEF Service!Leave
<1> QED
  BY <1>3 DEF Service!Next

\* The command of a client runs: it takes all its keys, frees them, or alters a TTL.
LEMMA RunServes ==
  ASSUME LockInv, NEW l \in Client, NEW lost \in Nat,
         client[l].st \in {"asking", "answered"}, Run(l, lost)
  PROVE  [Service!Next]_(Service!vars)
<1>1. TypeOK
  BY DEF LockInv
<1>2. \A m \in Client : client'[m].lease = client[m].lease
  BY <1>1 DEF Run, TypeOK, State
<1>3. {m \in Client : client'[m].lease > 0} = {m \in Client : client[m].lease > 0}
  BY <1>2
<1>4. (\A k \in Key : lock'[k].by = lock[k].by) => UNCHANGED Service!vars
  BY <1>3 DEF Service!vars
<1>5. CASE client[l].op \in {"lock", "try"}
  <2>1. Acquire(l)
    BY <1>5 DEF Run
  <2>2. CASE Acquirable(l)
    <3>1. \A k \in Keys(l) : k \in Key /\ lock[k].by = NoClient
      BY <1>1, <2>2, OwnedIsLive, KeysAreKeys DEF Acquirable, Free
    <3>2. [k \in Key |-> lock'[k].by]
            = [k \in Key |-> IF k \in Keys(l) THEN l ELSE lock[k].by]
      BY <2>1, <2>2 DEF Acquire
    <3>3. Service!Grant(l)
      BY <1>3, <3>1, <3>2 DEF Service!Grant
    <3> QED
      BY <3>3 DEF Service!Next
  <2>3. CASE ~Acquirable(l)
    BY <1>4, <2>1, <2>3 DEF Acquire
  <2> QED
    BY <2>2, <2>3
<1>6. CASE client[l].op = "unlock"
  <2>1. Release(l)
    BY <1>6 DEF Run
  <2>2. ~(client[l].lease > 0)
    BY <1>6 DEF LockInv, CallShape
  <2> QED
    BY <1>2, <2>1, <2>2, FreeingServes
<1>7. CASE client[l].op = "extend"
  <2>1. Expire(l, client[l].ttl)
    BY <1>7 DEF Run
  <2>2. CASE client[l].ttl = 0
    <3>1. Release(l)
      BY <2>1, <2>2 DEF Expire, Release
    <3>2. client[l].lease \in Nat /\ client[l].lease <= 0
      BY <1>1, <1>7, <2>2 DEF LockInv, CallShape, TypeOK, State
    <3>3. ~(client[l].lease > 0)
      BY <3>2
    <3> QED
      BY <1>2, <3>1, <3>3, FreeingServes
  <2>3. CASE client[l].ttl # 0
    BY <1>4, <2>1, <2>3 DEF Expire, Owns
  <2> QED
    BY <2>2, <2>3
<1> QED
  BY <1>5, <1>6, <1>7 DEF Run

\* Time takes clients out, and the keys from those whose TTL ends.
LEMMA TickServes ==
  ASSUME LockInv, LockInv', Tick
  PROVE  Service!Next
<1>0. PICK gone \in SUBSET Client :
        gone = {l \in Client : \E k \in Key : lock[k].by = l /\ lock'[k].by # l}
  OBVIOUS
<1>1. TypeOK
  BY DEF LockInv
<1>2. ASSUME NEW k \in Key
      PROVE  lock'[k].by = lock[k].by \/ lock'[k] = Free
  <2>1. lock[k] \in Entry
    BY <1>1 DEF TypeOK
  <2>2. lock[k].ttl > 1 => lock'[k] = [lock[k] EXCEPT !.ttl = @ - 1]
    BY DEF Tick
  <2>3. ~(lock[k].ttl > 1) => lock'[k] = Free
    BY DEF Tick
  <2> QED
    BY <2>1, <2>2, <2>3 DEF Entry, Free
<1>3. ASSUME NEW k \in Key, lock[k].by \in gone
      PROVE  lock'[k].by = NoClient
  <2>1. PICK j \in Key : lock[j].by = lock[k].by /\ lock'[j].by # lock[j].by
    BY <1>0, <1>3
  <2>2. lock[j] = lock[k]
    BY <1>0, <1>3, <2>1, SameFate
  <2>3. lock'[k] = lock'[j]
    BY <2>2 DEF Tick
  <2> QED
    BY <1>2, <2>1, <2>3 DEF Free
<1>4. ASSUME NEW k \in Key, lock[k].by \notin gone
      PROVE  lock'[k].by = lock[k].by
  <2>1. CASE lock[k].by \in Client
    BY <1>0, <1>4, <2>1
  <2>2. CASE lock[k].by \notin Client
    <3>1. lock[k] = Free
      BY <1>1, <2>2, EntryTypes, OwnedIsLive DEF TypeOK, Live
    <3> QED
      BY <1>2, <3>1 DEF Free
  <2> QED
    BY <2>1, <2>2
<1>5. ASSUME NEW l \in gone
      PROVE  ~(client'[l].lease > 0)
  <2>1. PICK k \in Key : lock[k].by = l /\ lock'[k].by # l
    BY <1>0
  <2>2. k \in Keys(l)
    BY <1>1, <2>1, OwnedIsLive DEF LockInv, OwnedAsAsked
  <2> QED
    BY <2>1, <2>2, LeaseOwnsNext
<1>6. \A l \in Client : client'[l].lease > 0 => client[l].lease > 0
  <2>1. \A l \in Client : client[l] \in State /\ client[l].lease \in Nat
    BY <1>1 DEF TypeOK, State
  <2>2. \A l \in Client : client'[l].lease = Less(client[l].lease)
    BY <2>1 DEF Tick, State
  <2> QED
    BY <2>1, <2>2 DEF Less
<1>7. Service!Leave(gone)
  BY <1>3, <1>4, <1>5, <1>6 DEF Service!Leave
<1> QED
  BY <1>7, Zenon DEF Service!Next

\* Every step of the locks, whatever is delayed, lost or crashed, is a step of the
\* service or none of its business.
THEOREM LocksImplementService == Spec => LockServiceSpec
<1>1. Init => Service!Init
  BY DEF Init, Service!Init, Free, Resting
<1>2. LockInv /\ LockInv' /\ [Next]_vars => [Service!Next]_(Service!vars)
  <2> SUFFICES ASSUME LockInv, LockInv', [Next]_vars
               PROVE  [Service!Next]_(Service!vars)
    OBVIOUS
  <2>1. ASSUME NEW l \in Client, Arrive(l) \/ Resend(l)
        PROVE  [Service!Next]_(Service!vars)
    <3>1. client[l].resent \in Nat
      BY DEF LockInv, TypeOK, State
    <3> QED
      BY <2>1, <3>1, RunServes DEF Arrive, Resend
  <2>2. ASSUME NEW l \in Client,
               \/ Lock(l) \/ TryLock(l) \/ Unlock(l)
               \/ \E d \in ExtendTTL : Extend(l, d)
               \/ Succeed(l) \/ Refused(l) \/ Fail(l) \/ Crash(l)
        PROVE  Service!Next
    <3>1. /\ lock' = lock
          /\ \A m \in Client \ {l} : client'[m] = client[m]
      BY <2>2 DEF LockInv, TypeOK, Lock, TryLock, Ask, Unlock, Extend, Succeed, Refused,
         Fail, Crash
    <3> QED
      BY <3>1, ClientStepServes
  <2>3. CASE Tick
    BY <2>3, TickServes
  <2>4. CASE UNCHANGED vars
    BY <2>4 DEF vars, Service!vars
  <2> QED
    BY <2>1, <2>2, <2>3, <2>4 DEF Next
<1>3. LockServiceSpec <=> Service!Init /\ [][Service!Next]_(Service!vars)
  BY DEF LockServiceSpec, Service!Spec
<1> QED
  BY <1>1, <1>2, <1>3, LeaseWithinTTL, PTL DEF Spec

\* Whoever is inside owns the keys it needs: what the service alone says of its state.
InsideOwns == \A l \in Client : client[l].lease > 0 => \A k \in Keys(l) : lock[k].by = l

\* The service is strong enough: whatever implements it keeps two clients that need
\* the same key from being inside at once.
THEOREM ServiceExcludes == LockServiceSpec => []MutualExclusion
<1> DEFINE in == {l \in Client : client[l].lease > 0}
           of == [k \in Key |-> lock[k].by]
<1>1. Service!Init => InsideOwns
  BY DEF Service!Init, InsideOwns
<1>2. InsideOwns /\ [Service!Next]_(Service!vars) => InsideOwns'
  <2> SUFFICES ASSUME InsideOwns, [Service!Next]_(Service!vars),
                      NEW m \in Client, client'[m].lease > 0, NEW j \in Keys(m)
               PROVE  lock'[j].by = m
    BY DEF InsideOwns
  <2>1. j \in Key /\ m \in in' /\ (m \in in => of[j] = m) /\ (of'[j] = m => lock'[j].by = m)
    BY KeysAreKeys DEF InsideOwns
  <2> HIDE DEF in, of
  <2>2. ASSUME NEW l \in Client, Service!Grant(l)
        PROVE  of'[j] = m
    <3>1. in' = in /\ of' = [k \in Key |-> IF k \in Keys(l) THEN l ELSE of[k]]
      BY <2>2 DEF Service!Grant, in, of
    <3>2. \A k \in Keys(l) : of[k] = NoClient
      BY <2>2 DEF Service!Grant, of
    <3> QED
      BY <2>1, <3>1, <3>2, ClientAssumption
  <2>3. ASSUME NEW l \in Client, Service!Enter(l)
        PROVE  of'[j] = m
    <3>1. in' = in \union {l} /\ of' = of
      BY <2>3 DEF Service!Enter, in, of
    <3>2. \A k \in Keys(l) : of[k] = l
      BY <2>3 DEF Service!Enter, of
    <3> QED
      BY <2>1, <3>1, <3>2
  <2>4. ASSUME NEW gone \in SUBSET Client, Service!Leave(gone)
        PROVE  of'[j] = m
    <3>1. /\ in' \subseteq in /\ gone \intersect in' = {}
          /\ of' = [k \in Key |-> IF of[k] \in gone THEN NoClient ELSE of[k]]
      BY <2>4 DEF Service!Leave, in, of
    <3> QED
      BY <2>1, <3>1
  <2>5. CASE UNCHANGED Service!vars
    <3>1. in' = in /\ of' = of
      BY <2>5 DEF Service!vars, in, of
    <3> QED
      BY <2>1, <3>1
  <2> QED
    BY <2>1, <2>2, <2>3, <2>4, <2>5 DEF Service!Next
<1>3. InsideOwns => MutualExclusion
  BY DEF InsideOwns, MutualExclusion
<1>4. LockServiceSpec <=> Service!Init /\ [][Service!Next]_(Service!vars)
  BY DEF LockServiceSpec, Service!Spec
<1> QED
  BY <1>1, <1>2, <1>3, <1>4, PTL

=============================================================================
