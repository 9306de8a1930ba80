---------------------------- MODULE DenyLogProof ----------------------------
(***************************************************************************)
(* Proofs about DenyLog, for any finite set of recorders, any keys, any    *)
(* lengths of month and any ttl the code can be given.                     *)
(***************************************************************************)
EXTENDS DenyLog, FiniteSetTheorems, TLAPS

MonthStart(m) == m * MonthLength

\* A Record under way is as old as it is said to be, and read its month then.
Dated ==
  \A r \in Recorder : Pending(r) =>
    /\ MonthStart(rec[r].month) + rec[r].age <= clock
    /\ clock < MonthStart(rec[r].month) + MonthLength + rec[r].age

\* A key is there as long as it holds something.
KeyThere(m, k) == log[m][k] = {} <=> logTTL[m][k] = 0

\* With a ttl that outlasts the month and the lag, the ranking of a month nobody cleaned
\* is not made yet, or lasts, or lasted, until ttl after the beginning of the month, when
\* all Records are over; and it expires no later than the logs.
Lasting(m) ==
  ttl >= MonthLength + Lag =>
    /\ \/ topTTL[m] = 0 /\ \A k \in Key : log[m][k] = {}
       \/ MonthStart(m) + ttl <= clock + topTTL[m]
    /\ \A k \in Key : topTTL[m] > 0 /\ logTTL[m][k] > 0 => topTTL[m] <= logTTL[m][k]

\* With any ttl, a log that began with the ranking that is there, or under it, is
\* covered; where there is no ranking, no log has just begun.
Ranked(m) ==
  /\ Lasting(m)
  /\ \A k \in Key :
       /\ topTTL[m] = 0 /\ ttl > 0 => logTTL[m][k] < ttl
       /\ topTTL[m] > 0 /\ logTTL[m][k] > 0 /\ topTTL[m] <= logTTL[m][k]
            => Count(m, k) <= rank[m][k]

\* Cleanup still owes what was there when it began: SCAN will return its key, or has.
Owed ==
  /\ cleanup.st \in {"scan", "del", "top"} => cleanup.month \in cleaned
  /\ \A k \in Key :
       cleanup.before \intersect log[cleanup.month][k] # {} =>
         \/ cleanup.st \in {"idle", "failed"}
         \/ cleanup.st \in {"scan", "del"} /\ k \in cleanup.due
         \/ cleanup.st = "del" /\ k \in cleanup.batch

LogInv ==
  /\ TypeOK
  /\ Dated
  /\ \A m \in Month, k \in Key : KeyThere(m, k)
  /\ \A m \in Month \ cleaned : Ranked(m)
  /\ Owed

LEMMA Numbers ==
  /\ Lag \in Nat /\ MaxResend \in Nat /\ Horizon \in Nat
  /\ MonthLength \in Nat /\ MonthLength > 0
  /\ TTLs \subseteq Nat
BY NumbersAssumption, TTLsAssumption

LEMMA TypedTTL == TypeOK => ttl \in TTLs /\ ttl \in Nat
BY Numbers DEF TypeOK

LEMMA Months ==
  /\ Month \subseteq Nat /\ 0 \in Month
  /\ \A m \in Month : MonthStart(m) \in Nat
<1>1. Horizon \div MonthLength \in Nat
  BY NumbersAssumption
<1>2. Month \subseteq Nat /\ 0 \in Month
  BY <1>1 DEF Month
<1>3. ASSUME NEW m \in Nat PROVE m * MonthLength \in Nat
  BY NumbersAssumption
<1> QED
  BY <1>2, <1>3 DEF MonthStart

LEMMA ThisMonth ==
  ASSUME clock \in 0..Horizon
  PROVE  /\ currentMonth \in Month
         /\ MonthStart(currentMonth) <= clock
         /\ clock < MonthStart(currentMonth) + MonthLength
<1>1. /\ clock \div MonthLength \in Nat
      /\ (clock \div MonthLength) * MonthLength <= clock
      /\ clock < (clock \div MonthLength) * MonthLength + MonthLength
  BY NumbersAssumption
<1>2. clock \div MonthLength <= Horizon \div MonthLength /\ Horizon \div MonthLength \in Nat
  BY NumbersAssumption
<1>3. currentMonth \in Month
  BY <1>1, <1>2 DEF currentMonth, Month
<1> QED
  BY <1>1, <1>3 DEF currentMonth, MonthStart

LEMMA LogFinite ==
  ASSUME TypeOK, NEW m \in Month, NEW k \in Key
  PROVE  /\ IsFiniteSet(log[m][k]) /\ Cardinality(log[m][k]) \in Nat
<1>1. log[m][k] \in SUBSET Recorder
  BY DEF TypeOK
<1> QED
  BY <1>1, RecorderAssumption, FS_Subset, FS_CardinalityType

\* A month nothing happens to.
LEMMA RankedSame ==
  ASSUME NEW m \in Month, ttl' = ttl, clock' = clock, log'[m] = log[m],
         logTTL'[m] = logTTL[m], rank'[m] = rank[m], topTTL'[m] = topTTL[m], Ranked(m)
  PROVE  Ranked(m)'
BY DEF Ranked, Lasting, Count

LEMMA ExpiringTTL ==
  ASSUME ttl \in Nat, NEW left \in 0..ttl, ttl # 0
  PROVE  /\ Expiring(left) \in 0..ttl /\ Expiring(left) > 0
         /\ IF left = 0 THEN Expiring(left) = ttl ELSE Expiring(left) = left
BY DEF Expiring

\* luaDenyRecord, for a month that is not over or was over at most Lag ago.
LEMMA WriteKeeps ==
  ASSUME LogInv, NEW r \in Recorder, NEW m \in Month, NEW k \in Key, Write(r, m, k),
         UNCHANGED <<ttl, clock, cleaned>>,
         MonthStart(m) <= clock, clock < MonthStart(m) + MonthLength + Lag
  PROVE  /\ log' \in [Month -> [Key -> SUBSET Recorder]]
         /\ logTTL' \in [Month -> [Key -> 0..ttl]]
         /\ rank' \in [Month -> [Key -> Nat]]
         /\ topTTL' \in [Month -> 0..ttl]
         /\ \A n \in Month, j \in Key : KeyThere(n, j)'
         /\ \A n \in Month \ cleaned : Ranked(n)'
         /\ \A n \in Month, j \in Key : log'[n][j] \subseteq log[n][j] \union {r}
<1>1. /\ log \in [Month -> [Key -> SUBSET Recorder]]
      /\ logTTL \in [Month -> [Key -> 0..ttl]]
      /\ rank \in [Month -> [Key -> Nat]]
      /\ topTTL \in [Month -> 0..ttl]
      /\ clock \in Nat /\ ttl \in Nat
      /\ \A n \in Month, j \in Key : KeyThere(n, j)
      /\ \A n \in Month \ cleaned : Ranked(n)
  BY Numbers, TypedTTL DEF LogInv, TypeOK
<1>2. CASE ttl = 0
  <2>1. UNCHANGED redisVars
    BY <1>2 DEF Write
  <2>2. log' = log /\ logTTL' = logTTL /\ rank' = rank /\ topTTL' = topTTL
    BY <2>1 DEF redisVars
  <2> QED
    BY <1>1, <2>2, RankedSame DEF KeyThere
<1>3. CASE ttl # 0
  <2>1. /\ log' = [log EXCEPT ![m][k] = @ \union {r}]
        /\ logTTL' = [logTTL EXCEPT ![m][k] = Expiring(@)]
        /\ rank' = [rank EXCEPT ![m][k] = @ + 1]
        /\ topTTL' = [topTTL EXCEPT ![m] = Expiring(@)]
    BY <1>3 DEF Write
  <2>2. /\ Expiring(logTTL[m][k]) \in 0..ttl /\ Expiring(logTTL[m][k]) > 0
        /\ IF logTTL[m][k] = 0 THEN Expiring(logTTL[m][k]) = ttl
                               ELSE Expiring(logTTL[m][k]) = logTTL[m][k]
        /\ Expiring(topTTL[m]) \in 0..ttl /\ Expiring(topTTL[m]) > 0
        /\ IF topTTL[m] = 0 THEN Expiring(topTTL[m]) = ttl
                            ELSE Expiring(topTTL[m]) = topTTL[m]
    BY <1>1, <1>3, ExpiringTTL
  <2>3. /\ log' \in [Month -> [Key -> SUBSET Recorder]]
        /\ log'[m][k] = log[m][k] \union {r}
        /\ \A j \in Key \ {k} : log'[m][j] = log[m][j]
        /\ \A n \in Month \ {m} : log'[n] = log[n]
    BY <1>1, <2>1
  <2>4. /\ logTTL' \in [Month -> [Key -> 0..ttl]]
        /\ logTTL'[m][k] = Expiring(logTTL[m][k])
        /\ \A j \in Key \ {k} : logTTL'[m][j] = logTTL[m][j]
        /\ \A n \in Month \ {m} : logTTL'[n] = logTTL[n]
    BY <1>1, <2>1, <2>2
  <2>5. /\ rank' \in [Month -> [Key -> Nat]]
        /\ rank'[m][k] = rank[m][k] + 1
        /\ \A j \in Key \ {k} : rank'[m][j] = rank[m][j]
        /\ \A n \in Month \ {m} : rank'[n] = rank[n]
    BY <1>1, <2>1
  <2>6. /\ topTTL' \in [Month -> 0..ttl]
        /\ topTTL'[m] = Expiring(topTTL[m])
        /\ \A n \in Month \ {m} : topTTL'[n] = topTTL[n]
    BY <1>1, <2>1, <2>2
  <2>7. ASSUME NEW n \in Month, NEW j \in Key
        PROVE  KeyThere(n, j)' /\ log'[n][j] \subseteq log[n][j] \union {r}
    <3>1. CASE n = m /\ j = k
      <4>1. log'[n][j] = log[n][j] \union {r} /\ logTTL'[n][j] > 0 /\ logTTL'[n][j] # 0
        BY <1>1, <2>2, <2>3, <2>4, <3>1, Numbers
      <4> QED
        BY <4>1 DEF KeyThere
    <3>2. CASE ~ (n = m /\ j = k)
      <4>1. log'[n][j] = log[n][j] /\ logTTL'[n][j] = logTTL[n][j] /\ KeyThere(n, j)
        BY <1>1, <2>3, <2>4, <3>2
      <4> QED
        BY <4>1 DEF KeyThere
    <3> QED
      BY <3>1, <3>2
  <2>8. ASSUME m \notin cleaned
        PROVE  Ranked(m)'
    <3>1. Lasting(m) /\ Ranked(m)
      BY <1>1, <2>8 DEF Ranked
    <3>2. MonthStart(m) \in Nat /\ topTTL[m] \in Nat /\ topTTL[m] <= ttl
      BY <1>1, Months, Numbers
    <3>3. \A j \in Key : logTTL[m][j] \in Nat /\ logTTL[m][j] <= ttl /\ rank[m][j] \in Nat
      BY <1>1
    <3>4. \A j \in Key \ {k} : logTTL'[m][j] = logTTL[m][j]
      BY <2>4
    <3>5. logTTL'[m][k] = IF logTTL[m][k] = 0 THEN ttl ELSE logTTL[m][k]
      BY <2>2, <2>4
    <3>6. topTTL'[m] = IF topTTL[m] = 0 THEN ttl ELSE topTTL[m]
      BY <2>2, <2>6
    <3>7. Lasting(m)'
      <4> SUFFICES ASSUME ttl >= MonthLength + Lag
                   PROVE  /\ MonthStart(m) + ttl <= clock + topTTL'[m]
                          /\ \A j \in Key : logTTL'[m][j] > 0 => topTTL'[m] <= logTTL'[m][j]
        BY DEF Lasting, MonthStart
      <4>1. /\ \/ topTTL[m] = 0 /\ \A j \in Key : log[m][j] = {}
               \/ MonthStart(m) + ttl <= clock + topTTL[m]
            /\ \A j \in Key : topTTL[m] > 0 /\ logTTL[m][j] > 0 => topTTL[m] <= logTTL[m][j]
        BY <3>1 DEF Lasting
      <4>2. topTTL[m] = 0 => \A j \in Key : logTTL[m][j] = 0
        <5>1. topTTL[m] = 0 => ~ (MonthStart(m) + ttl <= clock + topTTL[m])
          BY <1>1, <3>2, Numbers
        <5> QED
          BY <1>1, <4>1, <5>1 DEF KeyThere
      <4>3. MonthStart(m) + ttl <= clock + topTTL'[m]
        <5>1. CASE topTTL[m] = 0
          BY <1>1, <3>2, <3>6, <5>1
        <5>2. CASE topTTL[m] # 0
          BY <3>6, <4>1, <5>2
        <5> QED
          BY <5>1, <5>2
      <4>4. ASSUME NEW j \in Key, logTTL'[m][j] > 0
            PROVE  topTTL'[m] <= logTTL'[m][j]
        <5>1. logTTL'[m][j] \in {ttl, logTTL[m][j]} /\ (logTTL[m][j] = 0 => logTTL'[m][j] = ttl)
          BY <3>3, <3>4, <3>5, <4>4
        <5>2. topTTL[m] > 0 /\ logTTL[m][j] > 0 => topTTL[m] <= logTTL[m][j]
          BY <4>1
        <5> QED
          BY <1>1, <3>2, <3>3, <3>6, <4>2, <5>1, <5>2
      <4> QED
        BY <4>3, <4>4
    <3>8. ASSUME NEW j \in Key
          PROVE  /\ ~ (topTTL'[m] = 0 /\ ttl > 0)
                 /\ topTTL'[m] > 0 /\ logTTL'[m][j] > 0 /\ topTTL'[m] <= logTTL'[m][j]
                      => Cardinality(log'[m][j]) <= rank'[m][j]
      <4>1. ~ (topTTL'[m] = 0 /\ ttl > 0)
        BY <1>1, <3>2, <3>6
      <4>2. /\ topTTL[m] = 0 => logTTL[m][j] < ttl
            /\ topTTL[m] > 0 /\ logTTL[m][j] > 0 /\ topTTL[m] <= logTTL[m][j]
                 => Cardinality(log[m][j]) <= rank[m][j]
        BY <1>1, <1>3, <3>1 DEF Ranked, Count
      <4>3. ASSUME topTTL'[m] <= logTTL'[m][j]
            PROVE  Cardinality(log'[m][j]) <= rank'[m][j]
        <5>1. CASE j = k /\ logTTL[m][k] = 0
          <6>1. log'[m][j] = {r}
            BY <1>1, <2>3, <5>1 DEF KeyThere
          <6>2. Cardinality(log'[m][j]) = 1
            BY <6>1, FS_Singleton
          <6>3. rank'[m][j] = rank[m][j] + 1
            BY <2>5, <5>1
          <6> QED
            BY <3>3, <6>2, <6>3
        <5>2. CASE logTTL[m][j] > 0
          <6>1. logTTL'[m][j] = logTTL[m][j]
            BY <3>4, <3>5, <5>2
          <6>2. topTTL[m] > 0 /\ topTTL[m] <= logTTL[m][j]
            BY <1>1, <3>2, <3>3, <3>6, <4>2, <4>3, <6>1
          <6>3. Cardinality(log[m][j]) <= rank[m][j]
            BY <4>2, <5>2, <6>2
          <6>4. CASE j = k
            <7>1. IsFiniteSet(log[m][k]) /\ Cardinality(log[m][k]) \in Nat
              BY LogFinite DEF LogInv
            <7>2. Cardinality(log[m][k] \union {r}) \in {Cardinality(log[m][k]),
                                                         Cardinality(log[m][k]) + 1}
              BY <7>1, FS_AddElement
            <7>3. Cardinality(log[m][k] \union {r}) <= rank[m][k] + 1
              BY <3>3, <6>3, <6>4, <7>1, <7>2
            <7> QED
              BY <2>3, <2>5, <6>4, <7>3
          <6>5. CASE j # k
            BY <2>3, <2>5, <6>3, <6>5
          <6> QED
            BY <6>4, <6>5
        <5>3. CASE j # k /\ logTTL[m][j] = 0
          <6>1. log'[m][j] = {}
            BY <1>1, <2>3, <5>3 DEF KeyThere
          <6>2. Cardinality(log'[m][j]) = 0 /\ rank'[m][j] = rank[m][j]
            BY <2>5, <5>3, <6>1, FS_EmptySet
          <6> QED
            BY <3>3, <6>2
        <5> QED
          BY <3>3, <5>1, <5>2, <5>3
      <4> QED
        BY <4>1, <4>3
    <3> QED
      BY <3>7, <3>8 DEF Ranked, Count
  <2>9. ASSUME NEW n \in Month \ cleaned
        PROVE  Ranked(n)'
    <3>1. CASE n = m
      BY <2>8, <3>1
    <3>2. CASE n # m
      BY <1>1, <2>3, <2>4, <2>5, <2>6, <3>2, RankedSame
    <3> QED
      BY <3>1, <3>2
  <2> QED
    BY <2>3, <2>4, <2>5, <2>6, <2>7, <2>9
<1> QED
  BY <1>2, <1>3

\* Redis is left alone.
LEMMA RedisStays ==
  ASSUME LogInv, UNCHANGED <<ttl, clock, redisVars>>, cleaned \subseteq cleaned',
         cleaned' \subseteq Month, rec' \in [Recorder -> RecType], cleanup' \in CleanupType,
         Dated', Owed'
  PROVE  LogInv'
<1>1. UNCHANGED <<ttl, clock, log, logTTL, rank, topTTL>>
  BY DEF redisVars
<1>2. TypeOK'
  BY <1>1 DEF LogInv, TypeOK
<1>3. \A m \in Month, k \in Key : KeyThere(m, k)'
  BY <1>1 DEF LogInv, KeyThere
<1>4. \A m \in Month \ cleaned' : Ranked(m)'
  BY <1>1, RankedSame DEF LogInv
<1> QED
  BY <1>2, <1>3, <1>4 DEF LogInv

LEMMA UnderWay ==
  ASSUME TypeOK, NEW r \in Recorder, Pending(r)
  PROVE  rec[r] \in [st : {"sent", "ran"}, age : 0..Lag, resent : 0..MaxResend,
                     key : Key, month : Month]
BY DEF TypeOK, RecType, Pending

LEMMA SendKeeps ==
  ASSUME LogInv, NEW r \in Recorder, NEW k \in Key, Send(r, k), ttl' = ttl
  PROVE  LogInv'
<1>1. /\ rec \in [Recorder -> RecType] /\ clock \in 0..Horizon /\ clock \in Nat
      /\ cleanup \in CleanupType /\ cleaned \subseteq Month
  BY Numbers DEF LogInv, TypeOK
<1>2. PICK new : new = [st |-> "sent", age |-> 0, resent |-> 0, key |-> k,
                        month |-> currentMonth]
  OBVIOUS
<1>3. /\ currentMonth \in Month /\ MonthStart(currentMonth) <= clock
      /\ clock < MonthStart(currentMonth) + MonthLength
  BY <1>1, ThisMonth
<1>4. new \in [st : {"sent", "ran"}, age : 0..Lag, resent : 0..MaxResend,
               key : Key, month : Month]
  <2>1. 0 \in 0..Lag /\ 0 \in 0..MaxResend
    BY Numbers
  <2> QED
    BY <1>2, <1>3, <2>1
<1>5. new \in RecType
  BY <1>4 DEF RecType
<1>6. rec' = [rec EXCEPT ![r] = new] /\ UNCHANGED <<clock, redisVars, cleanup, cleaned>>
  BY <1>2 DEF Send
<1>7. rec' \in [Recorder -> RecType] /\ rec'[r] = new
      /\ \A q \in Recorder \ {r} : rec'[q] = rec[q]
  BY <1>1, <1>5, <1>6
<1>8. Dated'
  <2>1. MonthStart(new.month) \in Nat /\ new.month = currentMonth /\ new.age = 0
    BY <1>2, <1>3, Months
  <2>2. /\ MonthStart(new.month) + new.age <= clock
        /\ clock < MonthStart(new.month) + MonthLength + new.age
    BY <1>1, <1>3, <2>1, Numbers
  <2>3. ASSUME NEW q \in Recorder, rec'[q].st \in {"sent", "ran"}
        PROVE  /\ MonthStart(rec'[q].month) + rec'[q].age <= clock
               /\ clock < MonthStart(rec'[q].month) + MonthLength + rec'[q].age
    <3>1. CASE q = r
      BY <1>7, <2>2, <3>1
    <3>2. CASE q # r
      BY <1>7, <2>3, <3>2 DEF LogInv, Dated, Pending
    <3> QED
      BY <3>1, <3>2
  <2> QED
    BY <1>6, <2>3 DEF Dated, Pending
<1>9. Owed'
  BY <1>6 DEF LogInv, Owed, redisVars
<1> QED
  BY <1>1, <1>6, <1>7, <1>8, <1>9, RedisStays

LEMMA ReturnKeeps ==
  ASSUME LogInv, NEW r \in Recorder, Return(r), ttl' = ttl
  PROVE  LogInv'
<1>1. /\ rec \in [Recorder -> RecType] /\ cleanup \in CleanupType /\ cleaned \subseteq Month
  BY DEF LogInv, TypeOK
<1>2. PICK new : new = [st |-> "done", age |-> 0, resent |-> 0]
  OBVIOUS
<1>3. new \in RecType /\ new.st = "done"
  BY <1>2 DEF RecType
<1>4. rec' = [rec EXCEPT ![r] = new] /\ UNCHANGED <<clock, redisVars, cleanup, cleaned>>
  BY <1>2 DEF Return
<1>5. rec' \in [Recorder -> RecType] /\ rec'[r] = new
      /\ \A q \in Recorder \ {r} : rec'[q] = rec[q]
  BY <1>1, <1>3, <1>4
<1>6. Dated'
  <2>1. \A q \in Recorder : rec'[q].st \in {"sent", "ran"} => rec'[q] = rec[q]
    BY <1>3, <1>5
  <2> QED
    BY <1>4, <2>1 DEF LogInv, Dated, Pending
<1>7. Owed'
  BY <1>4 DEF LogInv, Owed, redisVars
<1> QED
  BY <1>1, <1>4, <1>5, <1>6, <1>7, RedisStays

LEMMA RunKeeps ==
  ASSUME LogInv, NEW r \in Recorder, Pending(r), NEW lost \in 0..MaxResend, Run(r, lost),
         ttl' = ttl
  PROVE  LogInv'
<1>1. /\ TypeOK /\ rec \in [Recorder -> RecType] /\ cleanup \in CleanupType
      /\ cleaned \subseteq Month /\ clock \in 0..Horizon /\ clock \in Nat
  BY Numbers DEF LogInv, TypeOK
<1>2. rec[r] \in [st : {"sent", "ran"}, age : 0..Lag, resent : 0..MaxResend,
                  key : Key, month : Month]
  BY <1>1, UnderWay
<1>3. PICK m \in Month, k \in Key : m = rec[r].month /\ k = rec[r].key
  BY <1>2
<1>4. MonthStart(m) <= clock /\ clock < MonthStart(m) + MonthLength + Lag
  <2>1. /\ MonthStart(m) + rec[r].age <= clock
        /\ clock < MonthStart(m) + MonthLength + rec[r].age
    BY <1>3 DEF LogInv, Dated
  <2>2. rec[r].age \in 0..Lag /\ MonthStart(m) \in Nat
    BY <1>2, Months
  <2> QED
    BY <1>1, <2>1, <2>2, Numbers
<1>5. Write(r, m, k) /\ UNCHANGED <<clock, cleaned>>
  BY <1>3 DEF Run
<1>6. /\ log' \in [Month -> [Key -> SUBSET Recorder]]
      /\ logTTL' \in [Month -> [Key -> 0..ttl]]
      /\ rank' \in [Month -> [Key -> Nat]]
      /\ topTTL' \in [Month -> 0..ttl]
      /\ \A n \in Month, j \in Key : KeyThere(n, j)'
      /\ \A n \in Month \ cleaned : Ranked(n)'
      /\ \A n \in Month, j \in Key : log'[n][j] \subseteq log[n][j] \union {r}
  BY <1>4, <1>5, WriteKeeps
<1>7. PICK new : new = [rec[r] EXCEPT !.st = "ran", !.resent = lost]
  OBVIOUS
<1>8. /\ new \in [st : {"sent", "ran"}, age : 0..Lag, resent : 0..MaxResend,
                  key : Key, month : Month]
      /\ new.month = rec[r].month /\ new.age = rec[r].age
  BY <1>2, <1>7
<1>9. new \in RecType
  BY <1>8 DEF RecType
<1>10. rec' = [rec EXCEPT ![r] = new]
  BY <1>1, <1>7 DEF Run
<1>11. rec' \in [Recorder -> RecType] /\ rec'[r] = new
       /\ \A q \in Recorder \ {r} : rec'[q] = rec[q]
  BY <1>1, <1>9, <1>10
<1>12. Dated'
  <2>1. ASSUME NEW q \in Recorder, rec'[q].st \in {"sent", "ran"}
        PROVE  Pending(q) /\ rec'[q].month = rec[q].month /\ rec'[q].age = rec[q].age
    <3>1. CASE q = r
      BY <1>8, <1>11, <3>1
    <3>2. CASE q # r
      BY <1>11, <2>1, <3>2 DEF Pending
    <3> QED
      BY <3>1, <3>2
  <2> QED
    BY <1>5, <2>1 DEF LogInv, Dated, Pending
<1>13. /\ cleanup' \in CleanupType /\ cleanup'.before = cleanup.before \ {r}
       /\ cleanup'.st = cleanup.st /\ cleanup'.month = cleanup.month
       /\ cleanup'.due = cleanup.due /\ cleanup'.batch = cleanup.batch
  <2>1. cleanup' = [cleanup EXCEPT !.before = @ \ {r}]
    BY DEF Run
  <2> QED
    BY <1>1, <2>1 DEF CleanupType
<1>14. Owed'
  <2>1. cleanup.month \in Month
    BY <1>1 DEF CleanupType
  <2>2. \A k2 \in Key : cleanup'.before \intersect log'[cleanup'.month][k2] # {} =>
                          cleanup.before \intersect log[cleanup.month][k2] # {}
    BY <1>6, <1>13, <2>1
  <2> QED
    BY <1>5, <1>13, <2>2 DEF LogInv, Owed
<1>15. TypeOK'
  BY <1>1, <1>5, <1>6, <1>11, <1>13 DEF TypeOK
<1> QED
  BY <1>5, <1>6, <1>12, <1>14, <1>15 DEF LogInv

LEMMA NoCleanupType ==
  /\ NoCleanup \in CleanupType /\ NoCleanup.st = "idle" /\ NoCleanup.before = {}
BY Months DEF NoCleanup, CleanupType

\* Steps of Cleanup that only read.
LEMMA CleanupReads ==
  ASSUME LogInv, (\E m \in Month : CleanupBegin(m)) \/ Scan \/ CleanupFail,
         ttl' = ttl
  PROVE  LogInv'
<1>1. /\ TypeOK /\ cleanup \in CleanupType /\ rec \in [Recorder -> RecType]
      /\ cleaned \subseteq Month
  BY DEF LogInv, TypeOK
<1>2. UNCHANGED <<clock, redisVars, rec>>
  BY DEF CleanupBegin, Scan, CleanupFail
<1>3. log' = log
  BY <1>2 DEF redisVars
<1>4. Dated'
  BY <1>2 DEF LogInv, Dated, Pending
<1>5. CASE \E m \in Month : CleanupBegin(m)
  <2>1. PICK m \in Month : CleanupBegin(m)
    BY <1>5
  <2>2. PICK due : due = Live(m)
    OBVIOUS
  <2>3. PICK before : before = UNION {log[m][k] : k \in Key}
    OBVIOUS
  <2>4. cleanup' = [NoCleanup EXCEPT !.st = "scan", !.month = m, !.due = due,
                                     !.before = before]
        /\ cleaned' = cleaned \union {m}
    BY <2>1, <2>2, <2>3 DEF CleanupBegin
  <2>5. due \in SUBSET Key /\ before \in SUBSET Recorder
    BY <1>1, <2>2, <2>3 DEF Live, TypeOK
  <2>6. /\ cleanup' \in CleanupType /\ cleanup'.st = "scan" /\ cleanup'.month = m
        /\ cleanup'.due = due /\ cleanup'.before = before
    BY <2>4, <2>5, NoCleanupType DEF CleanupType
  <2>7. \A k \in Key : log[m][k] # {} => k \in due
    <3>1. \A k \in Key : logTTL[m][k] \in 0..ttl /\ KeyThere(m, k)
      BY <1>1 DEF LogInv, TypeOK
    <3> QED
      BY <2>2, <3>1, Numbers DEF Live, KeyThere
  <2>8. Owed'
    BY <1>3, <2>4, <2>6, <2>7 DEF Owed
  <2> QED
    BY <1>1, <1>2, <1>4, <2>4, <2>6, <2>8, RedisStays
<1>6. CASE Scan
  <2>1. PICK batch \in SUBSET Live(cleanup.month) :
          cleanup' = [cleanup EXCEPT !.st = "del", !.batch = batch, !.due = @ \ batch]
    BY <1>6 DEF Scan
  <2>2. batch \in SUBSET Key
    BY DEF Live
  <2>3. /\ cleanup' \in CleanupType /\ cleanup'.st = "del" /\ cleanup'.month = cleanup.month
        /\ cleanup'.due = cleanup.due \ batch /\ cleanup'.batch = batch
        /\ cleanup'.before = cleanup.before
    BY <1>1, <2>1, <2>2 DEF CleanupType
  <2>4. cleaned' = cleaned /\ cleanup.st = "scan"
    BY <1>6 DEF Scan
  <2>5. Owed'
    BY <1>3, <2>3, <2>4 DEF LogInv, Owed
  <2> QED
    BY <1>1, <1>2, <1>4, <2>3, <2>4, <2>5, RedisStays
<1>7. CASE CleanupFail
  <2>1. cleanup' = [NoCleanup EXCEPT !.st = "failed"] /\ cleaned' = cleaned
    BY <1>7 DEF CleanupFail
  <2>2. cleanup' \in CleanupType /\ cleanup'.st = "failed"
    BY <2>1, NoCleanupType DEF CleanupType
  <2>3. Owed'
    BY <2>2 DEF Owed
  <2> QED
    BY <1>1, <1>2, <1>4, <2>1, <2>2, <2>3, RedisStays
<1> QED
  BY <1>5, <1>6, <1>7

LEMMA DelKeeps ==
  ASSUME LogInv, Del, ttl' = ttl
  PROVE  LogInv'
<1>1. /\ TypeOK /\ cleanup \in CleanupType /\ rec \in [Recorder -> RecType]
      /\ cleaned \subseteq Month
      /\ log \in [Month -> [Key -> SUBSET Recorder]]
      /\ logTTL \in [Month -> [Key -> 0..ttl]]
  BY DEF LogInv, TypeOK
<1>2. PICK m \in Month, batch \in SUBSET Key, due \in SUBSET Key :
        m = cleanup.month /\ batch = cleanup.batch /\ due = cleanup.due
  BY <1>1 DEF CleanupType
<1>3. cleanup.st = "del" /\ m \in cleaned
      /\ UNCHANGED <<clock, rank, topTTL, rec, cleaned>>
  BY <1>2 DEF Del, LogInv, Owed
<1>4. /\ log' = [log EXCEPT ![m] = [k \in Key |-> IF k \in batch THEN {} ELSE log[m][k]]]
      /\ logTTL' = [logTTL EXCEPT ![m] = [k \in Key |-> IF k \in batch THEN 0
                                                                       ELSE logTTL[m][k]]]
  BY <1>1, <1>2 DEF Del
<1>5. /\ log' \in [Month -> [Key -> SUBSET Recorder]]
      /\ \A n \in Month \ {m} : log'[n] = log[n]
      /\ \A k \in Key : log'[m][k] = IF k \in batch THEN {} ELSE log[m][k]
  <2>1. [k \in Key |-> IF k \in batch THEN {} ELSE log[m][k]] \in [Key -> SUBSET Recorder]
    BY <1>1
  <2> QED
    BY <1>1, <1>4, <2>1
<1>6. /\ logTTL' \in [Month -> [Key -> 0..ttl]]
      /\ \A n \in Month \ {m} : logTTL'[n] = logTTL[n]
      /\ \A k \in Key : logTTL'[m][k] = IF k \in batch THEN 0 ELSE logTTL[m][k]
  <2>1. [k \in Key |-> IF k \in batch THEN 0 ELSE logTTL[m][k]] \in [Key -> 0..ttl]
    <3>1. 0 \in 0..ttl
      BY <1>1, TypedTTL
    <3> QED
      BY <1>1, <3>1
  <2> QED
    BY <1>1, <1>4, <2>1
<1>7. PICK st \in {"top", "scan"} :
        /\ st = "top" => due = {}
        /\ cleanup'.st = st /\ cleanup'.month = m /\ cleanup'.batch = {}
        /\ cleanup'.due = due /\ cleanup'.before = cleanup.before
        /\ cleanup' \in CleanupType
  <2>1. CASE due = {} /\ cleanup' = [cleanup EXCEPT !.st = "top", !.batch = {}, !.due = {}]
    BY <1>1, <1>2, <2>1 DEF CleanupType
  <2>2. CASE cleanup' = [cleanup EXCEPT !.st = "scan", !.batch = {}]
    BY <1>1, <1>2, <2>2 DEF CleanupType
  <2> QED
    BY <1>2, <2>1, <2>2 DEF Del, ScanComplete
<1>8. TypeOK'
  BY <1>1, <1>3, <1>5, <1>6, <1>7 DEF TypeOK
<1>9. Dated'
  BY <1>3 DEF LogInv, Dated, Pending
<1>10. ASSUME NEW n \in Month, NEW k \in Key
       PROVE  KeyThere(n, k)'
  <2>1. KeyThere(n, k)
    BY DEF LogInv
  <2>2. CASE n = m
    BY <1>5, <1>6, <2>1, <2>2 DEF KeyThere
  <2>3. CASE n # m
    BY <1>5, <1>6, <2>1, <2>3 DEF KeyThere
  <2> QED
    BY <2>2, <2>3
<1>11. ASSUME NEW n \in Month \ cleaned'
       PROVE  Ranked(n)'
  <2>1. n # m /\ Ranked(n)
    BY <1>3 DEF LogInv
  <2> QED
    BY <1>3, <1>5, <1>6, <2>1, RankedSame
<1>12. Owed'
  <2>1. ASSUME NEW k \in Key, cleanup'.before \intersect log'[cleanup'.month][k] # {}
        PROVE  k \in due
    <3>1. k \notin batch /\ cleanup.before \intersect log[m][k] # {}
      BY <1>5, <1>7, <2>1
    <3> QED
      BY <1>2, <1>3, <3>1 DEF LogInv, Owed
  <2> QED
    BY <1>3, <1>7, <2>1 DEF Owed
<1> QED
  BY <1>8, <1>9, <1>10, <1>11, <1>12 DEF LogInv

LEMMA DelTopKeeps ==
  ASSUME LogInv, DelTop, ttl' = ttl
  PROVE  LogInv'
<1>1. /\ TypeOK /\ cleanup \in CleanupType /\ cleaned \subseteq Month
      /\ rank \in [Month -> [Key -> Nat]] /\ topTTL \in [Month -> 0..ttl]
  BY DEF LogInv, TypeOK
<1>2. PICK m \in Month : m = cleanup.month
  BY <1>1 DEF CleanupType
<1>3. cleanup.st = "top" /\ m \in cleaned /\ UNCHANGED <<clock, log, logTTL, rec, cleaned>>
  BY <1>2 DEF DelTop, LogInv, Owed
<1>4. /\ rank' \in [Month -> [Key -> Nat]] /\ topTTL' \in [Month -> 0..ttl]
      /\ \A n \in Month \ {m} : rank'[n] = rank[n] /\ topTTL'[n] = topTTL[n]
  <2>1. NoRank \in [Key -> Nat] /\ 0 \in 0..ttl
    BY <1>1, TypedTTL DEF NoRank
  <2>2. CASE rank' = [rank EXCEPT ![m] = NoRank] /\ topTTL' = [topTTL EXCEPT ![m] = 0]
    BY <1>1, <2>1, <2>2
  <2>3. CASE UNCHANGED <<rank, topTTL>>
    BY <1>1, <2>3
  <2> QED
    BY <1>2, <2>2, <2>3 DEF DelTop
<1>5. /\ cleanup' \in CleanupType /\ cleanup'.st = "done" /\ cleanup'.month = m
      /\ cleanup'.before = cleanup.before
  <2>1. cleanup' = [cleanup EXCEPT !.st = "done"]
    BY DEF DelTop
  <2> QED
    BY <1>1, <1>2, <2>1 DEF CleanupType
<1>6. TypeOK'
  BY <1>1, <1>3, <1>4, <1>5 DEF TypeOK
<1>7. Dated' /\ \A n \in Month, k \in Key : KeyThere(n, k)'
  BY <1>3 DEF LogInv, Dated, Pending, KeyThere
<1>8. ASSUME NEW n \in Month \ cleaned'
      PROVE  Ranked(n)'
  <2>1. n # m /\ Ranked(n)
    BY <1>3 DEF LogInv
  <2> QED
    BY <1>3, <1>4, <2>1, RankedSame
<1>9. Owed'
  BY <1>2, <1>3, <1>5 DEF LogInv, Owed
<1> QED
  BY <1>6, <1>7, <1>8, <1>9 DEF LogInv

\* Time passes.
LEMMA TickKeeps ==
  ASSUME LogInv, Tick, ttl' = ttl
  PROVE  LogInv'
<1>1. /\ TypeOK /\ cleanup \in CleanupType /\ rec \in [Recorder -> RecType]
      /\ clock \in 0..Horizon /\ clock \in Nat
      /\ log \in [Month -> [Key -> SUBSET Recorder]]
      /\ logTTL \in [Month -> [Key -> 0..ttl]]
      /\ rank \in [Month -> [Key -> Nat]] /\ topTTL \in [Month -> 0..ttl]
      /\ cleaned \subseteq Month /\ ttl \in Nat
  BY Numbers, TypedTTL DEF LogInv, TypeOK
<1>2. /\ clock < Horizon /\ clock' = clock + 1 /\ cleaned' = cleaned
      /\ clock' \in 0..Horizon
  BY <1>1, Numbers DEF Tick
<1>3. ASSUME NEW r \in Recorder
      PROVE  /\ rec'[r] \in RecType
             /\ Pending(r)' => /\ Pending(r) /\ rec'[r].month = rec[r].month
                               /\ rec'[r].age = rec[r].age + 1
  <2>1. rec'[r] = IF Pending(r) THEN [rec[r] EXCEPT !.age = @ + 1] ELSE rec[r]
    BY DEF Tick
  <2>2. CASE Pending(r)
    <3>1. rec[r] \in [st : {"sent", "ran"}, age : 0..Lag, resent : 0..MaxResend,
                      key : Key, month : Month]
      BY <1>1, <2>2, UnderWay
    <3>2. PICK a : a = rec[r].age + 1
      OBVIOUS
    <3>3. a \in 0..Lag
      <4>1. rec[r].age \in 0..Lag /\ rec[r].age < Lag
        BY <2>2, <3>1 DEF Tick
      <4> QED
        BY <3>2, <4>1, Numbers
    <3>4. rec'[r] = [rec[r] EXCEPT !.age = a]
      BY <2>1, <2>2, <3>2
    <3>5. /\ rec'[r] \in [st : {"sent", "ran"}, age : 0..Lag, resent : 0..MaxResend,
                          key : Key, month : Month]
          /\ rec'[r].month = rec[r].month /\ rec'[r].age = a
      BY <3>1, <3>3, <3>4
    <3> QED
      BY <2>2, <3>2, <3>5 DEF RecType
  <2>3. CASE ~ Pending(r)
    BY <1>1, <2>1, <2>3 DEF Pending
  <2> QED
    BY <2>2, <2>3
<1>4. rec' \in [Recorder -> RecType]
  <2>1. rec' = [r \in Recorder |-> IF Pending(r) THEN [rec[r] EXCEPT !.age = @ + 1]
                                      ELSE rec[r]]
    BY DEF Tick
  <2> QED
    BY <1>3, <2>1
<1>5. Dated'
  <2>1. ASSUME NEW r \in Recorder, Pending(r)'
        PROVE  /\ MonthStart(rec'[r].month) + rec'[r].age <= clock'
               /\ clock' < MonthStart(rec'[r].month) + MonthLength + rec'[r].age
    <3>1. /\ Pending(r) /\ rec'[r].month = rec[r].month /\ rec'[r].age = rec[r].age + 1
      BY <1>3, <2>1
    <3>2. /\ MonthStart(rec[r].month) + rec[r].age <= clock
          /\ clock < MonthStart(rec[r].month) + MonthLength + rec[r].age
      BY <3>1 DEF LogInv, Dated
    <3>3. rec[r] \in [st : {"sent", "ran"}, age : 0..Lag, resent : 0..MaxResend,
                      key : Key, month : Month]
      BY <1>1, <3>1, UnderWay
    <3>4. rec[r].age \in Nat /\ rec[r].month \in Month
      BY <3>3, Numbers
    <3>5. MonthStart(rec[r].month) \in Nat
      BY <3>4, Months
    <3>6. /\ MonthStart(rec'[r].month) = MonthStart(rec[r].month)
          /\ rec'[r].age = rec[r].age + 1
      BY <3>1
    <3> QED
      BY <1>1, <1>2, <3>2, <3>4, <3>5, <3>6, Numbers
  <2> QED
    BY <2>1 DEF Dated
<1>6. ASSUME NEW m \in Month, NEW k \in Key
      PROVE  /\ log'[m][k] = IF logTTL[m][k] > 1 THEN log[m][k] ELSE {}
             /\ logTTL'[m][k] = Less(logTTL[m][k]) /\ Less(logTTL[m][k]) \in 0..ttl
             /\ logTTL'[m][k] > 0 => logTTL[m][k] = logTTL'[m][k] + 1
             /\ KeyThere(m, k)'
  <2>1. /\ log'[m][k] = IF logTTL[m][k] > 1 THEN log[m][k] ELSE {}
        /\ logTTL'[m][k] = Less(logTTL[m][k])
    BY DEF Tick
  <2>2. /\ logTTL[m][k] \in 0..ttl /\ logTTL[m][k] \in Nat /\ ttl \in Nat
        /\ KeyThere(m, k)
    BY <1>1 DEF LogInv
  <2>3. Less(logTTL[m][k]) \in 0..ttl
        /\ (Less(logTTL[m][k]) > 0 => logTTL[m][k] = Less(logTTL[m][k]) + 1)
        /\ (Less(logTTL[m][k]) = 0 <=> ~ (logTTL[m][k] > 1))
    BY <2>2 DEF Less
  <2>4. logTTL[m][k] > 1 => log[m][k] # {}
    BY <2>2 DEF KeyThere
  <2> QED
    BY <2>1, <2>3, <2>4 DEF KeyThere
<1>7. /\ log' \in [Month -> [Key -> SUBSET Recorder]]
      /\ logTTL' \in [Month -> [Key -> 0..ttl]]
  <2>1. ASSUME NEW m \in Month
        PROVE  /\ [k \in Key |-> IF logTTL[m][k] > 1 THEN log[m][k] ELSE {}]
                    \in [Key -> SUBSET Recorder]
               /\ [k \in Key |-> Less(logTTL[m][k])] \in [Key -> 0..ttl]
    BY <1>1, <1>6
  <2>2. /\ log' = [m \in Month |-> [k \in Key |-> IF logTTL[m][k] > 1 THEN log[m][k]
                                                     ELSE {}]]
        /\ logTTL' = [m \in Month |-> [k \in Key |-> Less(logTTL[m][k])]]
    BY DEF Tick
  <2> QED
    BY <2>1, <2>2
<1>8. ASSUME NEW m \in Month
      PROVE  /\ topTTL'[m] = Less(topTTL[m]) /\ Less(topTTL[m]) \in 0..ttl
             /\ topTTL'[m] > 0 => topTTL[m] = topTTL'[m] + 1 /\ rank'[m] = rank[m]
             /\ topTTL[m] <= topTTL'[m] + 1
             /\ topTTL[m] = 0 => topTTL'[m] = 0
             /\ rank'[m] \in [Key -> Nat]
  <2>1. /\ topTTL'[m] = Less(topTTL[m])
        /\ rank'[m] = IF topTTL[m] > 1 THEN rank[m] ELSE NoRank
    BY DEF Tick
  <2>2. topTTL[m] \in 0..ttl /\ topTTL[m] \in Nat /\ ttl \in Nat
        /\ rank[m] \in [Key -> Nat]
        /\ NoRank \in [Key -> Nat]
    BY <1>1, Numbers DEF NoRank
  <2>3. /\ Less(topTTL[m]) \in 0..ttl
        /\ Less(topTTL[m]) > 0 => topTTL[m] = Less(topTTL[m]) + 1 /\ topTTL[m] > 1
        /\ topTTL[m] <= Less(topTTL[m]) + 1
        /\ topTTL[m] = 0 => Less(topTTL[m]) = 0
    BY <2>2 DEF Less
  <2> QED
    BY <2>1, <2>2, <2>3
<1>9. rank' \in [Month -> [Key -> Nat]] /\ topTTL' \in [Month -> 0..ttl]
  <2>1. /\ topTTL' = [m \in Month |-> Less(topTTL[m])]
        /\ rank' = [m \in Month |-> IF topTTL[m] > 1 THEN rank[m] ELSE NoRank]
    BY DEF Tick
  <2>2. \A m \in Month : rank'[m] \in [Key -> Nat] /\ topTTL'[m] \in 0..ttl
    BY <1>8
  <2> QED
    BY <2>1, <2>2
<1>10. ASSUME NEW m \in Month \ cleaned'
       PROVE  Ranked(m)'
  <2>1. m \in Month /\ Ranked(m) /\ Lasting(m)
    BY <1>2, <1>10 DEF LogInv, Ranked
  <2>2. MonthStart(m) \in Nat /\ topTTL[m] \in Nat /\ topTTL'[m] \in Nat
    BY <1>1, <1>9, <2>1, Months
  <2>3. \A k \in Key :
          logTTL[m][k] \in Nat /\ logTTL'[m][k] \in Nat /\ rank[m][k] \in Nat
          /\ logTTL[m][k] <= ttl
    BY <1>1, <1>7, <2>1
  <2>4. topTTL'[m] > 0 => topTTL[m] = topTTL'[m] + 1 /\ topTTL[m] > 0 /\ rank'[m] = rank[m]
    BY <1>8, <2>1, <2>2
  <2>5. \A k \in Key : logTTL'[m][k] > 0 => logTTL[m][k] = logTTL'[m][k] + 1
    BY <1>6, <2>1
  <2>6. Lasting(m)'
    <3> SUFFICES ASSUME ttl >= MonthLength + Lag
                 PROVE  /\ \/ topTTL'[m] = 0 /\ \A k \in Key : log'[m][k] = {}
                           \/ MonthStart(m) + ttl <= clock' + topTTL'[m]
                        /\ \A k \in Key : topTTL'[m] > 0 /\ logTTL'[m][k] > 0
                                             => topTTL'[m] <= logTTL'[m][k]
      BY DEF Lasting, MonthStart
    <3>1. CASE topTTL[m] = 0 /\ \A k \in Key : log[m][k] = {}
      BY <1>6, <1>8, <2>1, <3>1
    <3>2. ASSUME MonthStart(m) + ttl <= clock + topTTL[m]
          PROVE  MonthStart(m) + ttl <= clock' + topTTL'[m]
      <4>1. clock' = clock + 1 /\ clock \in Nat
        BY <1>1, <1>2
      <4>2. topTTL[m] <= topTTL'[m] + 1
        BY <1>8, <2>1
      <4>3. ttl \in Nat
        BY <1>1
      <4> QED
        BY <2>2, <3>2, <4>1, <4>2, <4>3
    <3>3. ASSUME NEW k \in Key, topTTL'[m] > 0, logTTL'[m][k] > 0
          PROVE  topTTL'[m] <= logTTL'[m][k]
      <4>1. topTTL[m] > 0 /\ logTTL[m][k] > 0 => topTTL[m] <= logTTL[m][k]
        BY <2>1 DEF Lasting
      <4> QED
        BY <2>2, <2>3, <2>4, <2>5, <3>3, <4>1
    <3> QED
      BY <2>1, <3>1, <3>2, <3>3 DEF Lasting
  <2>7. ASSUME NEW k \in Key
        PROVE  /\ ttl > 0 => logTTL'[m][k] < ttl
               /\ topTTL'[m] > 0 /\ logTTL'[m][k] > 0 /\ topTTL'[m] <= logTTL'[m][k]
                    => Cardinality(log'[m][k]) <= rank'[m][k]
    <3>1. ttl > 0 => logTTL'[m][k] < ttl
      BY <1>1, <2>3, <2>5
    <3>2. ASSUME topTTL'[m] > 0, logTTL'[m][k] > 0, topTTL'[m] <= logTTL'[m][k]
          PROVE  Cardinality(log'[m][k]) <= rank'[m][k]
      <4>1. /\ topTTL[m] > 0 /\ logTTL[m][k] > 0 /\ topTTL[m] <= logTTL[m][k]
            /\ logTTL[m][k] > 1
        BY <2>2, <2>3, <2>4, <2>5, <3>2
      <4>2. log'[m][k] = log[m][k] /\ rank'[m] = rank[m]
        BY <1>6, <2>1, <2>4, <3>2, <4>1
      <4> QED
        BY <2>1, <4>1, <4>2 DEF Ranked, Count
    <3> QED
      BY <3>1, <3>2
  <2> QED
    BY <2>6, <2>7 DEF Ranked, Count
<1>11. PICK due : due = {k \in cleanup.due : logTTL[cleanup.month][k] > 1}
  OBVIOUS
<1>12. /\ cleanup' \in CleanupType /\ cleanup'.due = due /\ cleanup'.batch = cleanup.batch
       /\ cleanup'.st = cleanup.st /\ cleanup'.month = cleanup.month
       /\ cleanup'.before = cleanup.before
  <2>1. cleanup' = [cleanup EXCEPT !.due = due]
    BY <1>1, <1>11 DEF Tick, CleanupType
  <2>2. due \in SUBSET Key
    BY <1>1, <1>11 DEF CleanupType
  <2> QED
    BY <1>1, <2>1, <2>2 DEF CleanupType
<1>13. Owed'
  <2>1. cleanup.month \in Month
    BY <1>1 DEF CleanupType
  <2>2. ASSUME NEW k \in Key, cleanup.before \intersect log'[cleanup.month][k] # {}
        PROVE  /\ logTTL[cleanup.month][k] > 1
               /\ cleanup.before \intersect log[cleanup.month][k] # {}
    BY <1>6, <2>1, <2>2
  <2> QED
    BY <1>2, <1>11, <1>12, <2>2 DEF LogInv, Owed
<1>14. TypeOK'
  BY <1>1, <1>2, <1>4, <1>7, <1>9, <1>12 DEF TypeOK
<1> QED
  BY <1>5, <1>6, <1>10, <1>13, <1>14 DEF LogInv

LEMMA LogInit == Init => LogInv
<1> SUFFICES ASSUME Init PROVE LogInv
  OBVIOUS
<1>1. 0 \in 0..Horizon /\ ttl \in TTLs /\ ttl \in Nat /\ 0 \in 0..ttl /\ 0 \in Month
  BY Numbers, Months DEF Init
<1>2. NoRank \in [Key -> Nat]
  BY DEF NoRank
<1>3. cleanup \in CleanupType /\ cleanup.st = "idle" /\ cleanup.before = {}
  BY NoCleanupType DEF Init
<1>4. rec \in [Recorder -> RecType] /\ \A r \in Recorder : ~ Pending(r)
  BY DEF Init, RecType, Pending
<1>5. TypeOK
  BY <1>1, <1>2, <1>3, <1>4 DEF Init, TypeOK
<1>6. Dated
  BY <1>4 DEF Dated
<1>7. \A m \in Month, k \in Key : KeyThere(m, k)
  BY DEF Init, KeyThere
<1>8. \A m \in Month : Ranked(m)
  BY <1>1 DEF Init, Ranked, Lasting
<1>9. Owed
  BY <1>3 DEF Owed
<1> QED
  BY <1>5, <1>6, <1>7, <1>8, <1>9 DEF LogInv

LEMMA LogStep == LogInv /\ [Next]_vars => LogInv'
<1> SUFFICES ASSUME LogInv, [Next]_vars PROVE LogInv'
  OBVIOUS
<1>1. ASSUME NEW r \in Recorder, NEW k \in Key, Send(r, k), ttl' = ttl
      PROVE  LogInv'
  BY <1>1, SendKeeps
<1>2. ASSUME NEW r \in Recorder, Arrive(r) \/ Resend(r), ttl' = ttl
      PROVE  LogInv'
  <2>1. Pending(r)
    BY <1>2 DEF Arrive, Resend, Pending
  <2>2. rec[r] \in [st : {"sent", "ran"}, age : 0..Lag, resent : 0..MaxResend,
                    key : Key, month : Month]
    BY <2>1, UnderWay DEF LogInv
  <2>3. rec[r].resent \in 0..MaxResend
    BY <2>2
  <2>4. CASE Arrive(r)
    BY <1>2, <2>1, <2>3, <2>4, RunKeeps DEF Arrive
  <2>5. CASE Resend(r)
    <3>1. rec[r].resent + 1 \in 0..MaxResend
      BY <2>3, <2>5, Numbers DEF Resend
    <3> QED
      BY <1>2, <2>1, <2>5, <3>1, RunKeeps DEF Resend
  <2> QED
    BY <1>2, <2>4, <2>5
<1>3. ASSUME NEW r \in Recorder, Return(r), ttl' = ttl
      PROVE  LogInv'
  BY <1>3, ReturnKeeps
<1>4. CASE ((\E m \in Month : CleanupBegin(m)) \/ Scan \/ CleanupFail) /\ ttl' = ttl
  BY <1>4, CleanupReads
<1>5. CASE Del /\ ttl' = ttl
  BY <1>5, DelKeeps
<1>6. CASE DelTop /\ ttl' = ttl
  BY <1>6, DelTopKeeps
<1>7. CASE Tick /\ ttl' = ttl
  BY <1>7, TickKeeps
<1>8. CASE UNCHANGED vars
  <2>1. UNCHANGED <<ttl, clock, redisVars, rec, cleanup, cleaned>>
    BY <1>8 DEF vars
  <2>2. Dated'
    BY <2>1 DEF LogInv, Dated, Pending
  <2>3. Owed'
    BY <2>1 DEF LogInv, Owed, redisVars
  <2>4. /\ cleaned' = cleaned /\ cleaned' \subseteq Month
        /\ rec' \in [Recorder -> RecType] /\ cleanup' \in CleanupType
    BY <2>1 DEF LogInv, TypeOK
  <2> QED
    BY <2>1, <2>2, <2>3, <2>4, RedisStays
<1> QED
  BY <1>1, <1>2, <1>3, <1>4, <1>5, <1>6, <1>7, <1>8 DEF Next

LEMMA LogAlways == Spec => []LogInv
BY LogInit, LogStep, PTL DEF Spec

(***************************************************************************)
(* However many goroutines record refusals, whatever is sent again,        *)
(* whenever the month ends and whatever the ttl: as long as nobody cleans  *)
(* the month, its ranking counts no less than each log holds that began    *)
(* with it or under it.  With a ttl that outlasts the month and the lag,   *)
(* as the default of 90 days does, these are all the logs there are.       *)
(***************************************************************************)
THEOREM RankCovers == Spec => []RankCoversLog
<1>1. LogInv => RankCoversLog
  BY DEF LogInv, KeyThere, Ranked, Lasting, RankCoversLog
<1> QED
  BY <1>1, LogAlways, PTL

(***************************************************************************)
(* A Cleanup that reports success leaves none of the records of the month  *)
(* that it found, whatever it raced with.                                  *)
(***************************************************************************)
THEOREM CleanupComplete == Spec => []CleanupRemovesOld
<1>1. LogInv => CleanupRemovesOld
  BY DEF LogInv, Owed, CleanupRemovesOld
<1> QED
  BY <1>1, LogAlways, PTL
=============================================================================
