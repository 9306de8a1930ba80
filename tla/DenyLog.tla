------------------------------ MODULE DenyLog ------------------------------
(***************************************************************************)
(* The log of refused requests of package ratelimit: for each month and    *)
(* limited key a ZSET of records, for each month a ZSET that ranks the     *)
(* keys.  Record runs luaDenyRecord from a goroutine GinMiddleware does    *)
(* not wait for; Cleanup walks the month's keys with SCAN and DEL, one     *)
(* command after the other.  Count, Entries and Top are single reads: how  *)
(* many records a ZSET has, its members, and rank[m].                      *)
(*                                                                         *)
(* A record is named by the goroutine that makes it: the sequence number   *)
(* and process id in the member keep them apart.  A key with TTL 0 is      *)
(* absent.  Months are numbered from the first one the clock sees.         *)
(*                                                                         *)
(* A definition named Slip... is a bug a later change could make in the    *)
(* definition after it; the project's mutation runs put it in its place.   *)
(***************************************************************************)
EXTENDS Naturals, FiniteSets

CONSTANTS
  Recorder,          \* the goroutines that record one refusal each
  Key,               \* the limited keys
  TTLs,              \* the values of int(ttl.Seconds()), 0 for one below a second
  MonthLength,       \* moments in a month
  Lag,               \* how long a Record may be under way
  MaxResend,         \* bound: replies lost in the course of one Record
  Horizon            \* bound: the last moment of the clock

ASSUME RecorderAssumption == IsFiniteSet(Recorder)
ASSUME NumbersAssumption ==
  {Lag, MaxResend, Horizon} \subseteq Nat /\ MonthLength \in Nat \ {0}
ASSUME TTLsAssumption == TTLs \subseteq Nat

VARIABLES
  ttl,               \* the logger's ttl, which NewDenyLogger is given
  clock,
  log, logTTL,       \* the records of each month and key, and the key's TTL
  rank, topTTL,      \* the scores in the ranking of each month, and the key's TTL
  rec,               \* the goroutines
  cleanup,           \* the call of Cleanup
  cleaned            \* history: the months Cleanup has been at

redisVars == <<log, logTTL, rank, topTTL>>
vars == <<ttl, clock, redisVars, rec, cleanup, cleaned>>

Month == 0..(Horizon \div MonthLength)
currentMonth == clock \div MonthLength
NoRank == [k \in Key |-> 0]

\* before is history: the records that were there when the call began and were not
\* written again since.
NoCleanup == [st |-> "idle", month |-> 0, due |-> {}, batch |-> {}, before |-> {}]

\* Any ttl is accepted, one that ends within the month as well as the default of 90 days.
Init ==
  /\ ttl \in TTLs
  /\ clock = 0
  /\ log = [m \in Month |-> [k \in Key |-> {}]]
  /\ logTTL = [m \in Month |-> [k \in Key |-> 0]]
  /\ rank = [m \in Month |-> NoRank]
  /\ topTTL = [m \in Month |-> 0]
  /\ rec = [r \in Recorder |-> [st |-> "new", age |-> 0, resent |-> 0]]
  /\ cleanup = NoCleanup
  /\ cleaned = {}

\* ZCARD; an absent key counts nothing.
Count(m, k) == Cardinality(log[m][k])

Live(m) == {k \in Key : logTTL[m][k] > 0}
Pending(r) == rec[r].st \in {"sent", "ran"}

---------------------------------------------------------------------------
(* Record.                                                                 *)

\* The month and the time are read before the command goes out.
Send(r, k) ==
  /\ rec[r].st = "new"
  /\ rec' = [rec EXCEPT ![r] =
       [st |-> "sent", age |-> 0, resent |-> 0, key |-> k, month |-> currentMonth]]
  /\ UNCHANGED <<clock, redisVars, cleanup, cleaned>>

SlipRenew(left) == ttl

\* EXPIRE only where TTL says -1, on a key that ZADD has just made.
Expiring(left) == IF left = 0 THEN ttl ELSE left

\* luaDenyRecord: ZADD, which a retransmitted command repeats without effect, and
\* ZINCRBY, which it repeats with one.  EXPIRE with 0 deletes what was written.
Write(r, m, k) ==
  IF ttl = 0
    THEN UNCHANGED redisVars
    ELSE /\ log' = [log EXCEPT ![m][k] = @ \union {r}]
         /\ logTTL' = [logTTL EXCEPT ![m][k] = Expiring(@)]
         /\ rank' = [rank EXCEPT ![m][k] = @ + 1]
         /\ topTTL' = [topTTL EXCEPT ![m] = Expiring(@)]

Run(r, lost) ==
  /\ Write(r, rec[r].month, rec[r].key)
  /\ rec' = [rec EXCEPT ![r].st = "ran", ![r].resent = lost]
  /\ cleanup' = [cleanup EXCEPT !.before = @ \ {r}]
  /\ UNCHANGED <<clock, cleaned>>

Arrive(r) == rec[r].st = "sent" /\ Run(r, rec[r].resent)

Resend(r) == rec[r].st = "ran" /\ rec[r].resent < MaxResend /\ Run(r, rec[r].resent + 1)

\* The reply, or an error whether the script ran or not: the goroutine ignores both.
Return(r) ==
  /\ Pending(r)
  /\ rec' = [rec EXCEPT ![r] = [st |-> "done", age |-> 0, resent |-> 0]]
  /\ UNCHANGED <<clock, redisVars, cleanup, cleaned>>

---------------------------------------------------------------------------
(* Cleanup.                                                                *)

\* due are the keys SCAN owes to the caller: those there from the first call to the
\* last.
CleanupBegin(m) ==
  /\ cleanup.st \in {"idle", "done", "failed"}
  /\ cleanup' = [NoCleanup EXCEPT !.st = "scan", !.month = m, !.due = Live(m),
                                  !.before = UNION {log[m][k] : k \in Key}]
  /\ cleaned' = cleaned \union {m}
  /\ UNCHANGED <<clock, redisVars, rec>>

\* SCAN returns some keys of the month.
Scan ==
  /\ cleanup.st = "scan"
  /\ \E batch \in SUBSET Live(cleanup.month) :
       cleanup' = [cleanup EXCEPT !.st = "del", !.batch = batch, !.due = @ \ batch]
  /\ UNCHANGED <<clock, redisVars, rec, cleaned>>

SlipScanOnce(due) == TRUE

\* The cursor is 0 again.
ScanComplete(due) == due = {}

\* DEL of what SCAN returned, if anything: records made in between go with the rest.
Del ==
  /\ cleanup.st = "del"
  /\ log' = [log EXCEPT ![cleanup.month] =
       [k \in Key |-> IF k \in cleanup.batch THEN {} ELSE @[k]]]
  /\ logTTL' = [logTTL EXCEPT ![cleanup.month] =
       [k \in Key |-> IF k \in cleanup.batch THEN 0 ELSE @[k]]]
  /\ \/ /\ ScanComplete(cleanup.due)
        /\ cleanup' = [cleanup EXCEPT !.st = "top", !.batch = {}, !.due = {}]
     \/ cleanup' = [cleanup EXCEPT !.st = "scan", !.batch = {}]
  /\ UNCHANGED <<clock, rank, topTTL, rec, cleaned>>

\* DEL of the ranking; its error is dropped.
DelTop ==
  /\ cleanup.st = "top"
  /\ \/ /\ rank' = [rank EXCEPT ![cleanup.month] = NoRank]
        /\ topTTL' = [topTTL EXCEPT ![cleanup.month] = 0]
     \/ UNCHANGED <<rank, topTTL>>
  /\ cleanup' = [cleanup EXCEPT !.st = "done"]
  /\ UNCHANGED <<clock, log, logTTL, rec, cleaned>>

\* SCAN or DEL fails: Cleanup stops where it is.
CleanupFail ==
  /\ cleanup.st \in {"scan", "del"}
  /\ cleanup' = [NoCleanup EXCEPT !.st = "failed"]
  /\ UNCHANGED <<clock, redisVars, rec, cleaned>>

---------------------------------------------------------------------------
Less(n) == IF n > 0 THEN n - 1 ELSE 0

\* Time passes; a key that expires is one that SCAN no longer owes.
Tick ==
  /\ clock < Horizon
  /\ \A r \in Recorder : Pending(r) => rec[r].age < Lag
  /\ clock' = clock + 1
  /\ rec' = [r \in Recorder |-> IF Pending(r) THEN [rec[r] EXCEPT !.age = @ + 1] ELSE rec[r]]
  /\ logTTL' = [m \in Month |-> [k \in Key |-> Less(logTTL[m][k])]]
  /\ log' = [m \in Month |-> [k \in Key |-> IF logTTL[m][k] > 1 THEN log[m][k] ELSE {}]]
  /\ topTTL' = [m \in Month |-> Less(topTTL[m])]
  /\ rank' = [m \in Month |-> IF topTTL[m] > 1 THEN rank[m] ELSE NoRank]
  /\ cleanup' = [cleanup EXCEPT !.due = {k \in @ : logTTL[cleanup.month][k] > 1}]
  /\ UNCHANGED cleaned

Next ==
  /\ \/ \E r \in Recorder :
          \/ \E k \in Key : Send(r, k)
          \/ Arrive(r) \/ Resend(r) \/ Return(r)
     \/ \E m \in Month : m <= currentMonth /\ CleanupBegin(m)
     \/ Scan \/ Del \/ DelTop \/ CleanupFail
     \/ Tick
  /\ UNCHANGED ttl

Spec == Init /\ [][Next]_vars

---------------------------------------------------------------------------
(* What the log promises.                                                  *)

RecType ==
  [st : {"new", "done"}, age : {0}, resent : {0}] \union
  [st : {"sent", "ran"}, age : 0..Lag, resent : 0..MaxResend, key : Key, month : Month]

CleanupType ==
  [st : {"idle", "scan", "del", "top", "done", "failed"}, month : Month,
   due : SUBSET Key, batch : SUBSET Key, before : SUBSET Recorder]

\* Keys and calls; no key ever has a TTL beyond the one configured.
TypeOK ==
  /\ ttl \in TTLs
  /\ clock \in 0..Horizon
  /\ log \in [Month -> [Key -> SUBSET Recorder]]
  /\ logTTL \in [Month -> [Key -> 0..ttl]]
  /\ rank \in [Month -> [Key -> Nat]]
  /\ topTTL \in [Month -> 0..ttl]
  /\ rec \in [Recorder -> RecType]
  /\ cleanup \in CleanupType
  /\ cleaned \subseteq Month

\* Every record will expire.  While Cleanup keeps away, the ranking counts no less than
\* a log holds that began with the ranking or under it, whatever the ttl is.  A ttl that
\* outlasts the month and the lag leaves no other: the ranking, made by the first record
\* of the month, is not lost and begun anew while records come, and expires no later
\* than the logs.  A shorter one does: a log older than its ranking may hold more than
\* the ranking counts.
RankCoversLog ==
  /\ \A m \in Month, k \in Key : log[m][k] = {} <=> logTTL[m][k] = 0
  /\ \A m \in Month \ cleaned, k \in Key :
       topTTL[m] > 0 /\ logTTL[m][k] > 0 =>
         /\ topTTL[m] <= logTTL[m][k] => Count(m, k) <= rank[m][k]
         /\ ttl >= MonthLength + Lag => topTTL[m] <= logTTL[m][k]

\* A Cleanup that returns without error has removed every record of the month that
\* was there when it began, whatever was recorded or expired while it scanned.
CleanupRemovesOld ==
  cleanup.st = "done" =>
    \A k \in Key : cleanup.before \intersect log[cleanup.month][k] = {}
===========================================================================
