--------------------------- MODULE RateLimitProof ---------------------------
(***************************************************************************)
(* Proofs about RateLimit, for any finite set of calls, any rate, lag,     *)
(* skew and horizon.                                                       *)
(***************************************************************************)
EXTENDS RateLimit, FiniteSetTheorems, WellFoundedInduction, TLAPS

\* A set of naturals has a least member.
LEMMA Least ==
  ASSUME NEW S, S \subseteq Nat, S # {}
  PROVE  \E m \in S : \A n \in S : m <= n
<1> DEFINE R == {ss \in Nat \X Nat : ss[1] < ss[2]}
<1>1. IsWellFoundedOn(R, Nat)
  BY NatLessThanWellFounded DEF OpToRel
<1>2. PICK m \in S : \A n \in S : ~ (<<n, m>> \in R)
  BY <1>1, WFMin
<1>3. \A n \in S : ~ (n < m)
  BY <1>2
<1> QED
  BY <1>3

LEMMA Numbers ==
  /\ Limit \in Nat /\ Lag \in Nat /\ Skew \in Nat /\ MaxResend \in Nat
  /\ Window \in Nat /\ Window > 0
  /\ \A r \in Request : Ahead[r] \in Nat /\ Ahead[r] <= Skew
BY RateAssumption, ClockAssumption

LEMMA Finite ==
  ASSUME NEW S \in SUBSET Request
  PROVE  /\ IsFiniteSet(S) /\ Cardinality(S) \in Nat
         /\ \A T \in SUBSET S : Cardinality(T) <= Cardinality(S)
<1>1. IsFiniteSet(S)
  BY RequestAssumption, FS_Subset
<1>2. Cardinality(S) \in Nat
  BY <1>1, FS_CardinalityType
<1>3. \A T \in SUBSET S : Cardinality(T) <= Cardinality(S)
  BY <1>1, FS_Subset
<1> QED
  BY <1>1, <1>2, <1>3

\* What purging by the clock of a call under way leaves: all that is recent, and
\* nothing that is older than window, lag and skew together.
LEMMA KeptIsRecent ==
  ASSUME WindowInv, NEW r \in Request, Waiting(r)
  PROVE  /\ req[r].now \in Nat /\ Kept(req[r].now) \in SUBSET zset
         /\ zset \in SUBSET Request
         /\ \A m \in Kept(req[r].now) :
              /\ m \in admitted /\ clock < at[m] + Window + Lag + Skew
              /\ req[m].now + Window > req[r].now
              /\ req[m].now <= req[r].now + Lag + Skew
         /\ \A m \in admitted : Recent(m) => m \in Kept(req[r].now)
<1>1. /\ clock \in Nat /\ req[r] \in CallType
      /\ req[r].sent <= clock /\ clock <= req[r].sent + Lag
      /\ req[r].sent <= req[r].now /\ req[r].now <= req[r].sent + Skew
  BY DEF WindowInv, TypeOK, InFlight
<1>2. req[r].now \in Nat /\ req[r].sent \in Nat
  BY <1>1 DEF CallType
<1>3. clock <= req[r].now + Lag /\ req[r].now <= clock + Skew
  BY <1>1, <1>2, Numbers
<1>4. ASSUME NEW m \in admitted
      PROVE  /\ m \in Request /\ at[m] \in Nat /\ req[m].now \in Nat
             /\ at[m] <= clock /\ at[m] <= req[m].now + Lag /\ req[m].now <= at[m] + Skew
  BY <1>4 DEF WindowInv, TypeOK, AdmittedWhen, CallType
<1>5. Kept(req[r].now) \in SUBSET zset /\ zset \in SUBSET Request /\ zset \subseteq admitted
  BY DEF Kept, WindowInv, TypeOK
<1>6. ASSUME NEW m \in Kept(req[r].now)
      PROVE  /\ m \in admitted /\ clock < at[m] + Window + Lag + Skew
             /\ req[m].now + Window > req[r].now
             /\ req[m].now <= req[r].now + Lag + Skew
  <2>1. m \in admitted /\ req[m].now + Window > req[r].now
    BY <1>5, <1>6 DEF Kept
  <2> QED
    BY <1>1, <1>2, <1>3, <1>4, <2>1, Numbers
<1>7. ASSUME NEW m \in admitted, Recent(m)
      PROVE  m \in Kept(req[r].now)
  <2>1. m \in zset
    BY <1>7 DEF WindowInv
  <2>2. req[m].now + Window > req[r].now
    BY <1>1, <1>2, <1>3, <1>4, <1>7, Numbers DEF Recent
  <2> QED
    BY <2>1, <2>2 DEF Kept
<1> QED
  BY <1>2, <1>5, <1>6, <1>7

LEMMA OldestExists ==
  ASSUME TypeOK, NEW members \in SUBSET Request, members # {}
  PROVE  /\ OldestIn(members) \in Nat
         /\ \E m \in members : req[m].now = OldestIn(members)
         /\ \A m \in members : OldestIn(members) <= req[m].now
<1> DEFINE times == {req[m].now : m \in members}
<1>1. times \subseteq Nat /\ times # {}
  BY DEF TypeOK, CallType
<1>2. PICK t \in times : \A u \in times : t <= u
  BY <1>1, Least
<1>3. \E u \in times : \A m \in members : u <= req[m].now
  BY <1>2
<1>4. OldestIn(members) \in times /\ \A m \in members : OldestIn(members) <= req[m].now
  BY <1>3 DEF OldestIn
<1> QED
  BY <1>1, <1>4

\* The reply of a script that finds no room.
LEMMA FullReply ==
  ASSUME WindowInv, NEW r \in Request, Waiting(r)
  PROVE  Full(Kept(req[r].now), req[r].now) \in ReplyType
<1> DEFINE kept == Kept(req[r].now)
           n == req[r].now
<1>1. /\ n \in Nat /\ kept \in SUBSET zset /\ kept \in SUBSET Request
      /\ \A m \in kept : req[m].now <= n + Lag + Skew
  BY KeptIsRecent
<1>2. Cardinality(kept) \in 0..Limit
  <2>1. Cardinality(kept) <= Cardinality(zset) /\ Cardinality(zset) <= Limit
    BY <1>1, KeptIsRecent, Finite DEF WindowInv
  <2>2. Cardinality(kept) \in Nat /\ Cardinality(zset) \in Nat
    BY <1>1, KeptIsRecent, Finite
  <2> QED
    BY <2>1, <2>2, Numbers
<1> HIDE DEF kept, n
<1>3. RetryAfter(kept, n) \in 0..(Window + Lag + Skew)
  <2>1. CASE kept # {} /\ OldestIn(kept) + Window > n
    <3>1. OldestIn(kept) \in Nat /\ OldestIn(kept) <= n + Lag + Skew
      BY <1>1, <2>1, OldestExists, Numbers DEF WindowInv
    <3> QED
      BY <1>1, <2>1, <3>1, Numbers DEF RetryAfter
  <2>2. CASE ~ (kept # {} /\ OldestIn(kept) + Window > n)
    BY <2>2, Numbers DEF RetryAfter
  <2> QED
    BY <2>1, <2>2
<1>4. Full(kept, n) \in ReplyType
  BY <1>2, <1>3, Numbers DEF Full, ReplyType
<1> QED
  BY <1>4 DEF kept, n

\* A script answers: the times stay, and only the state of the call changes.
LEMMA AnswerKeeps ==
  ASSUME WindowInv, NEW r \in Request, Waiting(r), NEW lost \in 0..MaxResend,
         NEW reply \in ReplyType, Answer(r, lost, reply), clock' = clock
  PROVE  /\ req' \in [Request -> CallType] /\ InFlight'
         /\ \A q \in Request : req'[q].now = req[q].now
         /\ \A q \in Request : req[q].st # "new" => req'[q].st # "new"
<1>1. req \in [Request -> CallType] /\ req[r] \in CallType
  BY DEF WindowInv, TypeOK
<1>2. /\ req'[r] = [req[r] EXCEPT !.st = "ran", !.resent = lost, !.reply = reply]
      /\ \A q \in Request \ {r} : req'[q] = req[q]
      /\ DOMAIN req' = Request /\ req' = [q \in Request |-> req'[q]]
  BY <1>1 DEF Answer
<1>3. req'[r] \in CallType /\ req'[r].sent = req[r].sent /\ req'[r].now = req[r].now
      /\ req'[r].st = "ran"
  BY <1>1, <1>2 DEF CallType
<1>4. \A q \in Request : req'[q] \in CallType
  BY <1>1, <1>2, <1>3
<1>5. \A q \in Request : /\ req'[q].now = req[q].now /\ req'[q].sent = req[q].sent
                         /\ q = r \/ req'[q].st = req[q].st
  BY <1>2, <1>3
<1>6. InFlight'
  BY <1>5 DEF WindowInv, InFlight, Waiting
<1> QED
  BY <1>2, <1>3, <1>4, <1>5, <1>6

---------------------------------------------------------------------------
(* Every step keeps WindowInv.                                             *)

\* A script that purges, and records nothing.
LEMMA PurgeKeeps ==
  ASSUME WindowInv, NEW r \in Request, Waiting(r), NEW lost \in 0..MaxResend,
         NEW reply \in ReplyType, Answer(r, lost, reply),
         Purge(Kept(req[r].now)), UNCHANGED <<clock, admitted, at>>
  PROVE  WindowInv'
<1>1. /\ req' \in [Request -> CallType] /\ InFlight'
      /\ \A q \in Request : req'[q].now = req[q].now
      /\ \A q \in Request : req[q].st # "new" => req'[q].st # "new"
  BY AnswerKeeps
<1>2. /\ zset' \in SUBSET zset /\ zset \in SUBSET Request
      /\ \A m \in admitted : Recent(m) => m \in zset'
      /\ zset' = {} => ttl' = 0
      /\ zset' # {} => ttl' = ttl
  BY KeptIsRecent DEF Purge
<1>3. TypeOK' /\ AdmittedWhen'
  BY <1>1, <1>2, Numbers DEF WindowInv, TypeOK, AdmittedWhen
<1>4. Cardinality(zset') <= Limit
  <2>1. Cardinality(zset') <= Cardinality(zset) /\ Cardinality(zset) <= Limit
    BY <1>2, Finite DEF WindowInv
  <2>2. Cardinality(zset') \in Nat /\ Cardinality(zset) \in Nat
    BY <1>2, Finite
  <2> QED
    BY <2>1, <2>2, Numbers
<1>5. \A m \in admitted' : Recent(m)' => m \in zset'
  BY <1>2 DEF Recent
<1>6. /\ zset' \subseteq admitted'
      /\ zset' = {} <=> ttl' = 0
      /\ zset' # {} => \A m \in admitted' : at'[m] + Window <= clock' + ttl'
  BY <1>2 DEF WindowInv
<1> QED
  BY <1>1, <1>3, <1>4, <1>5, <1>6 DEF WindowInv

\* luaAllow with room.
LEMMA AdmitKeeps ==
  ASSUME WindowInv, NEW r \in Request, Waiting(r), NEW lost \in 0..MaxResend,
         Admit(r, lost), clock' = clock
  PROVE  WindowInv'
<1> DEFINE kept == Kept(req[r].now)
           reply == [allowed |-> TRUE, remaining |-> Limit - Cardinality(kept) - 1,
                     retry |-> 0, total |-> Cardinality(kept) + 1]
<1>1. /\ kept \in SUBSET zset /\ kept \in SUBSET Request /\ zset \subseteq admitted
      /\ \A m \in admitted : Recent(m) => m \in kept
  BY KeptIsRecent DEF WindowInv
<1>2. /\ Cardinality(kept) \in Nat /\ Cardinality(kept) < Limit
      /\ zset' = kept \union {r} /\ ttl' = Window
      /\ admitted' = admitted \union {r} /\ at' = [at EXCEPT ![r] = clock]
      /\ Answer(r, lost, reply)
  BY <1>1, Finite DEF Admit
<1>3. reply \in ReplyType
  BY <1>2, Numbers DEF ReplyType
<1> HIDE DEF reply, kept
<1>4. /\ req' \in [Request -> CallType] /\ InFlight'
      /\ \A q \in Request : req'[q].now = req[q].now
      /\ \A q \in Request : req[q].st # "new" => req'[q].st # "new"
  BY <1>2, <1>3, AnswerKeeps
<1>5. /\ clock \in Nat /\ at \in [Request -> Nat] /\ at' \in [Request -> Nat]
      /\ at'[r] = clock /\ \A m \in Request \ {r} : at'[m] = at[m]
  BY <1>2 DEF WindowInv, TypeOK
<1>6. TypeOK'
  BY <1>1, <1>2, <1>4, <1>5, Numbers DEF WindowInv, TypeOK
<1>7. AdmittedWhen'
  <2>1. clock <= req[r].now + Lag /\ req[r].now <= clock + Skew /\ req[r].st # "new"
    <3>1. /\ req[r].sent \in Nat /\ req[r].now \in Nat
          /\ req[r].sent <= clock /\ clock <= req[r].sent + Lag
          /\ req[r].sent <= req[r].now /\ req[r].now <= req[r].sent + Skew
      BY DEF WindowInv, TypeOK, InFlight, CallType
    <3> QED
      BY <1>5, <3>1, Numbers DEF Waiting
  <2>2. ASSUME NEW m \in admitted'
        PROVE  /\ req'[m].st # "new" /\ at'[m] <= clock'
               /\ at'[m] <= req'[m].now + Lag /\ req'[m].now <= at'[m] + Skew
    <3>1. CASE m = r
      BY <1>4, <1>5, <2>1, <3>1
    <3>2. CASE m # r
      <4>1. m \in admitted /\ m \in Request
        BY <1>2, <2>2, <3>2 DEF WindowInv, TypeOK
      <4>2. /\ req[m].st # "new" /\ at[m] <= clock
            /\ at[m] <= req[m].now + Lag /\ req[m].now <= at[m] + Skew
        BY <4>1 DEF WindowInv, AdmittedWhen
      <4> QED
        BY <1>4, <1>5, <3>2, <4>1, <4>2
    <3> QED
      BY <3>1, <3>2
  <2> QED
    BY <2>2 DEF AdmittedWhen
<1>8. Cardinality(zset') <= Limit
  <2>1. IsFiniteSet(kept)
    BY <1>1, Finite
  <2>2. Cardinality(zset') \in {Cardinality(kept), Cardinality(kept) + 1}
    BY <1>2, <2>1, FS_AddElement
  <2> QED
    BY <1>2, <2>2, Numbers
<1>9. \A m \in admitted' : Recent(m)' => m \in zset'
  <2>1. ASSUME NEW m \in admitted, m # r, Recent(m)'
        PROVE  m \in zset'
    <3>1. at'[m] = at[m]
      BY <1>5, <2>1 DEF WindowInv, TypeOK
    <3> QED
      BY <1>1, <1>2, <2>1, <3>1 DEF Recent
  <2> QED
    BY <1>2, <2>1
<1>10. \A m \in admitted' : at'[m] + Window <= clock' + ttl'
  <2>1. ASSUME NEW m \in admitted'
        PROVE  at'[m] <= clock /\ at'[m] \in Nat
    BY <1>5, <1>6, <1>7, <2>1 DEF TypeOK, AdmittedWhen
  <2> QED
    BY <1>2, <1>5, <2>1, Numbers
<1>11. zset' \subseteq admitted' /\ zset' # {} /\ ttl' # 0
  BY <1>1, <1>2, Numbers
<1> QED
  BY <1>4, <1>6, <1>7, <1>8, <1>9, <1>10, <1>11 DEF WindowInv

\* Reset.
LEMMA ClearKeeps ==
  ASSUME WindowInv, NEW r \in Request, Waiting(r), NEW lost \in 0..MaxResend,
         Clear(r, lost), clock' = clock
  PROVE  WindowInv'
<1>1. NoReply \in ReplyType
  BY Numbers DEF NoReply, ReplyType
<1>2. req' \in [Request -> CallType] /\ InFlight'
  BY <1>1, AnswerKeeps DEF Clear
<1>3. zset' = {} /\ ttl' = 0 /\ admitted' = {} /\ at' = at
  BY DEF Clear, Purge
<1>4. Cardinality(zset') <= Limit
  BY <1>3, FS_EmptySet, Numbers
<1>5. TypeOK'
  BY <1>2, <1>3, Numbers DEF WindowInv, TypeOK
<1> QED
  BY <1>2, <1>3, <1>4, <1>5 DEF WindowInv, AdmittedWhen

LEMMA RunKeeps ==
  ASSUME WindowInv, NEW r \in Request, Waiting(r), NEW lost \in 0..MaxResend, Run(r, lost)
  PROVE  WindowInv'
<1>1. clock' = clock
  BY DEF Run
<1>2. CASE Admit(r, lost)
  BY <1>1, <1>2, AdmitKeeps
<1>3. CASE Refuse(r, lost)
  BY <1>1, <1>3, FullReply, PurgeKeeps DEF Refuse
<1>4. CASE Look(r, lost)
  <2> DEFINE kept == Kept(req[r].now)
             reply == IF Cardinality(kept) >= Limit THEN Full(kept, req[r].now)
                      ELSE [allowed |-> TRUE, remaining |-> Limit - Cardinality(kept),
                            retry |-> 0, total |-> Cardinality(kept)]
  <2>1. Cardinality(kept) \in Nat
    BY KeptIsRecent, Finite
  <2>2. reply \in ReplyType
    <3>1. CASE Cardinality(kept) >= Limit
      BY <3>1, FullReply
    <3>2. CASE Cardinality(kept) < Limit
      BY <2>1, <3>2, Numbers DEF ReplyType
    <3> QED
      BY <2>1, <3>1, <3>2, Numbers
  <2>3. /\ Answer(r, lost, reply) /\ Purge(Kept(req[r].now)) /\ UNCHANGED <<admitted, at>>
    BY <1>4 DEF Look
  <2> HIDE DEF reply
  <2> QED
    BY <1>1, <2>2, <2>3, PurgeKeeps
<1>5. CASE Clear(r, lost)
  BY <1>1, <1>5, ClearKeeps
<1> QED
  BY <1>2, <1>3, <1>4, <1>5 DEF Run

\* The caller sends its command, or the call is over.
LEMMA CallKeeps ==
  ASSUME WindowInv, NEW r \in Request, NEW call \in CallType,
         req' = [req EXCEPT ![r] = call], UNCHANGED <<clock, zset, ttl, admitted, at>>,
         r \in admitted => call.st # "new" /\ call.now = req[r].now,
         call.st \in {"sent", "ran"} =>
           /\ call.sent <= clock /\ clock <= call.sent + Lag
           /\ call.sent <= call.now /\ call.now <= call.sent + Skew
  PROVE  WindowInv'
<1>1. /\ req \in [Request -> CallType] /\ req' \in [Request -> CallType]
      /\ req'[r] = call /\ \A q \in Request \ {r} : req'[q] = req[q]
  BY DEF WindowInv, TypeOK
<1>2. TypeOK'
  BY <1>1 DEF WindowInv, TypeOK
<1>3. InFlight'
  <2>1. ASSUME NEW q \in Request, req'[q].st \in {"sent", "ran"}
        PROVE  /\ req'[q].sent <= clock' /\ clock' <= req'[q].sent + Lag
               /\ req'[q].sent <= req'[q].now /\ req'[q].now <= req'[q].sent + Skew
    <3>1. CASE q = r
      BY <1>1, <2>1, <3>1
    <3>2. CASE q # r
      BY <1>1, <2>1, <3>2 DEF WindowInv, InFlight, Waiting
    <3> QED
      BY <3>1, <3>2
  <2> QED
    BY <2>1 DEF InFlight, Waiting
<1>4. AdmittedWhen'
  <2>1. ASSUME NEW m \in admitted
        PROVE  req'[m].st # "new" /\ req'[m].now = req[m].now
    <3>1. m \in Request /\ req[m].st # "new"
      BY <2>1 DEF WindowInv, TypeOK, AdmittedWhen
    <3> QED
      BY <1>1, <3>1
  <2> QED
    BY <2>1 DEF WindowInv, AdmittedWhen
<1>5. \A m \in admitted' : Recent(m)' => m \in zset'
  BY DEF WindowInv, Recent
<1>6. /\ zset' \subseteq admitted' /\ Cardinality(zset') <= Limit
      /\ zset' = {} <=> ttl' = 0
      /\ zset' # {} => \A m \in admitted' : at'[m] + Window <= clock' + ttl'
  BY DEF WindowInv
<1> QED
  BY <1>2, <1>3, <1>4, <1>5, <1>6 DEF WindowInv

LEMMA SendKeeps ==
  ASSUME WindowInv, NEW r \in Request, NEW op \in {"allow", "look", "reset"}, Send(r, op)
  PROVE  WindowInv'
<1>1. /\ req \in [Request -> CallType] /\ req[r] \in CallType
      /\ clock \in Nat /\ Ahead[r] \in Nat /\ clock + Ahead[r] \in Nat
  BY Numbers DEF WindowInv, TypeOK
<1>2. PICK call : call = [req[r] EXCEPT !.st = "sent", !.op = op, !.sent = clock,
                                        !.now = clock + Ahead[r]]
  OBVIOUS
<1>3. /\ call \in CallType /\ call.st = "sent" /\ call.sent = clock
      /\ call.now = clock + Ahead[r]
  BY <1>1, <1>2 DEF CallType
<1>4. req' = [req EXCEPT ![r] = call] /\ UNCHANGED <<clock, zset, ttl, admitted, at>>
  BY <1>1, <1>2 DEF Send
<1>5. r \notin admitted
  BY DEF Send, WindowInv, AdmittedWhen
<1>6. /\ call.sent <= clock /\ clock <= call.sent + Lag
      /\ call.sent <= call.now /\ call.now <= call.sent + Skew
  BY <1>1, <1>3, Numbers
<1> QED
  BY <1>3, <1>4, <1>5, <1>6, CallKeeps

LEMMA CloseKeeps ==
  ASSUME WindowInv, NEW r \in Request, NEW st \in {"passed", "refused"}, Close(r, st)
  PROVE  WindowInv'
<1>1. req[r] \in CallType /\ NoReply \in ReplyType
  BY Numbers DEF WindowInv, TypeOK, NoReply, ReplyType
<1>2. PICK call : call = [Fresh EXCEPT !.st = st,
                                       !.now = IF r \in admitted THEN req[r].now ELSE 0]
  OBVIOUS
<1>3. Fresh \in CallType
  BY <1>1, Numbers DEF Fresh, CallType
<1>4. /\ call \in CallType /\ call.st = st
      /\ r \in admitted => call.now = req[r].now
  BY <1>1, <1>2, <1>3 DEF CallType
<1>5. req' = [req EXCEPT ![r] = call] /\ UNCHANGED <<clock, zset, ttl, admitted, at>>
  BY <1>2 DEF Close
<1> QED
  BY <1>4, <1>5, CallKeeps

LEMMA TickKeeps ==
  ASSUME WindowInv, Tick
  PROVE  WindowInv'
<1>1. /\ clock \in Nat /\ ttl \in 0..Window /\ at \in [Request -> Nat]
      /\ clock' = clock + 1 /\ req' = req /\ admitted' = admitted /\ at' = at
      /\ admitted \subseteq Request /\ zset \in SUBSET Request
  BY DEF WindowInv, TypeOK, Tick
<1>2. ttl' = (IF ttl > 0 THEN ttl - 1 ELSE 0) /\ zset' = (IF ttl > 1 THEN zset ELSE {})
  BY DEF Tick
<1>3. TypeOK'
  BY <1>1, <1>2, Numbers DEF WindowInv, TypeOK
<1>4. InFlight'
  <2>1. ASSUME NEW q \in Request, Waiting(q)
        PROVE  req[q].sent <= clock + 1 /\ clock + 1 <= req[q].sent + Lag
    <3>1. req[q].sent \in Nat /\ req[q].sent <= clock /\ clock < req[q].sent + Lag
      BY <2>1 DEF WindowInv, TypeOK, CallType, InFlight, Tick
    <3> QED
      BY <1>1, <3>1, Numbers
  <2> QED
    BY <1>1, <2>1 DEF WindowInv, InFlight, Waiting
<1>5. AdmittedWhen'
  <2>1. ASSUME NEW m \in admitted
        PROVE  at[m] <= clock + 1
    <3>1. at[m] \in Nat /\ at[m] <= clock
      BY <1>1, <2>1 DEF WindowInv, AdmittedWhen
    <3> QED
      BY <1>1, <3>1
  <2> QED
    BY <1>1, <2>1 DEF WindowInv, AdmittedWhen
<1>6. Cardinality(zset') <= Limit
  <2>1. Cardinality({}) <= Limit
    BY FS_EmptySet, Numbers
  <2> QED
    BY <1>2, <2>1 DEF WindowInv
<1>7. zset' \subseteq admitted' /\ (zset' = {} <=> ttl' = 0)
  <2>1. zset \subseteq admitted /\ (zset = {} <=> ttl = 0)
    BY DEF WindowInv
  <2> QED
    BY <1>1, <1>2, <2>1
<1>8. ASSUME NEW m \in admitted
      PROVE  /\ zset' # {} => at[m] + Window <= clock + 1 + ttl'
             /\ Recent(m)' => m \in zset'
  <2>1. at[m] \in Nat /\ (zset # {} => at[m] + Window <= clock + ttl)
        /\ (Recent(m) => m \in zset)
    BY <1>1, <1>8 DEF WindowInv
  <2>2. zset' # {} => at[m] + Window <= clock + 1 + ttl'
    BY <1>1, <1>2, <2>1, Numbers
  <2>3. Recent(m)' => m \in zset'
    <3>1. SUFFICES ASSUME at[m] + Window > clock + 1 + Lag + Skew PROVE m \in zset'
      BY <1>1 DEF Recent
    <3>2. m \in zset
      BY <1>1, <2>1, <3>1, Numbers DEF Recent
    <3>3. ttl > 1
      BY <1>1, <2>1, <3>1, <3>2, Numbers
    <3> QED
      BY <1>2, <3>2, <3>3
  <2> QED
    BY <2>2, <2>3
<1>9. (zset' # {} => \A m \in admitted' : at'[m] + Window <= clock' + ttl')
      /\ \A m \in admitted' : Recent(m)' => m \in zset'
  BY <1>1, <1>8
<1> QED
  BY <1>3, <1>4, <1>5, <1>6, <1>7, <1>9 DEF WindowInv

LEMMA WindowInit == Init => WindowInv
<1> SUFFICES ASSUME Init PROVE WindowInv
  OBVIOUS
<1>1. NoReply \in ReplyType
  BY Numbers DEF NoReply, ReplyType
<1>2. Fresh \in CallType
  BY <1>1, Numbers DEF Fresh, CallType
<1>3. TypeOK
  BY <1>2, Numbers DEF Init, TypeOK
<1>4. InFlight
  BY DEF Init, InFlight, Waiting, Fresh
<1>5. Cardinality(zset) <= Limit
  BY FS_EmptySet, Numbers DEF Init
<1> QED
  BY <1>3, <1>4, <1>5 DEF Init, WindowInv, AdmittedWhen

\* The steps of one call.
LEMMA CallStep ==
  ASSUME WindowInv, NEW r \in Request,
         \/ Allow(r) \/ Peek(r) \/ Reset(r)
         \/ Arrive(r) \/ Resend(r) \/ Return(r) \/ Fail(r)
  PROVE  WindowInv'
<1>1. req[r].resent \in 0..MaxResend
  BY DEF WindowInv, TypeOK, CallType
<1>2. CASE Allow(r) \/ Peek(r) \/ Reset(r)
  BY <1>2, SendKeeps DEF Allow, Peek, Reset
<1>3. CASE Arrive(r)
  BY <1>1, <1>3, RunKeeps DEF Arrive, Waiting
<1>4. CASE Resend(r)
  <2>1. req[r].resent + 1 \in 0..MaxResend
    BY <1>1, <1>4, Numbers DEF Resend
  <2> QED
    BY <1>4, <2>1, RunKeeps DEF Resend, Waiting
<1>5. CASE Return(r) \/ Fail(r)
  BY <1>5, CloseKeeps DEF Return, Fail
<1> QED
  BY <1>2, <1>3, <1>4, <1>5

LEMMA WindowStep == WindowInv /\ [Next]_vars => WindowInv'
<1> SUFFICES ASSUME WindowInv, [Next]_vars PROVE WindowInv'
  OBVIOUS
<1>1. CASE UNCHANGED vars
  BY <1>1 DEF vars, WindowInv, TypeOK, InFlight, Waiting, AdmittedWhen, Recent
<1> QED
  BY <1>1, CallStep, TickKeeps DEF Next

---------------------------------------------------------------------------
\* The ZSET holds at most Limit members, all of them admitted, and everybody admitted
\* less than Window - Lag - Skew ago: inductive as it stands.
THEOREM WindowInvariant == Spec => []WindowInv
BY WindowInit, WindowStep, PTL DEF Spec

\* In no interval of Window - Lag - Skew are more than Limit requests admitted.
THEOREM WindowLimit == Spec => []LimitHolds
<1>1. ASSUME WindowInv PROVE LimitHolds
  <2> DEFINE recent == {r \in admitted : Recent(r)}
  <2>1. zset \in SUBSET Request /\ recent \in SUBSET zset
    BY <1>1 DEF WindowInv, TypeOK
  <2>2. Cardinality(recent) <= Cardinality(zset) /\ Cardinality(zset) <= Limit
    BY <1>1, <2>1, Finite DEF WindowInv
  <2>3. Cardinality(recent) \in Nat /\ Cardinality(zset) \in Nat
    BY <2>1, Finite
  <2> QED
    BY <2>2, <2>3, Numbers DEF LimitHolds
<1> QED
  BY <1>1, WindowInvariant, PTL

---------------------------------------------------------------------------
(* Refusals.                                                               *)

\* A step of one call leaves the others alone.
LEMMA OthersStay ==
  ASSUME WindowInv, NEW q \in Request, NEW r \in Request, q # r,
         \/ Allow(q) \/ Peek(q) \/ Reset(q)
         \/ Arrive(q) \/ Resend(q) \/ Return(q) \/ Fail(q)
  PROVE  req'[r] = req[r]
<1>1. req \in [Request -> CallType]
  BY DEF WindowInv, TypeOK
<1>2. CASE Allow(q) \/ Peek(q) \/ Reset(q)
  BY <1>1, <1>2 DEF Allow, Peek, Reset, Send
<1>3. CASE Arrive(q) \/ Resend(q)
  BY <1>1, <1>3 DEF Arrive, Resend, Run, Admit, Refuse, Look, Clear, Answer
<1>4. CASE Return(q) \/ Fail(q)
  BY <1>1, <1>4 DEF Return, Fail, Close
<1> QED
  BY <1>2, <1>3, <1>4

\* A refusal is the answer of a script that found no room.
LEMMA RefusalIsRefuse ==
  ASSUME WindowInv, [Next]_vars, NEW r \in Request, Refused(r)
  PROVE  Waiting(r) /\ \E lost \in Nat : Refuse(r, lost)
<1>1. req \in [Request -> CallType] /\ req[r] \in CallType
  BY DEF WindowInv, TypeOK
<1>2. ASSUME req'[r] = req[r] PROVE FALSE
  BY <1>2 DEF Refused
<1>3. CASE UNCHANGED vars \/ Tick
  BY <1>2, <1>3 DEF vars, Tick
<1>4. ASSUME NEW q \in Request, q # r,
             \/ Allow(q) \/ Peek(q) \/ Reset(q)
             \/ Arrive(q) \/ Resend(q) \/ Return(q) \/ Fail(q)
      PROVE  FALSE
  BY <1>2, <1>4, OthersStay
<1>5. CASE Allow(r) \/ Peek(r) \/ Reset(r)
  <2>1. req'[r].st = "sent"
    BY <1>1, <1>5 DEF Allow, Peek, Reset, Send, CallType
  <2> QED
    BY <2>1 DEF Refused
<1>6. CASE Return(r) \/ Fail(r)
  <2>1. PICK st \in {"passed", "refused"} : Close(r, st)
    BY <1>6 DEF Return, Fail
  <2>2. req'[r].st = st
    BY <1>1, <2>1 DEF Close, Fresh
  <2> QED
    BY <2>2 DEF Refused
<1>7. CASE Arrive(r) \/ Resend(r)
  <2>1. req[r].resent \in Nat
    BY <1>1, Numbers DEF CallType
  <2>2. PICK lost \in Nat : Waiting(r) /\ Run(r, lost)
    BY <1>7, <2>1 DEF Arrive, Resend, Waiting
  <2>3. req'[r].op = req[r].op /\ (Admit(r, lost) => req'[r].reply.allowed)
    BY <1>1, <2>2 DEF Run, Admit, Refuse, Look, Clear, Answer, CallType
  <2> QED
    BY <2>2, <2>3 DEF Refused, Run, Look, Clear
<1> QED
  BY <1>3, <1>4, <1>5, <1>6, <1>7 DEF Next

\* Nobody is refused unless Limit requests were admitted within the last
\* Window + Lag + Skew.
THEOREM RefusalJustified == Spec => RefusalIsJustified
<1>1. ASSUME WindowInv, [Next]_vars, NEW r \in Request, Refused(r)
      PROVE  Cardinality({m \in admitted : clock < at[m] + Window + Lag + Skew}) >= Limit
  <2> DEFINE kept == Kept(req[r].now)
             late == {m \in admitted : clock < at[m] + Window + Lag + Skew}
  <2>1. Waiting(r) /\ Cardinality(kept) >= Limit
    BY <1>1, RefusalIsRefuse DEF Refuse
  <2>2. kept \in SUBSET late /\ late \in SUBSET Request
    BY <1>1, <2>1, KeptIsRecent DEF WindowInv, TypeOK
  <2>3. Cardinality(kept) <= Cardinality(late)
        /\ Cardinality(kept) \in Nat /\ Cardinality(late) \in Nat
    BY <2>2, Finite
  <2> QED
    BY <2>1, <2>3, Numbers
<1>2. WindowInv /\ [Next]_vars =>
        [\A r \in Request : Refused(r) =>
           Cardinality({m \in admitted : clock < at[m] + Window + Lag + Skew}) >= Limit]_vars
  BY <1>1
<1> QED
  BY <1>2, WindowInvariant, PTL DEF Spec, RefusalIsJustified

\* A call when RetryAfter is over finds room, if nothing else is admitted, and a call
\* a moment earlier does not.
THEOREM RetryAfterExact == Spec => RetryAfterIsExact
<1> DEFINE Exact(r) ==
      LET then == req'[r].now + req'[r].reply.retry IN
      CountAt(zset', then) < Limit /\ CountAt(zset', then - 1) >= Limit
<1>1. ASSUME WindowInv, [Next]_vars, NEW r \in Request, Refused(r), Limit > 0
      PROVE  Exact(r)
  <2> DEFINE n == req[r].now
             kept == Kept(n)
             oldest == OldestIn(kept)
  <2>1. PICK lost \in Nat : Waiting(r) /\ Refuse(r, lost)
    BY <1>1, RefusalIsRefuse
  <2>2. /\ n \in Nat /\ kept \in SUBSET Request
        /\ \A m \in kept : req[m].now + Window > n
    BY <1>1, <2>1, KeptIsRecent
  <2>3. zset' = kept /\ req'[r].now = n /\ req'[r].reply.retry = RetryAfter(kept, n)
        /\ Cardinality(kept) >= Limit
    BY <1>1, <2>1 DEF Refuse, Purge, Answer, Full, WindowInv, TypeOK, CallType
  <2>4. Cardinality(kept) \in Nat /\ IsFiniteSet(kept) /\ kept # {}
    BY <1>1, <2>2, <2>3, Finite, FS_EmptySet, Numbers
  <2>5. /\ oldest \in Nat /\ \A m \in kept : oldest <= req[m].now /\ req[m].now \in Nat
        /\ \E m \in kept : req[m].now = oldest
    BY <1>1, <2>2, <2>4, OldestExists DEF WindowInv, TypeOK, CallType
  <2>6. RetryAfter(kept, n) = oldest + Window - n
    BY <2>2, <2>4, <2>5 DEF RetryAfter
  <2> HIDE DEF n, kept, oldest
  <2>7. n + RetryAfter(kept, n) = oldest + Window
    BY <2>2, <2>5, <2>6, Numbers
  <2> DEFINE later == {m \in kept : req[m].now + Window > oldest + Window}
             sooner == {m \in kept : req[m].now + Window > oldest + Window - 1}
  <2>8. Cardinality(later) < Cardinality(kept)
    <3>1. PICK m \in kept : req[m].now = oldest
      BY <2>5
    <3>2. m \notin later
      BY <2>5, <3>1, Numbers
    <3>3. later \in SUBSET kept /\ later # kept
      BY <3>1, <3>2
    <3>4. IsFiniteSet(later) /\ Cardinality(later) <= Cardinality(kept)
          /\ Cardinality(later) # Cardinality(kept)
      BY <2>4, <3>3, FS_Subset
    <3>5. Cardinality(later) \in Nat
      BY <3>4, FS_CardinalityType
    <3> QED
      BY <2>4, <3>4, <3>5
  <2>9. Cardinality(zset) <= Limit /\ kept \in SUBSET zset /\ zset \in SUBSET Request
    BY <1>1, <2>1, KeptIsRecent DEF WindowInv, kept, n
  <2>10. Cardinality(kept) <= Limit
    <3>1. Cardinality(kept) <= Cardinality(zset) /\ Cardinality(zset) \in Nat
      BY <2>9, Finite
    <3> QED
      BY <2>4, <2>9, <3>1, Numbers
  <2>11. Cardinality(later) < Limit
    <3>1. Cardinality(later) \in Nat
      BY <2>2, Finite
    <3> QED
      BY <2>4, <2>8, <2>10, <3>1, Numbers
  <2>12. sooner = kept
    BY <2>5, Numbers
  <2>13. Cardinality(sooner) >= Limit
    BY <2>3, <2>12
  <2>14. req'[r].now + req'[r].reply.retry = oldest + Window /\ zset' = kept
    BY <2>3, <2>7
  <2>15. CountAt(kept, oldest + Window) < Limit
    BY <2>11 DEF CountAt
  <2>16. CountAt(kept, oldest + Window - 1) >= Limit
    BY <2>13 DEF CountAt
  <2>17. ASSUME NEW then, then = req'[r].now + req'[r].reply.retry
         PROVE  CountAt(zset', then) < Limit /\ CountAt(zset', then - 1) >= Limit
    <3>1. then = oldest + Window /\ zset' = kept
      BY <2>14, <2>17
    <3>2. CountAt(zset', then) < Limit
      BY <2>15, <3>1
    <3>3. then - 1 = oldest + Window - 1
      BY <2>5, <3>1, Numbers
    <3>4. CountAt(zset', then - 1) >= Limit
      BY <2>16, <3>1, <3>3
    <3> QED
      BY <3>2, <3>4
  <2> QED
    BY <2>17
<1>2. WindowInv /\ [Next]_vars =>
        [\A r \in Request : Refused(r) /\ Limit > 0 => Exact(r)]_vars
  BY <1>1
<1> QED
  BY <1>2, WindowInvariant, PTL DEF Spec, RetryAfterIsExact
=============================================================================
