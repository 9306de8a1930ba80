---------------------------- MODULE MigrateProof ----------------------------
(***************************************************************************)
(* Proofs about Migrate, for any instances, any releases with any files in *)
(* common, and any number of crashes.                                      *)
(***************************************************************************)
EXTENDS Migrate, WellFoundedInduction, TLAPS

\* Where a runner is: its files are files of its release; it executes and records one
\* of them, which has taken effect when it is recorded; and it is done when all are
\* recorded.
Positioned(r) ==
  /\ runner[r].left \subseteq Release[r]
  /\ runner[r].st \in {"exec", "record"} => runner[r].left # {}
  /\ runner[r].st = "record" => applied[Current(r)] > 0
  /\ runner[r].st = "done" => Release[r] \subseteq recorded

\* One instance after the other, and nothing fails: what took effect is recorded, or
\* about to be, and is not executed again.
Sequential ==
  failures = 0 /\ ~overlapped =>
    /\ \A q, r \in Runner : Running(q) /\ Running(r) => q = r
    /\ \A r \in Runner : runner[r].st = "exec" => Current(r) \notin recorded
    /\ \A f \in Migration :
         /\ applied[f] <= 1
         /\ applied[f] > 0 =>
              f \in recorded \/ \E r \in Runner : runner[r].st = "record" /\ Current(r) = f

ProgressInv == MigrateInv /\ (\A r \in Runner : Positioned(r)) /\ Sequential

State == {"down", "check", "exec", "record", "done", "failed"}

\* A set of naturals has a least member.
LEMMA Least ==
  ASSUME NEW S, S \subseteq Nat, S # {}
  PROVE  Min(S) \in S
<1> DEFINE R == {ss \in Nat \X Nat : ss[1] < ss[2]}
<1>1. IsWellFoundedOn(R, Nat)
  BY NatLessThanWellFounded DEF OpToRel
<1>2. PICK m \in S : \A n \in S : ~ (<<n, m>> \in R)
  BY <1>1, WFMin
<1>3. \A n \in S : ~ (n < m)
  BY <1>2
<1>4. \A n \in S : m <= n
  BY <1>3
<1> QED
  BY <1>4 DEF Min

LEMMA ReleaseIsMigration ==
  /\ \A r \in Runner : Release[r] \subseteq Migration
  /\ Migration \subseteq Nat
BY ReleaseAssumption DEF Migration

\* The file a runner is at is a file of its release.
LEMMA CurrentFile ==
  ASSUME ProgressInv, NEW r \in Runner, runner[r].left # {}
  PROVE  Current(r) \in runner[r].left /\ Current(r) \in Release[r]
           /\ Current(r) \in Migration
<1>1. runner[r].left \subseteq Release[r]
  BY DEF ProgressInv, Positioned
<1>2. Min(runner[r].left) \in runner[r].left
  BY <1>1, ReleaseIsMigration, Least
<1> QED
  BY <1>1, <1>2, ReleaseIsMigration DEF Current

LEMMA Moves ==
  ASSUME ProgressInv, NEW r \in Runner, NEW st \in State, NEW left \in SUBSET Release[r],
         Goes(r, st, left)
  PROVE  /\ runner' \in [Runner -> [st : State, left : SUBSET Migration]]
         /\ runner'[r].st = st /\ runner'[r].left = left
         /\ \A q \in Runner \ {r} : runner'[q] = runner[q]
<1>1. runner \in [Runner -> [st : State, left : SUBSET Migration]]
  BY DEF ProgressInv, MigrateInv, TypeOK, State
<1>2. left \in SUBSET Migration
  BY ReleaseIsMigration
<1>3. [st |-> st, left |-> left] \in [st : State, left : SUBSET Migration]
  BY <1>2
<1> QED
  BY <1>1, <1>3 DEF Goes

\* A step of r after which the table is true and r where it should be.
LEMMA TableKeeps ==
  ASSUME ProgressInv, NEW r \in Runner, NEW st \in State, NEW left \in SUBSET Release[r],
         Goes(r, st, left),
         recorded' \subseteq Migration, recorded \subseteq recorded',
         applied' \in [Migration -> Nat],
         \A f \in Migration : applied[f] > 0 => applied'[f] > 0,
         \A f \in recorded' : applied'[f] > 0,
         failures' \in 0..MaxFailures, overlapped' \in BOOLEAN,
         st \in {"check", "exec", "record"} => Release[r] \ left \subseteq recorded',
         st \in {"exec", "record"} => left # {},
         st = "record" => applied'[Min(left)] > 0,
         st = "done" => Release[r] \subseteq recorded'
  PROVE  MigrateInv' /\ \A q \in Runner : Positioned(q)'
<1>1. /\ runner' \in [Runner -> [st : State, left : SUBSET Migration]]
      /\ runner'[r].st = st /\ runner'[r].left = left
      /\ \A q \in Runner \ {r} : runner'[q] = runner[q]
  BY Moves
<1>2. TypeOK'
  BY <1>1 DEF TypeOK, State
<1>3. Positioned(r)' /\ Passed(r)' \subseteq recorded'
  BY <1>1 DEF Positioned, Current, Passed, Running
<1>4. ASSUME NEW q \in Runner, q # r
      PROVE  Positioned(q)' /\ Passed(q)' \subseteq recorded'
  <2>1. runner'[q] = runner[q] /\ Positioned(q) /\ Passed(q) \subseteq recorded
    BY <1>1, <1>4 DEF ProgressInv, MigrateInv, TableIsTrue
  <2>2. Passed(q)' \subseteq recorded'
    BY <2>1 DEF Passed, Running
  <2>3. runner[q].st = "record" => applied'[Current(q)] > 0
    <3>1. SUFFICES ASSUME runner[q].st = "record" PROVE applied'[Current(q)] > 0
      OBVIOUS
    <3>2. Current(q) \in Migration /\ applied[Current(q)] > 0
      BY <2>1, <3>1, CurrentFile DEF Positioned
    <3> QED
      BY <3>2
  <2>4. Positioned(q)'
    BY <2>1, <2>3 DEF Positioned, Current
  <2> QED
    BY <2>2, <2>4
<1>5. \A q \in Runner : Positioned(q)' /\ Passed(q)' \subseteq recorded'
  BY <1>3, <1>4
<1> QED
  BY <1>2, <1>5 DEF MigrateInv, TableIsTrue

\* An instance that runs undisturbed runs alone.
LEMMA Alone ==
  ASSUME ProgressInv, failures = 0, ~overlapped, NEW r \in Runner, Running(r)
  PROVE  /\ \A q \in Runner \ {r} : ~ Running(q)
         /\ runner[r].st = "exec" => Current(r) \notin recorded
         /\ \A f \in Migration :
              /\ applied[f] <= 1
              /\ applied[f] > 0 =>
                   f \in recorded \/ (runner[r].st = "record" /\ Current(r) = f)
BY DEF ProgressInv, Sequential, Running

\* A step of r that leaves the others at rest.
LEMMA SequentialKeeps ==
  ASSUME ProgressInv, NEW r \in Runner, NEW st \in State, NEW left \in SUBSET Release[r],
         Goes(r, st, left), \A q \in Runner \ {r} : ~ Running(q),
         st = "exec" => Min(left) \notin recorded',
         \A f \in Migration :
           /\ applied'[f] <= 1
           /\ applied'[f] > 0 => f \in recorded' \/ (st = "record" /\ Min(left) = f)
  PROVE  Sequential'
<1>1. /\ runner'[r].st = st /\ runner'[r].left = left
      /\ \A q \in Runner \ {r} : runner'[q] = runner[q]
  BY Moves
<1>2. \A q \in Runner \ {r} : runner'[q].st \notin {"check", "exec", "record"}
  BY <1>1 DEF Running
<1> QED
  BY <1>1, <1>2 DEF Sequential, Running, Current

---------------------------------------------------------------------------
(* Every step keeps ProgressInv.                                           *)

LEMMA Known ==
  ASSUME ProgressInv, NEW r \in Runner
  PROVE  /\ recorded \subseteq Migration /\ applied \in [Migration -> Nat]
         /\ failures \in 0..MaxFailures /\ overlapped \in BOOLEAN /\ MaxFailures \in Nat
         /\ \A f \in recorded : applied[f] > 0
         /\ runner[r].left \in SUBSET Release[r]
         /\ Running(r) => Release[r] \ runner[r].left \subseteq recorded
BY FailuresAssumption
   DEF ProgressInv, MigrateInv, TypeOK, TableIsTrue, Passed, Positioned

LEMMA StartKeeps ==
  ASSUME ProgressInv, NEW r \in Runner, Start(r)
  PROVE  ProgressInv'
<1>1. /\ Goes(r, "check", Release[r]) /\ UNCHANGED <<recorded, applied, failures>>
      /\ overlapped' \in BOOLEAN /\ "check" \in State /\ Release[r] \in SUBSET Release[r]
      /\ ~overlapped' => ~overlapped /\ \A q \in Runner : ~ Running(q)
  BY Known DEF Start, State
<1>2. MigrateInv' /\ \A q \in Runner : Positioned(q)'
  BY <1>1, Known, TableKeeps
<1>3. Sequential'
  <2>1. SUFFICES ASSUME failures' = 0, ~overlapped' PROVE Sequential'
    BY DEF Sequential
  <2>2. failures = 0 /\ ~overlapped /\ \A q \in Runner : ~ Running(q)
    BY <1>1, <2>1
  <2>3. \A f \in Migration : applied[f] <= 1 /\ (applied[f] > 0 => f \in recorded)
    BY <2>2 DEF ProgressInv, Sequential, Running
  <2> QED
    BY <1>1, <2>2, <2>3, SequentialKeeps
<1> QED
  BY <1>2, <1>3 DEF ProgressInv

LEMMA CheckKeeps ==
  ASSUME ProgressInv, NEW r \in Runner, Check(r)
  PROVE  ProgressInv'
<1>1. /\ Running(r) /\ runner[r].left # {} /\ runner[r].st = "check"
      /\ UNCHANGED <<recorded, applied, failures, overlapped>>
  BY DEF Check, Running
<1>2. PICK st \in {"check", "exec"}, left \in SUBSET Release[r] :
        /\ Goes(r, st, left)
        /\ Release[r] \ left \subseteq recorded
        /\ st = "exec" => left # {} /\ Min(left) \notin recorded
  BY <1>1, Known DEF Check, Current
<1>3. st \in State
  BY DEF State
<1>4. MigrateInv' /\ \A q \in Runner : Positioned(q)'
  BY <1>1, <1>2, <1>3, Known, TableKeeps
<1>5. Sequential'
  <2>1. SUFFICES ASSUME failures' = 0, ~overlapped' PROVE Sequential'
    BY DEF Sequential
  <2> QED
    BY <1>1, <1>2, <1>3, <2>1, Alone, SequentialKeeps
<1> QED
  BY <1>4, <1>5 DEF ProgressInv

\* A step that counts as a failure, after which an instance executes, or gives up.
LEMMA FailureKeeps ==
  ASSUME ProgressInv, NEW r \in Runner, CheckError(r) \/ Stop(r)
  PROVE  ProgressInv'
<1>1. /\ failures' = failures + 1 /\ failures < MaxFailures
      /\ UNCHANGED <<recorded, applied, overlapped>>
      /\ Running(r)
  BY DEF CheckError, Stop, Running
<1>2. PICK st \in {"exec", "failed"}, left \in SUBSET Release[r] :
        /\ Goes(r, st, left)
        /\ st = "exec" => left # {} /\ Release[r] \ left \subseteq recorded
  BY <1>1, Known DEF CheckError, Stop
<1>3. failures' \in 0..MaxFailures /\ failures' # 0
  <2>1. failures \in 0..MaxFailures /\ MaxFailures \in Nat
    BY Known
  <2> QED
    BY <1>1, <2>1
<1>4. st \in State
  BY DEF State
<1>5. MigrateInv' /\ \A q \in Runner : Positioned(q)'
  BY <1>1, <1>2, <1>3, <1>4, Known, TableKeeps
<1> QED
  BY <1>3, <1>5 DEF ProgressInv, Sequential

LEMMA ExecKeeps ==
  ASSUME ProgressInv, NEW r \in Runner, Exec(r)
  PROVE  ProgressInv'
<1> DEFINE f == Current(r)
<1>1. /\ Running(r) /\ runner[r].st = "exec" /\ runner[r].left # {}
      /\ UNCHANGED <<recorded, failures, overlapped>>
      /\ "record" \in State /\ "failed" \in State
  BY DEF Exec, Running, ProgressInv, Positioned, State
<1>2. f \in Migration /\ f = Min(runner[r].left)
  BY <1>1, CurrentFile DEF Current
<1>3. CASE /\ applied' = [applied EXCEPT ![f] = @ + 1]
           /\ Goes(r, "record", runner[r].left)
  <2>1. /\ applied' \in [Migration -> Nat] /\ applied'[f] = applied[f] + 1
        /\ \A e \in Migration \ {f} : applied'[e] = applied[e]
        /\ applied[f] \in Nat /\ applied'[f] > 0
    <3>1. applied \in [Migration -> Nat]
      BY Known
    <3> QED
      BY <1>2, <1>3, <3>1
  <2>2. \A e \in Migration : applied[e] > 0 => applied'[e] > 0
    BY <2>1
  <2>3. \A e \in recorded' : applied'[e] > 0
    <3>1. recorded' \subseteq Migration /\ \A e \in recorded' : applied[e] > 0
      BY <1>1, Known
    <3> QED
      BY <2>2, <3>1
  <2>4. MigrateInv' /\ \A q \in Runner : Positioned(q)'
    BY <1>1, <1>2, <1>3, <2>1, <2>2, <2>3, Known, TableKeeps
  <2>5. Sequential'
    <3>1. SUFFICES ASSUME failures' = 0, ~overlapped' PROVE Sequential'
      BY DEF Sequential
    <3>2. f \notin recorded /\ (\A q \in Runner \ {r} : ~ Running(q))
          /\ \A e \in Migration : applied[e] <= 1 /\ (applied[e] > 0 => e \in recorded)
      BY <1>1, <3>1, Alone
    <3>3. applied'[f] = 1
      BY <1>2, <2>1, <3>2
    <3>4. \A e \in Migration : /\ applied'[e] <= 1
                               /\ applied'[e] > 0 => e \in recorded' \/ f = e
      BY <1>1, <2>1, <3>2, <3>3
    <3> QED
      BY <1>1, <1>2, <1>3, <3>2, <3>4, Known, SequentialKeeps
  <2> QED
    BY <2>4, <2>5 DEF ProgressInv
<1>4. CASE UNCHANGED applied /\ Goes(r, "failed", {})
  <2>1. MigrateInv' /\ \A q \in Runner : Positioned(q)'
    BY <1>1, <1>4, Known, TableKeeps
  <2>2. Sequential'
    <3>1. SUFFICES ASSUME failures' = 0, ~overlapped' PROVE Sequential'
      BY DEF Sequential
    <3> QED
      BY <1>1, <1>4, <3>1, Alone, SequentialKeeps
  <2> QED
    BY <2>1, <2>2 DEF ProgressInv
<1> QED
  BY <1>3, <1>4 DEF Exec

LEMMA RecordKeeps ==
  ASSUME ProgressInv, NEW r \in Runner, Record(r)
  PROVE  ProgressInv'
<1> DEFINE f == Current(r)
<1>1. /\ Running(r) /\ runner[r].st = "record" /\ runner[r].left # {}
      /\ UNCHANGED <<applied, failures, overlapped>>
      /\ recorded' = recorded \union {f} /\ applied[f] > 0
  BY DEF Record, Running, ProgressInv, Positioned
<1>2. f \in Migration /\ f \in runner[r].left
  BY <1>1, CurrentFile
<1>3. PICK st \in {"check", "failed"}, left \in SUBSET Release[r] :
        Goes(r, st, left) /\ (st = "check" => left = runner[r].left \ {f})
  BY <1>1, Known DEF Record
<1>4. st \in State /\ (st = "check" => Release[r] \ left \subseteq recorded')
  BY <1>1, <1>3, Known DEF State
<1>5. MigrateInv' /\ \A q \in Runner : Positioned(q)'
  BY <1>1, <1>2, <1>3, <1>4, Known, TableKeeps
<1>6. Sequential'
  <2>1. SUFFICES ASSUME failures' = 0, ~overlapped' PROVE Sequential'
    BY DEF Sequential
  <2> QED
    BY <1>1, <1>2, <1>3, <1>4, <2>1, Alone, SequentialKeeps
<1> QED
  BY <1>5, <1>6 DEF ProgressInv

LEMMA FinishKeeps ==
  ASSUME ProgressInv, NEW r \in Runner, Finish(r)
  PROVE  ProgressInv'
<1>1. /\ Running(r) /\ runner[r].left = {} /\ runner[r].st = "check"
      /\ UNCHANGED <<recorded, applied, failures, overlapped>>
      /\ Goes(r, "done", {}) /\ "done" \in State /\ Release[r] \subseteq recorded
  BY Known DEF Finish, Running, State
<1>2. MigrateInv' /\ \A q \in Runner : Positioned(q)'
  BY <1>1, Known, TableKeeps
<1>3. Sequential'
  <2>1. SUFFICES ASSUME failures' = 0, ~overlapped' PROVE Sequential'
    BY DEF Sequential
  <2> QED
    BY <1>1, <2>1, Alone, SequentialKeeps
<1> QED
  BY <1>2, <1>3 DEF ProgressInv

LEMMA ProgressInit == Init => ProgressInv
<1> SUFFICES ASSUME Init PROVE ProgressInv
  OBVIOUS
<1>1. TypeOK
  <2>1. [st |-> "down", left |-> {}] \in [st : State, left : SUBSET Migration]
    BY DEF State
  <2>2. runner \in [Runner -> [st : State, left : SUBSET Migration]]
    BY <2>1 DEF Init
  <2>3. applied \in [Migration -> Nat] /\ recorded \subseteq Migration
    BY DEF Init
  <2>4. failures \in 0..MaxFailures
    BY FailuresAssumption DEF Init
  <2>5. overlapped \in BOOLEAN
    BY DEF Init
  <2> QED
    BY <2>2, <2>3, <2>4, <2>5 DEF TypeOK, State
<1>2. \A r \in Runner : runner[r].st = "down" /\ runner[r].left = {}
  BY DEF Init
<1>3. TableIsTrue /\ \A r \in Runner : Positioned(r)
  BY <1>2 DEF Init, TableIsTrue, Passed, Running, Positioned
<1>4. Sequential
  BY <1>2 DEF Init, Sequential, Running
<1> QED
  BY <1>1, <1>3, <1>4 DEF ProgressInv, MigrateInv

LEMMA ProgressStep == ProgressInv /\ [Next]_vars => ProgressInv'
<1> SUFFICES ASSUME ProgressInv, [Next]_vars PROVE ProgressInv'
  OBVIOUS
<1>1. CASE UNCHANGED vars
  BY <1>1 DEF vars, ProgressInv, MigrateInv, TypeOK, TableIsTrue, Passed, Running,
              Positioned, Current, Sequential
<1> QED
  BY <1>1, StartKeeps, CheckKeeps, FailureKeeps, ExecKeeps, RecordKeeps, FinishKeeps
     DEF Next, Proceed

LEMMA Progress == Spec => []ProgressInv
BY ProgressInit, ProgressStep, PTL DEF Spec

---------------------------------------------------------------------------
\* The table never claims what did not happen, and no instance leaves a file behind.
THEOREM TableTrue == Spec => []MigrateInv
<1>1. ProgressInv => MigrateInv
  BY DEF ProgressInv
<1> QED
  BY <1>1, Progress, PTL

\* RunMigrations returns nil only when every file of the release has been executed and
\* recorded.
THEOREM DoneComplete == Spec => []DoneIsComplete
<1>1. ProgressInv => DoneIsComplete
  BY DEF ProgressInv, MigrateInv, TableIsTrue, Positioned, DoneIsComplete
<1> QED
  BY <1>1, Progress, PTL

\* Without a crash, an error or instances that start at once, no migration is executed
\* twice.
THEOREM ExecutedOnce == Spec => []OnceUnlessDisturbed
<1>1. ProgressInv => OnceUnlessDisturbed
  BY DEF ProgressInv, Sequential, OnceUnlessDisturbed
<1> QED
  BY <1>1, Progress, PTL
=============================================================================
