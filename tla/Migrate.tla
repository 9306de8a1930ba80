------------------------------ MODULE Migrate ------------------------------
(***************************************************************************)
(* RunMigrations of package dbx: every instance of a service runs it when  *)
(* it starts, several at once and of different releases, against one       *)
(* PostgreSQL.  Each statement is its own transaction: an instance may die *)
(* between executing a migration and recording it, and another may be      *)
(* anywhere in its own run meanwhile.                                      *)
(*                                                                         *)
(* A migration is its place in the order of file names.  db.Exec sends the *)
(* whole file as one simple query: all of it takes effect, or nothing.     *)
(* Executing a migration a second time succeeds only if it is written for  *)
(* it (Repeatable).                                                        *)
(*                                                                         *)
(* A definition named Slip... is a bug a later change could make in the    *)
(* definition after it; the project's mutation runs put it in its place.   *)
(***************************************************************************)
EXTENDS Naturals, FiniteSetsExt

CONSTANTS
  Runner,            \* the instances
  Release,           \* the .sql files each instance finds in its directory
  Repeatable,        \* the migrations that may be executed again
  MaxFailures        \* bound: crashes and failed statements

Migration == UNION {Release[r] : r \in Runner}

ASSUME ReleaseAssumption ==
  /\ Release \in [Runner -> SUBSET Nat]
  /\ \A r \in Runner : IsFiniteSet(Release[r])
ASSUME FailuresAssumption == MaxFailures \in Nat

VARIABLES
  recorded,          \* schema_migrations
  applied,           \* how often each migration took effect
  runner,            \* the instances; left are the files still to be looked at
  failures,          \* history: crashes and failed statements
  overlapped         \* history: an instance started while another was running

vars == <<recorded, applied, runner, failures, overlapped>>

Init ==
  /\ recorded = {}
  /\ applied = [f \in Migration |-> 0]
  /\ runner = [r \in Runner |-> [st |-> "down", left |-> {}]]
  /\ failures = 0
  /\ overlapped = FALSE

Running(r) == runner[r].st \in {"check", "exec", "record"}

\* The file the loop is at.
Current(r) == Min(runner[r].left)

Goes(r, st, left) == runner' = [runner EXCEPT ![r] = [st |-> st, left |-> left]]

\* CREATE TABLE IF NOT EXISTS, which succeeds in the end, and the sorted directory.
Start(r) ==
  /\ runner[r].st \in {"down", "failed"}
  /\ Goes(r, "check", Release[r])
  /\ overlapped' = (overlapped \/ \E q \in Runner : Running(q))
  /\ UNCHANGED <<recorded, applied, failures>>

SlipDirty(r) ==
  /\ runner[r].st = "check" /\ runner[r].left # {}
  /\ \/ /\ Current(r) \in recorded
        /\ Goes(r, "check", runner[r].left \ {Current(r)})
     \/ /\ Current(r) \notin recorded
        /\ Goes(r, IF applied[Current(r)] > 0 THEN "failed" ELSE "exec", runner[r].left)
  /\ UNCHANGED <<recorded, applied, failures, overlapped>>

\* SELECT COUNT: a recorded file is passed over.
Check(r) ==
  /\ runner[r].st = "check" /\ runner[r].left # {}
  /\ IF Current(r) \in recorded
       THEN Goes(r, "check", runner[r].left \ {Current(r)})
       ELSE Goes(r, "exec", runner[r].left)
  /\ UNCHANGED <<recorded, applied, failures, overlapped>>

\* The error of SELECT COUNT is ignored, and count is still 0.
CheckError(r) ==
  /\ runner[r].st = "check" /\ runner[r].left # {}
  /\ failures < MaxFailures
  /\ failures' = failures + 1
  /\ Goes(r, "exec", runner[r].left)
  /\ UNCHANGED <<recorded, applied, overlapped>>

SlipErrorIgnored(r) ==
  /\ runner[r].st = "exec"
  /\ Goes(r, "record", runner[r].left)
  /\ \/ applied' = [applied EXCEPT ![Current(r)] = @ + 1]
     \/ UNCHANGED applied
  /\ UNCHANGED <<recorded, failures, overlapped>>

\* The file is executed, or fails for having been executed before.
Exec(r) ==
  /\ runner[r].st = "exec"
  /\ \/ /\ applied[Current(r)] = 0 \/ Current(r) \in Repeatable
        /\ applied' = [applied EXCEPT ![Current(r)] = @ + 1]
        /\ Goes(r, "record", runner[r].left)
     \/ /\ applied[Current(r)] > 0 /\ Current(r) \notin Repeatable
        /\ Goes(r, "failed", {})
        /\ UNCHANGED applied
  /\ UNCHANGED <<recorded, failures, overlapped>>

SlipNotRecorded(r) ==
  /\ runner[r].st = "record"
  /\ Goes(r, "check", runner[r].left \ {Current(r)})
  /\ UNCHANGED <<recorded, applied, failures, overlapped>>

\* INSERT: the version is the primary key.
Record(r) ==
  /\ runner[r].st = "record"
  /\ IF Current(r) \in recorded
       THEN Goes(r, "failed", {})
       ELSE Goes(r, "check", runner[r].left \ {Current(r)})
  /\ recorded' = recorded \union {Current(r)}
  /\ UNCHANGED <<applied, failures, overlapped>>

\* RunMigrations returns nil.
Finish(r) ==
  /\ runner[r].st = "check" /\ runner[r].left = {}
  /\ Goes(r, "done", {})
  /\ UNCHANGED <<recorded, applied, failures, overlapped>>

SlipSkipped(r) ==
  /\ Running(r) /\ runner[r].left # {}
  /\ failures < MaxFailures
  /\ failures' = failures + 1
  /\ Goes(r, "check", runner[r].left \ {Current(r)})
  /\ UNCHANGED <<recorded, applied, overlapped>>

\* A statement fails, or its reply is lost, or the file cannot be read, or the
\* instance dies: RunMigrations does not go on.
Stop(r) ==
  /\ Running(r)
  /\ failures < MaxFailures
  /\ failures' = failures + 1
  /\ Goes(r, "failed", {})
  /\ UNCHANGED <<recorded, applied, overlapped>>

Proceed(r) == Start(r) \/ Check(r) \/ Exec(r) \/ Record(r) \/ Finish(r)

Next == \E r \in Runner : Proceed(r) \/ CheckError(r) \/ Stop(r)

\* An instance that failed is started again, and one that runs goes on.
Spec == Init /\ [][Next]_vars /\ \A r \in Runner : WF_vars(Proceed(r))

---------------------------------------------------------------------------
TypeOK ==
  /\ recorded \subseteq Migration
  /\ applied \in [Migration -> Nat]
  /\ runner \in [Runner -> [st : {"down", "check", "exec", "record", "done", "failed"},
                            left : SUBSET Migration]]
  /\ failures \in 0..MaxFailures
  /\ overlapped \in BOOLEAN

\* What a runner has left behind it.
Passed(r) == {f \in Release[r] : Running(r) /\ f \notin runner[r].left}

\* schema_migrations never claims what did not happen, and an instance that goes on
\* to a file has all earlier files of its release behind it: a lost reply, an
\* ignored error or another instance never makes it skip one.
TableIsTrue ==
  /\ \A f \in recorded : applied[f] > 0
  /\ \A r \in Runner : Passed(r) \subseteq recorded

\* No interleaving of instances makes the table claim more than was executed, nor an
\* instance leave a file behind.
MigrateInv == TypeOK /\ TableIsTrue

\* RunMigrations returns nil only when every file of the release has been executed
\* and recorded, by this instance or by others.
DoneIsComplete ==
  \A r \in Runner : runner[r].st = "done" =>
    \A f \in Release[r] : f \in recorded /\ applied[f] > 0

\* A migration is executed twice only after a crash or an error, or by instances that
\* start at once.
OnceUnlessDisturbed ==
  failures = 0 /\ ~overlapped => \A f \in Migration : applied[f] <= 1

\* An instance whose migrations may be executed again completes, through crashes and
\* whatever other instances do.  (One that is executed and not recorded, and may not
\* be executed again, stops every later start.)
RepeatableCompletes ==
  \A r \in Runner : Release[r] \subseteq Repeatable => <>(runner[r].st = "done")
===========================================================================
