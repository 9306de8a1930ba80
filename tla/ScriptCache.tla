---------------------------- MODULE ScriptCache ----------------------------
(***************************************************************************)
(* ExecuteLuaScript of rediscli/client.go: a script is run by its SHA when *)
(* the process has it in its cache, and is loaded first when it has not,   *)
(* or when Redis answers NOSCRIPT.  The goroutines of a process share the  *)
(* cache, and all processes the scripts Redis holds, which are gone after  *)
(* SCRIPT FLUSH, a restart or a failover.                                  *)
(*                                                                         *)
(* A script's SHA is a function of its text, so a cache entry cannot hold  *)
(* another's; what the cache may be wrong about is that Redis has it.      *)
(*                                                                         *)
(* A definition named Slip... is a bug a later change could make in the    *)
(* definition after it; the project's mutation runs put it in its place.   *)
(***************************************************************************)
EXTENDS Naturals

CONSTANTS
  Goroutine,         \* the goroutines that execute scripts
  Process,           \* their processes, each with a Client
  ProcessOf,         \* the process of each goroutine
  Script,            \* the scripts
  MaxScriptResend          \* bound: replies lost in the course of one call

ASSUME ScriptAssumption ==
  /\ ProcessOf \in [Goroutine -> Process]
  /\ MaxScriptResend \in Nat

VARIABLES
  cache,             \* scriptShaCache of each process
  loaded,            \* the scripts Redis holds
  exec               \* the calls of ExecuteLuaScript

scriptVars == <<cache, loaded, exec>>

\* at is the command the call has got to, st whether it is on its way, answered with
\* reply, or the call is over with reply as its result.  History: ran counts how often
\* the script ran, resent the replies lost, purged says that Redis lost the script
\* after this call had it loaded.
Unstarted(s) ==
  [st |-> "over", at |-> "cached", script |-> s, reply |-> "none",
   ran |-> 0, resent |-> 0, purged |-> FALSE]

ScriptInit ==
  /\ cache = [p \in Process |-> {}]
  /\ loaded = {}
  /\ exec \in [Goroutine -> {Unstarted(s) : s \in Script}]

\* ExecuteLuaScript: EVALSHA with the SHA in the cache, or SCRIPT LOAD.
ExecuteLuaScript(g, s) ==
  /\ exec[g].st = "over"
  /\ exec' = [exec EXCEPT ![g] = [Unstarted(s) EXCEPT
       !.st = "sent", !.at = IF s \in cache[ProcessOf[g]] THEN "cached" ELSE "load"]]
  /\ UNCHANGED <<cache, loaded>>

---------------------------------------------------------------------------
(* Redis.                                                                  *)

Answer(g, lost, reply) ==
  exec' = [exec EXCEPT ![g].st = "answered", ![g].reply = reply, ![g].resent = lost,
                       ![g].ran = IF exec[g].at # "load" /\ reply # "noscript" THEN @ + 1 ELSE @,
                       ![g].purged = IF exec[g].at = "load" THEN FALSE ELSE @]

\* The command runs.  EVALSHA runs the script, which may end in an error of its own,
\* taken not to have NOSCRIPT in its text, or finds no script; lost counts the replies
\* of this call lost before.
RunScript(g, lost) ==
  LET s == exec[g].script IN
  \/ /\ exec[g].at = "load"
     /\ loaded' = loaded \union {s}
     /\ Answer(g, lost, "ok")
  \/ /\ exec[g].at # "load" /\ s \in loaded
     /\ \E reply \in {"ok", "error"} : Answer(g, lost, reply)
     /\ UNCHANGED loaded
  \/ /\ exec[g].at # "load" /\ s \notin loaded
     /\ Answer(g, lost, "noscript")
     /\ UNCHANGED loaded

RunCommand(g) ==
  /\ exec[g].st = "sent"
  /\ RunScript(g, exec[g].resent)
  /\ UNCHANGED cache

\* The reply is lost and go-redis sends the command again.
RunAgain(g) ==
  /\ exec[g].st = "answered"
  /\ exec[g].resent < MaxScriptResend
  /\ RunScript(g, exec[g].resent + 1)
  /\ UNCHANGED cache

\* Redis cannot be reached, or go-redis gives up: an error that is not NOSCRIPT,
\* whether the command ran or not.
Unreachable(g) ==
  /\ \/ exec[g].st = "sent"
     \/ exec[g].st = "answered" /\ exec[g].reply # "error"
  /\ exec' = [exec EXCEPT ![g].st = "answered", ![g].reply = "error"]
  /\ UNCHANGED <<cache, loaded>>

\* SCRIPT FLUSH, a restart without the scripts, a failover to a replica that lags.
LoseScripts(lost) ==
  /\ lost # {} /\ lost \subseteq loaded
  /\ loaded' = loaded \ lost
  /\ exec' = [g \in Goroutine |->
       IF exec[g].script \in lost THEN [exec[g] EXCEPT !.purged = TRUE] ELSE exec[g]]
  /\ UNCHANGED cache

---------------------------------------------------------------------------
(* The client reads a reply.                                               *)

Send(g, at) == exec' = [exec EXCEPT ![g].st = "sent", ![g].at = at]
Over(g) == exec' = [exec EXCEPT ![g].st = "over"]

SlipReloadOnError(g) ==
  /\ exec[g].st = "answered" /\ exec[g].at = "cached"
  /\ IF exec[g].reply = "ok"
       THEN Over(g) /\ UNCHANGED cache
       ELSE Send(g, "load") /\ cache' = [cache EXCEPT ![ProcessOf[g]] = @ \ {exec[g].script}]
  /\ UNCHANGED loaded

SlipNoReload(g) ==
  /\ exec[g].st = "answered" /\ exec[g].at = "cached"
  /\ Over(g)
  /\ UNCHANGED <<cache, loaded>>

\* The SHA was in the cache: a result or an error is the call's, NOSCRIPT removes the
\* entry, whoever stored it, and loads the script.
ReadCached(g) ==
  /\ exec[g].st = "answered" /\ exec[g].at = "cached"
  /\ IF exec[g].reply # "noscript"
       THEN Over(g) /\ UNCHANGED cache
       ELSE Send(g, "load") /\ cache' = [cache EXCEPT ![ProcessOf[g]] = @ \ {exec[g].script}]
  /\ UNCHANGED loaded

\* The script is loaded, and run by the SHA that came back.
ReadLoaded(g) ==
  /\ exec[g].st = "answered" /\ exec[g].at = "load"
  /\ IF exec[g].reply = "ok"
       THEN Send(g, "run") /\ cache' = [cache EXCEPT ![ProcessOf[g]] = @ \union {exec[g].script}]
       ELSE Over(g) /\ UNCHANGED cache
  /\ UNCHANGED loaded

\* The second EVALSHA ends the call, whatever it answered.
ReadRun(g) ==
  /\ exec[g].st = "answered" /\ exec[g].at = "run"
  /\ Over(g)
  /\ UNCHANGED <<cache, loaded>>

ScriptNext ==
  \/ \E g \in Goroutine :
       \/ \E s \in Script : ExecuteLuaScript(g, s)
       \/ RunCommand(g) \/ RunAgain(g) \/ Unreachable(g)
       \/ ReadCached(g) \/ ReadLoaded(g) \/ ReadRun(g)
  \/ \E lost \in SUBSET loaded : LoseScripts(lost)

ScriptSpec == ScriptInit /\ [][ScriptNext]_scriptVars

---------------------------------------------------------------------------
(* What callers can rely on.                                               *)

ScriptTypeOK ==
  /\ cache \in [Process -> SUBSET Script]
  /\ loaded \subseteq Script
  /\ exec \in [Goroutine ->
       [st : {"sent", "answered", "over"}, at : {"cached", "load", "run"}, script : Script,
        reply : {"none", "ok", "error", "noscript"}, ran : Nat, resent : 0..MaxScriptResend,
        purged : BOOLEAN]]

\* A call fails with NOSCRIPT only when Redis lost the script after this very call had
\* loaded it: not because of an entry that is stale, that another goroutine removes
\* while this one uses it, or stores again while this one loads.
NoScriptIsJustified ==
  \A g \in Goroutine :
    exec[g].st = "over" /\ exec[g].reply = "noscript" => exec[g].at = "run" /\ exec[g].purged

\* A script runs at most once for each time a command of the call is sent, although
\* the call may send EVALSHA twice; and a result is the result of a run.
RunsOnceAsReported ==
  \A g \in Goroutine :
    exec[g].st = "over" =>
      /\ exec[g].ran <= 1 + exec[g].resent
      /\ exec[g].reply = "ok" => exec[g].ran > 0
===========================================================================
