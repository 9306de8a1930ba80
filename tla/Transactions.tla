---------------------------- MODULE Transactions ----------------------------
(***************************************************************************)
(* Transaction and GetDB of package dbx, called by the goroutines of one   *)
(* process over one connection pool.  fn is the caller's: it sends         *)
(* statements through GetDB(txCtx), may begin a transaction inside the     *)
(* first, and returns nil, returns an error or panics.                     *)
(*                                                                         *)
(* A transaction inside another is either begun on GetDB(txCtx), which     *)
(* GORM refuses, or on the global handle, which takes a second connection. *)
(* database/sql rolls a transaction back by itself when its context is     *)
(* over, and gives it no connection while the pool is at its limit.        *)
(*                                                                         *)
(* A definition named Slip... is a bug a later change could make in the    *)
(* definition after it; the project's mutation runs put it in its place.   *)
(***************************************************************************)
EXTENDS Naturals, FiniteSets

CONSTANTS
  Goroutine, NoOne,  \* the callers of Transaction, and the absence of one
  Conn,              \* the connections of the pool: MaxOpen of them
  Bounded,           \* the goroutines whose context ends: a request, a deadline
  Panicking,         \* the goroutines whose fn may panic
  MaxDepth,          \* bound: transactions inside one another
  MaxInner,          \* bound: transactions begun inside an outermost one
  MaxSent            \* bound: statements of one transaction

ASSUME TxAssumption ==
  /\ NoOne \notin Goroutine
  /\ Bounded \subseteq Goroutine /\ Panicking \subseteq Goroutine
  /\ MaxDepth \in Nat \ {0} /\ {MaxInner, MaxSent} \subseteq Nat

VARIABLES
  conn,              \* the connections, each with the transaction it carries
  task,              \* what each goroutine is doing
  frame              \* history: by goroutine and depth, a transaction and what came of it

vars == <<conn, task, frame>>

Depth == 1..MaxDepth

\* A transaction is by a goroutine at a depth; depth 0 is one that its goroutine has left
\* without ending it.  sent counts the statements PostgreSQL executed; live says that
\* its context is not over.
Unused == [st |-> "free", by |-> NoOne, depth |-> 0, sent |-> 0, live |-> TRUE]

\* depth is the number of transactions around the code that runs, on the handle the
\* next of them is begun on, inner the number begun inside the outermost.
Resting == [st |-> "idle", depth |-> 0, inner |-> 0, on |-> "pool", live |-> FALSE]

\* sent counts the statements of which fn was told that they succeeded, kept those
\* that a commit made durable, out is what Transaction returned.
Fresh == [sent |-> 0, kept |-> 0, out |-> "none"]

Init ==
  /\ conn = [c \in Conn |-> Unused]
  /\ task = [g \in Goroutine |-> Resting]
  /\ frame = [g \in Goroutine |-> [d \in Depth |-> Fresh]]

Busy(c) == conn[c].st # "free"

\* The connection of the transaction around g's code; none when database/sql has
\* rolled it back already.
Carries(c, g) == Busy(c) /\ conn[c].by = g /\ conn[c].depth = task[g].depth

---------------------------------------------------------------------------
(* Beginning.                                                              *)

\* The handle in a context: the transaction if there is one, the pool otherwise, which
\* SetGlobal has been given.
GetDB(g) == IF task[g].depth > 0 THEN "tx" ELSE "pool"

\* Transaction is called on GetDB(ctx), or inside another on the global handle.  The
\* first call of a request comes with a context of its own.
Call(g, handle) ==
  /\ handle \in {GetDB(g), "pool"}
  /\ \/ /\ task[g].st = "idle" /\ (g \in Bounded => ~task[g].live)
        /\ task' = [task EXCEPT ![g].st = "begin", ![g].live = TRUE]
        /\ frame' = [frame EXCEPT ![g] = [d \in Depth |-> Fresh]]
     \/ /\ task[g].st = "fn"
        /\ task[g].depth < MaxDepth /\ task[g].inner < MaxInner
        /\ task' = [task EXCEPT ![g].st = "begin", ![g].on = handle, ![g].inner = @ + 1]
        /\ UNCHANGED frame
  /\ UNCHANGED conn

Free == {c \in Conn : ~Busy(c)}

\* Begin gets a connection, and fn is called with the transaction in its context.
\* Connections are alike: the model takes the same free one every time.
Begin(g) ==
  LET d == task[g].depth + 1 IN
  /\ task[g].st = "begin" /\ task[g].on = "pool" /\ task[g].live
  /\ Free # {}
  /\ conn' = [conn EXCEPT ![CHOOSE c \in Free : TRUE] =
                [Unused EXCEPT !.st = "open", !.by = g, !.depth = d]]
  /\ task' = [task EXCEPT ![g].st = "fn", ![g].depth = d]
  /\ frame' = [frame EXCEPT ![g][d] = Fresh]

\* The code around a transaction at depth d goes on: an outer fn, or the caller.
Resume(g, d) ==
  task' = [task EXCEPT ![g] =
    IF d = 0 THEN [Resting EXCEPT !.live = task[g].live]
    ELSE [@ EXCEPT !.st = "fn", !.depth = d, !.on = "pool"]]

\* Begin fails: a transaction cannot be begun on a transaction, the context is over,
\* or no connection can be made.  With the pool at its limit it waits instead.
BeginFails(g) ==
  /\ task[g].st = "begin"
  /\ task[g].on = "tx" \/ ~task[g].live \/ Free # {}
  /\ Resume(g, task[g].depth)
  /\ UNCHANGED <<conn, frame>>

---------------------------------------------------------------------------
(* fn.                                                                     *)

\* A statement through GetDB(txCtx) succeeds.
Exec(g, c) ==
  LET d == task[g].depth IN
  /\ task[g].st = "fn" /\ task[g].live
  /\ Carries(c, g) /\ conn[c].st = "open"
  /\ conn[c].sent < MaxSent
  /\ conn' = [conn EXCEPT ![c].sent = @ + 1]
  /\ frame' = [frame EXCEPT ![g][d].sent = @ + 1]
  /\ UNCHANGED task

\* A statement fails, and PostgreSQL will do nothing more in this transaction.  fn
\* may return the error, and may as well drop it.
ExecFails(g, c) ==
  /\ task[g].st = "fn"
  /\ Carries(c, g) /\ conn[c].st = "open"
  /\ conn' = [conn EXCEPT ![c].st = "aborted"]
  /\ UNCHANGED <<task, frame>>

Released(c) == [conn EXCEPT ![c] = Unused]
Abandoned(c) == [conn EXCEPT ![c].depth = 0, ![c].sent = 0]
NoConn(g) == \A c \in Conn : ~Carries(c, g)

\* Transaction returns out to the code around it; kept statements are durable.
Return(g, out, kept) ==
  LET d == task[g].depth IN
  /\ frame' = [frame EXCEPT ![g] =
       [e \in Depth |-> CASE e < d -> @[e]
                          [] e = d -> [@[d] EXCEPT !.out = out, !.kept = kept]
                          [] OTHER -> Fresh]]
  /\ Resume(g, d - 1)

SlipNoRollback(g) ==
  /\ task[g].st = "fn"
  /\ Return(g, "error", 0)
  /\ UNCHANGED conn

\* fn returns an error: Rollback, whose own error is dropped; the connection goes
\* back, or is closed, either way.
Rollback(g) ==
  /\ task[g].st = "fn"
  /\ \/ \E c \in Conn : Carries(c, g) /\ conn' = Released(c)
     \/ NoConn(g) /\ UNCHANGED conn
  /\ Return(g, "error", 0)

SlipCommitUnchecked(g) ==
  /\ task[g].st = "fn"
  /\ \/ \E c \in Conn :
          /\ Carries(c, g)
          /\ conn' = Released(c)
          /\ Return(g, "nil", IF conn[c].st = "open" THEN conn[c].sent ELSE 0)
     \/ NoConn(g) /\ UNCHANGED conn /\ Return(g, "nil", 0)

\* fn returns nil: Commit.  It fails when the transaction was aborted, when
\* database/sql has rolled back, and when the connection is lost, with PostgreSQL having
\* committed or not.  When the context is over it returns that error and does nothing
\* else: the connection waits for database/sql to roll back.
Commit(g) ==
  /\ task[g].st = "fn"
  /\ \/ \E c \in Conn :
          /\ Carries(c, g)
          /\ \/ /\ conn[c].live
                /\ conn' = Released(c)
                /\ \/ conn[c].st = "open" /\ Return(g, "nil", conn[c].sent)
                   \/ /\ conn[c].st = "open"
                      /\ \E kept \in {0, conn[c].sent} : Return(g, "lost", kept)
                   \/ conn[c].st = "aborted" /\ Return(g, "error", 0)
             \/ /\ ~conn[c].live
                /\ conn' = Abandoned(c)
                /\ Return(g, "error", 0)
     \/ NoConn(g) /\ UNCHANGED conn /\ Return(g, "error", 0)

\* fn panics, and somebody above the outermost Transaction recovers: neither Rollback
\* nor Commit is called, for this transaction and those around it.
Panic(g) ==
  /\ g \in Panicking
  /\ task[g].st = "fn"
  /\ conn' = [c \in Conn |-> IF conn[c].by = g THEN [conn[c] EXCEPT !.depth = 0, !.sent = 0] ELSE conn[c]]
  /\ Resume(g, 0)
  /\ frame' = [frame EXCEPT ![g] =
       [d \in Depth |-> IF d <= task[g].depth THEN [@[d] EXCEPT !.out = "panic"] ELSE @[d]]]

---------------------------------------------------------------------------
(* Contexts.                                                               *)

\* The context of a request ends, at the latest when its handler has returned.
Cancel(g) ==
  /\ g \in Bounded
  /\ task' = [task EXCEPT ![g].live = FALSE]
  /\ conn' = [c \in Conn |-> IF conn[c].by = g THEN [conn[c] EXCEPT !.live = FALSE] ELSE conn[c]]
  /\ UNCHANGED frame

\* database/sql rolls back a transaction whose context is over, if need be after its
\* goroutine has left it.
AwaitDone(c) ==
  /\ Busy(c) /\ ~conn[c].live
  /\ conn' = Released(c)
  /\ UNCHANGED <<task, frame>>

Next ==
  \/ \E g \in Goroutine :
       \/ \E handle \in {"tx", "pool"} : Call(g, handle)
       \/ \E c \in Conn : Exec(g, c) \/ ExecFails(g, c)
       \/ Begin(g)
       \/ BeginFails(g)
       \/ Rollback(g)
       \/ Commit(g)
       \/ Panic(g)
       \/ Cancel(g)
  \/ \E c \in Conn : AwaitDone(c)

Spec == Init /\ [][Next]_vars

\* fn returns; a connection given back goes to one who waits for it; a context that
\* ends is over when the call is, and database/sql notices.
Finish(g) == Rollback(g) \/ Commit(g)
Connect(g) == Begin(g) \/ BeginFails(g)
EndRequest(g) == task[g].st = "idle" /\ Cancel(g)

FairSpec ==
  /\ Spec
  /\ \A g \in Goroutine : WF_vars(Finish(g)) /\ SF_vars(Connect(g)) /\ WF_vars(EndRequest(g))
  /\ \A c \in Conn : WF_vars(AwaitDone(c))

---------------------------------------------------------------------------
(* What callers can rely on.                                               *)

TypeOK ==
  /\ conn \in [Conn -> [st : {"free", "open", "aborted"}, by : Goroutine \union {NoOne},
                        depth : 0..MaxDepth, sent : 0..MaxSent, live : BOOLEAN]]
  /\ task \in [Goroutine -> [st : {"idle", "begin", "fn"}, depth : 0..MaxDepth,
                             inner : 0..MaxInner, on : {"tx", "pool"}, live : BOOLEAN]]
  /\ frame \in [Goroutine -> [Depth -> [sent : 0..MaxSent, kept : 0..MaxSent,
                                out : {"none", "nil", "error", "lost", "panic"}]]]

\* A connection that is not free carries a transaction that its goroutine is inside of,
\* one connection each, or one whose fn panicked, or one that database/sql is about to
\* roll back, its context being over: no other path through Transaction, commit errors,
\* refused nesting and contexts that end at any moment included, keeps a connection.
NoLeak ==
  /\ \A c \in Conn : Busy(c) =>
       \/ conn[c].depth \in 1..task[conn[c].by].depth
       \/ conn[c].depth = 0 /\ (conn[c].by \in Panicking \/ ~conn[c].live)
  /\ \A b, c \in Conn :
       Busy(b) /\ Busy(c) /\ conn[b].by = conn[c].by /\ conn[b].depth = conn[c].depth
         => b = c \/ conn[c].depth = 0

\* Transaction returned nil: every statement of which fn heard that it succeeded is
\* durable, although fn may have dropped the error of another, and the context may
\* have ended on the way.  It returned an error, or fn panicked: none is.  Only when
\* COMMIT got no answer are both possible, and then it is all of them or none.
AtomicOutcome ==
  \A g \in Goroutine, d \in Depth :
    d > task[g].depth =>
      LET f == frame[g][d] IN
      /\ f.out = "nil" => f.kept = f.sent
      /\ f.out \in {"error", "panic"} => f.kept = 0
      /\ f.kept \in {0, f.sent}

\* Every call of Transaction returns.  With transactions inside one another this needs
\* a pool larger than the goroutines times the depth less one; with a smaller one,
\* each goroutine may hold a connection and wait for another's.
EveryTransactionReturns ==
  \A g \in Goroutine : task[g].st # "idle" ~> task[g].st = "idle"

\* "Transaction runs fn within a transaction, auto commit/rollback" (tx.go): when it is
\* over, the transaction is, or is about to be, its context being over.  A panic of fn
\* passes both.
AutoEnds == \A c \in Conn : Busy(c) => conn[c].depth # 0 \/ ~conn[c].live
=============================================================================
