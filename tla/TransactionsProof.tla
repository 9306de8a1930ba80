------------------------- MODULE TransactionsProof -------------------------
(***************************************************************************)
(* Proofs about Transactions, for any goroutines, any pool and any depth   *)
(* of transactions inside one another.                                     *)
(***************************************************************************)
EXTENDS Transactions, TLAPS

ConnType ==
  [st : {"free", "open", "aborted"}, by : Goroutine \union {NoOne},
   depth : 0..MaxDepth, sent : 0..MaxSent, live : BOOLEAN]
TaskType ==
  [st : {"idle", "begin", "fn"}, depth : 0..MaxDepth, inner : 0..MaxInner,
   on : {"tx", "pool"}, live : BOOLEAN]
FrameType ==
  [sent : 0..MaxSent, kept : 0..MaxSent, out : {"none", "nil", "error", "lost", "panic"}]

\* fn runs inside a transaction, and one is begun only where another fits.
Nested(t) ==
  /\ t.st = "idle" => t.depth = 0
  /\ t.st = "begin" => t.depth < MaxDepth
  /\ t.st = "fn" => t.depth > 0

\* A transaction, by the depth its goroutine is at and by its frames: it is one that the
\* goroutine is inside of, and PostgreSQL has executed what fn was told; or fn panicked,
\* or its context is over.
Placed(k, depth, frames) ==
  \/ /\ k.depth \in 1..depth
     /\ k.sent = frames[k.depth].sent
  \/ k.depth = 0 /\ (k.by \in Panicking \/ ~k.live)

Owned ==
  \A c \in Conn : Busy(c) =>
    /\ conn[c].by \in Goroutine
    /\ Placed(conn[c], task[conn[c].by].depth, frame[conn[c].by])

\* No two connections carry one transaction.
Single ==
  \A b, c \in Conn :
    Busy(b) /\ Busy(c) /\ conn[b].by = conn[c].by /\ conn[b].depth = conn[c].depth
      => b = c \/ conn[c].depth = 0

\* What came of a transaction that is over, and what is true of one that is not.
Ended(f) ==
  /\ f.out = "nil" => f.kept = f.sent
  /\ f.out \in {"error", "panic"} => f.kept = 0
  /\ f.kept \in {0, f.sent}
Accounted(depth, frames) ==
  \A d \in Depth : IF d <= depth THEN frames[d].kept = 0 ELSE Ended(frames[d])

TxTypeOK == conn \in [Conn -> ConnType] /\ task \in [Goroutine -> TaskType]
            /\ frame \in [Goroutine -> [Depth -> FrameType]]

TxInv ==
  /\ TxTypeOK
  /\ \A g \in Goroutine : Nested(task[g]) /\ Accounted(task[g].depth, frame[g])
  /\ Owned
  /\ Single

\* The connections of g, in a state conns of the pool: they are placed where g is, and
\* no two carry one transaction.
PlacedOf(conns, g, depth, frames) ==
  \A c \in Conn : conns[c].st # "free" /\ conns[c].by = g => Placed(conns[c], depth, frames)
SingleOf(conns, g) ==
  \A b, c \in Conn :
    (/\ conns[b].st # "free" /\ conns[c].st # "free"
     /\ conns[b].by = g /\ conns[c].by = g /\ conns[b].depth = conns[c].depth)
    => b = c \/ conns[c].depth = 0

\* A step of g, which touches its own connections only.
LEMMA StepOf ==
  ASSUME TxInv, NEW g \in Goroutine, NEW t \in TaskType,
         NEW frames \in [Depth -> FrameType],
         task' = [task EXCEPT ![g] = t], frame' = [frame EXCEPT ![g] = frames],
         conn' \in [Conn -> ConnType],
         Nested(t), Accounted(t.depth, frames),
         \A c \in Conn : conn'[c].st # "free" => conn'[c].by = g \/ conn'[c] = conn[c],
         PlacedOf(conn', g, t.depth, frames), SingleOf(conn', g)
  PROVE  TxInv'
<1>1. /\ task \in [Goroutine -> TaskType] /\ frame \in [Goroutine -> [Depth -> FrameType]]
      /\ task'[g] = t /\ \A h \in Goroutine \ {g} : task'[h] = task[h]
      /\ frame'[g] = frames /\ \A h \in Goroutine \ {g} : frame'[h] = frame[h]
  BY DEF TxInv, TxTypeOK
<1>2. TxTypeOK'
  BY <1>1 DEF TxTypeOK
<1>3. \A h \in Goroutine : Nested(task'[h]) /\ Accounted(task'[h].depth, frame'[h])
  BY <1>1 DEF TxInv
<1>4. ASSUME NEW c \in Conn, conn'[c].st # "free"
      PROVE  /\ conn'[c].by \in Goroutine
             /\ Placed(conn'[c], task'[conn'[c].by].depth, frame'[conn'[c].by])
             /\ conn'[c].by # g => conn'[c] = conn[c]
  BY <1>1, <1>4 DEF TxInv, Owned, Busy, PlacedOf
<1>5. Owned'
  BY <1>4 DEF Owned, Busy
<1>6. Single'
  BY <1>4 DEF TxInv, Single, SingleOf, Busy
<1> QED
  BY <1>2, <1>3, <1>5, <1>6 DEF TxInv

LEMMA Facts ==
  ASSUME TxInv, NEW g \in Goroutine
  PROVE  /\ conn \in [Conn -> ConnType]
         /\ task[g] \in TaskType /\ frame[g] \in [Depth -> FrameType]
         /\ task = [task EXCEPT ![g] = task[g]] /\ frame = [frame EXCEPT ![g] = frame[g]]
         /\ Nested(task[g]) /\ Accounted(task[g].depth, frame[g])
         /\ PlacedOf(conn, g, task[g].depth, frame[g]) /\ SingleOf(conn, g)
         /\ task[g].depth \in Nat /\ MaxDepth \in Nat \ {0}
         /\ MaxInner \in Nat /\ MaxSent \in Nat
<1>1. task \in [Goroutine -> TaskType] /\ frame \in [Goroutine -> [Depth -> FrameType]]
  BY DEF TxInv, TxTypeOK
<1>2. PlacedOf(conn, g, task[g].depth, frame[g])
  BY DEF TxInv, Owned, Busy, PlacedOf
<1>3. SingleOf(conn, g)
  BY DEF TxInv, Single, Busy, SingleOf
<1>4. task[g].depth \in Nat /\ MaxDepth \in Nat \ {0} /\ MaxInner \in Nat /\ MaxSent \in Nat
  BY <1>1, TxAssumption DEF TaskType
<1>5. task = [task EXCEPT ![g] = task[g]] /\ frame = [frame EXCEPT ![g] = frame[g]]
  BY <1>1
<1>6. Nested(task[g]) /\ Accounted(task[g].depth, frame[g]) /\ conn \in [Conn -> ConnType]
  BY DEF TxInv, TxTypeOK
<1> QED
  BY <1>1, <1>2, <1>3, <1>4, <1>5, <1>6

LEMMA FreshFrames ==
  /\ Fresh \in FrameType /\ Ended(Fresh) /\ Fresh.kept = 0
  /\ [d \in Depth |-> Fresh] \in [Depth -> FrameType]
<1>1. MaxSent \in Nat
  BY TxAssumption
<1>2. Fresh \in FrameType
  BY <1>1 DEF Fresh, FrameType
<1> QED
  BY <1>2 DEF Fresh, Ended

\* Nothing becomes of the connections, nor of the transactions around g.
LEMMA ConnStays ==
  ASSUME TxInv, NEW g \in Goroutine, NEW t \in TaskType, task' = [task EXCEPT ![g] = t],
         UNCHANGED <<conn, frame>>, Nested(t), t.depth = task[g].depth
  PROVE  TxInv'
<1>1. /\ frame' = [frame EXCEPT ![g] = frame[g]] /\ frame[g] \in [Depth -> FrameType]
      /\ conn' = conn /\ conn' \in [Conn -> ConnType]
      /\ Accounted(t.depth, frame[g])
      /\ PlacedOf(conn', g, t.depth, frame[g]) /\ SingleOf(conn', g)
  BY Facts
<1> QED
  BY <1>1, StepOf

LEMMA CallKeeps ==
  ASSUME TxInv, NEW g \in Goroutine, NEW handle \in {"tx", "pool"}, Call(g, handle)
  PROVE  TxInv'
<1>1. task[g] \in TaskType /\ Nested(task[g]) /\ task \in [Goroutine -> TaskType]
  BY Facts DEF TxInv, TxTypeOK
<1>2. CASE /\ task[g].st = "idle"
           /\ task' = [task EXCEPT ![g].st = "begin", ![g].live = TRUE]
           /\ frame' = [frame EXCEPT ![g] = [d \in Depth |-> Fresh]]
           /\ UNCHANGED conn
  <2>1. PICK t : t = [task[g] EXCEPT !.st = "begin", !.live = TRUE]
    OBVIOUS
  <2>2. /\ task' = [task EXCEPT ![g] = t] /\ t \in TaskType /\ t.st = "begin"
        /\ t.depth = 0 /\ task[g].depth = 0
    BY <1>1, <1>2, <2>1 DEF TaskType, Nested
  <2>3. Nested(t)
    BY <2>2, Facts DEF Nested
  <2> DEFINE frames == [d \in Depth |-> Fresh]
  <2>4. /\ frames \in [Depth -> FrameType] /\ Accounted(t.depth, frames)
        /\ frame' = [frame EXCEPT ![g] = frames]
    BY <1>2, <2>2, FreshFrames DEF Accounted, Depth
  <2> HIDE DEF frames
  <2>5. conn' = conn /\ conn' \in [Conn -> ConnType] /\ SingleOf(conn', g)
    BY <1>2, Facts
  <2>6. PlacedOf(conn, g, 0, frame[g])
    BY <2>2, Facts
  <2>7. PlacedOf(conn', g, t.depth, frames)
    BY <2>2, <2>5, <2>6 DEF PlacedOf, Placed
  <2> QED
    BY <2>2, <2>3, <2>4, <2>5, <2>7, StepOf
<1>3. CASE /\ task[g].st = "fn" /\ task[g].depth < MaxDepth /\ task[g].inner < MaxInner
           /\ task' = [task EXCEPT ![g].st = "begin", ![g].on = handle, ![g].inner = @ + 1]
           /\ UNCHANGED <<conn, frame>>
  <2>1. PICK t : t = [task[g] EXCEPT !.st = "begin", !.on = handle, !.inner = @ + 1]
    OBVIOUS
  <2>2. task[g].inner + 1 \in 0..MaxInner
    <3>1. task[g].inner \in 0..MaxInner /\ MaxInner \in Nat
      BY <1>1, Facts DEF TaskType
    <3> QED
      BY <1>3, <3>1
  <2>3. /\ task' = [task EXCEPT ![g] = t] /\ t \in TaskType /\ t.st = "begin"
        /\ t.depth = task[g].depth
    BY <1>1, <1>3, <2>1, <2>2 DEF TaskType
  <2>4. Nested(t)
    BY <1>3, <2>3 DEF Nested
  <2> QED
    BY <1>3, <2>3, <2>4, ConnStays
<1> QED
  BY <1>2, <1>3 DEF Call

LEMMA UnusedConn == Unused \in ConnType /\ Unused.st = "free"
BY TxAssumption DEF Unused, ConnType

LEMMA BeginKeeps ==
  ASSUME TxInv, NEW g \in Goroutine, Begin(g)
  PROVE  TxInv'
<1>1. task[g] \in TaskType /\ Nested(task[g]) /\ task \in [Goroutine -> TaskType]
      /\ frame \in [Goroutine -> [Depth -> FrameType]] /\ conn \in [Conn -> ConnType]
  BY Facts DEF TxInv, TxTypeOK
<1>2. PICK d \in Depth : /\ d = task[g].depth + 1
                         /\ d \in 0..MaxDepth /\ d \in Nat /\ d > task[g].depth /\ d > 0
  <2>1. task[g].st = "begin" /\ task[g].depth \in Nat /\ MaxDepth \in Nat
    BY Facts DEF Begin
  <2>2. task[g].depth < MaxDepth
    BY <1>1, <2>1 DEF Nested
  <2>3. /\ task[g].depth + 1 \in 1..MaxDepth /\ task[g].depth + 1 \in 0..MaxDepth
        /\ task[g].depth + 1 > task[g].depth /\ task[g].depth + 1 > 0
        /\ task[g].depth + 1 \in Nat
    BY <2>1, <2>2
  <2> QED
    BY <2>3 DEF Depth
<1> DEFINE frames == [frame[g] EXCEPT ![d] = Fresh]
<1>3. PICK a \in Conn : /\ conn[a].st = "free"
                        /\ conn' = [conn EXCEPT ![a] =
                             [Unused EXCEPT !.st = "open", !.by = g, !.depth = d]]
  BY <1>2 DEF Begin, Free, Busy
<1>4. PICK t : t = [task[g] EXCEPT !.st = "fn", !.depth = d]
  OBVIOUS
<1>5. PICK k : k = [Unused EXCEPT !.st = "open", !.by = g, !.depth = d]
  OBVIOUS
<1>6. /\ t \in TaskType /\ t.st = "fn" /\ t.depth = d /\ task' = [task EXCEPT ![g] = t]
  BY <1>1, <1>2, <1>4 DEF TaskType, Begin
<1>7. /\ k \in ConnType /\ k.st = "open" /\ k.by = g /\ k.depth = d /\ k.sent = 0
  BY <1>2, <1>5, UnusedConn DEF ConnType, Unused
<1>8. /\ conn' \in [Conn -> ConnType] /\ conn'[a] = k
      /\ \A c \in Conn \ {a} : conn'[c] = conn[c]
  BY <1>1, <1>3, <1>5, <1>7
<1>9. /\ frames \in [Depth -> FrameType] /\ frame' = [frame EXCEPT ![g] = frames]
      /\ frames[d] = Fresh /\ \A e \in Depth \ {d} : frames[e] = frame[g][e]
  BY <1>1, <1>2, FreshFrames DEF Begin
<1> HIDE DEF frames
<1>10. Nested(t) /\ Accounted(t.depth, frames)
  <2>1. Nested(t)
    BY <1>2, <1>6 DEF Nested
  <2>2. ASSUME NEW e \in Depth
        PROVE  IF e <= d THEN frames[e].kept = 0 ELSE Ended(frames[e])
    <3>1. CASE e = d
      BY <1>2, <1>9, <3>1, FreshFrames
    <3>2. CASE e # d
      <4>1. /\ frames[e] = frame[g][e]
            /\ IF e <= task[g].depth THEN frame[g][e].kept = 0 ELSE Ended(frame[g][e])
        BY <1>9, <3>2, Facts DEF Accounted
      <4>2. e <= d <=> e <= task[g].depth
        BY <1>2, <3>2, Facts DEF Depth
      <4> QED
        BY <4>1, <4>2
    <3> QED
      BY <3>1, <3>2
  <2> QED
    BY <1>6, <2>1, <2>2 DEF Accounted
<1>11. \A c \in Conn : conn'[c].st # "free" => conn'[c].by = g \/ conn'[c] = conn[c]
  BY <1>7, <1>8
<1>12. ASSUME NEW c \in Conn, c # a, conn'[c].st # "free", conn'[c].by = g
       PROVE  /\ conn'[c].depth # d
              /\ Placed(conn'[c], t.depth, frames)
  <2>1. conn'[c] = conn[c] /\ Placed(conn[c], task[g].depth, frame[g])
    BY <1>8, <1>12, Facts DEF PlacedOf
  <2>2. CASE conn[c].depth = 0 /\ (conn[c].by \in Panicking \/ ~conn[c].live)
    BY <1>2, <2>1, <2>2, Facts DEF Placed
  <2>3. CASE conn[c].depth \in 1..task[g].depth
             /\ conn[c].sent = frame[g][conn[c].depth].sent
    <3>1. conn[c].depth \in 1..d /\ conn[c].depth \in Depth \ {d}
      BY <1>2, <2>3, Facts DEF Depth
    <3> QED
      BY <1>6, <1>9, <2>1, <2>3, <3>1 DEF Placed
  <2> QED
    BY <2>1, <2>2, <2>3 DEF Placed
<1>13. PlacedOf(conn', g, t.depth, frames)
  <2>1. Placed(k, t.depth, frames)
    BY <1>2, <1>6, <1>7, <1>9 DEF Placed, Fresh
  <2> QED
    BY <1>8, <1>12, <2>1 DEF PlacedOf
<1>14. SingleOf(conn', g)
  BY <1>7, <1>8, <1>12, Facts DEF SingleOf
<1> QED
  BY <1>6, <1>8, <1>9, <1>10, <1>11, <1>13, <1>14, StepOf

\* The code around goes on at depth d.
LEMMA ResumeTo ==
  ASSUME TxInv, NEW g \in Goroutine, NEW d \in 0..MaxDepth, Resume(g, d)
  PROVE  \E t \in TaskType : task' = [task EXCEPT ![g] = t] /\ Nested(t) /\ t.depth = d
<1>1. task[g] \in TaskType /\ MaxInner \in Nat /\ MaxDepth \in Nat
      /\ task \in [Goroutine -> TaskType]
  BY Facts DEF TxInv, TxTypeOK
<1>2. CASE d = 0
  <2>1. PICK t : t = [Resting EXCEPT !.live = task[g].live]
    OBVIOUS
  <2>2. Resting \in TaskType
    BY <1>1 DEF Resting, TaskType
  <2>3. task[g].live \in BOOLEAN
    BY <1>1 DEF TaskType
  <2>4. t \in TaskType /\ t.st = "idle" /\ t.depth = 0
    BY <2>1, <2>2, <2>3 DEF TaskType, Resting
  <2>5. task' = [task EXCEPT ![g] = t]
    BY <1>2, <2>1 DEF Resume
  <2> QED
    BY <1>2, <2>4, <2>5 DEF Nested
<1>3. CASE d # 0
  <2>1. PICK t : t = [task[g] EXCEPT !.st = "fn", !.depth = d, !.on = "pool"]
    OBVIOUS
  <2>2. t \in TaskType /\ t.st = "fn" /\ t.depth = d
    BY <1>1, <2>1 DEF TaskType
  <2>3. task' = [task EXCEPT ![g] = t]
    BY <1>1, <1>3, <2>1 DEF Resume
  <2>4. d > 0
    BY <1>1, <1>3
  <2> QED
    BY <2>2, <2>3, <2>4 DEF Nested
<1> QED
  BY <1>2, <1>3

LEMMA BeginFailsKeeps ==
  ASSUME TxInv, NEW g \in Goroutine, BeginFails(g)
  PROVE  TxInv'
<1>1. task[g].depth \in 0..MaxDepth /\ Resume(g, task[g].depth) /\ UNCHANGED <<conn, frame>>
  BY Facts DEF BeginFails, TaskType
<1>2. PICK t \in TaskType :
        task' = [task EXCEPT ![g] = t] /\ Nested(t) /\ t.depth = task[g].depth
  BY <1>1, ResumeTo
<1> QED
  BY <1>1, <1>2, ConnStays

\* A statement: it succeeds, in PostgreSQL and for fn, or it fails.
LEMMA ExecKeeps ==
  ASSUME TxInv, NEW g \in Goroutine, NEW a \in Conn, Exec(g, a)
  PROVE  TxInv'
<1>1. PICK d : d = task[g].depth
  OBVIOUS
<1>2. /\ conn[a].st = "open" /\ conn[a].by = g /\ conn[a].depth = d
      /\ conn[a].sent < MaxSent /\ UNCHANGED task
  BY <1>1 DEF Exec, Carries
<1>3. d \in Depth /\ d # 0
  <2>1. d \in 0..MaxDepth /\ d > 0
    BY <1>1, Facts DEF Exec, Nested, TaskType
  <2> QED
    BY <2>1, Facts DEF Depth
<1>4. conn[a] \in ConnType /\ conn \in [Conn -> ConnType]
      /\ frame[g] \in [Depth -> FrameType] /\ frame[g][d] \in FrameType
      /\ frame \in [Goroutine -> [Depth -> FrameType]]
  BY <1>3, Facts DEF TxInv, TxTypeOK
<1>5. Placed(conn[a], d, frame[g])
  BY <1>1, <1>2, Facts DEF PlacedOf
<1>6. conn[a].sent = frame[g][d].sent
  BY <1>2, <1>3, <1>5 DEF Placed
<1>7. PICK n : n = conn[a].sent + 1
  OBVIOUS
<1>8. n \in 0..MaxSent
  <2>1. conn[a].sent \in 0..MaxSent /\ MaxSent \in Nat
    BY <1>4, Facts DEF ConnType
  <2> QED
    BY <1>2, <1>7, <2>1
<1>9. PICK k : k = [conn[a] EXCEPT !.sent = n]
  OBVIOUS
<1>10. PICK f : f = [frame[g][d] EXCEPT !.sent = n]
  OBVIOUS
<1>11. /\ k \in ConnType /\ k.st = "open" /\ k.by = g /\ k.depth = d /\ k.sent = n
       /\ f \in FrameType /\ f.sent = n /\ f.kept = frame[g][d].kept
  BY <1>2, <1>4, <1>8, <1>9, <1>10 DEF ConnType, FrameType
<1>12. /\ conn' = [conn EXCEPT ![a] = k] /\ conn' \in [Conn -> ConnType] /\ conn'[a] = k
       /\ \A c \in Conn \ {a} : conn'[c] = conn[c]
  BY <1>4, <1>7, <1>9, <1>11 DEF Exec
<1>13. PICK frames : frames = [frame[g] EXCEPT ![d] = f]
  OBVIOUS
<1>14. /\ frames \in [Depth -> FrameType] /\ frame' = [frame EXCEPT ![g] = frames]
       /\ frames[d] = f /\ \A e \in Depth \ {d} : frames[e] = frame[g][e]
  BY <1>1, <1>3, <1>4, <1>6, <1>7, <1>10, <1>11, <1>13 DEF Exec
<1>15. Accounted(d, frames)
  <2>1. Accounted(d, frame[g]) /\ d <= d
    BY <1>1, Facts
  <2> QED
    BY <1>3, <1>11, <1>14, <2>1 DEF Accounted
<1>16. \A c \in Conn \ {a} : conn[c].st # "free" /\ conn[c].by = g => conn[c].depth # d
  BY <1>2, <1>3, Facts DEF SingleOf
<1>17. PlacedOf(conn', g, d, frames)
  <2>1. Placed(k, d, frames)
    <3>1. d \in 1..d
      BY <1>3 DEF Depth
    <3> QED
      BY <1>11, <1>14, <3>1 DEF Placed
  <2>2. ASSUME NEW c \in Conn, c # a, conn[c].st # "free", conn[c].by = g
        PROVE  Placed(conn[c], d, frames)
    <3>1. conn[c].depth # d /\ Placed(conn[c], d, frame[g])
      BY <1>1, <1>16, <2>2, Facts DEF PlacedOf
    <3>2. conn[c].depth \in 1..d => conn[c].depth \in Depth \ {d}
      BY <1>3, <3>1, Facts DEF Depth
    <3> QED
      BY <1>14, <3>1, <3>2 DEF Placed
  <2> QED
    BY <1>12, <2>1, <2>2 DEF PlacedOf
<1>18. SingleOf(conn', g)
  BY <1>2, <1>11, <1>12, Facts DEF SingleOf
<1>19. \A c \in Conn : conn'[c].st # "free" => conn'[c].by = g \/ conn'[c] = conn[c]
  BY <1>11, <1>12
<1>20. task' = [task EXCEPT ![g] = task[g]] /\ task[g] \in TaskType /\ Nested(task[g])
  BY <1>2, Facts
<1> QED
  BY <1>1, <1>12, <1>14, <1>15, <1>17, <1>18, <1>19, <1>20, StepOf

\* Connections that stay with their transactions, or come back to the pool, and
\* goroutines that stay where they are.
LEMMA ConnsKeep ==
  ASSUME TxInv, conn' \in [Conn -> ConnType], task' \in [Goroutine -> TaskType],
         frame' = frame,
         \A c \in Conn : conn'[c].st # "free" =>
           /\ conn[c].st # "free" /\ conn'[c].by = conn[c].by
           /\ conn'[c].depth = conn[c].depth /\ conn'[c].sent = conn[c].sent
           /\ conn'[c].live = conn[c].live \/ ~conn'[c].live,
         \A g \in Goroutine : task'[g].st = task[g].st /\ task'[g].depth = task[g].depth
  PROVE  TxInv'
<1>1. TxTypeOK'
  BY DEF TxInv, TxTypeOK
<1>2. \A g \in Goroutine : Nested(task'[g]) /\ Accounted(task'[g].depth, frame'[g])
  BY DEF TxInv, Nested
<1>3. Owned'
  BY DEF TxInv, Owned, Busy, Placed
<1>4. Single'
  BY DEF TxInv, Single, Busy
<1> QED
  BY <1>1, <1>2, <1>3, <1>4 DEF TxInv

LEMMA ExecFailsKeeps ==
  ASSUME TxInv, NEW g \in Goroutine, NEW a \in Conn, ExecFails(g, a)
  PROVE  TxInv'
<1>1. conn \in [Conn -> ConnType] /\ conn[a] \in ConnType
        /\ task \in [Goroutine -> TaskType]
  BY DEF TxInv, TxTypeOK
<1>2. PICK k : k = [conn[a] EXCEPT !.st = "aborted"]
  OBVIOUS
<1>3. k \in ConnType /\ k.by = conn[a].by /\ k.depth = conn[a].depth
        /\ k.sent = conn[a].sent /\ k.live = conn[a].live
  BY <1>1, <1>2 DEF ConnType
<1>4. /\ conn' = [conn EXCEPT ![a] = k] /\ UNCHANGED <<task, frame>> /\ conn[a].st = "open"
  BY <1>1, <1>2 DEF ExecFails
<1> QED
  BY <1>1, <1>3, <1>4, ConnsKeep

LEMMA CancelKeeps ==
  ASSUME TxInv, NEW g \in Goroutine, Cancel(g)
  PROVE  TxInv'
<1>1. conn \in [Conn -> ConnType] /\ task \in [Goroutine -> TaskType]
        /\ task[g] \in TaskType
  BY DEF TxInv, TxTypeOK
<1>2. PICK t : t = [task[g] EXCEPT !.live = FALSE]
  OBVIOUS
<1>3. t \in TaskType /\ t.st = task[g].st /\ t.depth = task[g].depth
  BY <1>1, <1>2 DEF TaskType
<1>4. task' = [task EXCEPT ![g] = t] /\ frame' = frame
  BY <1>1, <1>2 DEF Cancel
<1>5. /\ task' \in [Goroutine -> TaskType]
      /\ \A h \in Goroutine : task'[h].st = task[h].st /\ task'[h].depth = task[h].depth
  BY <1>1, <1>3, <1>4
<1>6. conn' = [c \in Conn |-> IF conn[c].by = g THEN [conn[c] EXCEPT !.live = FALSE]
                                                ELSE conn[c]]
  BY DEF Cancel
<1>7. ASSUME NEW c \in Conn
      PROVE  /\ conn'[c] \in ConnType
             /\ conn'[c].st = conn[c].st /\ conn'[c].by = conn[c].by
             /\ conn'[c].depth = conn[c].depth /\ conn'[c].sent = conn[c].sent
             /\ conn'[c].live = conn[c].live \/ ~conn'[c].live
  BY <1>1, <1>6 DEF ConnType
<1>8. conn' \in [Conn -> ConnType]
  BY <1>6, <1>7
<1> QED
  BY <1>4, <1>5, <1>7, <1>8, ConnsKeep

LEMMA AwaitDoneKeeps ==
  ASSUME TxInv, NEW a \in Conn, AwaitDone(a)
  PROVE  TxInv'
<1>1. conn \in [Conn -> ConnType] /\ task \in [Goroutine -> TaskType]
  BY DEF TxInv, TxTypeOK
<1>2. conn' = [conn EXCEPT ![a] = Unused] /\ UNCHANGED <<task, frame>>
  BY DEF AwaitDone, Released
<1> QED
  BY <1>1, <1>2, UnusedConn, ConnsKeep

\* fn panics.
LEMMA PanicKeeps ==
  ASSUME TxInv, NEW g \in Goroutine, Panic(g)
  PROVE  TxInv'
<1>1. conn \in [Conn -> ConnType] /\ frame \in [Goroutine -> [Depth -> FrameType]]
      /\ 0 \in 0..MaxDepth /\ 0 \in 0..MaxSent
  BY Facts DEF TxInv, TxTypeOK
<1>2. PICK t \in TaskType : task' = [task EXCEPT ![g] = t] /\ Nested(t) /\ t.depth = 0
  BY <1>1, ResumeTo DEF Panic
<1>3. conn' = [c \in Conn |-> IF conn[c].by = g THEN [conn[c] EXCEPT !.depth = 0, !.sent = 0]
                                                ELSE conn[c]]
  BY DEF Panic
<1>4. ASSUME NEW c \in Conn
      PROVE  /\ conn'[c] \in ConnType /\ conn'[c].by = conn[c].by
             /\ conn[c].by # g => conn'[c] = conn[c]
             /\ conn[c].by = g => conn'[c].depth = 0
  BY <1>1, <1>3 DEF ConnType
<1>5. conn' \in [Conn -> ConnType]
  BY <1>3, <1>4
<1>6. PICK frames : frames = [d \in Depth |->
                                IF d <= task[g].depth THEN [frame[g][d] EXCEPT !.out = "panic"]
                                                      ELSE frame[g][d]]
  OBVIOUS
<1>7. ASSUME NEW d \in Depth
      PROVE  frames[d] \in FrameType /\ Ended(frames[d])
  <2>1. /\ frame[g][d] \in FrameType
        /\ IF d <= task[g].depth THEN frame[g][d].kept = 0 ELSE Ended(frame[g][d])
    BY Facts DEF Accounted
  <2>2. CASE d <= task[g].depth
    <3>1. /\ frames[d] \in FrameType /\ frames[d].out = "panic" /\ frames[d].kept = 0
      BY <1>6, <2>1, <2>2 DEF FrameType
    <3> QED
      BY <3>1 DEF Ended
  <2>3. CASE ~ (d <= task[g].depth)
    BY <1>6, <2>1, <2>3
  <2> QED
    BY <2>2, <2>3
<1>8. /\ frames \in [Depth -> FrameType] /\ frame' = [frame EXCEPT ![g] = frames]
  <2>1. frame[g] \in [Depth -> FrameType]
    BY <1>1
  <2>2. frame' = [frame EXCEPT ![g] = frames]
    BY <1>1, <1>6, <2>1 DEF Panic
  <2> QED
    BY <1>6, <1>7, <2>2
<1>9. Accounted(t.depth, frames)
  BY <1>2, <1>7 DEF Accounted, Depth
<1>10. PlacedOf(conn', g, t.depth, frames) /\ SingleOf(conn', g)
  BY <1>4 DEF PlacedOf, Placed, SingleOf, Panic
<1>11. \A c \in Conn : conn'[c].st # "free" => conn'[c].by = g \/ conn'[c] = conn[c]
  BY <1>4
<1> QED
  BY <1>2, <1>5, <1>8, <1>9, <1>10, <1>11, StepOf

\* Transaction returns: its connection, if it still had one, is back in the pool, or
\* its context is over.
LEMMA ReturnKeeps ==
  ASSUME TxInv, NEW g \in Goroutine, task[g].st = "fn",
         \/ \E c \in Conn : Carries(c, g) /\ conn' = Released(c)
         \/ \E c \in Conn : Carries(c, g) /\ ~conn[c].live /\ conn' = Abandoned(c)
         \/ NoConn(g) /\ UNCHANGED conn,
         NEW out \in {"nil", "error", "lost"}, NEW kept \in 0..MaxSent,
         Return(g, out, kept),
         out = "error" => kept = 0,
         out = "nil" => kept = frame[g][task[g].depth].sent,
         kept \in {0, frame[g][task[g].depth].sent}
  PROVE  TxInv'
<1>1. PICK d : d = task[g].depth
  OBVIOUS
<1>2. /\ d \in Depth /\ d \in Nat /\ d > 0 /\ d - 1 \in 0..MaxDepth
  <2>1. d \in 0..MaxDepth /\ d > 0 /\ MaxDepth \in Nat
    BY <1>1, Facts DEF Nested, TaskType
  <2> QED
    BY <2>1 DEF Depth
<1>3. PICK t \in TaskType : task' = [task EXCEPT ![g] = t] /\ Nested(t) /\ t.depth = d - 1
  BY <1>1, <1>2, ResumeTo DEF Return
<1>4. frame \in [Goroutine -> [Depth -> FrameType]] /\ frame[g] \in [Depth -> FrameType]
      /\ frame[g][d] \in FrameType /\ conn \in [Conn -> ConnType]
  BY <1>2, Facts DEF TxInv, TxTypeOK
<1>5. PICK f : f = [frame[g][d] EXCEPT !.out = out, !.kept = kept]
  OBVIOUS
<1>6. f \in FrameType /\ Ended(f)
  <2>1. /\ f \in FrameType /\ f.out = out /\ f.kept = kept /\ f.sent = frame[g][d].sent
    BY <1>4, <1>5 DEF FrameType
  <2> QED
    BY <1>1, <2>1 DEF Ended
<1>7. PICK frames : frames = [e \in Depth |-> CASE e < d -> frame[g][e]
                                                [] e = d -> f
                                                [] OTHER -> Fresh]
  OBVIOUS
<1>8. ASSUME NEW e \in Depth
      PROVE  /\ e < d => frames[e] = frame[g][e]
             /\ e = d => frames[e] = f
             /\ e > d => frames[e] = Fresh
             /\ e < d \/ e = d \/ e > d
  BY <1>2, <1>7 DEF Depth
<1>9. frames \in [Depth -> FrameType]
  <2>1. \A e \in Depth : frames[e] \in FrameType
    BY <1>4, <1>6, <1>8, FreshFrames
  <2> QED
    BY <1>7, <2>1
<1>10. frame' = [frame EXCEPT ![g] = frames]
  BY <1>1, <1>4, <1>5, <1>7 DEF Return
<1>11. Accounted(d - 1, frames)
  <2>1. ASSUME NEW e \in Depth
        PROVE  IF e <= d - 1 THEN frames[e].kept = 0 ELSE Ended(frames[e])
    <3>1. CASE e < d
      <4>1. frame[g][e].kept = 0 /\ frames[e] = frame[g][e] /\ e <= d - 1
        BY <1>1, <1>2, <1>8, <3>1, Facts DEF Accounted, Depth
      <4> QED
        BY <4>1
    <3>2. CASE ~ (e < d)
      <4>1. ~ (e <= d - 1)
        BY <1>2, <3>2 DEF Depth
      <4>2. Ended(frames[e])
        BY <1>6, <1>8, <3>2, FreshFrames
      <4> QED
        BY <4>1, <4>2
    <3> QED
      BY <3>1, <3>2
  <2> QED
    BY <2>1 DEF Accounted
<1>12. /\ conn' \in [Conn -> ConnType]
       /\ \A c \in Conn : conn'[c].st # "free" =>
            \/ conn'[c] = conn[c] /\ (conn[c].by = g => conn[c].depth # d)
            \/ conn'[c].by = g /\ conn'[c].depth = 0 /\ ~conn'[c].live
  <2>1. CASE NoConn(g) /\ UNCHANGED conn
    BY <1>1, <1>4, <2>1 DEF NoConn, Carries, Busy
  <2>2. ASSUME NEW a \in Conn, Carries(a, g)
        PROVE  \A c \in Conn \ {a} :
                 conn[c].st # "free" => (conn[c].by = g => conn[c].depth # d)
    <3>1. conn[a].st # "free" /\ conn[a].by = g /\ conn[a].depth = d
      BY <1>1, <2>2 DEF Carries, Busy
    <3> QED
      BY <1>2, <3>1, Facts DEF SingleOf
  <2>3. ASSUME NEW a \in Conn, Carries(a, g), conn' = Released(a)
        PROVE  <1>12!1 /\ <1>12!2
    <3>1. conn' = [conn EXCEPT ![a] = Unused]
      BY <2>3 DEF Released
    <3> QED
      BY <1>4, <2>2, <2>3, <3>1, UnusedConn
  <2>4. ASSUME NEW a \in Conn, Carries(a, g), ~conn[a].live, conn' = Abandoned(a)
        PROVE  <1>12!1 /\ <1>12!2
    <3>1. PICK k : k = [conn[a] EXCEPT !.depth = 0, !.sent = 0]
      OBVIOUS
    <3>2. 0 \in 0..MaxDepth /\ 0 \in 0..MaxSent
      BY Facts
    <3>3. k \in ConnType /\ k.by = g /\ k.depth = 0 /\ ~k.live
      <4>1. conn[a] \in ConnType /\ conn[a].by = g
        BY <1>4, <2>4 DEF Carries
      <4>2. k \in ConnType /\ k.by = conn[a].by /\ k.depth = 0 /\ k.live = conn[a].live
        BY <3>1, <3>2, <4>1 DEF ConnType
      <4> QED
        BY <2>4, <4>1, <4>2
    <3>4. conn' = [conn EXCEPT ![a] = k]
      BY <1>4, <2>4, <3>1 DEF Abandoned
    <3> QED
      BY <1>4, <2>2, <2>4, <3>3, <3>4
  <2> QED
    BY <2>1, <2>3, <2>4
<1>13. PlacedOf(conn', g, d - 1, frames)
  <2>1. ASSUME NEW c \in Conn, conn'[c].st # "free", conn'[c].by = g
        PROVE  Placed(conn'[c], d - 1, frames)
    <3>1. CASE conn'[c] = conn[c] /\ conn[c].depth # d
      <4>1. Placed(conn[c], d, frame[g])
        BY <1>1, <2>1, <3>1, Facts DEF PlacedOf
      <4>2. CASE conn[c].depth \in 1..d /\ conn[c].sent = frame[g][conn[c].depth].sent
        <5>1. conn[c].depth \in 1..(d - 1) /\ conn[c].depth \in Depth /\ conn[c].depth < d
          BY <1>2, <3>1, <4>2, Facts DEF Depth
        <5> QED
          BY <1>8, <3>1, <4>2, <5>1 DEF Placed
      <4> QED
        BY <3>1, <4>1, <4>2 DEF Placed
    <3>2. CASE conn'[c].depth = 0 /\ ~conn'[c].live
      BY <3>2 DEF Placed
    <3> QED
      BY <1>12, <2>1, <3>1, <3>2
  <2> QED
    BY <2>1 DEF PlacedOf
<1>14. SingleOf(conn', g)
  BY <1>12, Facts DEF SingleOf
<1>15. \A c \in Conn : conn'[c].st # "free" => conn'[c].by = g \/ conn'[c] = conn[c]
  BY <1>12
<1>16. conn' \in [Conn -> ConnType]
  BY <1>12
<1> QED
  BY <1>3, <1>6, <1>9, <1>10, <1>11, <1>13, <1>14, <1>15, <1>16, StepOf

LEMMA RollbackKeeps ==
  ASSUME TxInv, NEW g \in Goroutine, Rollback(g)
  PROVE  TxInv'
<1>1. /\ task[g].st = "fn" /\ Return(g, "error", 0) /\ 0 \in 0..MaxSent
      /\ \/ \E c \in Conn : Carries(c, g) /\ conn' = Released(c)
         \/ NoConn(g) /\ UNCHANGED conn
  BY Facts DEF Rollback
<1> QED
  BY <1>1, ReturnKeeps

LEMMA CommitKeeps ==
  ASSUME TxInv, NEW g \in Goroutine, Commit(g)
  PROVE  TxInv'
<1>1. task[g].st = "fn" /\ 0 \in 0..MaxSent
  BY Facts DEF Commit
<1>2. ASSUME Return(g, "error", 0),
             \/ \E c \in Conn : Carries(c, g) /\ conn' = Released(c)
             \/ \E c \in Conn : Carries(c, g) /\ ~conn[c].live /\ conn' = Abandoned(c)
             \/ NoConn(g) /\ UNCHANGED conn
      PROVE  TxInv'
  BY <1>1, <1>2, ReturnKeeps
<1>3. ASSUME NEW c \in Conn, Carries(c, g), conn' = Released(c)
      PROVE  /\ conn[c].sent \in 0..MaxSent
             /\ conn[c].sent = frame[g][task[g].depth].sent
  <2>1. Placed(conn[c], task[g].depth, frame[g]) /\ conn[c].depth = task[g].depth
    BY <1>3, Facts DEF Carries, Busy, PlacedOf
  <2>2. task[g].depth > 0 /\ conn[c] \in ConnType
    BY <1>1, Facts DEF Nested
  <2> QED
    BY <2>1, <2>2 DEF Placed, ConnType
<1>4. ASSUME NEW c \in Conn, Carries(c, g), conn' = Released(c),
                    Return(g, "nil", conn[c].sent)
      PROVE  TxInv'
  BY <1>1, <1>3, <1>4, ReturnKeeps
<1>5. ASSUME NEW c \in Conn, Carries(c, g), conn' = Released(c),
             NEW kept \in {0, conn[c].sent}, Return(g, "lost", kept)
      PROVE  TxInv'
  BY <1>1, <1>3, <1>5, ReturnKeeps
<1> QED
  BY <1>2, <1>4, <1>5 DEF Commit

LEMMA TxInit == Init => TxInv
<1> SUFFICES ASSUME Init PROVE TxInv
  OBVIOUS
<1>1. Resting \in TaskType /\ Resting.st = "idle" /\ Resting.depth = 0
  BY TxAssumption DEF Resting, TaskType
<1>2. TxTypeOK
  BY <1>1, UnusedConn, FreshFrames DEF Init, TxTypeOK
<1>3. \A g \in Goroutine : Nested(task[g]) /\ Accounted(task[g].depth, frame[g])
  BY <1>1, FreshFrames DEF Init, Nested, Accounted, Depth
<1>4. Owned /\ Single
  BY UnusedConn DEF Init, Owned, Single, Busy
<1> QED
  BY <1>2, <1>3, <1>4 DEF TxInv

LEMMA TxStep == TxInv /\ [Next]_vars => TxInv'
<1> SUFFICES ASSUME TxInv, [Next]_vars PROVE TxInv'
  OBVIOUS
<1>1. CASE UNCHANGED vars
  BY <1>1 DEF vars, TxInv, TxTypeOK, Owned, Single, Busy
<1> QED
  BY <1>1, CallKeeps, BeginKeeps, BeginFailsKeeps, ExecKeeps, ExecFailsKeeps, RollbackKeeps,
     CommitKeeps, PanicKeeps, CancelKeeps, AwaitDoneKeeps DEF Next

LEMMA TxAlways == Spec => []TxInv
BY TxInit, TxStep, PTL DEF Spec

---------------------------------------------------------------------------
\* Values have their types.
THEOREM TxTypes == Spec => []TypeOK
<1>1. TxInv => TypeOK
  BY DEF TxInv, TxTypeOK, TypeOK, ConnType, TaskType, FrameType
<1> QED
  BY <1>1, TxAlways, PTL

\* A connection that is not free carries a transaction that its goroutine is inside of,
\* one connection each, or one whose fn panicked, or one whose context is over.
THEOREM NothingLeaks == Spec => []NoLeak
<1>1. TxInv => NoLeak
  BY DEF TxInv, Owned, Single, Placed, NoLeak
<1> QED
  BY <1>1, TxAlways, PTL

\* What Transaction returned says what is durable: all that fn was told of, or none; and
\* all or none when COMMIT got no answer.
THEOREM Atomic == Spec => []AtomicOutcome
<1>1. ASSUME TxInv PROVE AtomicOutcome
  <2>1. ASSUME NEW g \in Goroutine, NEW d \in Depth, d > task[g].depth
        PROVE  Ended(frame[g][d])
    <3>1. ~ (d <= task[g].depth)
      BY <1>1, <2>1, Facts DEF Depth
    <3> QED
      BY <1>1, <3>1, Facts DEF Accounted
  <2> QED
    BY <2>1 DEF AtomicOutcome, Ended
<1> QED
  BY <1>1, TxAlways, PTL
=============================================================================
