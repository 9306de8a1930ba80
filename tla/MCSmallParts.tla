---------------------------- MODULE MCSmallParts ----------------------------
(***************************************************************************)
(* The parts that share no state with others, for TLC: in a behaviour      *)
(* either pages are read, or scripts are executed, or pure functions are   *)
(* called with one argument after another.                                 *)
(***************************************************************************)
EXTENDS Paging, ScriptCache, Tree, Text, PureCalls

CONSTANTS g1, g2, g3, p1, p2

MCPageRequest == {[page |-> 0, size |-> 0], [page |-> 1, size |-> 3], [page |-> 2, size |-> 2]}

MCGoroutine == {g1, g2, g3}
MCProcess == {p1, p2}
MCProcessOf == [g \in MCGoroutine |-> IF g = g3 THEN p2 ELSE p1]

\* Up to three nodes: orphans, circles, ids given twice, and the id 0.
MCNodeList == UNION {[1..n -> [id : 0..2, parent : 0..2]] : n \in 0..3}

\* Shares up to two and a half cents and both signs, so that each rounding meets each
\* side of a half; and amounts beyond what an int64 counts.
MCShare == -25..25
MCAmount == -(Int64 + 2) * Cent .. (Int64 + 2) * Cent

\* Numbers and lists around three cells, lists with NULL in them; texts with a letter, the
\* wildcards and the backslash.
MCList == UNION {[1..n -> 0..2 \union {Null}] : n \in 0..3}
MCCharacter == {"a", "_", "%", "\\"}
MCWord == UNION {[1..n -> Character] : n \in 0..2}

VARIABLES part, field

allVars == <<vars, scriptVars, treeVars, sample, part, field>>

NoField == [kind |-> "none"]

SmallInit ==
  /\ Init /\ ScriptInit /\ TreeInit /\ PureInit
  /\ part \in {"pages", "scripts", "trees", "functions", "binding"}
  /\ field = NoField

\* Four characters: two ends and what may meet or vanish between them.
Bind ==
  \E n \in 0..4 : \E text \in [1..n -> Char], kind \in {"string", "any", "other"},
                   tag \in {"", "multiline", "-"} :
    field' = [kind |-> kind, tag |-> tag, text |-> text]

SmallNext ==
  \/ part = "pages" /\ Next /\ UNCHANGED <<scriptVars, treeVars, sample, part, field>>
  \/ part = "scripts" /\ ScriptNext /\ UNCHANGED <<vars, treeVars, sample, part, field>>
  \/ part = "trees" /\ TreeNext /\ UNCHANGED <<vars, scriptVars, sample, part, field>>
  \/ part = "functions" /\ PureNext /\ UNCHANGED <<vars, scriptVars, treeVars, part, field>>
  \/ /\ part = "binding" /\ field = NoField /\ Bind
     /\ UNCHANGED <<vars, scriptVars, treeVars, sample, part>>
  \/ /\ part = "binding" /\ field' = NoField
     /\ UNCHANGED <<vars, scriptVars, treeVars, sample, part>>

SmallSpec == SmallInit /\ [][SmallNext]_allVars

\* BindIsStable, for the fields above.
BindingsAreStable == field # NoField => BindIsStable(field)
===========================================================================
