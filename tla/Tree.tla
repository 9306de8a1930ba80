-------------------------------- MODULE Tree --------------------------------
(***************************************************************************)
(* BuildTree of treex/tree.go, called with one list after another.  A node *)
(* is its place in the list; ids may be given twice, parents may be        *)
(* missing, and lead in a circle.  A node that was in a tree before brings *)
(* along the children it had there.                                        *)
(*                                                                         *)
(* A definition named Slip... is a bug a later change could make in the    *)
(* definition after it; the project's mutation runs put it in its place.   *)
(***************************************************************************)
EXTENDS Integers, SequencesExt

CONSTANT NodeList    \* the lists BuildTree is called with

ASSUME TreeAssumption == NodeList \subseteq Seq([id : Int, parent : Int])

VARIABLES
  nodes,             \* the list of this call
  children,          \* the children each node holds
  nodeMap,           \* the node of each id seen
  roots,             \* the result
  loop,              \* the loop the call is in: "index" or "attach", or "done"
  next               \* the node that is next in it

treeVars == <<nodes, children, nodeMap, roots, loop, next>>

NoNode == [id \in {} |-> 0]

TreeInit ==
  /\ nodes = <<>> /\ children = <<>> /\ nodeMap = NoNode /\ roots = <<>>
  /\ loop = "done" /\ next = 1

---------------------------------------------------------------------------
\* The call begins; with no nodes it is over at once.
BuildTree(list, usedBefore) ==
  /\ loop = "done"
  /\ nodes' = list
  /\ children' = [i \in DOMAIN list |->
                    IF usedBefore /\ i \in DOMAIN children THEN children[i] ELSE <<>>]
  /\ nodeMap' = NoNode
  /\ roots' = <<>>
  /\ loop' = IF list = <<>> THEN "done" ELSE "index"
  /\ next' = 1

\* To the next node, or after the last one to the loop that follows.
Advance(following) ==
  /\ loop' = IF next = Len(nodes) THEN following ELSE loop
  /\ next' = IF next = Len(nodes) THEN 1 ELSE next + 1

SlipNoReset(i) == children

\* The children a node brings along are forgotten.
Reset(i) == [children EXCEPT ![i] = <<>>]

\* First loop: a later node takes the id from an earlier one.
IndexNode ==
  /\ loop = "index"
  /\ nodeMap' = [id \in DOMAIN nodeMap \union {nodes[next].id} |->
                   IF id = nodes[next].id THEN next ELSE nodeMap[id]]
  /\ children' = Reset(next)
  /\ Advance("attach")
  /\ UNCHANGED <<nodes, roots>>

\* Second loop: a root, a child, or an orphan, which is dropped.
AttachNode ==
  LET parent == nodes[next].parent IN
  /\ loop = "attach"
  /\ \/ /\ parent = 0
        /\ roots' = Append(roots, next)
        /\ UNCHANGED children
     \/ /\ parent # 0 /\ parent \in DOMAIN nodeMap
        /\ children' = [children EXCEPT ![nodeMap[parent]] = Append(@, next)]
        /\ UNCHANGED roots
     \/ /\ parent # 0 /\ parent \notin DOMAIN nodeMap
        /\ UNCHANGED <<children, roots>>
  /\ Advance("done")
  /\ UNCHANGED <<nodes, nodeMap>>

TreeNext ==
  \/ \E list \in NodeList, usedBefore \in BOOLEAN : BuildTree(list, usedBefore)
  \/ IndexNode
  \/ AttachNode

TreeSpec == TreeInit /\ [][TreeNext]_treeVars

---------------------------------------------------------------------------
(* What callers can rely on.                                               *)

\* What a caller comes upon who begins at the roots and goes on to children: what is
\* in every set that has the roots and, of its members, the children.
Shown ==
  {i \in DOMAIN nodes :
     \A S \in SUBSET DOMAIN nodes :
       ToSet(roots) \subseteq S /\ (\A p \in S : ToSet(children[p]) \subseteq S) => i \in S}

\* The parent of i is p: the last of the nodes with the id that i names.
IsParent(p, i) ==
  /\ nodes[i].parent # 0 /\ nodes[p].id = nodes[i].parent
  /\ \A q \in DOMAIN nodes : nodes[q].id = nodes[i].parent => q <= p

\* The nodes whose parents lead to a root.
Rooted ==
  {i \in DOMAIN nodes :
     \A S \in SUBSET DOMAIN nodes :
       (\A j \in DOMAIN nodes :
          nodes[j].parent = 0 \/ (\E p \in S : IsParent(p, j)) => j \in S) => i \in S}

\* Each node is shown in one place at most.
OnePlace ==
  /\ \A p \in DOMAIN nodes : ToSet(roots) \intersect ToSet(children[p]) = {}
  /\ \A p, q \in DOMAIN nodes : p # q => ToSet(children[p]) \intersect ToSet(children[q]) = {}

\* Walking down from the roots comes to an end: nowhere do children lead in a circle.
NoCircle ==
  \A S \in SUBSET Shown : (\A i \in S : \E p \in S : i \in ToSet(children[p])) => S = {}

Ascending(list) == \A a, b \in DOMAIN list : a < b => list[a] < list[b]

\* A finished tree shows the nodes whose parents lead to a root, and only these; each
\* in one place, with no circle; in the order of the list; and whatever tree the nodes
\* were in before.
TreeIsSound ==
  loop = "done" =>
    /\ Shown = Rooted
    /\ OnePlace
    /\ NoCircle
    /\ Ascending(roots) /\ \A p \in DOMAIN nodes : Ascending(children[p])
=============================================================================
