------------------------------- MODULE Paging -------------------------------
(***************************************************************************)
(* FindByPage of package dbx, called page after page by a client that      *)
(* binds a PageQueryDTO of package ginx and stops at the first empty page. *)
(* COUNT and SELECT are two statements; rows are inserted, with ids that   *)
(* grow, and deleted between any two of them.                              *)
(*                                                                         *)
(* A definition named Slip... is a bug a later change could make in the    *)
(* definition after it; the project's mutation runs put it in its place.   *)
(***************************************************************************)
EXTENDS Integers, FiniteSets

CONSTANTS
  MaxRow,            \* bound: the last id that is given
  PageRequest,       \* the page and page_size a client may ask for first
  DefaultSize        \* the page size of a request without one

ASSUME PagingAssumption ==
  /\ MaxRow \in Nat /\ DefaultSize \in Nat \ {0}
  /\ PageRequest \subseteq [page : Int, size : Int]

VARIABLES
  table,             \* the ids of the rows that match
  last,              \* the last id given
  query,             \* the call of FindByPage
  walk               \* history: what the walk began with, saw and missed

vars == <<table, last, query, walk>>

NoQuery == [st |-> "idle", page |-> 1, size |-> DefaultSize, order |-> "none"]
NoWalk ==
  [first |-> {}, seen |-> {}, twice |-> {}, inserted |-> FALSE, removed |-> FALSE]

Init == table = {} /\ last = 0 /\ query = NoQuery /\ walk = NoWalk

---------------------------------------------------------------------------
\* PageQuery.Normalize.
Normalize(q) ==
  [page |-> IF q.page < 1 THEN 1 ELSE q.page, size |-> IF q.size < 1 THEN DefaultSize ELSE q.size]

SlipNextPage(page, size) == page * size

\* Pages so far out that an int overflows are left out.
Offset(page, size) == (page - 1) * size

\* What a sort by id comes to, given its direction or "" for none or a wrong one, or
\* for no sort at all: normalize makes it newest first, ToScopes drops a field that
\* the whitelist does not have, and then the order is PostgreSQL's.
Order(given, allowed) ==
  CASE ~allowed        -> "none"
    [] given = "asc"   -> "asc"
    [] OTHER           -> "desc"

\* How many of the rows come before id.
Place(rows, id, order) ==
  Cardinality({j \in rows : IF order = "asc" THEN j < id ELSE j > id})

---------------------------------------------------------------------------
\* The client asks for its first page.
Begin(q, given, allowed) ==
  LET n == Normalize(q) IN
  /\ query.st \in {"idle", "done", "failed"}
  /\ query' = [st |-> "count", page |-> n.page, size |-> n.size,
               order |-> Order(given, allowed)]
  /\ walk' = [NoWalk EXCEPT !.first = IF n.page = 1 THEN table ELSE {}]
  /\ UNCHANGED <<table, last>>

\* COUNT, whose number goes to the client: with no rows there is no SELECT, and the
\* walk is over.
Count ==
  /\ query.st = "count"
  /\ query' = [query EXCEPT !.st = IF table = {} THEN "done" ELSE "find"]
  /\ UNCHANGED <<table, last, walk>>

SlipNoLimit(place, offset, size) == offset <= place

\* OFFSET and LIMIT.
OnPage(place, offset, size) == offset <= place /\ place < offset + size

\* The lists SELECT may return: the rows in their places, or, in PostgreSQL's own
\* order, as many of them as have a place on the page.
PageLists(order, offset, size) ==
  IF order = "none"
    THEN {list \in SUBSET table : Cardinality(list) =
            Cardinality({place \in 0..(Cardinality(table) - 1) : OnPage(place, offset, size)})}
    ELSE {{id \in table : OnPage(Place(table, id, order), offset, size)}}

\* SELECT; after an empty page the walk is over, otherwise the client goes on.
Find ==
  /\ query.st = "find"
  /\ \E list \in PageLists(query.order, Offset(query.page, query.size), query.size) :
       /\ query' = IF list = {} THEN [query EXCEPT !.st = "done"]
                   ELSE [query EXCEPT !.st = "count", !.page = @ + 1]
       /\ walk' = [walk EXCEPT !.seen = @ \union list,
                               !.twice = @ \union (walk.seen \intersect list)]
  /\ UNCHANGED <<table, last>>

\* A statement fails, and FindByPage returns the error.
Fail ==
  /\ query.st \in {"count", "find"}
  /\ query' = [query EXCEPT !.st = "failed"]
  /\ UNCHANGED <<table, last, walk>>

InsertRow ==
  /\ last < MaxRow
  /\ table' = table \union {last + 1}
  /\ last' = last + 1
  /\ walk' = [walk EXCEPT !.inserted = TRUE]
  /\ UNCHANGED query

DeleteRow(id) ==
  /\ id \in table
  /\ table' = table \ {id}
  /\ walk' = [walk EXCEPT !.removed = TRUE]
  /\ UNCHANGED <<last, query>>

Next ==
  \/ \E q \in PageRequest, given \in {"", "asc", "desc"}, allowed \in BOOLEAN :
       Begin(q, given, allowed)
  \/ Count \/ Find \/ Fail
  \/ InsertRow
  \/ \E id \in table : DeleteRow(id)

Spec == Init /\ [][Next]_vars

---------------------------------------------------------------------------
Sorted == query.order # "none"

\* A walk from the first page sees every row that was there when it began, however
\* many are inserted meanwhile: in either direction a new row moves none of the old
\* ones to an earlier page.
InsertsHideNothing ==
  query.st = "done" /\ Sorted /\ ~walk.removed => walk.first \subseteq walk.seen

\* No row is on two pages, unless newest come first and a row was inserted: a row
\* that is deleted moves the others to earlier pages only.
RemovalsRepeatNothing ==
  Sorted /\ (query.order = "asc" \/ ~walk.inserted) => walk.twice = {}
=============================================================================
