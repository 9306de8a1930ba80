-------------------------- MODULE SmallPartsProof --------------------------
(***************************************************************************)
(* Proofs about parts that share no state with the rest: Paging, for any   *)
(* requests and rows; ScriptCache, for any goroutines, processes and       *)
(* scripts; Tree, for any lists; and PureCalls, for any amounts, values    *)
(* and cells.                                                              *)
(***************************************************************************)
EXTENDS Paging, ScriptCache, Tree, PureCalls, SequenceTheorems, FiniteSetTheorems,
        WellFoundedInduction, TLAPS

-----------------------------------------------------------------------------
(***************************************************************************)
(* Paging, for any requests and any number of rows.  A row that is not on  *)
(* a page read so far has that page's rows before it, so what moves a row  *)
(* to an earlier place can make a walk miss it, and what moves it to a     *)
(* later one can make it return.                                           *)
(***************************************************************************)

\* The rows before id.
Earlier(rows, id, order) == {j \in rows : IF order = "asc" THEN j < id ELSE j > id}

\* The rows of the pages read so far.
Past(id) == Place(table, id, query.order) < Offset(query.page, query.size)

PageTypeOK ==
  /\ last \in Nat
  /\ table \in SUBSET (1..last)
  /\ query \in [st : {"idle", "count", "find", "done", "failed"}, page : Nat \ {0},
                size : Nat \ {0}, order : {"none", "asc", "desc"}]
  /\ walk \in [first : SUBSET (1..last), seen : SUBSET (1..last), twice : SUBSET (1..last),
               inserted : BOOLEAN, removed : BOOLEAN]

\* As long as no row is deleted, what the walk began with is there, and seen up to the
\* page it has come to; at the end, seen.
FirstSeen ==
  Sorted /\ ~walk.removed =>
    /\ walk.first \subseteq table
    /\ \A id \in walk.first : Past(id) => id \in walk.seen
    /\ query.st = "done" => walk.first \subseteq walk.seen

\* As long as no row takes a place before others, what was seen lies behind.
SeenPast ==
  Sorted /\ (query.order = "asc" \/ ~walk.inserted) =>
    /\ walk.twice = {}
    /\ \A id \in table \intersect walk.seen : Past(id)

PageInv == PageTypeOK /\ FirstSeen /\ SeenPast

LEMMA RowsFinite ==
  ASSUME NEW n \in Nat, NEW rows \in SUBSET (1..n)
  PROVE  /\ IsFiniteSet(rows) /\ Cardinality(rows) \in Nat
         /\ \A S \in SUBSET rows : IsFiniteSet(S) /\ Cardinality(S) \in Nat
                                    /\ Cardinality(S) <= Cardinality(rows)
<1>1. IsFiniteSet(1..n)
  BY FS_Interval
<1>2. IsFiniteSet(rows)
  BY <1>1, FS_Subset
<1> QED
  BY <1>2, FS_Subset, FS_CardinalityType

\* A set of naturals has a least member, a set of rows a last one too.
LEMMA LeastRow ==
  ASSUME NEW S, S \subseteq Nat, S # {}
  PROVE  \E m \in S : \A n \in S : m <= n
<1> DEFINE R == {ss \in Nat \X Nat : ss[1] < ss[2]}
<1>1. IsWellFoundedOn(R, Nat)
  BY NatLessThanWellFounded DEF OpToRel
<1>2. PICK m \in S : \A n \in S : ~ (<<n, m>> \in R)
  BY <1>1, WFMin
<1>3. \A n \in S : ~ (n < m)
  BY <1>2
<1> QED
  BY <1>3

LEMMA GreatestRow ==
  ASSUME NEW top \in Nat, NEW S \in SUBSET (1..top), S # {}
  PROVE  \E m \in S : \A n \in S : n <= m
<1> DEFINE D == {top - n : n \in S}
<1>1. D \subseteq Nat /\ D # {}
  <2>1. \A n \in S : top - n \in Nat
    OBVIOUS
  <2> QED
    BY <2>1
<1>2. PICK d \in D : \A e \in D : d <= e
  BY <1>1, LeastRow
<1>3. PICK m \in S : d = top - m
  OBVIOUS
<1>4. ASSUME NEW n \in S PROVE n <= m
  <2>1. top - m <= top - n
    BY <1>2, <1>3
  <2> QED
    BY <2>1
<1> QED
  BY <1>4

\* Adding rows does not bring a row forward.
LEMMA PlaceGrows ==
  ASSUME NEW n \in Nat, NEW rows \in SUBSET (1..n), NEW fewer \in SUBSET rows,
         NEW id \in Nat, NEW order
  PROVE  /\ Place(fewer, id, order) \in Nat /\ Place(rows, id, order) \in Nat
         /\ Place(fewer, id, order) <= Place(rows, id, order)
<1>1. Earlier(fewer, id, order) \in SUBSET Earlier(rows, id, order)
  BY DEF Earlier
<1>2. Earlier(rows, id, order) \in SUBSET (1..n)
  BY DEF Earlier
<1>3. /\ Cardinality(Earlier(fewer, id, order)) \in Nat
      /\ Cardinality(Earlier(rows, id, order)) \in Nat
      /\ Cardinality(Earlier(fewer, id, order)) <= Cardinality(Earlier(rows, id, order))
  BY <1>1, <1>2, RowsFinite
<1> QED
  BY <1>3 DEF Place, Earlier

\* A row that comes first, or last, among some in the order.
LEMMA EndsOfOrder ==
  ASSUME NEW n \in Nat, NEW S \in SUBSET (1..n), S # {}, NEW order
  PROVE  /\ \E m \in S : \A j \in S : j = m \/ m \in Earlier(S, j, order)
         /\ \E m \in S : \A j \in S : j = m \/ j \in Earlier(S, m, order)
<1>1. PICK a \in S : \A j \in S : a <= j
  <2>1. S \subseteq Nat
    OBVIOUS
  <2> QED
    BY <2>1, LeastRow
<1>2. PICK b \in S : \A j \in S : j <= b
  BY GreatestRow
<1>3. \A j \in S : j \in Nat /\ (j = a \/ a < j) /\ (j = b \/ j < b)
  BY <1>1, <1>2
<1>4. CASE order = "asc"
  <2>1. \A j \in S : j = a \/ a \in Earlier(S, j, order)
    BY <1>3, <1>4 DEF Earlier
  <2>2. \A j \in S : j = b \/ j \in Earlier(S, b, order)
    BY <1>3, <1>4 DEF Earlier
  <2> QED
    BY <2>1, <2>2
<1>5. CASE order # "asc"
  <2>1. \A j \in S : j = b \/ b \in Earlier(S, j, order)
    BY <1>3, <1>5 DEF Earlier
  <2>2. \A j \in S : j = a \/ j \in Earlier(S, a, order)
    BY <1>3, <1>5 DEF Earlier
  <2> QED
    BY <2>1, <2>2
<1> QED
  BY <1>4, <1>5

\* No place is skipped: where a row has k rows before it or more, one has exactly k.
LEMMA NoGap ==
  ASSUME NEW n \in Nat, NEW rows \in SUBSET (1..n), NEW order, NEW k \in Nat,
         NEW id \in rows, Place(rows, id, order) >= k
  PROVE  \E m \in rows : Place(rows, m, order) = k
<1> DEFINE Far == {j \in rows : Place(rows, j, order) >= k}
<1>1. Far \in SUBSET (1..n) /\ Far # {}
  OBVIOUS
<1>2. PICK m \in Far : \A j \in Far : j = m \/ m \in Earlier(Far, j, order)
  BY <1>1, EndsOfOrder
<1>3. m \in rows /\ Place(rows, m, order) >= k /\ Place(rows, m, order) \in Nat
  BY <1>2, PlaceGrows
<1>4. \A j \in Earlier(rows, m, order) : j \notin Far
  BY <1>1, <1>2 DEF Earlier
<1>5. CASE Earlier(rows, m, order) = {}
  <2>1. Place(rows, m, order) = 0
    BY <1>5, FS_EmptySet DEF Place, Earlier
  <2> QED
    BY <1>3, <2>1
<1>6. CASE Earlier(rows, m, order) # {}
  <2>1. Earlier(rows, m, order) \in SUBSET (1..n)
    BY DEF Earlier
  <2>2. PICK p \in Earlier(rows, m, order) :
          \A j \in Earlier(rows, m, order) :
            j = p \/ j \in Earlier(Earlier(rows, m, order), p, order)
    BY <1>6, <2>1, EndsOfOrder
  <2>3. p \in rows /\ p \notin Earlier(rows, p, order)
    BY <2>2 DEF Earlier
  <2>4. Earlier(rows, m, order) = Earlier(rows, p, order) \union {p}
    <3>1. m \in Nat /\ p \in Nat /\ \A j \in rows : j \in Nat
      BY <1>3, <2>3
    <3>2. p \in Earlier(rows, m, order) /\ p # m
      BY <2>2, <3>1 DEF Earlier
    <3>3. ASSUME NEW j \in Earlier(rows, m, order), j # p
          PROVE  j \in Earlier(rows, p, order)
      BY <2>2, <3>3 DEF Earlier
    <3>4. ASSUME NEW j \in Earlier(rows, p, order)
          PROVE  j \in Earlier(rows, m, order)
      <4>1. j \in rows /\ j \in Nat
        BY <3>1 DEF Earlier
      <4>2. CASE order = "asc"
        BY <3>1, <3>2, <4>1, <4>2 DEF Earlier
      <4>3. CASE order # "asc"
        BY <3>1, <3>2, <4>1, <4>3 DEF Earlier
      <4> QED
        BY <4>2, <4>3
    <3> QED
      BY <3>2, <3>3, <3>4
  <2>5. Earlier(rows, p, order) \in SUBSET rows
    BY DEF Earlier
  <2>6. IsFiniteSet(Earlier(rows, p, order))
    BY <2>5, RowsFinite
  <2>7. Place(rows, m, order) = Place(rows, p, order) + 1
    BY <2>3, <2>4, <2>6, FS_AddElement DEF Place, Earlier
  <2>8. Place(rows, p, order) \in Nat
    <3>1. p \in Nat /\ rows \in SUBSET rows
      BY <2>3
    <3> QED
      BY <3>1, PlaceGrows
  <2>9. ~ (Place(rows, p, order) >= k)
    BY <1>4, <2>2, <2>3
  <2> QED
    BY <1>3, <2>7, <2>8, <2>9
<1> QED
  BY <1>5, <1>6
LEMMA NextOffset ==
  ASSUME NEW page \in Nat \ {0}, NEW size \in Nat \ {0}
  PROVE  /\ Offset(page, size) \in Nat
         /\ Offset(page + 1, size) = Offset(page, size) + size
<1>1. (page - 1) * size \in Nat
  BY DEF Offset
<1>2. ASSUME NEW n \in Nat PROVE (n + 1) * size = n * size + size
  OBVIOUS
<1>3. PICK n \in Nat : n = page - 1
  OBVIOUS
<1>4. page + 1 - 1 = n + 1
  BY <1>3
<1> QED
  BY <1>1, <1>2, <1>3, <1>4 DEF Offset

LEMMA PageInit == Init => PageInv
<1> SUFFICES ASSUME Init PROVE PageInv
  OBVIOUS
<1>1. /\ table = {} /\ last = 0 /\ query = NoQuery /\ walk = NoWalk
  BY DEF Init
<1>2. query \in [st : {"idle", "count", "find", "done", "failed"}, page : Nat \ {0},
                size : Nat \ {0}, order : {"none", "asc", "desc"}] /\ query.order = "none"
  BY <1>1, PagingAssumption DEF NoQuery
<1>3. walk \in [first : SUBSET (1..last), seen : SUBSET (1..last),
                twice : SUBSET (1..last), inserted : BOOLEAN, removed : BOOLEAN]
  BY <1>1 DEF NoWalk
<1> QED
  BY <1>1, <1>2, <1>3 DEF PageInv, PageTypeOK, FirstSeen, SeenPast, Sorted

LEMMA BeginKeeps ==
  ASSUME PageInv, NEW q \in PageRequest, NEW given, NEW allowed \in BOOLEAN,
         Begin(q, given, allowed)
  PROVE  PageInv'
<1>1. PICK page \in Nat \ {0}, size \in Nat \ {0} :
        page = Normalize(q).page /\ size = Normalize(q).size
  BY PagingAssumption DEF Normalize
<1>2. PICK order \in {"none", "asc", "desc"} : order = Order(given, allowed)
  BY DEF Order
<1>3. PICK first \in SUBSET table : first = IF page = 1 THEN table ELSE {}
  OBVIOUS
<1>4. /\ query' = [st |-> "count", page |-> page, size |-> size, order |-> order]
      /\ walk' = [NoWalk EXCEPT !.first = first]
      /\ table' = table /\ last' = last
  BY <1>1, <1>2, <1>3 DEF Begin
<1>5. table \in SUBSET (1..last) /\ last \in Nat
  BY DEF PageInv, PageTypeOK
<1>6. /\ walk'.first = first /\ walk'.seen = {} /\ walk'.twice = {}
      /\ walk' \in [first : SUBSET (1..last), seen : SUBSET (1..last),
                    twice : SUBSET (1..last), inserted : BOOLEAN, removed : BOOLEAN]
  BY <1>4, <1>5 DEF NoWalk
<1>7. PageTypeOK'
  BY <1>4, <1>5, <1>6 DEF PageTypeOK
<1>8. FirstSeen'
  <2>1. ASSUME NEW id \in first PROVE ~ Past(id)'
    <3>1. Offset(page, size) = 0
      BY <1>1, <1>3 DEF Offset
    <3>2. Place(table, id, order) \in Nat
      BY <1>5, PlaceGrows
    <3> QED
      BY <1>4, <3>1, <3>2 DEF Past
  <2> QED
    BY <1>3, <1>4, <1>6, <2>1 DEF FirstSeen
<1>9. SeenPast'
  BY <1>6 DEF SeenPast
<1> QED
  BY <1>7, <1>8, <1>9 DEF PageInv

LEMMA CountKeeps ==
  ASSUME PageInv, Count \/ Fail
  PROVE  PageInv'
<1>1. PICK st \in {"find", "done", "failed"} :
        /\ query' = [query EXCEPT !.st = st]
        /\ st = "done" => table = {}
  BY DEF Count, Fail
<1>2. UNCHANGED <<table, last, walk>>
  BY DEF Count, Fail
<1>3. /\ PageTypeOK'
      /\ query'.st = st /\ query'.page = query.page /\ query'.size = query.size
      /\ query'.order = query.order
  BY <1>1, <1>2 DEF PageInv, PageTypeOK
<1>4. \A id : Past(id)' <=> Past(id)
  BY <1>2, <1>3 DEF Past
<1>5. Sorted' <=> Sorted
  BY <1>3 DEF Sorted
<1>6. FirstSeen'
  BY <1>1, <1>2, <1>3, <1>4, <1>5 DEF PageInv, FirstSeen
<1>7. SeenPast'
  BY <1>2, <1>3, <1>4, <1>5 DEF PageInv, SeenPast
<1> QED
  BY <1>3, <1>6, <1>7 DEF PageInv

\* SELECT returns rows of the table, and no row before the page or behind it.
LEMMA FindKeeps ==
  ASSUME PageInv, Find
  PROVE  PageInv'
<1>1. PICK offset : offset = Offset(query.page, query.size)
  OBVIOUS
<1>2. PICK list \in PageLists(query.order, offset, query.size) :
        /\ query' = IF list = {} THEN [query EXCEPT !.st = "done"]
                    ELSE [query EXCEPT !.st = "count", !.page = @ + 1]
        /\ walk' = [walk EXCEPT !.seen = @ \union list,
                                !.twice = @ \union (walk.seen \intersect list)]
  BY <1>1 DEF Find
<1>3. UNCHANGED <<table, last>>
  BY DEF Find
<1>4. /\ table \in SUBSET (1..last) /\ last \in Nat
      /\ query \in [st : {"idle", "count", "find", "done", "failed"}, page : Nat \ {0},
                    size : Nat \ {0}, order : {"none", "asc", "desc"}]
      /\ walk \in [first : SUBSET (1..last), seen : SUBSET (1..last),
                   twice : SUBSET (1..last), inserted : BOOLEAN, removed : BOOLEAN]
  BY DEF PageInv, PageTypeOK
<1>5. list \in SUBSET table
  BY <1>2 DEF PageLists
<1>6. PICK page, st :
        /\ page = IF list = {} THEN query.page ELSE query.page + 1
        /\ st = IF list = {} THEN "done" ELSE "count"
  OBVIOUS
<1>6a. /\ page \in Nat \ {0} /\ st \in {"done", "count"}
      /\ query' = [query EXCEPT !.st = st, !.page = page]
  <2>1. query.page \in Nat \ {0}
    BY <1>4
  <2>2. CASE list = {}
    BY <1>2, <1>4, <1>6, <2>1, <2>2
  <2>3. CASE list # {}
    <3>1. page = query.page + 1 /\ st = "count" /\ page \in Nat \ {0}
      BY <1>6, <2>1, <2>3
    <3>2. query' = [query EXCEPT !.st = "count", !.page = @ + 1]
      BY <1>2, <2>3
    <3>3. query' = [query EXCEPT !.st = "count", !.page = query.page + 1]
      BY <1>4, <3>2
    <3> QED
      BY <3>1, <3>3
  <2> QED
    BY <2>2, <2>3
<1>7. /\ query' \in [st : {"idle", "count", "find", "done", "failed"}, page : Nat \ {0},
                     size : Nat \ {0}, order : {"none", "asc", "desc"}]
      /\ query'.page = page /\ query'.st = st /\ query'.size = query.size
      /\ query'.order = query.order
  BY <1>4, <1>6a
<1>8. /\ walk' \in [first : SUBSET (1..last), seen : SUBSET (1..last),
                    twice : SUBSET (1..last), inserted : BOOLEAN, removed : BOOLEAN]
      /\ walk'.first = walk.first /\ walk'.seen = walk.seen \union list
      /\ walk'.twice = walk.twice \union (walk.seen \intersect list)
      /\ walk'.inserted = walk.inserted /\ walk'.removed = walk.removed
  BY <1>2, <1>4, <1>5
<1>9. PageTypeOK'
  BY <1>3, <1>4, <1>7, <1>8 DEF PageTypeOK
<1>10. /\ offset \in Nat /\ query.size \in Nat /\ query.size > 0
       /\ Offset(page, query.size) = IF list = {} THEN offset ELSE offset + query.size
  <2>1. query.page \in Nat \ {0} /\ query.size \in Nat \ {0}
    BY <1>4
  <2>2. CASE list = {}
    BY <1>1, <1>6, <2>1, <2>2, NextOffset
  <2>3. CASE list # {}
    <3>1. page = query.page + 1
      BY <1>6, <2>3
    <3>2. Offset(page, query.size) = offset + query.size /\ offset \in Nat
      BY <1>1, <2>1, <3>1, NextOffset
    <3> QED
      BY <2>1, <2>3, <3>2
  <2> QED
    BY <2>2, <2>3
<1>11. \A id : Past(id)' <=> Place(table, id, query.order) < Offset(page, query.size)
  BY <1>3, <1>7 DEF Past
<1>12. Sorted => list = {id \in table : OnPage(Place(table, id, query.order), offset, query.size)}
  BY <1>2 DEF PageLists, Sorted
<1>13. \A id \in table : Place(table, id, query.order) \in Nat
  <2>1. \A id \in table : id \in Nat
    BY <1>4
  <2> QED
    BY <1>4, <2>1, PlaceGrows
<1>14. ASSUME Sorted, NEW id \in table
       PROVE  Past(id)' <=> Past(id) \/ id \in list
  <2>1. Past(id) <=> Place(table, id, query.order) < offset
    BY <1>1 DEF Past
  <2>2. id \in list <=> /\ offset <= Place(table, id, query.order)
                        /\ Place(table, id, query.order) < offset + query.size
    BY <1>12, <1>14 DEF OnPage
  <2> QED
    BY <1>10, <1>11, <1>13, <2>1, <2>2
<1>15. Sorted /\ list = {} => \A id \in table : Past(id)
  <2> SUFFICES ASSUME Sorted, list = {}, NEW id \in table, ~ Past(id) PROVE FALSE
    OBVIOUS
  <2>1. Place(table, id, query.order) >= offset
    BY <1>1, <1>10, <1>13 DEF Past
  <2>2. PICK m \in table : Place(table, m, query.order) = offset
    <3>1. table \in SUBSET (1..last) /\ last \in Nat /\ offset \in Nat
      BY <1>4, <1>10
    <3> QED
      BY <2>1, <3>1, NoGap
  <2>3. m \in list
    BY <1>10, <1>12, <2>2 DEF OnPage
  <2> QED
    BY <2>3
<1>16. FirstSeen'
  <2> SUFFICES ASSUME Sorted, ~walk.removed
               PROVE  /\ walk.first \subseteq table
                      /\ \A id \in walk.first : Past(id)' => id \in walk.seen \union list
                      /\ st = "done" => walk.first \subseteq walk.seen
    BY <1>3, <1>7, <1>8 DEF FirstSeen, Sorted
  <2>1. walk.first \subseteq table /\ \A id \in walk.first : Past(id) => id \in walk.seen
    BY DEF PageInv, FirstSeen
  <2>2. st = "done" => \A id \in table : Past(id)
    BY <1>6, <1>15
  <2> QED
    BY <1>14, <2>1, <2>2
<1>17. SeenPast'
  <2> SUFFICES ASSUME Sorted, query.order = "asc" \/ ~walk.inserted
               PROVE  /\ walk.twice \union (walk.seen \intersect list) = {}
                      /\ \A id \in table \intersect (walk.seen \union list) : Past(id)'
    BY <1>3, <1>7, <1>8 DEF SeenPast, Sorted
  <2>1. walk.twice = {} /\ \A id \in table \intersect walk.seen : Past(id)
    BY DEF PageInv, SeenPast
  <2>2. ASSUME NEW id \in list PROVE ~ Past(id)
    <3>1. id \in table /\ offset <= Place(table, id, query.order)
      BY <1>5, <1>12 DEF OnPage
    <3>2. Place(table, id, query.order) \in Nat
      BY <1>13, <3>1
    <3> QED
      BY <1>1, <1>10, <3>1, <3>2 DEF Past
  <2> QED
    BY <1>5, <1>14, <2>1, <2>2
<1> QED
  BY <1>9, <1>16, <1>17 DEF PageInv

\* The new row comes last, or before all others.
LEMMA InsertKeeps ==
  ASSUME PageInv, InsertRow
  PROVE  PageInv'
<1>1. /\ table \in SUBSET (1..last) /\ last \in Nat
      /\ query \in [st : {"idle", "count", "find", "done", "failed"}, page : Nat \ {0},
                    size : Nat \ {0}, order : {"none", "asc", "desc"}]
      /\ walk \in [first : SUBSET (1..last), seen : SUBSET (1..last),
                   twice : SUBSET (1..last), inserted : BOOLEAN, removed : BOOLEAN]
  BY DEF PageInv, PageTypeOK
<1>2. /\ table' = table \union {last + 1} /\ last' = last + 1 /\ query' = query
      /\ walk' = [walk EXCEPT !.inserted = TRUE]
  BY DEF InsertRow
<1>3. 1..last \subseteq 1..(last + 1) /\ last + 1 \in 1..(last + 1) /\ last + 1 \in Nat
      /\ last + 1 \notin 1..last
  BY <1>1
<1>4. /\ walk' \in [first : SUBSET (1..last), seen : SUBSET (1..last),
                    twice : SUBSET (1..last), inserted : BOOLEAN, removed : BOOLEAN]
      /\ walk'.first = walk.first /\ walk'.seen = walk.seen /\ walk'.twice = walk.twice
      /\ walk'.inserted = TRUE /\ walk'.removed = walk.removed
  BY <1>1, <1>2
<1>5. PageTypeOK'
  <2>1. walk' \in [first : SUBSET (1..last'), seen : SUBSET (1..last'),
                   twice : SUBSET (1..last'), inserted : BOOLEAN, removed : BOOLEAN]
    BY <1>2, <1>3, <1>4
  <2>2. table' \in SUBSET (1..last')
    BY <1>1, <1>2, <1>3
  <2> QED
    BY <1>1, <1>2, <1>3, <2>1, <2>2 DEF PageTypeOK
<1>6. ASSUME NEW id \in 1..last
      PROVE  /\ Past(id)' => Past(id)
             /\ query.order = "asc" /\ Past(id) => Past(id)'
  <2>1. /\ Place(table, id, query.order) \in Nat /\ Place(table', id, query.order) \in Nat
        /\ Place(table, id, query.order) <= Place(table', id, query.order)
    <3>1. table' \in SUBSET (1..(last + 1)) /\ table \in SUBSET table' /\ id \in Nat
      BY <1>1, <1>2, <1>3
    <3> QED
      BY <1>3, <3>1, PlaceGrows
  <2>2. query.order = "asc" => Place(table', id, query.order) = Place(table, id, query.order)
    <3>1. ~ (last + 1 < id)
      BY <1>1
    <3>2. {j \in table' : j < id} = {j \in table : j < id}
      BY <1>2, <3>1
    <3> QED
      BY <3>2 DEF Place
  <2>3. Offset(query.page, query.size) \in Int
    <3>1. query.page \in Int /\ query.size \in Int
      BY <1>1
    <3> QED
      BY <3>1 DEF Offset
  <2> QED
    BY <1>2, <2>1, <2>2, <2>3 DEF Past
<1>7. FirstSeen'
  <2> SUFFICES ASSUME Sorted, ~walk.removed
               PROVE  /\ walk.first \subseteq table
                      /\ \A id \in walk.first : Past(id)' => id \in walk.seen
                      /\ query.st = "done" => walk.first \subseteq walk.seen
    BY <1>2, <1>4 DEF FirstSeen, Sorted
  <2> QED
    BY <1>1, <1>6 DEF PageInv, FirstSeen
<1>8. SeenPast'
  <2> SUFFICES ASSUME Sorted, query.order = "asc"
               PROVE  /\ walk.twice = {}
                      /\ \A id \in table' \intersect walk.seen : Past(id)'
    BY <1>2, <1>4 DEF SeenPast, Sorted
  <2>1. \A id \in table' \intersect walk.seen : id \in table \intersect walk.seen
    BY <1>1, <1>2, <1>3
  <2> QED
    BY <1>1, <1>6, <2>1 DEF PageInv, SeenPast
<1> QED
  BY <1>5, <1>7, <1>8 DEF PageInv

LEMMA DeleteKeeps ==
  ASSUME PageInv, NEW gone \in table, DeleteRow(gone)
  PROVE  PageInv'
<1>1. /\ table \in SUBSET (1..last) /\ last \in Nat
      /\ query \in [st : {"idle", "count", "find", "done", "failed"}, page : Nat \ {0},
                    size : Nat \ {0}, order : {"none", "asc", "desc"}]
      /\ walk \in [first : SUBSET (1..last), seen : SUBSET (1..last),
                   twice : SUBSET (1..last), inserted : BOOLEAN, removed : BOOLEAN]
  BY DEF PageInv, PageTypeOK
<1>2. /\ table' = table \ {gone} /\ last' = last /\ query' = query
      /\ walk' = [walk EXCEPT !.removed = TRUE]
  BY DEF DeleteRow
<1>3. /\ walk' \in [first : SUBSET (1..last), seen : SUBSET (1..last),
                    twice : SUBSET (1..last), inserted : BOOLEAN, removed : BOOLEAN]
      /\ walk'.seen = walk.seen /\ walk'.twice = walk.twice
      /\ walk'.inserted = walk.inserted /\ walk'.removed = TRUE
  BY <1>1, <1>2
<1>4. PageTypeOK'
  BY <1>1, <1>2, <1>3 DEF PageTypeOK
<1>5. ASSUME NEW id \in table, Past(id)
      PROVE  Past(id)'
  <2>1. /\ Place(table, id, query.order) \in Nat /\ Place(table', id, query.order) \in Nat
        /\ Place(table', id, query.order) <= Place(table, id, query.order)
    <3>1. table' \in SUBSET table /\ id \in Nat
      BY <1>1, <1>2
    <3> QED
      BY <1>1, <3>1, PlaceGrows
  <2>2. Offset(query.page, query.size) \in Int
    <3>1. query.page \in Int /\ query.size \in Int
      BY <1>1
    <3> QED
      BY <3>1 DEF Offset
  <2> QED
    BY <1>2, <1>5, <2>1, <2>2 DEF Past
<1>6. FirstSeen'
  BY <1>3 DEF FirstSeen
<1>7. SeenPast'
  <2> SUFFICES ASSUME Sorted, query.order = "asc" \/ ~walk.inserted
               PROVE  /\ walk.twice = {}
                      /\ \A id \in table' \intersect walk.seen : Past(id)'
    BY <1>2, <1>3 DEF SeenPast, Sorted
  <2> QED
    BY <1>2, <1>5 DEF PageInv, SeenPast
<1> QED
  BY <1>4, <1>6, <1>7 DEF PageInv

LEMMA PageStep == PageInv /\ [Next]_vars => PageInv'
<1> SUFFICES ASSUME PageInv, [Next]_vars PROVE PageInv'
  OBVIOUS
<1>1. CASE UNCHANGED vars
  BY <1>1 DEF vars, PageInv, PageTypeOK, FirstSeen, SeenPast, Past, Sorted
<1>2. CASE Next
  BY <1>2, BeginKeeps, CountKeeps, FindKeeps, InsertKeeps, DeleteKeeps DEF Next
<1> QED
  BY <1>1, <1>2

LEMMA PageAlways == Spec => []PageInv
BY PageInit, PageStep, PTL DEF Spec

(***************************************************************************)
(* A client that walks to the first empty page has seen every row that was *)
(* there when it began, however many were inserted meanwhile, in either    *)
(* direction.                                                              *)
(***************************************************************************)
THEOREM InsertsHide == Spec => []InsertsHideNothing
<1>1. PageInv => InsertsHideNothing
  BY DEF PageInv, FirstSeen, InsertsHideNothing
<1> QED
  BY <1>1, PageAlways, PTL

(***************************************************************************)
(* Whatever is deleted, no row comes on two pages, unless newest come      *)
(* first and a row was inserted.                                           *)
(***************************************************************************)
THEOREM RemovalsRepeat == Spec => []RemovalsRepeatNothing
<1>1. PageInv => RemovalsRepeatNothing
  BY DEF PageInv, SeenPast, RemovalsRepeatNothing
<1> QED
  BY <1>1, PageAlways, PTL

-----------------------------------------------------------------------------
(* ScriptCache.                                                              *)

Call ==
  [st : {"sent", "answered", "over"}, at : {"cached", "load", "run"}, script : Script,
   reply : {"none", "ok", "error", "noscript"}, ran : Nat, resent : 0..MaxScriptResend,
   purged : BOOLEAN]

\* The script ran no more often than it was sent, and EVALSHA answered "ok" is a run.
Counted(e) ==
  /\ e.ran <= 1 + e.resent
  /\ e.st = "sent" \/ e.at = "load" \/ e.reply = "noscript" => e.ran <= e.resent
  /\ e.st # "sent" /\ e.at # "load" /\ e.reply = "ok" => e.ran > 0

\* Where the replies may lead: SCRIPT LOAD does not answer "noscript", the call goes on
\* from "ok" to a load, and from "noscript" to the first EVALSHA.
Answered(e) ==
  /\ e.st # "sent" /\ e.reply = "noscript" => e.at # "load"
  /\ e.st = "over" /\ e.reply = "noscript" => e.at = "run"
  /\ e.st = "over" /\ e.reply = "ok" => e.at # "load"

\* A script this call has had loaded is among held, the scripts Redis holds, or Redis
\* lost it since.
LoadedOrLost(e, held) ==
  /\ e.at = "run" => e.script \in held \/ e.purged
  /\ e.at = "load" /\ e.st = "answered" /\ e.reply = "ok" => e.script \in held \/ e.purged
  /\ e.at = "run" /\ e.st # "sent" /\ e.reply = "noscript" => e.purged

ScriptInv ==
  /\ ScriptTypeOK
  /\ \A g \in Goroutine : Counted(exec[g]) /\ Answered(exec[g])
       /\ LoadedOrLost(exec[g], loaded)

\* A step of one call, after which Redis has all the scripts it had.
LEMMA CallMoves ==
  ASSUME ScriptInv, NEW g \in Goroutine, NEW new \in Call, exec' = [exec EXCEPT ![g] = new],
         cache' \in [Process -> SUBSET Script],
         loaded \subseteq loaded', loaded' \subseteq Script,
         Counted(new), Answered(new), LoadedOrLost(new, loaded')
  PROVE  ScriptInv'
<1>1. exec \in [Goroutine -> Call]
  BY DEF ScriptInv, ScriptTypeOK, Call
<1>2. exec' \in [Goroutine -> Call] /\ exec'[g] = new
      /\ \A h \in Goroutine \ {g} : exec'[h] = exec[h]
  BY <1>1
<1>3. ScriptTypeOK'
  BY <1>2 DEF ScriptTypeOK, Call
<1>4. ASSUME NEW h \in Goroutine
      PROVE  (Counted(exec[h]) /\ Answered(exec[h]) /\ LoadedOrLost(exec[h], loaded))'
  <2>1. CASE h = g
    BY <1>2, <2>1 DEF Counted, Answered, LoadedOrLost
  <2>2. CASE h # g
    <3>1. exec'[h] = exec[h] /\ Counted(exec[h]) /\ Answered(exec[h])
            /\ LoadedOrLost(exec[h], loaded)
      BY <1>2, <2>2 DEF ScriptInv
    <3> QED
      BY <3>1 DEF Counted, Answered, LoadedOrLost
  <2> QED
    BY <2>1, <2>2
<1> QED
  BY <1>3, <1>4 DEF ScriptInv

LEMMA ExecuteKeeps ==
  ASSUME ScriptInv, NEW g \in Goroutine, NEW s \in Script, ExecuteLuaScript(g, s)
  PROVE  ScriptInv'
<1> DEFINE at == IF s \in cache[ProcessOf[g]] THEN "cached" ELSE "load"
           new == [Unstarted(s) EXCEPT !.st = "sent", !.at = at]
<1>0. Unstarted(s) \in Call
  BY ScriptAssumption DEF Call, Unstarted
<1>1. /\ new \in Call /\ new.st = "sent" /\ new.at # "run"
      /\ new.ran = 0 /\ new.resent = 0 /\ new.reply = "none"
  BY <1>0 DEF Call, Unstarted
<1>2. exec' = [exec EXCEPT ![g] = new] /\ UNCHANGED <<cache, loaded>>
  BY DEF ExecuteLuaScript
<1> HIDE DEF new
<1>3. Counted(new) /\ Answered(new) /\ LoadedOrLost(new, loaded')
  BY <1>1 DEF Counted, Answered, LoadedOrLost
<1>4. cache' \in [Process -> SUBSET Script] /\ loaded \subseteq loaded'
        /\ loaded' \subseteq Script
  BY <1>2 DEF ScriptInv, ScriptTypeOK
<1> QED
  BY <1>1, <1>2, <1>3, <1>4, CallMoves

\* A command runs, for the first time or again.
LEMMA RunScriptKeeps ==
  ASSUME ScriptInv, NEW g \in Goroutine, RunCommand(g) \/ RunAgain(g)
  PROVE  ScriptInv'
<1>1. exec \in [Goroutine -> Call] /\ exec[g] \in Call
  BY DEF ScriptInv, ScriptTypeOK, Call
<1>2. Counted(exec[g]) /\ Answered(exec[g]) /\ LoadedOrLost(exec[g], loaded)
  BY DEF ScriptInv
<1>3. PICK lost : /\ RunScript(g, lost) /\ cache' = cache
                  /\ \/ exec[g].st = "sent" /\ lost = exec[g].resent
                     \/ /\ exec[g].st = "answered" /\ lost = exec[g].resent + 1
                        /\ exec[g].resent < MaxScriptResend
  BY DEF RunCommand, RunAgain
<1>4. exec[g].ran \in Nat /\ exec[g].resent \in 0..MaxScriptResend
        /\ MaxScriptResend \in Nat
  BY <1>1, ScriptAssumption DEF Call
<1>5. lost \in 0..MaxScriptResend /\ exec[g].ran <= lost
  BY <1>2, <1>3, <1>4 DEF Counted
<1>6. exec[g].script \in Script /\ loaded \subseteq Script
      /\ cache' \in [Process -> SUBSET Script]
  BY <1>1, <1>3 DEF Call, ScriptInv, ScriptTypeOK
<1>7. ASSUME NEW reply \in {"ok", "error", "noscript"}, Answer(g, lost, reply),
             exec[g].at = "load" => reply # "noscript",
             exec[g].at = "load" => exec[g].script \in loaded',
             exec[g].at # "load" => (reply = "noscript" <=> exec[g].script \notin loaded),
             loaded \subseteq loaded', loaded' \subseteq Script
      PROVE  ScriptInv'
  <2> DEFINE ran == IF exec[g].at # "load" /\ reply # "noscript" THEN exec[g].ran + 1
                                                                ELSE exec[g].ran
             purged == IF exec[g].at = "load" THEN FALSE ELSE exec[g].purged
             new == [exec[g] EXCEPT !.st = "answered", !.reply = reply, !.resent = lost,
                                    !.ran = ran, !.purged = purged]
  <2>1. ran \in Nat /\ ran <= 1 + lost
        /\ (exec[g].at = "load" \/ reply = "noscript" => ran <= lost)
        /\ (exec[g].at # "load" /\ reply = "ok" => ran > 0)
    BY <1>4, <1>5
  <2>2. purged \in BOOLEAN
    BY <1>1 DEF Call
  <2>3. exec' = [exec EXCEPT ![g] = new]
    BY <1>1, <1>7 DEF Answer
  <2> HIDE DEF ran
  <2>4. /\ new \in Call /\ new.st = "answered" /\ new.reply = reply /\ new.resent = lost
        /\ new.ran = ran /\ new.purged = purged
        /\ new.at = exec[g].at /\ new.script = exec[g].script
    BY <1>1, <1>5, <2>1, <2>2 DEF Call
  <2>5. Counted(new)
    BY <2>1, <2>4 DEF Counted
  <2>6. Answered(new)
    BY <1>7, <2>4 DEF Answered
  <2>7. LoadedOrLost(new, loaded')
    <3>1. exec[g].at = "run" => exec[g].script \in loaded \/ exec[g].purged
      BY <1>2 DEF LoadedOrLost
    <3> QED
      BY <1>7, <2>4, <3>1 DEF LoadedOrLost
  <2> HIDE DEF new
  <2> QED
    BY <1>6, <1>7, <2>3, <2>4, <2>5, <2>6, <2>7, CallMoves
<1>8. CASE /\ exec[g].at = "load" /\ loaded' = loaded \union {exec[g].script}
           /\ Answer(g, lost, "ok")
  BY <1>6, <1>7, <1>8
<1>9. CASE /\ exec[g].at # "load" /\ exec[g].script \in loaded
           /\ \E reply \in {"ok", "error"} : Answer(g, lost, reply)
           /\ UNCHANGED loaded
  BY <1>6, <1>7, <1>9
<1>10. CASE /\ exec[g].at # "load" /\ exec[g].script \notin loaded
            /\ Answer(g, lost, "noscript")
            /\ UNCHANGED loaded
  BY <1>6, <1>7, <1>10
<1> QED
  BY <1>3, <1>8, <1>9, <1>10 DEF RunScript

\* The call is told of an error, or reads its reply.
LEMMA ReadKeeps ==
  ASSUME ScriptInv, NEW g \in Goroutine,
         Unreachable(g) \/ ReadCached(g) \/ ReadLoaded(g) \/ ReadRun(g)
  PROVE  ScriptInv'
<1>1. exec \in [Goroutine -> Call] /\ exec[g] \in Call
  BY DEF ScriptInv, ScriptTypeOK, Call
<1>2. Counted(exec[g]) /\ Answered(exec[g]) /\ LoadedOrLost(exec[g], loaded)
  BY DEF ScriptInv
<1>3. loaded' = loaded /\ loaded \subseteq Script
  BY DEF Unreachable, ReadCached, ReadLoaded, ReadRun, ScriptInv, ScriptTypeOK
<1>4. cache' \in [Process -> SUBSET Script]
  BY <1>1, ScriptAssumption
     DEF Unreachable, ReadCached, ReadLoaded, ReadRun, ScriptInv, ScriptTypeOK, Call
<1>5. exec[g].ran \in Nat /\ exec[g].resent \in Nat
  BY <1>1, ScriptAssumption DEF Call
<1>6. CASE Unreachable(g)
  <2> DEFINE new == [exec[g] EXCEPT !.st = "answered", !.reply = "error"]
  <2>1. /\ exec' = [exec EXCEPT ![g] = new]
        /\ new \in Call /\ new.st = "answered" /\ new.reply = "error"
        /\ new.ran = exec[g].ran /\ new.resent = exec[g].resent /\ new.at = exec[g].at
        /\ new.script = exec[g].script /\ new.purged = exec[g].purged
    BY <1>1, <1>6 DEF Unreachable, Call
  <2> HIDE DEF new
  <2>2. Counted(new) /\ Answered(new) /\ LoadedOrLost(new, loaded')
    BY <1>2, <1>3, <1>5, <1>6, <2>1 DEF Counted, Answered, LoadedOrLost
  <2> QED
    BY <1>3, <1>4, <2>1, <2>2, CallMoves
<1>7. ASSUME NEW at \in {"load", "run"}, Send(g, at), exec[g].st = "answered",
             at = "load" => exec[g].reply = "noscript",
             at = "run" => exec[g].at = "load" /\ exec[g].reply = "ok"
      PROVE  ScriptInv'
  <2> DEFINE new == [exec[g] EXCEPT !.st = "sent", !.at = at]
  <2>1. /\ exec' = [exec EXCEPT ![g] = new]
        /\ new \in Call /\ new.st = "sent" /\ new.reply = exec[g].reply
        /\ new.ran = exec[g].ran /\ new.resent = exec[g].resent /\ new.at = at
        /\ new.script = exec[g].script /\ new.purged = exec[g].purged
    BY <1>1, <1>7 DEF Send, Call
  <2> HIDE DEF new
  <2>2. Counted(new) /\ Answered(new) /\ LoadedOrLost(new, loaded')
    BY <1>2, <1>3, <1>5, <1>7, <2>1 DEF Counted, Answered, LoadedOrLost
  <2> QED
    BY <1>3, <1>4, <2>1, <2>2, CallMoves
<1>8. ASSUME Over(g), exec[g].st = "answered",
             exec[g].reply = "noscript" => exec[g].at = "run",
             exec[g].reply = "ok" => exec[g].at # "load"
      PROVE  ScriptInv'
  <2> DEFINE new == [exec[g] EXCEPT !.st = "over"]
  <2>1. /\ exec' = [exec EXCEPT ![g] = new]
        /\ new \in Call /\ new.st = "over" /\ new.reply = exec[g].reply
        /\ new.ran = exec[g].ran /\ new.resent = exec[g].resent /\ new.at = exec[g].at
        /\ new.script = exec[g].script /\ new.purged = exec[g].purged
    BY <1>1, <1>8 DEF Over, Call
  <2> HIDE DEF new
  <2>2. Counted(new) /\ Answered(new) /\ LoadedOrLost(new, loaded')
    BY <1>2, <1>3, <1>5, <1>8, <2>1 DEF Counted, Answered, LoadedOrLost
  <2> QED
    BY <1>3, <1>4, <2>1, <2>2, CallMoves
<1> QED
  BY <1>2, <1>6, <1>7, <1>8 DEF ReadCached, ReadLoaded, ReadRun, Answered

\* Redis loses scripts, and the calls that had loaded one of them are marked.
LEMMA LoseKeeps ==
  ASSUME ScriptInv, NEW lost \in SUBSET loaded, LoseScripts(lost)
  PROVE  ScriptInv'
<1>1. exec \in [Goroutine -> Call] /\ loaded \subseteq Script
      /\ cache \in [Process -> SUBSET Script]
  BY DEF ScriptInv, ScriptTypeOK, Call
<1>2. /\ loaded' = loaded \ lost /\ cache' = cache
      /\ exec' = [g \in Goroutine |->
           IF exec[g].script \in lost THEN [exec[g] EXCEPT !.purged = TRUE] ELSE exec[g]]
  BY DEF LoseScripts
<1>3. ASSUME NEW g \in Goroutine
      PROVE  exec'[g] \in Call
             /\ (Counted(exec[g]) /\ Answered(exec[g]) /\ LoadedOrLost(exec[g], loaded))'
  <2>1. exec[g] \in Call /\ Counted(exec[g]) /\ Answered(exec[g])
          /\ LoadedOrLost(exec[g], loaded)
    BY <1>1 DEF ScriptInv
  <2>2. /\ exec'[g] \in Call
        /\ exec'[g].st = exec[g].st /\ exec'[g].at = exec[g].at
        /\ exec'[g].script = exec[g].script /\ exec'[g].reply = exec[g].reply
        /\ exec'[g].ran = exec[g].ran /\ exec'[g].resent = exec[g].resent
        /\ exec[g].purged \/ exec[g].script \in lost => exec'[g].purged
    BY <1>2, <2>1 DEF Call
  <2> QED
    BY <1>2, <2>1, <2>2 DEF Counted, Answered, LoadedOrLost
<1>4. ScriptTypeOK'
  <2>1. exec' \in [Goroutine -> Call]
    BY <1>2, <1>3
  <2> QED
    BY <1>1, <1>2, <2>1 DEF ScriptTypeOK, Call
<1> QED
  BY <1>3, <1>4 DEF ScriptInv

LEMMA ScriptInitInv == ScriptInit => ScriptInv
<1> SUFFICES ASSUME ScriptInit PROVE ScriptInv
  OBVIOUS
<1>1. ASSUME NEW g \in Goroutine
      PROVE  exec[g] \in Call /\ Counted(exec[g]) /\ Answered(exec[g])
               /\ LoadedOrLost(exec[g], loaded)
  <2>1. PICK s \in Script : exec[g] = Unstarted(s)
    BY <1>1 DEF ScriptInit
  <2> QED
    BY <2>1, ScriptAssumption DEF Unstarted, Call, Counted, Answered, LoadedOrLost
<1>2. exec \in [Goroutine -> Call]
  BY <1>1 DEF ScriptInit
<1> QED
  BY <1>1, <1>2 DEF ScriptInit, ScriptInv, ScriptTypeOK, Call

LEMMA ScriptStep == ScriptInv /\ [ScriptNext]_scriptVars => ScriptInv'
<1> SUFFICES ASSUME ScriptInv, [ScriptNext]_scriptVars PROVE ScriptInv'
  OBVIOUS
<1>1. CASE UNCHANGED scriptVars
  BY <1>1 DEF scriptVars, ScriptInv, ScriptTypeOK, Counted, Answered, LoadedOrLost
<1> QED
  BY <1>1, ExecuteKeeps, RunScriptKeeps, ReadKeeps, LoseKeeps DEF ScriptNext

---------------------------------------------------------------------------
\* A call fails with NOSCRIPT only when Redis lost the script after this call had it
\* loaded.
THEOREM NoScript == ScriptSpec => []NoScriptIsJustified
<1>1. ScriptInv => NoScriptIsJustified
  BY DEF ScriptInv, Answered, LoadedOrLost, NoScriptIsJustified
<1> QED
  BY <1>1, ScriptInitInv, ScriptStep, PTL DEF ScriptSpec

\* A script runs at most once for each time a command of the call is sent, and a result
\* is the result of a run.
THEOREM RunsAsReported == ScriptSpec => []RunsOnceAsReported
<1>1. ScriptInv => RunsOnceAsReported
  BY DEF ScriptInv, Counted, Answered, RunsOnceAsReported
<1> QED
  BY <1>1, ScriptInitInv, ScriptStep, PTL DEF ScriptSpec

-----------------------------------------------------------------------------
(***************************************************************************)
(* Tree, for any lists.  The first loop makes nodeMap give, for the nodes  *)
(* seen, the last one with an id, and leaves no children behind; the       *)
(* second hangs the nodes seen under their parents, in order.              *)
(***************************************************************************)

TreeTypeOK ==
  /\ nodes \in Seq([id : Int, parent : Int])
  /\ children \in [DOMAIN nodes -> Seq(Nat)]
  /\ roots \in Seq(Nat)
  /\ loop \in {"index", "attach", "done"}
  /\ next \in Nat
  /\ loop # "done" => next \in DOMAIN nodes

\* nodeMap gives the last of the first n nodes that has an id.
Indexed(n) ==
  /\ \A j \in 1..n : nodes[j].id \in DOMAIN nodeMap
  /\ \A id \in DOMAIN nodeMap :
       /\ nodeMap[id] \in 1..n /\ nodes[nodeMap[id]].id = id
       /\ \A j \in 1..n : nodes[j].id = id => j <= nodeMap[id]

\* The first n nodes are where they belong, in order, and no others.
Attached(n) ==
  /\ ToSet(roots) = {i \in 1..n : nodes[i].parent = 0}
  /\ Ascending(roots)
  /\ \A p \in DOMAIN nodes :
       ToSet(children[p]) = {i \in 1..n : IsParent(p, i)} /\ Ascending(children[p])

TreeInv ==
  /\ TreeTypeOK
  /\ loop = "index" =>
       /\ roots = <<>> /\ Indexed(next - 1)
       /\ \A i \in 1..(next - 1) : children[i] = <<>>
  /\ loop = "attach" => Indexed(Len(nodes)) /\ Attached(next - 1)
  /\ loop = "done" => Attached(Len(nodes))

\* A later number at the end leaves a list ascending.
LEMMA AppendAscends ==
  ASSUME NEW list \in Seq(Nat), NEW n \in Nat, Ascending(list), \A i \in ToSet(list) : i < n
  PROVE  /\ Append(list, n) \in Seq(Nat)
         /\ ToSet(Append(list, n)) = ToSet(list) \union {n}
         /\ Ascending(Append(list, n))
<1> DEFINE longer == Append(list, n)
<1>1. /\ longer \in Seq(Nat) /\ Len(longer) = Len(list) + 1 /\ Len(list) \in Nat
      /\ \A a \in 1..Len(list) : longer[a] = list[a]
      /\ longer[Len(list) + 1] = n
      /\ DOMAIN list = 1..Len(list) /\ DOMAIN longer = 1..(Len(list) + 1)
  OBVIOUS
<1> HIDE DEF longer
<1>2. ToSet(longer) = ToSet(list) \union {n}
  BY <1>1 DEF ToSet
<1>3. Ascending(longer)
  <2>1. \A a \in 1..Len(list) : list[a] < n
    BY <1>1 DEF ToSet
  <2>2. \A a, b \in 1..Len(list) : a < b => longer[a] < longer[b]
    BY <1>1 DEF Ascending
  <2>3. \A a \in 1..Len(list) : longer[a] < longer[Len(list) + 1]
    BY <1>1, <2>1
  <2>4. \A a, b \in 1..(Len(list) + 1) : a < b =>
          a \in 1..Len(list) /\ (b \in 1..Len(list) \/ b = Len(list) + 1)
    BY <1>1
  <2> QED
    BY <1>1, <2>2, <2>3, <2>4 DEF Ascending
<1> QED
  BY <1>1, <1>2, <1>3 DEF longer

LEMMA EmptyAscends == ToSet(<<>>) = {} /\ Ascending(<<>>)
  BY DEF ToSet, Ascending

LEMMA TreeInitInv == TreeInit => TreeInv
<1> SUFFICES ASSUME TreeInit PROVE TreeInv
  OBVIOUS
<1>1. TreeTypeOK
  BY DEF TreeInit, TreeTypeOK
<1>2. 1..0 = {} /\ Len(<<>>) = 0
  OBVIOUS
<1>3. Attached(0) /\ Len(nodes) = 0
  BY <1>2, EmptyAscends DEF TreeInit, Attached
<1> QED
  BY <1>1, <1>3 DEF TreeInv, TreeInit

\* A call begins.
LEMMA BuildTreeInv ==
  ASSUME TreeInv, NEW list \in NodeList, NEW usedBefore \in BOOLEAN,
         BuildTree(list, usedBefore)
  PROVE  TreeInv'
<1>1. list \in Seq([id : Int, parent : Int])
  BY TreeAssumption
<1>2. TreeTypeOK'
  <2>1. children' \in [DOMAIN list -> Seq(Nat)]
    BY DEF TreeInv, TreeTypeOK, BuildTree
  <2>2. list # <<>> => 1 \in DOMAIN list
    BY <1>1
  <2> QED
    BY <1>1, <2>1, <2>2 DEF BuildTree, TreeTypeOK
<1>3. CASE list = <<>>
  <2>1. 1..0 = {} /\ Len(<<>>) = 0 /\ DOMAIN <<>> = {}
    OBVIOUS
  <2>2. Attached(0)' /\ Len(nodes') = 0
    BY <1>3, <2>1, EmptyAscends DEF BuildTree, Attached
  <2>3. loop' = "done"
    BY <1>3 DEF BuildTree
  <2> QED
    BY <1>2, <2>2, <2>3 DEF TreeInv
<1>4. CASE list # <<>>
  <2>1. next' = 1 /\ loop' = "index" /\ roots' = <<>> /\ nodeMap' = NoNode
    BY <1>4 DEF BuildTree
  <2>2. Indexed(0)'
    BY <2>1 DEF Indexed, NoNode
  <2>3. 1 - 1 = 0 /\ 1..0 = {}
    OBVIOUS
  <2> QED
    BY <1>2, <2>1, <2>2, <2>3 DEF TreeInv
<1> QED
  BY <1>3, <1>4

\* The two ways to go on.
LEMMA Advancing ==
  ASSUME TreeTypeOK, loop # "done", NEW following, Advance(following)
  PROVE  /\ Len(nodes) \in Nat /\ next \in Nat /\ 1 <= next /\ next <= Len(nodes)
         /\ \/ next = Len(nodes) /\ loop' = following /\ next' = 1
            \/ next < Len(nodes) /\ loop' = loop /\ next' = next + 1
  BY DEF TreeTypeOK, Advance

\* The first loop goes on.
LEMMA IndexNodeInv ==
  ASSUME TreeInv, IndexNode
  PROVE  TreeInv'
<1>1. /\ TreeTypeOK /\ Indexed(next - 1) /\ roots = <<>> /\ loop = "index"
      /\ \A i \in 1..(next - 1) : children[i] = <<>>
      /\ nodes' = nodes /\ roots' = roots
  BY DEF TreeInv, IndexNode
<1>2. /\ Len(nodes) \in Nat /\ next \in Nat /\ 1 <= next /\ next <= Len(nodes)
  BY <1>1, Advancing DEF IndexNode
<1>3. \/ next = Len(nodes) /\ loop' = "attach" /\ next' = 1
      \/ next < Len(nodes) /\ loop' = "index" /\ next' = next + 1
  BY <1>1, Advancing DEF IndexNode
<1>4. DOMAIN nodes = 1..Len(nodes)
  BY <1>1 DEF TreeTypeOK
<1>5. /\ children' \in [DOMAIN nodes -> Seq(Nat)]
      /\ \A i \in 1..next : children'[i] = <<>>
  <2>1. /\ children \in [DOMAIN nodes -> Seq(Nat)] /\ next \in DOMAIN nodes
        /\ children' = [children EXCEPT ![next] = <<>>]
    BY <1>4, <1>1, <1>2 DEF IndexNode, Reset, TreeTypeOK
  <2>2. /\ children' \in [DOMAIN nodes -> Seq(Nat)]
        /\ \A i \in DOMAIN nodes : children'[i] = IF i = next THEN <<>> ELSE children[i]
    BY <2>1
  <2>3. \A i \in 1..next : i \in DOMAIN nodes /\ (i = next \/ i \in 1..(next - 1))
    BY <1>4, <1>2
  <2> QED
    BY <1>1, <2>2, <2>3
<1>6. /\ \A j \in 1..next : nodes[j].id \in DOMAIN nodeMap'
      /\ \A id \in DOMAIN nodeMap' :
           /\ nodeMap'[id] \in 1..next /\ nodes[nodeMap'[id]].id = id
           /\ \A j \in 1..next : nodes[j].id = id => j <= nodeMap'[id]
  <2>1. \A j \in 1..next : nodes[j].id \in DOMAIN nodeMap'
    BY <1>1, <1>2 DEF IndexNode, Indexed
  <2> SUFFICES ASSUME NEW id \in DOMAIN nodeMap'
               PROVE  /\ nodeMap'[id] \in 1..next /\ nodes[nodeMap'[id]].id = id
                      /\ \A j \in 1..next : nodes[j].id = id => j <= nodeMap'[id]
    BY <2>1
  <2>2. CASE id = nodes[next].id
    BY <1>1, <1>2, <2>2 DEF IndexNode, Indexed
  <2>3. CASE id # nodes[next].id
    BY <1>1, <1>2, <2>3 DEF IndexNode, Indexed
  <2> QED
    BY <2>2, <2>3
<1>7. TreeTypeOK'
  <2>1. next' \in Nat /\ next' \in 1..Len(nodes)
    BY <1>2, <1>3
  <2>2. loop' \in {"index", "attach"}
    BY <1>3
  <2> QED
    BY <1>4, <1>1, <1>5, <2>1, <2>2 DEF TreeTypeOK
<1>8. CASE next = Len(nodes)
  <2>1. 1..0 = {} /\ 1 - 1 = 0
    OBVIOUS
  <2>2. \A p \in DOMAIN nodes' : children'[p] = <<>>
    BY <1>4, <1>1, <1>2, <1>5, <1>8
  <2>3. Attached(0)'
    BY <1>1, <2>1, <2>2, EmptyAscends DEF Attached
  <2>4. Indexed(Len(nodes))'
    BY <1>1, <1>6, <1>8 DEF Indexed
  <2> QED
    BY <1>2, <1>3, <1>7, <1>8, <2>1, <2>3, <2>4 DEF TreeInv
<1>9. CASE next < Len(nodes)
  <2>1. next' - 1 = next /\ loop' = "index"
    BY <1>2, <1>3, <1>9
  <2>2. Indexed(next - 1)'
    BY <1>1, <1>6, <2>1 DEF Indexed
  <2> QED
    BY <1>1, <1>5, <1>7, <2>1, <2>2 DEF TreeInv
<1> QED
  BY <1>3, <1>8, <1>9
\* nodeMap finds the parent, if there is one.
LEMMA Lookup ==
  ASSUME TreeTypeOK, Indexed(Len(nodes)), NEW i \in DOMAIN nodes, NEW p \in DOMAIN nodes
  PROVE  IsParent(p, i) <=>
           nodes[i].parent # 0 /\ nodes[i].parent \in DOMAIN nodeMap
             /\ p = nodeMap[nodes[i].parent]
<1>1. DOMAIN nodes = 1..Len(nodes) /\ Len(nodes) \in Nat
  BY DEF TreeTypeOK
<1>2. ASSUME IsParent(p, i)
      PROVE  /\ nodes[i].parent # 0 /\ nodes[i].parent \in DOMAIN nodeMap
             /\ p = nodeMap[nodes[i].parent]
  <2>1. /\ nodes[i].parent # 0 /\ nodes[p].id = nodes[i].parent
        /\ \A q \in DOMAIN nodes : nodes[q].id = nodes[i].parent => q <= p
    BY <1>2 DEF IsParent
  <2>2. nodes[i].parent \in DOMAIN nodeMap
    BY <1>1, <2>1 DEF Indexed
  <2> DEFINE m == nodeMap[nodes[i].parent]
  <2>3. m \in 1..Len(nodes) /\ m <= p /\ p <= m
    BY <1>1, <2>1, <2>2 DEF Indexed
  <2> QED
    BY <1>1, <2>1, <2>2, <2>3
<1>3. ASSUME nodes[i].parent # 0, nodes[i].parent \in DOMAIN nodeMap,
             p = nodeMap[nodes[i].parent]
      PROVE  IsParent(p, i)
  BY <1>1, <1>3 DEF Indexed, IsParent
<1> QED
  BY <1>2, <1>3

\* The second loop goes on.
LEMMA AttachNodeInv ==
  ASSUME TreeInv, AttachNode
  PROVE  TreeInv'
<1>1. /\ TreeTypeOK /\ Indexed(Len(nodes)) /\ Attached(next - 1) /\ loop = "attach"
      /\ nodes' = nodes /\ nodeMap' = nodeMap
  BY DEF TreeInv, AttachNode
<1>2. /\ Len(nodes) \in Nat /\ next \in Nat /\ 1 <= next /\ next <= Len(nodes)
  BY <1>1, Advancing DEF AttachNode
<1>3. \/ next = Len(nodes) /\ loop' = "done" /\ next' = 1
      \/ next < Len(nodes) /\ loop' = "attach" /\ next' = next + 1
  BY <1>1, Advancing DEF AttachNode
<1>4. DOMAIN nodes = 1..Len(nodes) /\ next \in DOMAIN nodes
  BY <1>1 DEF TreeTypeOK
<1>5. \A i \in 1..next : i \in 1..(next - 1) \/ i = next
  BY <1>2
<1>6. \A i \in 1..(next - 1) : i \in 1..next /\ i < next
  BY <1>2
<1>7. next \in 1..next
  BY <1>2
<1> DEFINE parent == nodes[next].parent
<1>8. \A p \in DOMAIN nodes :
        IsParent(p, next) <=> parent # 0 /\ parent \in DOMAIN nodeMap /\ p = nodeMap[parent]
  BY <1>1, <1>4, Lookup
<1>9. /\ roots \in Seq(Nat) /\ Ascending(roots) /\ \A i \in ToSet(roots) : i < next
      /\ ToSet(roots) = {i \in 1..(next - 1) : nodes[i].parent = 0}
  BY <1>1, <1>6 DEF Attached, TreeTypeOK
<1>10. \A p \in DOMAIN nodes :
         /\ children[p] \in Seq(Nat) /\ Ascending(children[p])
         /\ \A i \in ToSet(children[p]) : i < next
         /\ ToSet(children[p]) = {i \in 1..(next - 1) : IsParent(p, i)}
  BY <1>1, <1>6 DEF Attached, TreeTypeOK
<1> HIDE DEF parent
<1>11. /\ roots' \in Seq(Nat) /\ Ascending(roots')
       /\ ToSet(roots') = {i \in 1..next : nodes[i].parent = 0}
  <2>1. CASE parent = 0
    <3>1. roots' = Append(roots, next)
      BY <2>1 DEF AttachNode, parent
    <3>2. /\ roots' \in Seq(Nat) /\ Ascending(roots')
          /\ ToSet(roots') = ToSet(roots) \union {next}
      BY <1>2, <1>9, <3>1, AppendAscends
    <3> QED
      BY <1>5, <1>6, <1>7, <1>9, <2>1, <3>2 DEF parent
  <2>2. CASE parent # 0
    <3>1. roots' = roots
      BY <2>2 DEF AttachNode, parent
    <3> QED
      BY <1>5, <1>6, <1>9, <2>2, <3>1 DEF parent
  <2> QED
    BY <2>1, <2>2
<1>12. /\ children' \in [DOMAIN nodes -> Seq(Nat)]
       /\ \A p \in DOMAIN nodes :
            Ascending(children'[p]) /\ ToSet(children'[p]) = {i \in 1..next : IsParent(p, i)}
  <2>1. CASE parent # 0 /\ parent \in DOMAIN nodeMap
    <3> DEFINE m == nodeMap[parent]
    <3>1. /\ children' = [children EXCEPT ![m] = Append(@, next)]
          /\ children \in [DOMAIN nodes -> Seq(Nat)]
      BY <1>1, <2>1 DEF AttachNode, parent, TreeTypeOK
    <3>2. m \in DOMAIN nodes
      BY <1>1, <1>4, <2>1 DEF Indexed
    <3> HIDE DEF m
    <3>3. /\ Append(children[m], next) \in Seq(Nat) /\ Ascending(Append(children[m], next))
          /\ ToSet(Append(children[m], next)) = ToSet(children[m]) \union {next}
      BY <1>2, <1>10, <3>2, AppendAscends
    <3>4. /\ children' \in [DOMAIN nodes -> Seq(Nat)]
          /\ \A p \in DOMAIN nodes :
               children'[p] = IF p = m THEN Append(children[m], next) ELSE children[p]
      BY <3>1, <3>2, <3>3
    <3>5. ASSUME NEW p \in DOMAIN nodes
          PROVE  /\ Ascending(children'[p])
                 /\ ToSet(children'[p]) = {i \in 1..next : IsParent(p, i)}
      <4>1. IsParent(p, next) <=> p = m
        BY <1>8, <2>1 DEF m
      <4>2. CASE p = m
        BY <1>5, <1>6, <1>7, <1>10, <3>2, <3>3, <3>4, <4>1, <4>2
      <4>3. CASE p # m
        BY <1>5, <1>6, <1>10, <3>4, <4>1, <4>3
      <4> QED
        BY <4>2, <4>3
    <3> QED
      BY <3>4, <3>5
  <2>2. CASE ~ (parent # 0 /\ parent \in DOMAIN nodeMap)
    <3>1. children' = children /\ children \in [DOMAIN nodes -> Seq(Nat)]
      BY <1>1, <2>2 DEF AttachNode, parent, TreeTypeOK
    <3>2. \A p \in DOMAIN nodes : ~ IsParent(p, next)
      BY <1>8, <2>2
    <3> QED
      BY <1>5, <1>6, <1>10, <3>1, <3>2
  <2> QED
    BY <2>1, <2>2
<1>13. /\ ToSet(roots') = {i \in 1..next : nodes'[i].parent = 0} /\ Ascending(roots')
       /\ \A p \in DOMAIN nodes' :
            ToSet(children'[p]) = {i \in 1..next : IsParent(p, i)'} /\ Ascending(children'[p])
  BY <1>1, <1>11, <1>12 DEF IsParent
<1>14. TreeTypeOK'
  <2>1. next' \in Nat /\ next' \in 1..Len(nodes)
    BY <1>2, <1>3
  <2>2. loop' \in {"attach", "done"}
    BY <1>3
  <2> QED
    BY <1>1, <1>4, <1>11, <1>12, <2>1, <2>2 DEF TreeTypeOK
<1>15. Indexed(Len(nodes))'
  BY <1>1 DEF Indexed
<1>16. CASE next = Len(nodes)
  <2>1. Attached(Len(nodes))'
    BY <1>1, <1>13, <1>16 DEF Attached
  <2>2. loop' = "done"
    BY <1>2, <1>3, <1>16
  <2> QED
    BY <1>14, <2>1, <2>2 DEF TreeInv
<1>17. CASE next < Len(nodes)
  <2>1. next' - 1 = next /\ loop' = "attach"
    BY <1>2, <1>3, <1>17
  <2>2. Attached(next - 1)'
    BY <1>13, <2>1 DEF Attached
  <2> QED
    BY <1>14, <1>15, <2>1, <2>2 DEF TreeInv
<1> QED
  BY <1>3, <1>16, <1>17

\* In a finished tree the children of p are the nodes whose parent it is.
LEMMA Finished ==
  ASSUME TreeInv, loop = "done"
  PROVE  /\ DOMAIN nodes = 1..Len(nodes)
         /\ ToSet(roots) = {i \in DOMAIN nodes : nodes[i].parent = 0}
         /\ Ascending(roots)
         /\ \A p \in DOMAIN nodes :
              ToSet(children[p]) = {i \in DOMAIN nodes : IsParent(p, i)} /\ Ascending(children[p])
<1>1. TreeTypeOK /\ Attached(Len(nodes))
  BY DEF TreeInv
<1>2. DOMAIN nodes = 1..Len(nodes)
  BY <1>1 DEF TreeTypeOK
<1> QED
  BY <1>1, <1>2 DEF Attached

\* A parent is the last node with its id, and so there is one.
LEMMA OneParent ==
  ASSUME TreeInv, loop = "done"
  PROVE  OnePlace
<1>1. \A p, q, i \in DOMAIN nodes : IsParent(p, i) /\ IsParent(q, i) => p = q
  <2>1. DOMAIN nodes \subseteq Nat
    BY Finished DEF TreeInv, TreeTypeOK
  <2> QED
    BY <2>1 DEF IsParent
<1>2. \A p, i \in DOMAIN nodes : IsParent(p, i) => nodes[i].parent # 0
  BY DEF IsParent
<1> QED
  BY <1>1, <1>2, Finished DEF OnePlace

\* Down from the roots by children and up to a root by parents are the same nodes.
LEMMA ShownIsRooted ==
  ASSUME TreeInv, loop = "done"
  PROVE  Shown = Rooted
<1>1. ASSUME NEW S \in SUBSET DOMAIN nodes
      PROVE  ToSet(roots) \subseteq S /\ (\A p \in S : ToSet(children[p]) \subseteq S) <=>
               \A j \in DOMAIN nodes :
                 nodes[j].parent = 0 \/ (\E p \in S : IsParent(p, j)) => j \in S
  BY Finished
<1> QED
  BY <1>1 DEF Shown, Rooted

\* What is shown has its children shown.
LEMMA ShownIsClosed ==
  ASSUME TreeInv, loop = "done"
  PROVE  /\ Shown \subseteq DOMAIN nodes /\ ToSet(roots) \subseteq Shown
         /\ \A p \in Shown : ToSet(children[p]) \subseteq Shown
  BY Finished DEF Shown

\* Without the nodes of a circle, what is shown would still have all roots and all
\* children: no node of a circle is a root, or the child of a node outside.
LEMMA NothingCircles ==
  ASSUME TreeInv, loop = "done"
  PROVE  NoCircle
<1> SUFFICES ASSUME NEW S \in SUBSET Shown,
                    \A i \in S : \E p \in S : i \in ToSet(children[p])
             PROVE  S = {}
  BY DEF NoCircle
<1> DEFINE T == Shown \ S
<1>1. /\ Shown \subseteq DOMAIN nodes /\ ToSet(roots) \subseteq Shown
      /\ \A p \in Shown : ToSet(children[p]) \subseteq Shown
  BY ShownIsClosed
<1>2. OnePlace
  BY OneParent
<1>3. ToSet(roots) \subseteq T
  BY <1>1, <1>2 DEF OnePlace
<1>4. \A p \in T : ToSet(children[p]) \subseteq T
  BY <1>1, <1>2 DEF OnePlace
<1>5. T \in SUBSET DOMAIN nodes
  BY <1>1
<1> HIDE DEF T
<1>6. Shown \subseteq T
  BY <1>3, <1>4, <1>5 DEF Shown
<1> QED
  BY <1>6 DEF T

\* BuildTree shows each node whose parents lead to a root in one place, in order and
\* without circles, and no other: for all lists of nodes, in any number of calls.
THEOREM TreesAreSound == TreeSpec => []TreeIsSound
<1>1. TreeInit => TreeInv
  BY TreeInitInv
<1>2. TreeInv /\ [TreeNext]_treeVars => TreeInv'
  <2> SUFFICES ASSUME TreeInv, [TreeNext]_treeVars PROVE TreeInv'
    OBVIOUS
  <2>1. CASE \E list \in NodeList, usedBefore \in BOOLEAN : BuildTree(list, usedBefore)
    BY <2>1, BuildTreeInv
  <2>2. CASE IndexNode
    BY <2>2, IndexNodeInv
  <2>3. CASE AttachNode
    BY <2>3, AttachNodeInv
  <2>4. CASE UNCHANGED treeVars
    BY <2>4 DEF treeVars, TreeInv, TreeTypeOK, Indexed, Attached, IsParent
  <2> QED
    BY <2>1, <2>2, <2>3, <2>4 DEF TreeNext
<1>3. TreeInv => TreeIsSound
  BY Finished, ShownIsRooted, OneParent, NothingCircles DEF TreeIsSound
<1> QED
  BY <1>1, <1>2, <1>3, PTL DEF TreeSpec

-----------------------------------------------------------------------------
(***************************************************************************)
(* Money, for every amount and every number of units in a cent.            *)
(***************************************************************************)

LEMMA Units == Cent \in Nat /\ Cent > 0 /\ Int64 \in Nat /\ Int64 > 0
BY MoneyAssumption

\* A product with a positive factor grows with the other.
LEMMA Grows ==
  ASSUME NEW d \in Nat, NEW a \in Int, NEW b \in Int, a <= b
  PROVE  d * a \in Int /\ d * b \in Int /\ d * a <= d * b
<1>1. PICK n \in Nat : n = b - a
  OBVIOUS
<1>2. d * n \in Nat
  OBVIOUS
<1>3. d * b = d * a + d * n
  BY <1>1
<1>4. d * a \in Int
  OBVIOUS
<1> QED
  BY <1>2, <1>3, <1>4

\* What a whole number of ds can be, if it is small.
LEMMA Multiples ==
  ASSUME NEW d \in Nat, d > 0, NEW k \in Int
  PROVE  /\ -d <= 2 * (d * k) /\ 2 * (d * k) <= d => k = 0
         /\ -3 * d <= 2 * (d * k) /\ 2 * (d * k) <= 3 * d => -d <= d * k /\ d * k <= d
<1>1. d * k \in Int /\ d * 1 = d /\ d * 2 = 2 * d /\ d * (-1) = -d /\ d * (-2) = -(2 * d)
  OBVIOUS
<1>2. CASE k = 0
  BY <1>1, <1>2
<1>3. CASE k = 1 \/ k = -1
  BY <1>1, <1>3
<1>4. CASE k >= 2
  <2>1. d * 2 <= d * k
    BY <1>4, Grows
  <2> QED
    BY <1>1, <2>1
<1>5. CASE k <= -2
  <2>1. d * k <= d * (-2)
    BY <1>5, Grows
  <2> QED
    BY <1>1, <2>1
<1> QED
  BY <1>2, <1>3, <1>4, <1>5

LEMMA Quotient ==
  ASSUME NEW n \in Int, NEW d \in Nat, d > 0
  PROVE  /\ n \div d \in Int
         /\ d * (n \div d) <= n
         /\ n < d * (n \div d) + d
OBVIOUS

\* The nearest whole number is off by half at most, and a whole number is its own.
LEMMA Nearest ==
  ASSUME NEW n \in Int, NEW d \in Nat, d > 0
  PROVE  /\ HalfAway(n, d) \in Int
         /\ -d <= 2 * (d * HalfAway(n, d) - n)
         /\ 2 * (d * HalfAway(n, d) - n) <= d
<1>1. CASE n >= 0
  <2>1. PICK q \in Int : q = (2 * n + d) \div (2 * d)
    BY Quotient
  <2>2. (2 * d) * q <= 2 * n + d /\ 2 * n + d < (2 * d) * q + 2 * d
    BY <2>1, Quotient
  <2>3. (2 * d) * q = 2 * (d * q) /\ d * q \in Int
    OBVIOUS
  <2>4. HalfAway(n, d) = q
    BY <1>1, <2>1 DEF HalfAway
  <2> QED
    BY <2>2, <2>3, <2>4
<1>2. CASE n < 0
  <2>1. PICK q \in Int : q = (2 * (-n) + d) \div (2 * d)
    BY Quotient
  <2>2. (2 * d) * q <= 2 * (-n) + d /\ 2 * (-n) + d < (2 * d) * q + 2 * d
    BY <2>1, Quotient
  <2>3. (2 * d) * q = 2 * (d * q) /\ d * q \in Int /\ d * (-q) = -(d * q)
    OBVIOUS
  <2>4. HalfAway(n, d) = -q
    BY <1>2, <2>1 DEF HalfAway
  <2> QED
    BY <2>2, <2>3, <2>4
<1> QED
  BY <1>1, <1>2

LEMMA WholeIsNearest ==
  ASSUME NEW k \in Int, NEW d \in Nat, d > 0
  PROVE  HalfAway(d * k, d) = k
<1>1. d * k \in Int
  OBVIOUS
<1>2. PICK q \in Int : q = HalfAway(d * k, d)
  BY <1>1, Nearest
<1>3. -d <= 2 * (d * q - d * k) /\ 2 * (d * q - d * k) <= d
  BY <1>1, <1>2, Nearest
<1>4. d * q - d * k = d * (q - k)
  OBVIOUS
<1>5. q - k = 0
  BY <1>3, <1>4, Multiples
<1> QED
  BY <1>2, <1>5

LEMMA ToCent ==
  ASSUME NEW x \in Int
  PROVE  /\ \E k \in Int : RoundToCent(x) = Cent * k
         /\ RoundToCent(x) \in Int
         /\ -Cent <= 2 * (RoundToCent(x) - x) /\ 2 * (RoundToCent(x) - x) <= Cent
<1>1. HalfAway(x, Cent) \in Int
  BY Units, Nearest
<1>2. RoundToCent(x) = Cent * HalfAway(x, Cent)
  BY DEF RoundToCent
<1>3. Cent * HalfAway(x, Cent) \in Int
  BY <1>1, Units
<1> QED
  BY <1>1, <1>2, <1>3, Units, Nearest

LEMMA CentsStay ==
  ASSUME NEW k \in Int
  PROVE  RoundToCent(Cent * k) = Cent * k
BY Units, WholeIsNearest DEF RoundToCent

(***************************************************************************)
(* A settlement pays out the rounded total, for any two shares and any     *)
(* mode: the residual is a cent at most, and nobody is off by more than    *)
(* the half cent of the rounding and the residual he takes.                *)
(***************************************************************************)
THEOREM SettlementIsExact ==
  ASSUME NEW userShare \in Int, NEW platformShare \in Int, NEW mode
  PROVE  SettlementExact(userShare, platformShare, mode)
<1>1. PICK u \in Int : RoundToCent(userShare) = Cent * u
  BY ToCent
<1>2. PICK p \in Int : RoundToCent(platformShare) = Cent * p
  BY ToCent
<1>3. PICK t \in Int : RoundToCent(userShare + platformShare) = Cent * t
  BY ToCent
<1>4. /\ Cent * u \in Int /\ Cent * p \in Int /\ Cent * t \in Int /\ Cent \in Int
      /\ -Cent <= 2 * (Cent * u - userShare) /\ 2 * (Cent * u - userShare) <= Cent
      /\ -Cent <= 2 * (Cent * p - platformShare) /\ 2 * (Cent * p - platformShare) <= Cent
      /\ -Cent <= 2 * (Cent * t - (userShare + platformShare))
      /\ 2 * (Cent * t - (userShare + platformShare)) <= Cent
  BY <1>1, <1>2, <1>3, ToCent, Units
<1>5. PICK left \in Int : left = Cent * t - (Cent * u + Cent * p)
  BY <1>4
<1>6. left = Cent * (t - u - p)
  BY <1>4, <1>5, Units
<1>7. -Cent <= left /\ left <= Cent
  <2>1. -3 * Cent <= 2 * left /\ 2 * left <= 3 * Cent
    BY <1>4, <1>5
  <2>2. t - u - p \in Int
    OBVIOUS
  <2> QED
    BY <1>6, <2>1, <2>2, Units, Multiples
<1>8. /\ RoundToCent(Cent * u + left) = Cent * u + left
      /\ RoundToCent(Cent * p + left) = Cent * p + left
  <2>1. /\ Cent * u + left = Cent * (t - p) /\ t - p \in Int
        /\ Cent * p + left = Cent * (t - u) /\ t - u \in Int
    BY <1>5, Units
  <2> QED
    BY <2>1, CentsStay
<1>9. Rounded(userShare, platformShare) =
        [user |-> Cent * u, platform |-> Cent * p, residual |-> left]
  BY <1>1, <1>2, <1>3, <1>5 DEF Rounded
<1>10. CASE mode = "allocate_to_user"
  <2>1. PICK s : /\ s = SettleUserPlatform(userShare, platformShare, mode)
                 /\ s.user = Cent * u + left /\ s.platform = Cent * p /\ s.residual = 0
    <3>1. PICK r \in [user : Int, platform : Int, residual : Int] :
            /\ r = Rounded(userShare, platformShare)
            /\ r.user = Cent * u /\ r.platform = Cent * p /\ r.residual = left
      BY <1>4, <1>9
    <3>2. PICK x : x = Cent * u + left
      OBVIOUS
    <3>3. RoundToCent(r.user + r.residual) = x
      <4>1. RoundToCent(x) = x
        BY <1>8, <3>2
      <4>2. r.user + r.residual = x
        BY <3>1, <3>2
      <4> QED
        BY <4>1, <4>2
    <3>4. SettleUserPlatform(userShare, platformShare, mode) =
            [r EXCEPT !.user = x, !.residual = 0]
      BY <1>10, <3>1, <3>3 DEF SettleUserPlatform
    <3> QED
      BY <3>1, <3>2, <3>4
  <2>2. /\ Cent * u + left + Cent * p + 0 = Cent * t
        /\ -Cent <= 0 /\ 0 <= Cent
        /\ -(3 * Cent) <= 2 * (Cent * u + left) - 2 * userShare
        /\ 2 * (Cent * u + left) - 2 * userShare <= 3 * Cent
        /\ -Cent <= 2 * (Cent * p) - 2 * platformShare
        /\ 2 * (Cent * p) - 2 * platformShare <= Cent
    BY <1>4, <1>5, <1>7, Units
  <2>3. /\ Near(0, 0, Cent)
        /\ Near(2 * (Cent * u + left), 2 * userShare, 3 * Cent)
        /\ Near(2 * (Cent * p), 2 * platformShare, Cent)
    BY <1>4, <1>5, <2>2 DEF Near
  <2> QED
    BY <1>3, <1>10, <2>1, <2>2, <2>3 DEF SettlementExact
<1>11. CASE mode = "allocate_to_platform"
  <2>1. PICK s : /\ s = SettleUserPlatform(userShare, platformShare, mode)
                 /\ s.user = Cent * u /\ s.platform = Cent * p + left /\ s.residual = 0
    <3>1. PICK r \in [user : Int, platform : Int, residual : Int] :
            /\ r = Rounded(userShare, platformShare)
            /\ r.user = Cent * u /\ r.platform = Cent * p /\ r.residual = left
      BY <1>4, <1>9
    <3>2. PICK x : x = Cent * p + left
      OBVIOUS
    <3>3. RoundToCent(r.platform + r.residual) = x
      <4>1. RoundToCent(x) = x
        BY <1>8, <3>2
      <4>2. r.platform + r.residual = x
        BY <3>1, <3>2
      <4> QED
        BY <4>1, <4>2
    <3>4. SettleUserPlatform(userShare, platformShare, mode) =
            [r EXCEPT !.platform = x, !.residual = 0]
      BY <1>11, <3>1, <3>3 DEF SettleUserPlatform
    <3> QED
      BY <3>1, <3>2, <3>4
  <2>2. /\ Cent * u + (Cent * p + left) + 0 = Cent * t
        /\ -Cent <= 0 /\ 0 <= Cent
        /\ -Cent <= 2 * (Cent * u) - 2 * userShare
        /\ 2 * (Cent * u) - 2 * userShare <= Cent
        /\ -(3 * Cent) <= 2 * (Cent * p + left) - 2 * platformShare
        /\ 2 * (Cent * p + left) - 2 * platformShare <= 3 * Cent
    BY <1>4, <1>5, <1>7, Units
  <2>3. /\ Near(0, 0, Cent)
        /\ Near(2 * (Cent * u), 2 * userShare, Cent)
        /\ Near(2 * (Cent * p + left), 2 * platformShare, 3 * Cent)
    BY <1>4, <1>5, <2>2 DEF Near
  <2> QED
    BY <1>3, <1>11, <2>1, <2>2, <2>3 DEF SettlementExact
<1>12. CASE mode \notin {"allocate_to_user", "allocate_to_platform"}
  <2>1. SettleUserPlatform(userShare, platformShare, mode) =
          [user |-> Cent * u, platform |-> Cent * p, residual |-> left]
    BY <1>9, <1>12 DEF SettleUserPlatform
  <2> QED
    BY <1>3, <1>4, <1>5, <1>7, <1>12, <2>1 DEF SettlementExact, Near
<1> QED
  BY <1>10, <1>11, <1>12

(***************************************************************************)
(* Whole cents that an int64 can count survive the way to minor units and  *)
(* back.                                                                   *)
(***************************************************************************)
THEOREM MinorUnitsSurvive ==
  ASSUME NEW x \in Int
  PROVE  MinorUnitsReturn(x)
<1> SUFFICES ASSUME x % Cent = 0, -Int64 <= x \div Cent, x \div Cent < Int64
             PROVE  FromMinorUnits(ToMinorUnits(x)) = x
  BY DEF MinorUnitsReturn
<1>1. PICK k \in Int : k = x \div Cent
  BY Units, Quotient
<1>2. x = Cent * k
  BY <1>1, Units
<1>3. HalfAway(x, Cent) = k
  BY <1>2, Units, WholeIsNearest
<1>4. (k + Int64) % (2 * Int64) = k + Int64
  <2>1. 0 <= k + Int64 /\ k + Int64 < 2 * Int64 /\ 2 * Int64 > 0
    BY <1>1, Units
  <2>2. ASSUME NEW n \in Nat, NEW w \in Nat, n < w PROVE n % w = n
    <3>1. n \div w \in Int /\ w * (n \div w) <= n /\ n < w * (n \div w) + w
      BY <2>2, Quotient
    <3>2. n = w * (n \div w) + (n % w)
      BY <2>2
    <3>3. CASE n \div w >= 1
      <4>1. w * 1 <= w * (n \div w)
        BY <3>1, <3>3, Grows
      <4> QED
        BY <2>2, <3>1, <4>1
    <3>4. CASE n \div w <= -1
      <4>1. w * (n \div w) <= w * (-1)
        BY <3>1, <3>4, Grows
      <4> QED
        BY <3>1, <4>1
    <3>5. CASE n \div w = 0
      BY <2>2, <3>2, <3>5
    <3> QED
      BY <3>1, <3>3, <3>4, <3>5
  <2> QED
    BY <1>1, <2>1, <2>2, Units
<1>5. ToMinorUnits(x) = k
  BY <1>1, <1>3, <1>4, Units DEF ToMinorUnits
<1> QED
  BY <1>2, <1>5, Units DEF FromMinorUnits

LEMMA UpAndDown ==
  ASSUME NEW x \in Int
  PROVE  /\ RoundUpToCent(x) \in Int /\ x <= RoundUpToCent(x) /\ RoundUpToCent(x) < x + Cent
         /\ RoundDownToCent(x) \in Int /\ RoundDownToCent(x) <= x
         /\ x < RoundDownToCent(x) + Cent
<1>1. PICK q \in Int : q = x \div Cent
  BY Units, Quotient
<1>2. PICK r \in Int : r = (-x) \div Cent
  BY Units, Quotient
<1>3. /\ Cent * q \in Int /\ Cent * q <= x /\ x < Cent * q + Cent
      /\ Cent * r \in Int /\ Cent * r <= -x /\ -x < Cent * r + Cent
  BY <1>1, <1>2, Units, Quotient
<1>4. RoundUpToCent(x) = -(Cent * r) /\ RoundDownToCent(x) = Cent * q
  BY <1>1, <1>2 DEF RoundUpToCent, RoundDownToCent
<1> QED
  BY <1>3, <1>4, Units

\* The quotient is the number whose multiple is the last one not above n.
LEMMA QuotientIs ==
  ASSUME NEW n \in Int, NEW d \in Nat, d > 0, NEW k \in Int, d * k <= n, n < d * k + d
  PROVE  n \div d = k
<1>1. PICK q \in Int : q = n \div d /\ d * q <= n /\ n < d * q + d
  BY Quotient
<1>2. d * (k + 1) = d * k + d /\ d * (q + 1) = d * q + d
  OBVIOUS
<1>3. d * k \in Int /\ d * q \in Int
  OBVIOUS
<1>4. CASE q >= k + 1
  <2>1. d * (k + 1) <= d * q
    BY <1>4, Grows
  <2> QED
    BY <1>1, <1>2, <1>3, <2>1
<1>5. CASE q + 1 <= k
  <2>1. d * (q + 1) <= d * k
    BY <1>5, Grows
  <2> QED
    BY <1>1, <1>2, <1>3, <2>1
<1> QED
  BY <1>1, <1>4, <1>5

\* Downwards is towards zero for what is not negative, and a cent less for the rest that
\* is not of whole cents.
LEMMA DownBySign ==
  ASSUME NEW x \in Int
  PROVE  DownAsSaid(x)
<1>1. PICK q \in Int : q = x \div Cent /\ Cent * q <= x /\ x < Cent * q + Cent
  BY Units, Quotient
<1>2. /\ Cent * q \in Int /\ Cent * (-q) = -(Cent * q)
      /\ Cent * (-q - 1) = -(Cent * q) - Cent
  BY Units
<1>3. RoundDownToCent(x) = Cent * q
  BY <1>1 DEF RoundDownToCent
<1>4. x % Cent = 0 <=> x = Cent * q
  BY <1>1, Units
<1>5. CASE x >= 0
  BY <1>1, <1>3, <1>5 DEF DownAsSaid, CutTowardsZero
<1>6. CASE x < 0 /\ x = Cent * q
  <2>1. Cent * (-q) <= -x /\ -x < Cent * (-q) + Cent
    BY <1>2, <1>6, Units
  <2>2. (-x) \div Cent = -q
    BY <2>1, Units, QuotientIs
  <2> QED
    BY <1>2, <1>3, <1>4, <1>6, <2>2 DEF DownAsSaid, CutTowardsZero
<1>7. CASE x < 0 /\ x # Cent * q
  <2>1. Cent * (-q - 1) <= -x /\ -x < Cent * (-q - 1) + Cent
    BY <1>1, <1>2, <1>7, Units
  <2>2. (-x) \div Cent = -q - 1
    BY <2>1, Units, QuotientIs
  <2>3. CutTowardsZero(x) = Cent * q + Cent
    BY <1>2, <1>7, <2>2, Units DEF CutTowardsZero
  <2> QED
    BY <1>2, <1>3, <1>4, <1>7, <2>3, Units DEF DownAsSaid
<1> QED
  BY <1>5, <1>6, <1>7

(***************************************************************************)
(* A quotient is off by half of the last place and by what the rule adds,  *)
(* in the direction of the rule; downwards is towards zero, as the comment *)
(* of the code has it, when the quotient is not negative, and otherwise    *)
(* away from it.                                                           *)
(***************************************************************************)
THEOREM DivisionIsNear ==
  ASSUME NEW numerator \in Int, NEW denominator \in Int \ {0}, NEW rule
  PROVE  DivisionNear(numerator, denominator, rule)
<1>1. PICK d \in Nat : d = IF denominator > 0 THEN denominator ELSE -denominator
  OBVIOUS
<1>2. PICK n \in Int :
        n = (IF denominator > 0 THEN numerator ELSE -numerator) * One
  BY Units DEF One
<1>3. d > 0
  BY <1>1
<1>4. PICK q \in Int : q = HalfAway(n, d)
  BY <1>3, Nearest
<1>5. /\ DivRound(numerator, denominator) = q
      /\ DivideAmount(numerator, denominator, rule) = Rounding(rule, q)
  <2>1. CASE denominator > 0
    BY <1>1, <1>2, <1>4, <2>1 DEF DivRound, DivideAmount
  <2>2. CASE ~ (denominator > 0)
    <3>1. -numerator * One = (-numerator) * One
      BY Units DEF One
    <3> QED
      BY <1>1, <1>2, <1>4, <2>2, <3>1 DEF DivRound, DivideAmount
  <2> QED
    BY <2>1, <2>2
<1>6. PICK r \in Int : r = Rounding(rule, q)
  BY ToCent, UpAndDown DEF Rounding
<1>7. PICK e \in Int : e = r - q
  OBVIOUS
<1>8. PICK f \in Int : f = 2 * (d * q - n)
  OBVIOUS
<1>9. -d <= f /\ f <= d
  BY <1>3, <1>4, <1>8, Nearest
<1>10. 2 * (r * d - n) = d * (2 * e) + f
  BY <1>7, <1>8
<1>11. /\ 2 * (r * d - n) \in Int /\ d * (2 * Cent) = (2 * Cent) * d
       /\ (2 * Cent + 1) * d = (2 * Cent) * d + d /\ (Cent + 1) * d = Cent * d + d
       /\ d * Cent = Cent * d /\ d * (-Cent) = -(Cent * d)
       /\ d * (2 * Cent - 2) = (2 * Cent) * d - 2 * d
       /\ d * (2 - 2 * Cent) = 2 * d - (2 * Cent) * d
       /\ Cent * d \in Int /\ (2 * Cent) * d \in Int /\ d * (2 * e) \in Int
  BY Units
<1>12. PICK off \in Int : off = 2 * (r * d - n)
  BY <1>11
<1>13. CASE rule = "up"
  <2>1. 0 <= 2 * e /\ 2 * e <= 2 * Cent - 2
    BY <1>6, <1>7, <1>13, Units, UpAndDown DEF Rounding
  <2>2. d * 0 <= d * (2 * e) /\ d * (2 * e) <= d * (2 * Cent - 2)
    BY <2>1, Units, Grows
  <2>3. -d <= off /\ off < (2 * Cent + 1) * d
    BY <1>3, <1>9, <1>10, <1>11, <1>12, <2>2
  <2> QED
    BY <1>1, <1>2, <1>5, <1>6, <1>12, <1>13, <2>3 DEF DivisionNear
<1>14. CASE rule = "down"
  <2>1. 2 - 2 * Cent <= 2 * e /\ 2 * e <= 0
    BY <1>6, <1>7, <1>14, Units, UpAndDown DEF Rounding
  <2>2. d * (2 - 2 * Cent) <= d * (2 * e) /\ d * (2 * e) <= d * 0
    BY <2>1, Units, Grows
  <2>3. -((2 * Cent + 1) * d) < off /\ off <= d
    BY <1>3, <1>9, <1>10, <1>11, <1>12, <2>2
  <2>4. -(2 * Cent + 1) * d = -((2 * Cent + 1) * d)
    BY Units
  <2> QED
    BY <1>1, <1>2, <1>5, <1>6, <1>12, <1>14, <2>3, <2>4, DownBySign DEF DivisionNear
<1>15. CASE rule \notin {"up", "down"}
  <2>1. -Cent <= 2 * e /\ 2 * e <= Cent
    BY <1>6, <1>7, <1>15, Units, ToCent DEF Rounding
  <2>2. d * (-Cent) <= d * (2 * e) /\ d * (2 * e) <= d * Cent
    BY <2>1, Units, Grows
  <2>3. -((Cent + 1) * d) <= off - 0 /\ off - 0 <= (Cent + 1) * d
    BY <1>3, <1>9, <1>10, <1>11, <1>12, <2>2
  <2> QED
    BY <1>1, <1>2, <1>5, <1>6, <1>12, <1>15, <2>3 DEF DivisionNear, Near
<1> QED
  BY <1>13, <1>14, <1>15

-----------------------------------------------------------------------------
(***************************************************************************)
(* Filter, for every value and every cell.                                 *)
(***************************************************************************)

\* The filters with a known operator whose values are in Value.
FilterOf(Value) ==
  [field : {"x"}, op : Operator, shape : {"number", "text", "list"}, value : Value]

\* A filter that is alone decides, if it is usable.
LEMMA PassesAlone ==
  ASSUME NEW f, NEW cell, f.field = "x"
  PROVE  Passes(f, cell) <=> (Usable(f) => filterToScope(f, cell))
BY DEF Passes, ToScopes

\* A filter with another operator, or a part of one.
LEMMA Variant ==
  ASSUME NEW Value, NEW f \in FilterOf(Value), NEW op, NEW shape, NEW value
  PROVE  LET g == [f EXCEPT !.op = op]
             h == [f EXCEPT !.op = op, !.shape = shape, !.value = value]
         IN  /\ g.field = "x" /\ g.op = op /\ g.shape = f.shape /\ g.value = f.value
             /\ h.field = "x" /\ h.op = op /\ h.shape = shape /\ h.value = value
BY DEF FilterOf

\* What each operator asks of a row.
LEMMA Asks ==
  ASSUME NEW f, NEW cell
  PROVE  /\ f.op = "is_null" => (filterToScope(f, cell) <=> cell = Null)
         /\ f.op = "is_not_null" => (filterToScope(f, cell) <=> cell # Null)
         /\ f.op = "eq" => (filterToScope(f, cell) <=> Equal(cell, f.value))
         /\ f.op = "neq" => (filterToScope(f, cell) <=> Differ(cell, f.value))
         /\ f.op = "gt" => (filterToScope(f, cell) <=> Below(f.value, cell))
         /\ f.op = "gte" => (filterToScope(f, cell) <=> AtMost(f.value, cell))
         /\ f.op = "lt" => (filterToScope(f, cell) <=> Below(cell, f.value))
         /\ f.op = "lte" => (filterToScope(f, cell) <=> AtMost(cell, f.value))
         /\ f.op = "between" => (filterToScope(f, cell) <=> Between(cell, f.value))
         /\ f.op = "not_between" => (filterToScope(f, cell) <=> Outside(cell, f.value))
         /\ f.op = "in" =>
              (filterToScope(f, cell) <=> \E i \in DOMAIN f.value : Equal(cell, f.value[i]))
         /\ f.op = "not_in" => (filterToScope(f, cell) <=> DiffersFromAll(cell, f.value))
         /\ f.op \in {"like", "starts_with", "ends_with"} =>
              (filterToScope(f, cell) <=> cell # Null /\ Like(cell, Pattern(f.op, f.value)))
         /\ f.op = "not_like" =>
              (filterToScope(f, cell) <=> cell # Null /\ ~Like(cell, Pattern("like", f.value)))
<1>1. Pattern("not_like", f.value) = Pattern("like", f.value)
  BY DEF Pattern
<1> QED
  BY <1>1 DEF filterToScope

\* The conditions PostgreSQL takes: it orders numbers, and looks for a cell in a list.
Typed(f, cell) ==
  /\ f.op \in {"gt", "lt"} => f.value \in Int \union {Null} /\ cell \in Int \union {Null}
  /\ f.shape = "list" => f.value \in Seq(Int \union {Null})
  /\ f.op = "between" /\ f.shape = "list" => cell \in Int \union {Null}
  /\ f.op = "in" => f.shape = "list"

\* An order of two numbers that may be Null.
LEMMA NumbersOrNull ==
  ASSUME NEW x \in Int \union {Null}, NEW y \in Int \union {Null}
  PROVE  /\ ~(AtMost(x, y) /\ Below(y, x))
         /\ x # Null /\ y # Null => AtMost(x, y) \/ Below(y, x)
         /\ x = Null \/ y = Null => ~AtMost(x, y) /\ ~Below(y, x)
<1>1. CASE x \in Int /\ y \in Int
  BY <1>1, NullAssumption DEF AtMost, Below, Equal
<1>2. CASE x = Null \/ y = Null
  BY <1>2 DEF AtMost, Below, Equal
<1> QED
  BY <1>1, <1>2

\* Of an operator and its complement a row passes one at most, one of them if Null takes
\* no part, and none if the cell is Null.
LEMMA Opposites ==
  ASSUME NEW f, NEW co, NEW cell, Typed(f, cell), Usable(f),
         f.op \in DOMAIN Complement, co.op = Complement[f.op], co.value = f.value
  PROVE  /\ ~(filterToScope(f, cell) /\ filterToScope(co, cell))
         /\ f.op = "is_null" \/ WithoutNull(f, cell)
              => filterToScope(f, cell) \/ filterToScope(co, cell)
         /\ f.op # "is_null" /\ cell = Null
              => ~filterToScope(f, cell) /\ ~filterToScope(co, cell)
<1>1. CASE f.op = "eq" /\ co.op = "neq"
  BY <1>1, Asks DEF Equal, Differ, WithoutNull
<1>2. CASE f.op = "gt" /\ co.op = "lte"
  <2>1. f.value \in Int \union {Null} /\ cell \in Int \union {Null}
    BY <1>2 DEF Typed
  <2> QED
    BY <1>2, <2>1, Asks, NumbersOrNull DEF WithoutNull
<1>3. CASE f.op = "lt" /\ co.op = "gte"
  <2>1. f.value \in Int \union {Null} /\ cell \in Int \union {Null}
    BY <1>3 DEF Typed
  <2> QED
    BY <1>3, <2>1, Asks, NumbersOrNull DEF WithoutNull
<1>4. CASE f.op = "between" /\ co.op = "not_between"
  <2>1. /\ f.shape = "list" /\ Len(f.value) >= 2 /\ f.value \in Seq(Int \union {Null})
        /\ cell \in Int \union {Null}
    BY <1>4 DEF Typed, Usable, RangeOp
  <2>2. PICK value \in Seq(Int \union {Null}) : value = f.value
    BY <2>1
  <2>3. 1 \in DOMAIN value /\ 2 \in DOMAIN value
    BY <2>1, <2>2
  <2>4. PICK low \in Int \union {Null}, high \in Int \union {Null} :
          low = value[1] /\ high = value[2]
    <3>1. value[1] \in Int \union {Null} /\ value[2] \in Int \union {Null}
      BY <2>3
    <3> QED
      BY <3>1
  <2>5. /\ filterToScope(f, cell) <=> AtMost(low, cell) /\ AtMost(cell, high)
        /\ filterToScope(co, cell) <=> Below(cell, low) \/ Below(high, cell)
    BY <1>4, <2>2, <2>4, Asks DEF Between, Outside
  <2>6. WithoutNull(f, cell) => cell # Null /\ low # Null /\ high # Null
    BY <2>1, <2>2, <2>3, <2>4 DEF WithoutNull
  <2> QED
    BY <1>4, <2>1, <2>5, <2>6, NumbersOrNull
<1>5. CASE f.op = "like" /\ co.op = "not_like"
  BY <1>5, Asks DEF WithoutNull
<1>6. CASE f.op = "in" /\ co.op = "not_in"
  <2>1. f.shape = "list"
    BY <1>6 DEF Typed
  <2>2. /\ filterToScope(f, cell) <=> \E i \in DOMAIN f.value : Equal(cell, f.value[i])
        /\ filterToScope(co, cell)
             <=> /\ f.value # <<>>
                 /\ \A i \in DOMAIN f.value : Differ(cell, f.value[i])
    BY <1>6, Asks DEF DiffersFromAll
  <2>3. WithoutNull(f, cell) =>
          /\ cell # Null /\ f.value # <<>>
          /\ \A i \in DOMAIN f.value : f.value[i] # Null
    BY <2>1 DEF WithoutNull
  <2>4. f.op # "is_null"
    BY <1>6
  <2>5. f.value # <<>> => \E i \in DOMAIN f.value : TRUE
    <3>1. f.value \in Seq(Int \union {Null})
      BY <2>1 DEF Typed
    <3>2. f.value # <<>> => Len(f.value) > 0 /\ Len(f.value) \in Nat
      BY <3>1
    <3>3. f.value # <<>> => 1 \in DOMAIN f.value
      BY <3>1, <3>2
    <3> QED
      BY <3>3
  <2> QED
    BY <2>2, <2>3, <2>4, <2>5, Zenon DEF Equal, Differ
<1>7. CASE f.op = "is_null" /\ co.op = "is_not_null"
  BY <1>7, Asks
<1> QED
  BY <1>1, <1>2, <1>3, <1>4, <1>5, <1>6, <1>7 DEF Complement

\* A filter and its complement show no row twice and leave none out but for Null, for
\* every value and cell: of numbers where they are ordered, in lists with Nulls as well.
THEOREM ComplementsSplit ==
  ASSUME NEW Value, NEW f \in FilterOf(Value), NEW cell, Typed(f, cell)
  PROVE  SplitsRows(f, cell)
<1>1. ASSUME f.op \in DOMAIN Complement, NEW co, co = [f EXCEPT !.op = Complement[f.op]]
      PROVE  /\ Usable(f) <=> Usable(co)
             /\ Usable(f) =>
                  /\ ~(Passes(f, cell) /\ Passes(co, cell))
                  /\ f.op = "is_null" \/ WithoutNull(f, cell)
                       => Passes(f, cell) \/ Passes(co, cell)
                  /\ f.op # "is_null" /\ cell = Null => ~Passes(f, cell) /\ ~Passes(co, cell)
  <2>1. /\ co.op = Complement[f.op] /\ co.value = f.value /\ co.shape = f.shape
        /\ f.field = "x" /\ co.field = "x"
    BY <1>1, Variant DEF FilterOf
  <2>2. /\ Passes(f, cell) <=> (Usable(f) => filterToScope(f, cell))
        /\ Passes(co, cell) <=> (Usable(co) => filterToScope(co, cell))
    BY <2>1, PassesAlone
  <2>3. Usable(f) <=> Usable(co)
    <3>1. \/ f.op = "eq" /\ co.op = "neq"
          \/ f.op = "gt" /\ co.op = "lte"
          \/ f.op = "lt" /\ co.op = "gte"
          \/ f.op = "between" /\ co.op = "not_between"
          \/ f.op = "like" /\ co.op = "not_like"
          \/ f.op = "in" /\ co.op = "not_in"
          \/ f.op = "is_null" /\ co.op = "is_not_null"
      BY <1>1, <2>1 DEF Complement
    <3> QED
      BY <2>1, <3>1 DEF Usable, Operator, TextOp, RangeOp, NullOp
  <2>4. Usable(f) =>
          /\ ~(filterToScope(f, cell) /\ filterToScope(co, cell))
          /\ f.op = "is_null" \/ WithoutNull(f, cell)
               => filterToScope(f, cell) \/ filterToScope(co, cell)
          /\ f.op # "is_null" /\ cell = Null
               => ~filterToScope(f, cell) /\ ~filterToScope(co, cell)
    BY <1>1, <2>1, Opposites
  <2> QED
    BY <2>2, <2>3, <2>4
<1> QED
  BY <1>1 DEF SplitsRows

\* What a list stands for is what its elements stand for, Null or not, whatever they and
\* the cell are.
THEOREM ListsAreTheirParts ==
  ASSUME NEW Value, NEW f \in FilterOf(Seq(Value)), NEW cell
  PROVE  IsItsParts(f, cell)
<1> DEFINE whole(op) == [f EXCEPT !.op = op]
           part(op, i) == [f EXCEPT !.op = op, !.shape = "number", !.value = f.value[i]]
<1> SUFFICES ASSUME f.shape = "list"
             PROVE  /\ Len(f.value) >= 2 =>
                         /\ Passes(whole("between"), cell)
                              <=> Passes(part("gte", 1), cell) /\ Passes(part("lte", 2), cell)
                         /\ Passes(whole("not_between"), cell)
                              <=> Passes(part("lt", 1), cell) \/ Passes(part("gt", 2), cell)
                    /\ Passes(whole("in"), cell)
                         <=> \E i \in DOMAIN f.value : Passes(part("eq", i), cell)
                    /\ Passes(whole("not_in"), cell)
                         <=> f.value # <<>> /\ \A i \in DOMAIN f.value : Passes(part("neq", i), cell)
                    /\ (\E i \in DOMAIN f.value : f.value[i] = Null)
                         => ~Passes(whole("not_in"), cell)
  BY DEF IsItsParts
<1>1. ASSUME NEW op \in {"eq", "neq", "gt", "gte", "lt", "lte"}, NEW i
      PROVE  /\ part(op, i).op = op /\ part(op, i).value = f.value[i]
             /\ Passes(part(op, i), cell) <=> filterToScope(part(op, i), cell)
  <2>1. part(op, i).field = "x" /\ part(op, i).op = op /\ part(op, i).value = f.value[i]
    BY Variant
  <2>2. Usable(part(op, i))
    BY <2>1 DEF Usable, Operator, TextOp, RangeOp
  <2> QED
    BY <2>1, <2>2, PassesAlone
<1>2. ASSUME NEW op \in {"in", "not_in", "between", "not_between"},
             op \in RangeOp => Len(f.value) >= 2
      PROVE  /\ whole(op).op = op /\ whole(op).value = f.value
             /\ Passes(whole(op), cell) <=> filterToScope(whole(op), cell)
  <2>1. /\ whole(op).field = "x" /\ whole(op).op = op /\ whole(op).value = f.value
        /\ whole(op).shape = "list"
    BY Variant
  <2>2. Usable(whole(op))
    BY <1>2, <2>1 DEF Usable, Operator, TextOp, RangeOp
  <2> QED
    BY <2>1, <2>2, PassesAlone
<1> HIDE DEF whole, part
<1>3. ASSUME NEW i
      PROVE  /\ Passes(part("eq", i), cell) <=> Equal(cell, f.value[i])
             /\ Passes(part("neq", i), cell) <=> Differ(cell, f.value[i])
             /\ Passes(part("gt", i), cell) <=> Below(f.value[i], cell)
             /\ Passes(part("gte", i), cell) <=> AtMost(f.value[i], cell)
             /\ Passes(part("lt", i), cell) <=> Below(cell, f.value[i])
             /\ Passes(part("lte", i), cell) <=> AtMost(cell, f.value[i])
  BY <1>1, Asks
<1>4. /\ Passes(whole("in"), cell) <=> \E i \in DOMAIN f.value : Equal(cell, f.value[i])
      /\ Passes(whole("not_in"), cell) <=> DiffersFromAll(cell, f.value)
  BY <1>2, Asks DEF RangeOp
<1>5. Len(f.value) >= 2 =>
        /\ Passes(whole("between"), cell) <=> Between(cell, f.value)
        /\ Passes(whole("not_between"), cell) <=> Outside(cell, f.value)
  BY <1>2, Asks
<1> QED
  BY <1>3, <1>4, <1>5 DEF Between, Outside, DiffersFromAll, Differ

\* What the patterns of the three operators look like.
LEMMA Patterns ==
  ASSUME NEW A, NEW value \in Seq(A)
  PROVE  LET n == Len(value)
             like == Pattern("like", value)
             prefix == Pattern("starts_with", value)
             suffix == Pattern("ends_with", value)
         IN  /\ n \in Nat
             /\ Len(like) = n + 2 /\ like[1] = "%" /\ like[n + 2] = "%"
             /\ \A j \in 1..n : like[j + 1] = value[j]
             /\ Len(prefix) = n + 1 /\ prefix[n + 1] = "%"
             /\ \A j \in 1..n : prefix[j] = value[j]
             /\ Len(suffix) = n + 1 /\ suffix[1] = "%"
             /\ \A j \in 1..n : suffix[j + 1] = value[j]
<1> DEFINE B == A \union {"%"}
           one == <<"%">>
<1>1. one \in Seq(B) /\ Len(one) = 1 /\ one[1] = "%" /\ value \in Seq(B) /\ Len(value) \in Nat
  OBVIOUS
<1>2. /\ Pattern("like", value) = (one \o value) \o one
      /\ Pattern("starts_with", value) = (<<>> \o value) \o one
      /\ Pattern("ends_with", value) = (one \o value) \o <<>>
  BY DEF Pattern
<1>3. <<>> \in Seq(B) /\ Len(<<>>) = 0
  OBVIOUS
<1> HIDE DEF B, one
<1>4. /\ one \o value \in Seq(B) /\ Len(one \o value) = Len(value) + 1
      /\ \A i \in 1..(Len(value) + 1) : (one \o value)[i] = IF i <= 1 THEN one[i] ELSE value[i - 1]
  <2>1. /\ one \o value \in Seq(B) /\ Len(one \o value) = Len(one) + Len(value)
        /\ \A i \in 1..(Len(one) + Len(value)) :
             (one \o value)[i] = IF i <= Len(one) THEN one[i] ELSE value[i - Len(one)]
    BY <1>1, ConcatProperties
  <2>2. Len(one) + Len(value) = Len(value) + 1
    BY <1>1
  <2> QED
    BY <1>1, <2>1, <2>2
<1>5. <<>> \o value = value /\ (one \o value) \o <<>> = one \o value
  BY <1>1, <1>4, ConcatEmptySeq
<1> DEFINE front == one \o value
           both == front \o one
           back == value \o one
<1> HIDE DEF front, both, back
<1>6. /\ Len(front) = Len(value) + 1 /\ front[1] = "%" /\ front \in Seq(B)
      /\ \A j \in 1..Len(value) : front[j + 1] = value[j]
  <2>1. front[1] = "%"
    BY <1>1, <1>4 DEF front
  <2>2. ASSUME NEW j \in 1..Len(value) PROVE front[j + 1] = value[j]
    <3>1. j + 1 \in 1..(Len(value) + 1) /\ ~ (j + 1 <= 1) /\ (j + 1) - 1 = j
      BY <1>1
    <3> QED
      BY <1>4, <3>1 DEF front
  <2> QED
    BY <1>4, <2>1, <2>2 DEF front
<1>7. /\ Len(both) = Len(value) + 2 /\ both[1] = "%" /\ both[Len(value) + 2] = "%"
      /\ \A j \in 1..Len(value) : both[j + 1] = value[j]
  <2>1. /\ Len(both) = Len(front) + Len(one)
        /\ \A i \in 1..(Len(front) + Len(one)) :
             both[i] = IF i <= Len(front) THEN front[i] ELSE one[i - Len(front)]
    BY <1>1, <1>6, ConcatProperties DEF both
  <2>2. \A i \in 1..(Len(value) + 2) :
          both[i] = IF i <= Len(value) + 1 THEN front[i] ELSE one[i - (Len(value) + 1)]
    <3>1. Len(front) + Len(one) = Len(value) + 2
      BY <1>1, <1>6
    <3> QED
      BY <1>6, <2>1, <3>1
  <2>3. both[1] = "%"
    <3>1. 1 \in 1..(Len(value) + 2) /\ 1 <= Len(value) + 1
      BY <1>1
    <3> QED
      BY <1>6, <2>2, <3>1
  <2>4. both[Len(value) + 2] = "%"
    <3>1. /\ Len(value) + 2 \in 1..(Len(value) + 2) /\ ~ (Len(value) + 2 <= Len(value) + 1)
          /\ (Len(value) + 2) - (Len(value) + 1) = 1
      BY <1>1
    <3> QED
      BY <1>1, <2>2, <3>1
  <2>5. ASSUME NEW j \in 1..Len(value) PROVE both[j + 1] = value[j]
    <3>1. j + 1 \in 1..(Len(value) + 2) /\ j + 1 <= Len(value) + 1
      BY <1>1
    <3> QED
      BY <1>6, <2>2, <3>1
  <2>6. Len(both) = Len(value) + 2
    BY <1>1, <1>6, <2>1
  <2> QED
    BY <2>3, <2>4, <2>5, <2>6
<1>8. /\ Len(back) = Len(value) + 1 /\ back[Len(value) + 1] = "%"
      /\ \A j \in 1..Len(value) : back[j] = value[j]
  <2>1. /\ Len(back) = Len(value) + 1
        /\ \A i \in 1..(Len(value) + 1) :
             back[i] = IF i <= Len(value) THEN value[i] ELSE one[i - Len(value)]
    <3>1. /\ Len(back) = Len(value) + Len(one)
          /\ \A i \in 1..(Len(value) + Len(one)) :
               back[i] = IF i <= Len(value) THEN value[i] ELSE one[i - Len(value)]
      BY <1>1, ConcatProperties DEF back
    <3>2. Len(value) + Len(one) = Len(value) + 1
      BY <1>1
    <3> QED
      BY <3>1, <3>2
  <2>2. back[Len(value) + 1] = "%"
    <3>1. /\ Len(value) + 1 \in 1..(Len(value) + 1) /\ ~ (Len(value) + 1 <= Len(value))
          /\ (Len(value) + 1) - Len(value) = 1
      BY <1>1
    <3> QED
      BY <1>1, <2>1, <3>1
  <2>3. ASSUME NEW j \in 1..Len(value) PROVE back[j] = value[j]
    <3>1. j \in 1..(Len(value) + 1) /\ j <= Len(value)
      BY <1>1
    <3> QED
      BY <2>1, <3>1
  <2> QED
    BY <2>1, <2>2, <2>3
<1>9. /\ Pattern("like", value) = both /\ Pattern("starts_with", value) = back
      /\ Pattern("ends_with", value) = front
  BY <1>2, <1>5 DEF front, both, back
<1> QED
  BY <1>1, <1>6, <1>7, <1>8, <1>9

\* A value within a pattern, d characters from its start, escapes what it escapes alone.
LEMMA EscapesWithin ==
  ASSUME NEW value, NEW pattern, NEW n \in Nat, NEW d \in {0, 1},
         \A j \in 1..n : pattern[j + d] = value[j], d = 1 => pattern[1] # "\\"
  PROVE  \A j \in 0..n : Escapes(pattern, j + d) <=> Escapes(value, j)
<1>1. CASE d = 0
  <2>1. \A j \in 1..n : pattern[j] = value[j]
    BY <1>1
  <2>2. ASSUME NEW j \in 0..n PROVE Escapes(pattern, j) <=> Escapes(value, j)
    <3>1. \A i \in 1..j : \A k \in i..j : k \in 1..n
      OBVIOUS
    <3>2. \A i \in 1..j : i = 1 \/ i - 1 \in 1..n
      OBVIOUS
    <3> QED
      BY <2>1, <3>1, <3>2 DEF Escapes
  <2> QED
    BY <1>1, <2>2
<1>2. CASE d = 1
  <2>1. \A j \in 1..n : pattern[j + 1] = value[j]
    BY <1>2
  <2>2. ASSUME NEW j \in 0..n, Escapes(pattern, j + 1) PROVE Escapes(value, j)
    <3>1. PICK i \in 1..(j + 1) :
            /\ ((j + 1) - i) % 2 = 0 /\ \A k \in i..(j + 1) : pattern[k] = "\\"
            /\ i = 1 \/ pattern[i - 1] # "\\"
      BY <2>2 DEF Escapes
    <3>2. i # 1
      <4>1. i = 1 => 1 \in i..(j + 1)
        OBVIOUS
      <4> QED
        BY <1>2, <3>1, <4>1
    <3>3. PICK h \in 1..j : i = h + 1
      <4>1. i - 1 \in 1..j /\ i = (i - 1) + 1
        BY <3>2
      <4> QED
        BY <4>1
    <3>4. (j + 1) - i = j - h
      BY <3>3
    <3>5. \A k \in h..j : value[k] = "\\"
      <4>1. \A k \in h..j : k \in 1..n /\ k + 1 \in i..(j + 1)
        BY <3>3
      <4> QED
        BY <2>1, <3>1, <4>1
    <3>6. h = 1 \/ value[h - 1] # "\\"
      <4>1. h # 1 => h - 1 \in 1..n /\ (h - 1) + 1 = i - 1
        BY <3>3
      <4> QED
        BY <2>1, <3>1, <3>2, <4>1
    <3> QED
      BY <3>1, <3>3, <3>4, <3>5, <3>6 DEF Escapes
  <2>3. ASSUME NEW j \in 0..n, Escapes(value, j) PROVE Escapes(pattern, j + 1)
    <3>1. PICK h \in 1..j :
            /\ (j - h) % 2 = 0 /\ \A k \in h..j : value[k] = "\\"
            /\ h = 1 \/ value[h - 1] # "\\"
      BY <2>3 DEF Escapes
    <3>2. h + 1 \in 1..(j + 1) /\ (j + 1) - (h + 1) = j - h /\ (h + 1) - 1 = h
      OBVIOUS
    <3>3. ASSUME NEW k \in (h + 1)..(j + 1) PROVE pattern[k] = "\\"
      <4>1. k - 1 \in h..j /\ k - 1 \in 1..n /\ (k - 1) + 1 = k
        OBVIOUS
      <4> QED
        BY <2>1, <3>1, <4>1
    <3>4. pattern[h] # "\\"
      <4>1. CASE h = 1
        BY <1>2, <4>1
      <4>2. CASE h # 1
        <5>1. h - 1 \in 1..n /\ (h - 1) + 1 = h
          BY <4>2
        <5> QED
          BY <2>1, <3>1, <4>2, <5>1
      <4> QED
        BY <4>1, <4>2
    <3> QED
      BY <3>1, <3>2, <3>3, <3>4 DEF Escapes
  <2> QED
    BY <1>2, <2>2, <2>3
<1> QED
  BY <1>1, <1>2

\* The places where the characters of the value begin and end in the text.
Fits(value, text, c) ==
  /\ c \in [1..(Len(value) + 1) -> 1..(Len(text) + 1)]
  /\ \A j \in 1..Len(value) : StandsFor(value, j, text, c[j], c[j + 1])

\* The "%" after the value takes the rest of the text, unless the value escapes it.
Rest(value, text, from) ==
  Escapes(value, Len(value)) => from = Len(text) /\ text[from] = "%"

\* The value with a "%" before it (d), one after it (e), or both.
Around(value, pattern, d, e) ==
  /\ Len(pattern) = Len(value) + d + e
  /\ \A j \in 1..Len(value) : pattern[j + d] = value[j]
  /\ d = 1 => pattern[1] = "%"
  /\ e = 1 => pattern[Len(value) + d + 1] = "%"

\* What such a pattern fits.
LEMMA LikeIs ==
  ASSUME NEW value, NEW text, Len(value) \in Nat, Len(text) \in Nat, NEW pattern,
         NEW d \in {0, 1}, NEW e \in {0, 1}, Around(value, pattern, d, e)
  PROVE  Like(text, pattern)
           <=> /\ e = 0 => ~Escapes(value, Len(value))
               /\ \E c : /\ Fits(value, text, c)
                         /\ d = 0 => c[1] = 1
                         /\ IF e = 0 THEN c[Len(value) + 1] = Len(text) + 1
                            ELSE Rest(value, text, c[Len(value) + 1])
<1> SUFFICES ASSUME NEW n \in Nat, NEW m \in Nat, Len(value) = n, Len(text) = m
             PROVE  Like(text, pattern)
                      <=> /\ e = 0 => ~Escapes(value, n)
                          /\ \E c : /\ Fits(value, text, c)
                                    /\ d = 0 => c[1] = 1
                                    /\ IF e = 0 THEN c[n + 1] = m + 1
                                       ELSE Rest(value, text, c[n + 1])
  OBVIOUS
<1>0. /\ Len(pattern) = n + d + e /\ \A j \in 1..n : pattern[j + d] = value[j]
      /\ d = 1 => pattern[1] = "%"
      /\ e = 1 => pattern[n + d + 1] = "%"
  BY DEF Around
<1> USE <1>0
<1>1. \A j \in 0..n : Escapes(pattern, j + d) <=> Escapes(value, j)
  BY EscapesWithin
\* Each character of the value, and the "%" at either end.
<1>2. ASSUME NEW j \in 1..n, NEW a, NEW b
      PROVE  StandsFor(pattern, j + d, text, a, b) <=> StandsFor(value, j, text, a, b)
  <2>1. Escapes(pattern, j + d) <=> Escapes(value, j)
    BY <1>1
  <2>2. Escaped(pattern, j + d) <=> Escaped(value, j)
    <3>1. CASE j = 1
      <4>1. /\ d = 1 => (Escapes(pattern, 1) => pattern[1] = "\\")
            /\ (j + d) - 1 = d /\ (j > 1) = FALSE /\ (j + d > 1) = (d = 1)
        BY <3>1 DEF Escapes
      <4> QED
        BY <3>1, <4>1 DEF Escaped
    <3>2. CASE j # 1
      <4>1. j - 1 \in 0..n /\ (j + d) - 1 = (j - 1) + d /\ j > 1 /\ j + d > 1
        BY <3>2
      <4> QED
        BY <1>1, <4>1 DEF Escaped
    <3> QED
      BY <3>1, <3>2
  <2> QED
    BY <2>1, <2>2 DEF StandsFor
<1>3. ASSUME d = 1, NEW a, NEW b PROVE StandsFor(pattern, 1, text, a, b) <=> a <= b
  <2>1. ~Escapes(pattern, 1) /\ ~Escaped(pattern, 1)
    BY <1>3 DEF Escapes, Escaped
  <2> QED
    BY <1>3, <2>1 DEF StandsFor
<1>4. ASSUME e = 1, NEW a \in 1..(m + 1)
      PROVE  StandsFor(pattern, n + d + 1, text, a, m + 1) <=> Rest(value, text, a)
  <2>1. ~Escapes(pattern, n + d + 1)
    <3>1. \A i \in 1..(n + d + 1) : n + d + 1 \in i..(n + d + 1)
      OBVIOUS
    <3> QED
      BY <1>4, <3>1 DEF Escapes
  <2>2. Escaped(pattern, n + d + 1) <=> Escapes(value, n)
    <3>1. (n + d + 1) - 1 = n + d /\ (n + d + 1 > 1 <=> n + d # 0) /\ n \in 0..n
      OBVIOUS
    <3>2. n + d = 0 => ~Escapes(value, n)
      BY DEF Escapes
    <3> QED
      BY <1>1, <3>1, <3>2 DEF Escaped
  <2>3. a <= m + 1 /\ (m + 1 = a + 1 <=> a = m)
    OBVIOUS
  <2> QED
    BY <1>4, <2>1, <2>2, <2>3 DEF StandsFor, Rest
<1>5. Escapes(pattern, Len(pattern)) <=> e = 0 /\ Escapes(value, n)
  <2>1. CASE e = 0
    <3>1. Len(pattern) = n + d /\ n \in 0..n
      BY <2>1
    <3> QED
      BY <1>1, <2>1, <3>1
  <2>2. CASE e = 1
    <3>1. \A i \in 1..(n + d + 1) : n + d + 1 \in i..(n + d + 1)
      OBVIOUS
    <3>2. Len(pattern) = n + d + 1
      BY <2>2
    <3> QED
      BY <2>2, <3>1, <3>2 DEF Escapes
  <2> QED
    BY <2>1, <2>2
\* A cut of the pattern, less its ends.
<1>6. ASSUME NEW cut \in [1..(n + d + e + 1) -> 1..(m + 1)],
             cut[1] = 1, cut[n + d + e + 1] = m + 1,
             \A j \in 1..(n + d + e) : StandsFor(pattern, j, text, cut[j], cut[j + 1])
      PROVE  \E c : /\ Fits(value, text, c)
                    /\ d = 0 => c[1] = 1
                    /\ IF e = 0 THEN c[n + 1] = m + 1 ELSE Rest(value, text, c[n + 1])
  <2> DEFINE c == [j \in 1..(n + 1) |-> cut[j + d]]
  <2>1. \A j \in 1..(n + 1) : c[j] = cut[j + d] /\ c[j] \in 1..(m + 1)
    <3>1. \A j \in 1..(n + 1) : j + d \in 1..(n + d + e + 1)
      OBVIOUS
    <3> QED
      BY <3>1
  <2>2. c \in [1..(n + 1) -> 1..(m + 1)]
    BY <2>1
  <2> HIDE DEF c
  <2>3. ASSUME NEW j \in 1..n PROVE StandsFor(value, j, text, c[j], c[j + 1])
    <3>1. /\ j \in 1..(n + 1) /\ j + 1 \in 1..(n + 1) /\ j + d \in 1..(n + d + e)
          /\ (j + 1) + d = (j + d) + 1
      OBVIOUS
    <3>2. c[j] = cut[j + d] /\ c[j + 1] = cut[(j + 1) + d]
      BY <2>1, <3>1
    <3>3. StandsFor(pattern, j + d, text, cut[j + d], cut[(j + d) + 1])
      BY <1>6, <3>1
    <3> QED
      BY <1>2, <3>1, <3>2, <3>3
  <2>4. d = 0 => c[1] = 1
    <3>1. 1 \in 1..(n + 1) /\ (d = 0 => 1 + d = 1)
      OBVIOUS
    <3> QED
      BY <1>6, <2>1, <3>1
  <2>5. c[n + 1] = cut[n + d + 1] /\ c[n + 1] \in 1..(m + 1)
    <3>1. n + 1 \in 1..(n + 1) /\ (n + 1) + d = n + d + 1
      OBVIOUS
    <3> QED
      BY <2>1, <3>1
  <2>6. e = 0 => c[n + 1] = m + 1
    <3>1. e = 0 => n + d + e + 1 = n + d + 1
      OBVIOUS
    <3> QED
      BY <1>6, <2>5, <3>1
  <2>7. e = 1 => Rest(value, text, c[n + 1])
    <3>1. ASSUME e = 1
          PROVE  /\ n + d + 1 \in 1..(n + d + e)
                 /\ n + d + e + 1 = (n + d + 1) + 1
      BY <3>1
    <3>2. e = 1 => StandsFor(pattern, n + d + 1, text, c[n + 1], m + 1)
      BY <1>6, <2>5, <3>1
    <3> QED
      BY <1>4, <2>5, <3>2
  <2> QED
    BY <2>2, <2>3, <2>4, <2>6, <2>7 DEF Fits
\* The places of the value, and what the ends take.
<1>7. ASSUME NEW c, Fits(value, text, c), d = 0 => c[1] = 1,
             IF e = 0 THEN c[n + 1] = m + 1 ELSE Rest(value, text, c[n + 1])
      PROVE  \E cut \in [1..(n + d + e + 1) -> 1..(m + 1)] :
               /\ cut[1] = 1 /\ cut[n + d + e + 1] = m + 1
               /\ \A j \in 1..(n + d + e) : StandsFor(pattern, j, text, cut[j], cut[j + 1])
  <2>1. /\ c \in [1..(n + 1) -> 1..(m + 1)]
        /\ \A j \in 1..n : StandsFor(value, j, text, c[j], c[j + 1])
    BY <1>7 DEF Fits
  <2> DEFINE cut == [j \in 1..(n + d + e + 1) |->
                       IF j <= d THEN 1 ELSE IF j - d > n + 1 THEN m + 1 ELSE c[j - d]]
  <2>2. cut \in [1..(n + d + e + 1) -> 1..(m + 1)]
    <3>1. ASSUME NEW j \in 1..(n + d + e + 1), ~(j <= d), ~(j - d > n + 1)
          PROVE  c[j - d] \in 1..(m + 1)
      <4>1. j - d \in 1..(n + 1)
        BY <3>1
      <4> QED
        BY <2>1, <4>1
    <3>2. 1 \in 1..(m + 1) /\ m + 1 \in 1..(m + 1)
      OBVIOUS
    <3> QED
      BY <3>1, <3>2
  <2>3. ASSUME NEW j \in 1..(n + 1) PROVE cut[j + d] = c[j]
    <3>1. /\ j + d \in 1..(n + d + e + 1) /\ ~(j + d <= d) /\ (j + d) - d = j
          /\ ~((j + d) - d > n + 1)
      OBVIOUS
    <3> QED
      BY <3>1
  <2>4. d = 1 => cut[1] = 1
    <3>1. 1 \in 1..(n + d + e + 1) /\ (d = 1 => 1 <= d)
      OBVIOUS
    <3> QED
      BY <3>1
  <2>5. e = 1 => cut[n + d + e + 1] = m + 1
    <3>1. /\ n + d + e + 1 \in 1..(n + d + e + 1) /\ ~(n + d + e + 1 <= d)
          /\ (e = 1 => (n + d + e + 1) - d > n + 1)
      OBVIOUS
    <3> QED
      BY <3>1
  <2> HIDE DEF cut
  <2>6. cut[1] = 1
    <3>1. 1 \in 1..(n + 1) /\ (d = 0 => 1 + d = 1)
      OBVIOUS
    <3> QED
      BY <1>7, <2>3, <2>4, <3>1
  <2>7. cut[n + d + 1] = c[n + 1] /\ c[n + 1] \in 1..(m + 1)
    <3>1. n + 1 \in 1..(n + 1) /\ (n + 1) + d = n + d + 1
      OBVIOUS
    <3> QED
      BY <2>1, <2>3, <3>1
  <2>8. cut[n + d + e + 1] = m + 1
    <3>1. e = 0 => n + d + e + 1 = n + d + 1
      OBVIOUS
    <3> QED
      BY <1>7, <2>5, <2>7, <3>1
  <2>9. ASSUME NEW j \in 1..(n + d + e) PROVE StandsFor(pattern, j, text, cut[j], cut[j + 1])
    <3>1. CASE j <= d
      <4>1. j = 1 /\ d = 1 /\ 2 \in 1..(n + d + e + 1) /\ j + 1 = 2
        BY <3>1
      <4>2. cut[2] \in 1..(m + 1)
        BY <2>2, <4>1
      <4>3. 1 <= cut[2]
        BY <4>2
      <4> QED
        BY <1>3, <2>6, <4>1, <4>3
    <3>2. CASE j > d /\ j <= n + d
      <4>1. PICK i \in 1..n : j = i + d
        <5>1. j - d \in 1..n /\ j = (j - d) + d
          BY <3>2
        <5> QED
          BY <5>1
      <4>2. i \in 1..(n + 1) /\ i + 1 \in 1..(n + 1) /\ j + 1 = (i + 1) + d
        BY <4>1
      <4>3. cut[j] = c[i] /\ cut[j + 1] = c[i + 1]
        BY <2>3, <4>1, <4>2
      <4> QED
        BY <1>2, <2>1, <4>1, <4>3
    <3>3. CASE j > n + d
      <4>1. e = 1 /\ j = n + d + 1 /\ j + 1 = n + d + e + 1
        BY <3>3
      <4>2. Rest(value, text, c[n + 1])
        BY <1>7, <4>1
      <4> QED
        BY <1>4, <2>7, <2>8, <4>1, <4>2
    <3> QED
      BY <3>1, <3>2, <3>3
  <2> QED
    BY <2>2, <2>6, <2>8, <2>9
<1>8. Like(text, pattern)
        <=> /\ ~(e = 0 /\ Escapes(value, n))
            /\ \E cut \in [1..(n + d + e + 1) -> 1..(m + 1)] :
                 /\ cut[1] = 1 /\ cut[n + d + e + 1] = m + 1
                 /\ \A j \in 1..(n + d + e) : StandsFor(pattern, j, text, cut[j], cut[j + 1])
  BY <1>5 DEF Like
<1> QED
  BY <1>6, <1>7, <1>8

\* The three operators, by the places of the value.
LEMMA LikesAre ==
  ASSUME NEW A, NEW value \in Seq(A), NEW text \in Seq(A)
  PROVE  LET n == Len(value)
             m == Len(text)
         IN  /\ Like(text, Pattern("like", value))
                  <=> \E c : Fits(value, text, c) /\ Rest(value, text, c[n + 1])
             /\ Like(text, Pattern("starts_with", value))
                  <=> \E c : Fits(value, text, c) /\ c[1] = 1 /\ Rest(value, text, c[n + 1])
             /\ Like(text, Pattern("ends_with", value))
                  <=> ~Escapes(value, n) /\ \E c : Fits(value, text, c) /\ c[n + 1] = m + 1
<1>1. PICK n \in Nat, m \in Nat : n = Len(value) /\ m = Len(text)
  OBVIOUS
<1>2. PICK like, prefix, suffix :
        /\ like = Pattern("like", value) /\ prefix = Pattern("starts_with", value)
        /\ suffix = Pattern("ends_with", value)
  OBVIOUS
<1>3. /\ Len(like) = n + 2 /\ like[1] = "%" /\ like[n + 2] = "%"
      /\ \A j \in 1..n : like[j + 1] = value[j]
      /\ Len(prefix) = n + 1 /\ prefix[n + 1] = "%"
      /\ \A j \in 1..n : prefix[j] = value[j]
      /\ Len(suffix) = n + 1 /\ suffix[1] = "%"
      /\ \A j \in 1..n : suffix[j + 1] = value[j]
  BY <1>1, <1>2, Patterns
<1>4. Around(value, like, 1, 1) /\ Around(value, prefix, 0, 1) /\ Around(value, suffix, 1, 0)
  <2>1. n + 1 + 1 = n + 2 /\ n + 0 + 1 = n + 1 /\ n + 1 + 0 = n + 1
    OBVIOUS
  <2>2. Around(value, like, 1, 1)
    BY <1>1, <1>3, <2>1 DEF Around
  <2>3. \A j \in 1..n : prefix[j + 0] = value[j]
    BY <1>3
  <2>4. Around(value, prefix, 0, 1)
    BY <1>1, <1>3, <2>1, <2>3 DEF Around
  <2>5. Around(value, suffix, 1, 0)
    BY <1>1, <1>3, <2>1 DEF Around
  <2> QED
    BY <2>2, <2>4, <2>5
<1>5. Like(text, like) <=> \E c : Fits(value, text, c) /\ Rest(value, text, c[n + 1])
  BY <1>1, <1>4, LikeIs
<1>6. Like(text, prefix)
        <=> \E c : Fits(value, text, c) /\ c[1] = 1 /\ Rest(value, text, c[n + 1])
  BY <1>1, <1>4, LikeIs
<1>7. Like(text, suffix)
        <=> ~Escapes(value, n) /\ \E c : Fits(value, text, c) /\ c[n + 1] = m + 1
  BY <1>1, <1>4, LikeIs
<1> QED
  BY <1>1, <1>2, <1>5, <1>6, <1>7

\* A value without a backslash fits the text wherever it stands.
LEMMA StandingFits ==
  ASSUME NEW A, NEW value \in Seq(A), NEW text \in Seq(A), NEW k, StandsAt(value, text, k),
         \A j \in 1..Len(value) : value[j] # "\\"
  PROVE  /\ ~Escapes(value, Len(value))
         /\ \E c : Fits(value, text, c) /\ c[1] = k + 1 /\ c[Len(value) + 1] = k + Len(value) + 1
<1>1. PICK n \in Nat, m \in Nat : n = Len(value) /\ m = Len(text)
  OBVIOUS
<1>2. k \in Nat /\ k + n <= m
  BY <1>1 DEF StandsAt
<1>3. ASSUME NEW j \in 1..n PROVE text[k + j] = value[j] /\ value[j] # "\\"
  <2>1. j \in DOMAIN value
    BY <1>1
  <2> QED
    BY <1>1, <2>1 DEF StandsAt
<1>4. ASSUME NEW j \in 0..n PROVE ~Escapes(value, j)
  <2>1. \A i \in 1..j : j \in i..j /\ j \in 1..n
    OBVIOUS
  <2> QED
    BY <1>3, <2>1 DEF Escapes
<1> DEFINE c == [j \in 1..(n + 1) |-> k + j]
<1>5. \A j \in 1..(n + 1) : c[j] = k + j /\ c[j] \in 1..(m + 1)
  BY <1>2
<1>6. c \in [1..(n + 1) -> 1..(m + 1)]
  BY <1>5
<1> HIDE DEF c
<1>7. ASSUME NEW j \in 1..n PROVE StandsFor(value, j, text, c[j], c[j + 1])
  <2>1. c[j] = k + j /\ c[j + 1] = (k + j) + 1
    <3>1. j \in 1..(n + 1) /\ j + 1 \in 1..(n + 1) /\ k + (j + 1) = (k + j) + 1
      BY <1>2
    <3> QED
      BY <1>5, <3>1
  <2>2. k + j <= (k + j) + 1
    BY <1>2
  <2>3. ~Escapes(value, j) /\ ~Escaped(value, j)
    <3>1. j \in 0..n /\ j - 1 \in 0..n
      OBVIOUS
    <3> QED
      BY <1>4, <3>1 DEF Escaped
  <2> QED
    BY <1>3, <2>1, <2>2, <2>3 DEF StandsFor
<1>8. c[1] = k + 1 /\ c[n + 1] = k + n + 1
  <2>1. 1 \in 1..(n + 1) /\ n + 1 \in 1..(n + 1) /\ k + (n + 1) = k + n + 1
    BY <1>2
  <2> QED
    BY <1>5, <2>1
<1> QED
  BY <1>1, <1>4, <1>6, <1>7, <1>8 DEF Fits

\* Nothing in the value that LIKE reads otherwise.
Plain(value) == \A j \in 1..Len(value) : value[j] # "\\" /\ value[j] # "%" /\ value[j] # "_"

\* Such a value stands in the text where it fits.
LEMMA FittingStands ==
  ASSUME NEW A, NEW value \in Seq(A), NEW text \in Seq(A), NEW c, Fits(value, text, c),
         Plain(value)
  PROVE  /\ StandsAt(value, text, c[1] - 1) /\ c[1] - 1 \in 0..Len(text)
         /\ c[Len(value) + 1] = c[1] + Len(value)
<1>1. PICK n \in Nat, m \in Nat : n = Len(value) /\ m = Len(text)
  OBVIOUS
<1>2. /\ c \in [1..(n + 1) -> 1..(m + 1)]
      /\ \A j \in 1..n : StandsFor(value, j, text, c[j], c[j + 1])
  BY <1>1 DEF Fits
<1>3. ASSUME NEW j \in 0..n PROVE ~Escapes(value, j)
  <2>1. \A i \in 1..j : j \in i..j /\ j \in 1..n
    OBVIOUS
  <2>2. \A i \in 1..n : value[i] # "\\"
    BY <1>1 DEF Plain
  <2> QED
    BY <2>1, <2>2 DEF Escapes
<1>4. ASSUME NEW j \in 1..n PROVE c[j + 1] = c[j] + 1 /\ text[c[j]] = value[j]
  <2>1. ~Escapes(value, j)
    BY <1>3
  <2>2. value[j] # "%" /\ value[j] # "_"
    BY <1>1 DEF Plain
  <2> QED
    BY <1>2, <2>1, <2>2 DEF StandsFor
<1>5. PICK first \in 1..(m + 1) : first = c[1]
  <2>1. 1 \in 1..(n + 1)
    OBVIOUS
  <2> QED
    BY <1>2, <2>1
\* Of the places that do not follow one another there is no first one.
<1>6. \A j \in 1..(n + 1) : c[j] = (first - 1) + j
  <2> DEFINE bad == {j \in 1..(n + 1) : c[j] # (first - 1) + j}
  <2> SUFFICES ASSUME bad # {} PROVE FALSE
    OBVIOUS
  <2>1. PICK b \in bad : \A j \in bad : b <= j
    <3>1. bad \subseteq Nat
      OBVIOUS
    <3> QED
      BY <3>1, LeastRow
  <2>2. b \in 1..(n + 1) /\ c[b] # (first - 1) + b
    OBVIOUS
  <2>3. b # 1
    <3>1. (first - 1) + 1 = first
      OBVIOUS
    <3> QED
      BY <1>5, <2>2, <3>1
  <2>4. PICK a \in 1..n : b = a + 1
    <3>1. b - 1 \in 1..n /\ b = (b - 1) + 1
      BY <2>2, <2>3
    <3> QED
      BY <3>1
  <2>5. c[a] = (first - 1) + a
    <3>1. a \in 1..(n + 1) /\ ~(b <= a)
      BY <2>4
    <3> QED
      BY <2>1, <3>1
  <2>6. ((first - 1) + a) + 1 = (first - 1) + (a + 1)
    OBVIOUS
  <2> QED
    BY <1>4, <2>2, <2>4, <2>5, <2>6
<1>7. c[n + 1] = first + n /\ first + n <= m + 1
  <2>1. n + 1 \in 1..(n + 1) /\ (first - 1) + (n + 1) = first + n
    OBVIOUS
  <2>2. c[n + 1] = first + n
    BY <1>6, <2>1
  <2>3. c[n + 1] \in 1..(m + 1)
    BY <1>2, <2>1
  <2> QED
    BY <2>2, <2>3
<1>8. first - 1 \in 0..(m - n) /\ first - 1 \in 0..m
  BY <1>7
<1>9. ASSUME NEW j \in DOMAIN value PROVE text[(first - 1) + j] = value[j]
  <2>1. j \in 1..n /\ j \in 1..(n + 1)
    BY <1>1
  <2> QED
    BY <1>4, <1>6, <2>1
<1> QED
  BY <1>1, <1>5, <1>7, <1>8, <1>9 DEF StandsAt

\* What has the prefix or the suffix passes "like", for all texts.  All that the comments
\* of the operators promise is found for a value without a backslash, and nothing else
\* for one without a wildcard either.
THEOREM TextsAreFound ==
  ASSUME NEW f \in FilterOf(Seq(Character)), NEW cell \in Seq(Character) \union {Null}
  PROVE  FindsTexts(f, cell)
<1> DEFINE passes(op) == Passes([f EXCEPT !.op = op], cell)
           has(char) == \E i \in DOMAIN f.value : f.value[i] = char
           Ops == {"starts_with", "ends_with", "like"}
<1> SUFFICES ASSUME f.op \in TextOp, f.shape = "text"
             PROVE  /\ passes("starts_with") \/ passes("ends_with") => passes("like")
                    /\ cell # Null /\ ~has("\\") =>
                         \A op \in Ops :
                           /\ Finds(op, f.value, cell) => passes(op)
                           /\ passes(op) /\ ~has("%") /\ ~has("_") => Finds(op, f.value, cell)
  BY DEF FindsTexts
<1>1. PICK value \in Seq(Character) : value = f.value
  BY DEF FilterOf
<1>2. ASSUME NEW op \in Ops
      PROVE  passes(op) <=> cell # Null /\ Like(cell, Pattern(op, value))
  <2>1. PICK g : g = [f EXCEPT !.op = op]
    OBVIOUS
  <2>2. g.field = "x" /\ g.op = op /\ g.shape = "text" /\ g.value = value
    BY <1>1, <2>1, Variant
  <2>3. Usable(g)
    BY <2>2 DEF Usable, Operator, TextOp, RangeOp
  <2>4. Passes(g, cell) <=> filterToScope(g, cell)
    BY <2>2, <2>3, PassesAlone
  <2>5. filterToScope(g, cell) <=> cell # Null /\ Like(cell, Pattern(op, value))
    BY <2>2, Asks
  <2> QED
    BY <2>1, <2>4, <2>5
<1> HIDE DEF passes
<1>3. CASE cell = Null
  BY <1>2, <1>3
<1>4. CASE cell # Null
  <2>1. cell \in Seq(Character)
    BY <1>4
  <2>2. PICK n \in Nat, m \in Nat : n = Len(value) /\ m = Len(cell)
    BY <2>1
  <2>3. /\ passes("like") <=> \E c : Fits(value, cell, c) /\ Rest(value, cell, c[n + 1])
        /\ passes("starts_with")
             <=> \E c : Fits(value, cell, c) /\ c[1] = 1 /\ Rest(value, cell, c[n + 1])
        /\ passes("ends_with")
             <=> ~Escapes(value, n) /\ \E c : Fits(value, cell, c) /\ c[n + 1] = m + 1
    BY <1>2, <1>4, <2>1, <2>2, LikesAre
  <2>4. ASSUME ~Escapes(value, n), NEW c PROVE Rest(value, cell, c[n + 1])
    BY <2>2, <2>4 DEF Rest
  <2>5. passes("starts_with") \/ passes("ends_with") => passes("like")
    BY <2>3, <2>4
  <2>6. ASSUME ~has("\\"), NEW k, StandsAt(value, cell, k)
        PROVE  /\ ~Escapes(value, n)
               /\ \E c : Fits(value, cell, c) /\ c[1] = k + 1 /\ c[n + 1] = k + n + 1
    <3>1. \A j \in 1..Len(value) : value[j] # "\\"
      BY <1>1, <2>6
    <3> QED
      BY <2>1, <2>2, <2>6, <3>1, StandingFits
  <2>7. ASSUME ~has("\\"), NEW op \in Ops, Finds(op, value, cell) PROVE passes(op)
    <3>1. CASE op = "starts_with"
      <4>1. StandsAt(value, cell, 0) /\ 0 + 1 = 1
        BY <2>7, <3>1 DEF Finds
      <4> QED
        BY <2>3, <2>4, <2>6, <2>7, <3>1, <4>1
    <3>2. CASE op = "ends_with"
      <4>1. StandsAt(value, cell, m - n) /\ (m - n) + n + 1 = m + 1
        BY <2>2, <2>7, <3>2 DEF Finds
      <4> QED
        BY <2>3, <2>6, <2>7, <3>2, <4>1
    <3>3. CASE op = "like"
      <4>1. PICK k : StandsAt(value, cell, k)
        BY <2>7, <3>3 DEF Finds
      <4> QED
        BY <2>3, <2>4, <2>6, <2>7, <3>3, <4>1
    <3> QED
      BY <3>1, <3>2, <3>3
  <2>8. ASSUME ~has("\\"), ~has("%"), ~has("_"), NEW c, Fits(value, cell, c)
        PROVE  /\ StandsAt(value, cell, c[1] - 1) /\ c[1] - 1 \in 0..m
               /\ c[n + 1] = c[1] + n
    <3>1. \A j \in 1..Len(value) : j \in DOMAIN f.value /\ f.value[j] = value[j]
      BY <1>1
    <3>2. \A i \in DOMAIN f.value :
            f.value[i] # "\\" /\ f.value[i] # "%" /\ f.value[i] # "_"
      BY <2>8, Zenon
    <3>3. Plain(value)
      BY <3>1, <3>2, Zenon DEF Plain
    <3> QED
      BY <2>1, <2>2, <2>8, <3>3, FittingStands
  <2>9. ASSUME ~has("\\"), ~has("%"), ~has("_"), NEW op \in Ops, passes(op)
        PROVE  Finds(op, value, cell)
    <3>1. CASE op = "starts_with"
      <4>1. PICK c : Fits(value, cell, c) /\ c[1] = 1
        BY <2>3, <2>9, <3>1
      <4>2. c[1] - 1 = 0
        BY <4>1
      <4> QED
        BY <2>8, <2>9, <3>1, <4>1, <4>2 DEF Finds
    <3>2. CASE op = "ends_with"
      <4>1. PICK c : Fits(value, cell, c) /\ c[n + 1] = m + 1
        BY <2>3, <2>9, <3>2
      <4>2. PICK k \in 0..m : k = c[1] - 1 /\ StandsAt(value, cell, k)
        BY <2>8, <2>9, <4>1
      <4>3. c[1] = k + 1
        <5>1. 1 \in 1..(Len(value) + 1) /\ c \in [1..(Len(value) + 1) -> 1..(Len(cell) + 1)]
          BY <2>2, <4>1 DEF Fits
        <5>2. c[1] \in 1..(m + 1)
          BY <2>2, <5>1
        <5> QED
          BY <4>2, <5>2
      <4>4. m + 1 = (k + 1) + n
        BY <2>8, <2>9, <4>1, <4>3
      <4>5. k = m - n
        BY <4>4
      <4> QED
        BY <2>2, <3>2, <4>2, <4>5 DEF Finds
    <3>3. CASE op = "like"
      <4>1. PICK c : Fits(value, cell, c)
        BY <2>3, <2>9, <3>3
      <4> QED
        BY <2>2, <2>8, <2>9, <3>3, <4>1 DEF Finds
    <3> QED
      BY <3>1, <3>2, <3>3
  <2> QED
    BY <1>1, <2>5, <2>7, <2>9
<1> QED
  BY <1>3, <1>4

-----------------------------------------------------------------------------
(***************************************************************************)
(* PureCalls, for any sets of amounts, values and cells.                   *)
(***************************************************************************)

\* The operators that filters are called with are known ones.
LEMMA Names ==
  {"eq", "gt", "lt", "in", "between", "like", "is_null"} \subseteq Operator
  BY DEF Operator, TextOp, RangeOp, NullOp

\* A filter of each shape that is called, with its cells.
LEMMA FilterShapes ==
  ASSUME NEW f, NEW cell,
         \/ f \in NumberFilter \union ListFilter /\ cell \in Number \union {Null}
         \/ f \in TextFilter /\ cell \in Word \union {Null}
  PROVE  FilterAgrees(f, cell)
<1>1. /\ Number \subseteq Int /\ List \subseteq Seq(Int \union {Null}) /\ Word \subseteq Seq(Character)
  BY PureCallsAssumption
<1>2. CASE f \in NumberFilter /\ cell \in Number \union {Null}
  <2>1. f \in FilterOf(Int \union {Null}) /\ f.shape = "number" /\ cell \in Int \union {Null}
    <3>1. f \in [field : {"x"}, op : Operator, shape : {"number"}, value : Int \union {Null}]
      BY <1>1, <1>2, Names DEF NumberFilter
    <3> QED
      BY <1>1, <1>2, <3>1 DEF FilterOf
  <2>2. f.value \in Int \union {Null}
    BY <2>1 DEF FilterOf
  <2>3. SplitsRows(f, cell)
    <3>1. Typed(f, cell)
      BY <1>2, <2>1, <2>2 DEF Typed, NumberFilter
    <3> QED
      BY <2>1, <3>1, ComplementsSplit
  <2>4. IsItsParts(f, cell) /\ FindsTexts(f, cell)
    BY <2>1 DEF IsItsParts, FindsTexts
  <2> QED
    BY <2>3, <2>4 DEF FilterAgrees
<1>3. CASE f \in ListFilter /\ cell \in Number \union {Null}
  <2>1. /\ f \in FilterOf(Seq(Int \union {Null})) /\ f.shape = "list"
        /\ f.op \notin {"gt", "lt"} /\ cell \in Int \union {Null}
    <3>1. /\ f \in [field : {"x"}, op : Operator, shape : {"list"},
                   value : Seq(Int \union {Null})]
          /\ f.op \in {"in", "between", "like", "is_null"}
      BY <1>1, <1>3, Names DEF ListFilter
    <3> QED
      BY <1>1, <1>3, <3>1 DEF FilterOf
  <2>2. SplitsRows(f, cell)
    <3>1. f.value \in Seq(Int \union {Null})
      BY <2>1 DEF FilterOf
    <3>2. Typed(f, cell)
      BY <2>1, <3>1 DEF Typed
    <3> QED
      BY <2>1, <3>2, ComplementsSplit
  <2>3. IsItsParts(f, cell)
    BY <2>1, ListsAreTheirParts
  <2>4. FindsTexts(f, cell)
    BY <2>1 DEF FindsTexts
  <2> QED
    BY <2>2, <2>3, <2>4 DEF FilterAgrees
<1>4. CASE f \in TextFilter /\ cell \in Word \union {Null}
  <2>1. /\ f \in FilterOf(Seq(Character)) /\ f.shape = "text" /\ f.op \notin {"gt", "lt"}
        /\ cell \in Seq(Character) \union {Null}
    <3>1. /\ f \in [field : {"x"}, op : Operator, shape : {"text"}, value : Seq(Character)]
          /\ f.op \in {"eq", "between", "like", "is_null"}
      BY <1>1, <1>4, Names DEF TextFilter
    <3> QED
      BY <1>1, <1>4, <3>1 DEF FilterOf
  <2>2. SplitsRows(f, cell)
    <3>1. Typed(f, cell)
      BY <1>4, <2>1 DEF Typed, TextFilter
    <3> QED
      BY <2>1, <3>1, ComplementsSplit
  <2>3. IsItsParts(f, cell)
    BY <2>1 DEF IsItsParts
  <2>4. FindsTexts(f, cell)
    BY <2>1, TextsAreFound
  <2> QED
    BY <2>2, <2>3, <2>4 DEF FilterAgrees
<1> QED
  BY <1>2, <1>3, <1>4

\* What is known of the last call.
SampleOK ==
  /\ sample.fn = "settle" => sample.user \in Int /\ sample.platform \in Int
  /\ sample.fn = "divide" => sample.numerator \in Int /\ sample.denominator \in Int \ {0}
  /\ sample.fn = "convert" => sample.amount \in Int
  /\ sample.fn = "filter" =>
       \/ /\ sample.filter \in NumberFilter \union ListFilter
          /\ sample.cell \in Number \union {Null}
       \/ sample.filter \in TextFilter /\ sample.cell \in Word \union {Null}

LEMMA SampleAlways == PureSpec => []SampleOK
<1>1. PureInit => SampleOK
  BY DEF PureInit, NoSample, SampleOK
<1>2. SampleOK /\ [PureNext]_sample => SampleOK'
  <2> SUFFICES ASSUME SampleOK, [PureNext]_sample PROVE SampleOK'
    OBVIOUS
  <2>1. CASE Settle
    BY <2>1, PureCallsAssumption DEF Settle, SampleOK
  <2>2. CASE Divide
    BY <2>2, PureCallsAssumption DEF Divide, SampleOK
  <2>3. CASE Convert
    BY <2>3, PureCallsAssumption DEF Convert, SampleOK
  <2>4. CASE Select
    BY <2>4 DEF Select, SampleOK
  <2>5. CASE sample' = NoSample
    BY <2>5 DEF NoSample, SampleOK
  <2>6. CASE UNCHANGED sample
    BY <2>6 DEF SampleOK
  <2> QED
    BY <2>1, <2>2, <2>3, <2>4, <2>5, <2>6 DEF PureNext
<1> QED
  BY <1>1, <1>2, PTL DEF PureSpec

\* Settlements, quotients and conversions are exact for any amounts that are called with.
THEOREM AmountsAreExact == PureSpec => []AmountsExact
<1>1. SampleOK => AmountsExact
  BY SettlementIsExact, DivisionIsNear, MinorUnitsSurvive DEF SampleOK, AmountsExact
<1> QED
  BY <1>1, SampleAlways, PTL

\* Operators and their complements, lists and their elements, prefixes and what contains
\* them agree, for any numbers, lists, texts and cells that filters are called with.
THEOREM FiltersAlwaysAgree == PureSpec => []FiltersAgree
<1>1. SampleOK => FiltersAgree
  BY FilterShapes DEF SampleOK, FiltersAgree
<1> QED
  BY <1>1, SampleAlways, PTL
=============================================================================
