-------------------------------- MODULE Filter --------------------------------
(***************************************************************************)
(* The filters of dbx/filter.go, up to the rows PostgreSQL then shows.  A  *)
(* cell holds a number, a text (a sequence of characters) or Null, and so  *)
(* does the value of a filter, which may also be a list of numbers and     *)
(* Nulls.  Left out are values PostgreSQL refuses, as a list to compare    *)
(* with.                                                                   *)
(*                                                                         *)
(* A definition named Slip... is a bug a later change could make in the    *)
(* definition after it; the project's mutation runs put it in its place.   *)
(***************************************************************************)
EXTENDS Integers, SequencesExt

CONSTANTS
  Null,
  Character          \* the characters of texts

\* NULL is not a value of any type.
ASSUME NullAssumption == Null \notin Int /\ Null \notin Seq(Character)

TextOp == {"like", "not_like", "starts_with", "ends_with"}
RangeOp == {"between", "not_between"}
NullOp == {"is_null", "is_not_null"}
Operator ==
  {"eq", "neq", "gt", "gte", "lt", "lte", "in", "not_in"} \union TextOp \union RangeOp \union NullOp

\* A filter is [field, op, shape, value]; shape is "number", "text" or "list".  One
\* with an unknown operator, or a value of a shape its operator does not take, is
\* logged and left out.
Usable(f) ==
  /\ f.op \in Operator
  /\ f.op \in TextOp => f.shape = "text"
  /\ f.op \in RangeOp => f.shape = "list" /\ Len(f.value) >= 2

---------------------------------------------------------------------------
(* Comparisons.  SQL's are unknown, and neither true nor false, when one   *)
(* side is NULL; each of these is true where SQL's is.                     *)

Equal(x, y) == x # Null /\ y # Null /\ x = y
Differ(x, y) == x # Null /\ y # Null /\ x # y
Below(x, y) == x # Null /\ y # Null /\ x < y
AtMost(x, y) == Below(x, y) \/ Equal(x, y)

SlipOpenEnd(cell, value) == AtMost(value[1], cell) /\ Below(cell, value[2])

Between(cell, value) == AtMost(value[1], cell) /\ AtMost(cell, value[2])

\* NOT BETWEEN is true where one of the two comparisons is false, whatever the other is.
Outside(cell, value) == Below(cell, value[1]) \/ Below(value[2], cell)

\* NOT IN.  GORM writes the empty list as (NULL), which nothing is known to differ from.
DiffersFromAll(cell, value) == value # <<>> /\ \A i \in DOMAIN value : Differ(cell, value[i])

---------------------------------------------------------------------------
(* LIKE.                                                                   *)

\* The backslash takes the next character as it is, another backslash as well: those
\* at the odd places of a run do.
Escapes(pattern, j) ==
  \E i \in 1..j :
    /\ (j - i) % 2 = 0 /\ \A k \in i..j : pattern[k] = "\\"
    /\ i = 1 \/ pattern[i - 1] # "\\"

Escaped(pattern, j) == j > 1 /\ Escapes(pattern, j - 1)

\* Whether the j-th character of the pattern stands for the text from one position up
\* to another: "%" for any number of characters, "_" for one, the value's own as well.
StandsFor(pattern, j, text, from, to) ==
  CASE Escapes(pattern, j) -> to = from
    [] pattern[j] = "%" /\ ~Escaped(pattern, j) -> from <= to
    [] OTHER -> /\ to = from + 1
                /\ text[from] = pattern[j] \/ (pattern[j] = "_" /\ ~Escaped(pattern, j))

\* The text can be cut in as many pieces as the pattern has characters.  A pattern that
\* ends with the backslash fits nothing, or PostgreSQL refuses the query.
Like(text, pattern) ==
  /\ ~Escapes(pattern, Len(pattern))
  /\ \E cut \in [1..(Len(pattern) + 1) -> 1..(Len(text) + 1)] :
       /\ cut[1] = 1 /\ cut[Len(pattern) + 1] = Len(text) + 1
       /\ \A j \in 1..Len(pattern) : StandsFor(pattern, j, text, cut[j], cut[j + 1])

Pattern(op, value) ==
  (IF op = "starts_with" THEN <<>> ELSE <<"%">>) \o value \o (IF op = "ends_with" THEN <<>> ELSE <<"%">>)

---------------------------------------------------------------------------
\* Whether the condition of a usable filter is true of a cell.
filterToScope(f, cell) ==
  CASE f.op = "is_null" -> cell = Null
    [] f.op = "is_not_null" -> cell # Null
    [] f.op = "eq" -> Equal(cell, f.value)
    [] f.op = "neq" -> Differ(cell, f.value)
    [] f.op = "gt" -> Below(f.value, cell)
    [] f.op = "gte" -> AtMost(f.value, cell)
    [] f.op = "lt" -> Below(cell, f.value)
    [] f.op = "lte" -> AtMost(cell, f.value)
    [] f.op = "between" -> Between(cell, f.value)
    [] f.op = "not_between" -> Outside(cell, f.value)
    [] f.op = "in" -> \E i \in DOMAIN f.value : Equal(cell, f.value[i])
    [] f.op = "not_in" -> DiffersFromAll(cell, f.value)
    [] f.op = "not_like" -> cell # Null /\ ~Like(cell, Pattern(f.op, f.value))
    [] OTHER -> cell # Null /\ Like(cell, Pattern(f.op, f.value))

\* The rows that pass: fields that are not in the whitelist are not filtered by.
ToScopes(row, filters, allowed) ==
  \A i \in DOMAIN filters :
    filters[i].field \in allowed /\ Usable(filters[i])
      => filterToScope(filters[i], row[filters[i].field])

---------------------------------------------------------------------------
(* What callers can rely on.                                               *)

Complement ==
  [eq |-> "neq", gt |-> "lte", lt |-> "gte", between |-> "not_between", like |-> "not_like",
   in |-> "not_in", is_null |-> "is_not_null"]

\* Whether the cell passes the filter when it is the only one.
Passes(f, cell) == ToScopes([x |-> cell], <<f>>, {"x"})

WithoutNull(f, cell) ==
  /\ cell # Null /\ f.value # Null
  /\ f.shape = "list" => f.value # <<>> /\ \A i \in DOMAIN f.value : f.value[i] # Null

\* No row passes a filter and its complement; each passes one of the two where Null takes
\* no part; and a cell that is Null is asked for by name or is in neither.  When one of
\* the two is left out for its value, so is the other.
SplitsRows(f, cell) ==
  f.op \in DOMAIN Complement =>
    LET co == [f EXCEPT !.op = Complement[f.op]] IN
    /\ Usable(f) <=> Usable(co)
    /\ Usable(f) =>
         /\ ~(Passes(f, cell) /\ Passes(co, cell))
         /\ f.op = "is_null" \/ WithoutNull(f, cell) => Passes(f, cell) \/ Passes(co, cell)
         /\ f.op # "is_null" /\ cell = Null => ~Passes(f, cell) /\ ~Passes(co, cell)

\* A list with Nulls in it or without: a range is its two comparisons, outside of it is
\* one of theirs, "in" is to equal an element and "not_in" to differ from all of them.
\* Where an element is Null, nothing is "not_in".
IsItsParts(f, cell) ==
  LET passes(op) == Passes([f EXCEPT !.op = op], cell)
      each(op, i) == Passes([f EXCEPT !.op = op, !.shape = "number", !.value = f.value[i]], cell)
  IN  f.shape = "list" =>
        /\ Len(f.value) >= 2 =>
             /\ passes("between") <=> each("gte", 1) /\ each("lte", 2)
             /\ passes("not_between") <=> each("lt", 1) \/ each("gt", 2)
        /\ passes("in") <=> \E i \in DOMAIN f.value : each("eq", i)
        /\ passes("not_in") <=> f.value # <<>> /\ \A i \in DOMAIN f.value : each("neq", i)
        /\ (\E i \in DOMAIN f.value : f.value[i] = Null) => ~passes("not_in")

\* The value is in the text, after so many characters.
StandsAt(value, text, k) ==
  k \in 0..(Len(text) - Len(value)) /\ \A i \in DOMAIN value : text[k + i] = value[i]

\* What the comments on the operators say they find.
Finds(op, value, text) ==
  CASE op = "starts_with" -> StandsAt(value, text, 0)
    [] op = "ends_with" -> StandsAt(value, text, Len(text) - Len(value))
    [] op = "like" -> \E k \in 0..Len(text) : StandsAt(value, text, k)

\* What has the prefix or the suffix passes "like" as well, whatever the value.  Of a
\* value without a backslash the three operators find all they should, and of one without
\* a wildcard nothing else.  The value is not escaped: with a wildcard they may find more,
\* with a backslash more or less, and nothing is said of that.
FindsTexts(f, cell) ==
  LET passes(op) == Passes([f EXCEPT !.op = op], cell)
      has(char) == \E i \in DOMAIN f.value : f.value[i] = char
  IN  f.op \in TextOp /\ f.shape = "text" =>
        /\ passes("starts_with") \/ passes("ends_with") => passes("like")
        /\ cell # Null /\ ~has("\\") =>
             \A op \in {"starts_with", "ends_with", "like"} :
               /\ Finds(op, f.value, cell) => passes(op)
               /\ passes(op) /\ ~has("%") /\ ~has("_") => Finds(op, f.value, cell)

\* How the operators of a filter agree with one another and with the texts they look for.
FilterAgrees(f, cell) == SplitsRows(f, cell) /\ IsItsParts(f, cell) /\ FindsTexts(f, cell)
=============================================================================
