-------------------------------- MODULE Text --------------------------------
(***************************************************************************)
(* The cleaning of bound values in ginx/bind.go.  A character is one of    *)
(* its kinds: a blank, a tab, a full-width blank, another Unicode space,   *)
(* one of zero width, a line feed, a carriage return, another control      *)
(* character, or a letter.                                                 *)
(*                                                                         *)
(* A definition named Slip... is a bug a later change could make in the    *)
(* definition after it; the project's mutation runs put it in its place.   *)
(***************************************************************************)
EXTENDS Integers, SequencesExt

Char == {"blank", "tab", "wide", "space", "zero", "lf", "cr", "control", "letter"}

Control == {"tab", "lf", "cr", "control"}
Space == {"blank", "space"}

\* Zero width and control characters are removed, tabs and full-width blanks become
\* blanks.
Replaced(s) ==
  LET visible == SelectSeq(s, LAMBDA c : c # "zero" /\ (c \in Control => c = "tab")) IN
  [i \in DOMAIN visible |-> IF visible[i] \in {"tab", "wide"} THEN "blank" ELSE visible[i]]

\* strings.TrimSpace.
TrimSpace(s) ==
  LET ink == {i \in DOMAIN s : s[i] \notin Space} IN
  IF ink = {} THEN <<>> ELSE SubSeq(s, Min(ink), Max(ink))

\* One blank for several.
CollapseSpaces(s) ==
  FoldLeft(LAMBDA t, c : IF c = "blank" /\ t # <<>> /\ Last(t) = "blank" THEN t ELSE Append(t, c),
           <<>>, s)

SlipTrimFirst(s) == CollapseSpaces(Replaced(TrimSpace(s)))

CleanString(s) == CollapseSpaces(TrimSpace(Replaced(s)))

---------------------------------------------------------------------------
\* CR LF and CR become LF.
Newlines(s) ==
  LET one == [i \in DOMAIN s |-> IF s[i] = "cr" /\ i < Len(s) /\ s[i + 1] = "lf" THEN <<>>
                                 ELSE IF s[i] = "cr" THEN <<"lf">> ELSE <<s[i]>>]
  IN  FlattenSeq(one)

\* strings.Split at LF.
Lines(s) ==
  FoldLeft(LAMBDA lines, c :
             IF c = "lf" THEN Append(lines, <<>>)
             ELSE [lines EXCEPT ![Len(lines)] = Append(@, c)],
           <<<<>>>>, s)

\* Every line is cleaned, and the empty ones at the end are dropped.
CleanLines(s) ==
  LET lines == [i \in DOMAIN Lines(Newlines(s)) |-> CleanString(Lines(Newlines(s))[i])]
      ink == {i \in DOMAIN lines : lines[i] # <<>>}
  IN  IF ink = {} THEN <<>> ELSE SubSeq(lines, 1, Max(ink))

\* strings.Join with LF.
Join(lines) ==
  FoldLeft(LAMBDA s, i : IF i = 1 THEN lines[1] ELSE s \o <<"lf">> \o lines[i],
           <<>>, [i \in DOMAIN lines |-> i])

CleanMultilineString(s) == Join(CleanLines(s))

\* What SanitizeStrings leaves in a field, of a struct or of one inside it.  kind is
\* "string"; "any" for a string in an interface or a map; or "other", as a slice or a
\* pointer to a string.  tag is "-" when the field or a struct around it has that tag.
\* The tag "multiline" is for strings only.
Sanitize(field) ==
  CASE field.tag = "-" \/ field.kind = "other" -> field
    [] field.kind = "string" /\ field.tag = "multiline" ->
         [field EXCEPT !.text = CleanMultilineString(@)]
    [] OTHER -> [field EXCEPT !.text = CleanString(@)]

---------------------------------------------------------------------------
(* What callers can rely on.                                               *)

Letters(s) == SelectSeq(s, LAMBDA c : c = "letter")

Clean(s) ==
  /\ ToSet(s) \subseteq {"blank", "space", "letter"}
  /\ s # <<>> => {Head(s), Last(s)} \intersect Space = {}
  /\ \A i \in 1..(Len(s) - 1) : s[i] = "blank" => s[i + 1] # "blank"

\* A bound field is clean, each line of it when lines are kept: nothing invisible, no
\* blanks at the ends or in a row; no letter is lost; and what is stored, sent out and
\* bound once more does not change again.
BindIsStable(field) ==
  LET bound == Sanitize(field)
      lines == IF field.tag = "multiline" /\ field.kind = "string" THEN Lines(bound.text)
               ELSE <<bound.text>>
  IN
  /\ Sanitize(bound) = bound
  /\ Letters(bound.text) = Letters(field.text)
  /\ field.tag # "-" /\ field.kind # "other" => \A i \in DOMAIN lines : Clean(lines[i])
=============================================================================
