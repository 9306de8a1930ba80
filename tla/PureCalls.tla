------------------------------ MODULE PureCalls ------------------------------
(***************************************************************************)
(* The functions that keep no state, called with one argument after        *)
(* another: what package money computes, and the rows that the filters of  *)
(* package dbx show.                                                       *)
(***************************************************************************)
EXTENDS Money, Filter

CONSTANTS
  Share, Amount,     \* amounts that are shared and divided, and converted
  Number, List, Word \* the values of filters

ASSUME PureCallsAssumption ==
  /\ Share \subseteq Int /\ Amount \subseteq Int
  /\ Number \subseteq Int /\ List \subseteq Seq(Int \union {Null}) /\ Word \subseteq Seq(Character)

VARIABLE
  sample             \* the function called last, and its arguments

NoSample == [fn |-> "none"]

PureInit == sample = NoSample

Settle ==
  \E user, platform \in Share,
     mode \in {"extract", "allocate_to_user", "allocate_to_platform", "unknown"} :
    sample' = [fn |-> "settle", user |-> user, platform |-> platform, mode |-> mode]

Divide ==
  \E numerator \in Share, denominator \in Share \ {0}, rule \in {"cent", "up", "down"} :
    sample' = [fn |-> "divide", numerator |-> numerator, denominator |-> denominator, rule |-> rule]

Convert == \E x \in Amount : sample' = [fn |-> "convert", amount |-> x]

\* Each shape with the operators that take it, or leave it out; NULL is a number's value,
\* and may be in a list.
NumberFilter ==
  [field : {"x"}, op : {"eq", "gt", "lt", "between", "like", "is_null"}, shape : {"number"},
   value : Number \union {Null}]
ListFilter ==
  [field : {"x"}, op : {"in", "between", "like", "is_null"}, shape : {"list"}, value : List]
TextFilter ==
  [field : {"x"}, op : {"eq", "between", "like", "is_null"}, shape : {"text"}, value : Word]

Select ==
  \/ \E f \in NumberFilter \union ListFilter, cell \in Number \union {Null} :
       sample' = [fn |-> "filter", filter |-> f, cell |-> cell]
  \/ \E f \in TextFilter, cell \in Word \union {Null} :
       sample' = [fn |-> "filter", filter |-> f, cell |-> cell]

PureNext ==
  \/ sample = NoSample /\ (Settle \/ Divide \/ Convert \/ Select)
  \/ sample # NoSample /\ sample' = NoSample

PureSpec == PureInit /\ [][PureNext]_sample

---------------------------------------------------------------------------
\* SettlementExact, DivisionNear and MinorUnitsReturn, whatever the amounts: no cent is
\* created or lost.
AmountsExact ==
  /\ sample.fn = "settle" => SettlementExact(sample.user, sample.platform, sample.mode)
  /\ sample.fn = "divide" => DivisionNear(sample.numerator, sample.denominator, sample.rule)
  /\ sample.fn = "convert" => MinorUnitsReturn(sample.amount)

\* FilterAgrees: no filter shows a row that its complement shows, or shows one against
\* its own parts; and where the value has nothing LIKE reads otherwise, texts are found.
FiltersAgree == sample.fn = "filter" => FilterAgrees(sample.filter, sample.cell)
=============================================================================
