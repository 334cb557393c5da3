------------------------- MODULE MCConcurrentBuilder -------------------------
(***************************************************************************)
(* Instances of ConcurrentBuilder for TLC.                                 *)
(***************************************************************************)
EXTENDS ConcurrentBuilder

MCValues == {"1", "2", "a"}

MCTypeOf == [v \in MCValues |-> IF v = "a" THEN "string" ELSE "i64"]

\* One required column; extra fields are kept.
MCSchema ==
  SchemaOf(<<[name |-> "id", alias |-> NULL, type |-> "i64", nullable |-> FALSE,
              fits |-> MCValues, converter |-> NULL]>>, TRUE)

MCTargets == {MCSchema, [MCSchema EXCEPT !.open = FALSE]}

Input(v) == [values |-> <<v>>, extras |-> NoExtras]

Noted(v, name) == [values |-> <<v>>, extras |-> [n \in {name} |-> "a"]]

\* One row, one with an extra field, two rows, none; an invalid value behind a
\* valid one, and an extra field with a column's name.
MCInputs ==
  {<<Input("1")>>, <<Noted("2", "note")>>, <<Input("1"), Input("2")>>, <<>>,
   <<Input("1"), Input("a")>>, <<Noted("1", "id")>>}

MCExisting == <<[values |-> <<"2">>, extras |-> NoExtras]>>
=============================================================================
