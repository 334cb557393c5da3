------------------------------ MODULE MCRowRanges ------------------------------
(***************************************************************************)
(* An instance of RowRanges for TLC.                                       *)
(***************************************************************************)
EXTENDS RowRanges, TLC

\* Two numbers.
MCValues == {"1", "2"}

MCTypeOf == [v \in MCValues |-> "i64"]

Id(nullable) ==
  [name |-> "id", alias |-> NULL, type |-> "i64", nullable |-> nullable,
   fits |-> MCValues, converter |-> NULL]

\* A column of numbers with validity, extra fields, and flags for a marked row.
Open ==
  <<SchemaOf(<<Id(TRUE)>>, TRUE),
    <<[cells |-> <<"1">>, extra |-> NoExtras, dead |-> FALSE],
      [cells |-> <<NULL>>, extra |-> NoExtras, dead |-> TRUE],
      [cells |-> <<NULL>>, extra |-> NoExtras, dead |-> FALSE]>>>>

\* One vector, which refuses nulls, and no room for an extra field.
Closed ==
  <<SchemaOf(<<Id(FALSE)>>, FALSE),
    [i \in 1..3 |-> [cells |-> <<"1">>, extra |-> NoExtras, dead |-> FALSE]]>>

MCRows == {Open, Closed}

\* The live rows' number moves on, to a null in the end; then the row notes what
\* it became.
Step == ("1" :> "2") @@ ("2" :> NULL) @@ (NULL :> NULL)

Same == [v \in MCValues \cup {NULL} |-> v]

MCOperations ==
  {[live |-> TRUE, edits |-> <<[to |-> "id", from |-> "id", by |-> Step],
                               [to |-> "note", from |-> "id", by |-> Same]>>]}
================================================================================
