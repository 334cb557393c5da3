-------------------------- MODULE MCSharedProjection --------------------------
(***************************************************************************)
(* Instances of SharedProjection for TLC.                                  *)
(***************************************************************************)
EXTENDS SharedProjection, TLC

MCValues == {"1", "2"}

MCTypeOf == [v \in MCValues |-> "i64"]

MCZero == [type \in {"i64"} |-> "1"]

Column(name, alias) ==
  [name |-> name, alias |-> alias, type |-> "i64", nullable |-> FALSE,
   fits |-> MCValues, converter |-> NULL]

\* Both schemas store unknown fields; the second one has one column less.
MCSchemas ==
  {SchemaOf(<<Column("id", "key"), Column("qty", NULL)>>, TRUE),
   SchemaOf(<<Column("qty", NULL)>>, TRUE)}

MCRows == {<<"1", "1">>, <<"1">>}

MCExtras == {<<>>}

MCSelections == {<<2>>, <<2, 1>>, <<1>>}

MCMax == [x \in Tables |-> 1]

Symmetry == Permutations(Threads)
=============================================================================
