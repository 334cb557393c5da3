------------------------------- MODULE MCTable -------------------------------
(***************************************************************************)
(* Instances of Table, and of the queries on it, for TLC.                  *)
(***************************************************************************)
EXTENDS TableQueries, TLC

CONSTANTS left, right

\* Numbers, strings, and a string that does not fit a fixed-width column.
MCValues == {"1", "2", "a", "b", "long"}

MCTypes == {"i64", "string", "null"}

MCTypeOf == [v \in MCValues |-> IF v \in {"1", "2"} THEN "i64" ELSE "string"]

MCKeyTypes == {"i64", "string"}

MCKeyOf == [v \in MCValues |-> <<MCTypeOf[v], v>>]

MCRank == [v \in MCValues |-> CASE v \in {"1", "a"} -> 1 [] v \in {"2", "b"} -> 2 [] OTHER -> 3]

MCLess ==
  {<<v, w>> \in MCValues \X MCValues : MCTypeOf[v] = MCTypeOf[w] /\ MCRank[v] < MCRank[w]}

MCNames == {"id", "key", "name", "note"}

Column(name, alias, type) ==
  [name |-> name, alias |-> alias, type |-> type, nullable |-> TRUE,
   fits |-> Values, converter |-> NULL]

Required(spec) == [spec EXCEPT !.nullable = FALSE]

\* A fixed-width string column that formats numbers: the second is too long.
Formatted(spec) ==
  [spec EXCEPT !.fits = MCValues \ {"long"},
               !.converter = [v \in MCValues |-> CASE v = "1" -> "a"
                                                   [] v = "2" -> "long"
                                                   [] OTHER -> ERR]]

MCTables == {left, right}

MoveValues == {"1", "2"}

MoveTypes == {"f64", "null"}

MoveTypeOf == [v \in MoveValues |-> "f64"]

MoveZero == [type \in {"f64"} |-> "2"]

\* Two open tables of one schema, with a vector column and a column that is only
\* a length: whole rows move between them.
MoveSchemas == {SchemaOf(<<Column("id", NULL, "f64"), Column("gap", NULL, "null")>>, TRUE)}

MoveRows == {<<"1", NULL>>, <<"1">>}

\* A null leaves the number it replaces in its slot.
MoveCells == {NULL}

MoveSelections == {<<2, 1>>, <<3>>}

\* Without a source for the second column, and out of bounds.
MoveMappings == {<<<<1, 1>>>>, <<<<3, 1>>>>}

NoMoreExtras == {<<>>}

MoveMax == (left :> 3) @@ (right :> 1)

\* Schemas whose rows pass into each other by position, by name, by alias, with
\* and without a converter, or not at all.
MixSchemas ==
  {SchemaOf(<<Required(Column("id", "key", "i64")), Column("name", NULL, "string")>>, TRUE),
   SchemaOf(<<Column("key", NULL, "i64"),
              Required(Formatted(Column("id", "note", "string")))>>, TRUE),
   SchemaOf(<<Required(Formatted(Column("name", "key", "string"))),
               Column("note", NULL, "null")>>, FALSE)}

MixRows == {<<"1", "b">>, <<NULL, "1">>, <<"1", "2">>, <<"1", NULL>>}

\* The second value of a name replaces the first.
MixExtras == {<<>>, <<<<"note", "2">>, <<"note", "1">>>>}

MixCells == {"1"}

MixZero == [type \in {"i64"} |-> "1"]

\* Swapped, partial, twice the same destination, out of bounds.
MixMappings == {<<<<1, 2>>, <<2, 1>>>>, <<<<1, 1>>>>, <<<<1, 1>>, <<2, 1>>>>, <<<<1, 3>>>>}

MixMax == (left :> 2) @@ (right :> 1)
=============================================================================
