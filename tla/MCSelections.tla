----------------------------- MODULE MCSelections -----------------------------
(***************************************************************************)
(* An instance of Selections for TLC.                                      *)
(***************************************************************************)
EXTENDS Selections, TLC

MCValues == {"1", "2"}

MCTypeOf == [v \in MCValues |-> "i64"]

MCZero == [type \in {"i64"} |-> "1"]

Column(name, alias) ==
  [name |-> name, alias |-> alias, type |-> "i64", nullable |-> TRUE,
   fits |-> MCValues, converter |-> NULL]

\* Three rows that differ: the second is marked, the last has an extra field.
Noted == Inline(<<<<"note", "1">>>>)

Plain == EmptyExtras(0)

MCSources ==
  {SetFlag(
     Pushed(Pushed(Pushed(NewTable(SchemaOf(<<Column("id", "key"), Column("name", NULL)>>, TRUE)),
       <<"1", "2">>, Plain), <<"1", "1">>, Plain), <<"2", "1">>, Noted),
     2, TRUE),
   Pushed(Pushed(NewTable(SchemaOf(<<Column("id", NULL)>>, FALSE)),
     <<"1">>, Plain), <<NULL>>, Plain)}

\* Out of order, one row twice; out of bounds where rows were left out.
MCRowLists == {<<3, 1>>, <<2, 2>>}

\* At both ends, inside, empty, reversed.
MCRanges == {<<0, 2>>, <<1, 3>>, <<1, 1>>, <<2, 1>>}

\* Swapped, one left out, all left out, one twice; out of bounds where columns were left out.
MCColumnLists == {<<2, 1>>, <<2>>, <<>>, <<1, 1>>}

MCTests ==
  {[name |-> "key", value |-> "1"], [name |-> "name", value |-> "1"],
   [name |-> "note", value |-> "1"]}
===============================================================================
