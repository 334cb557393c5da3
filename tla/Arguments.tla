------------------------------ MODULE Arguments ------------------------------
(***************************************************************************)
(* Argument lists, and the index of their names (Arguments and             *)
(* ArgumentIndex in arguments.rs).  The properties of a table are such a   *)
(* list.                                                                   *)
(*                                                                         *)
(* An argument without a name is named NULL.  A list may have a name more  *)
(* than once, and keeps the order in which its arguments were pushed.      *)
(***************************************************************************)
EXTENDS TableSchema
LOCAL INSTANCE SequencesExt

Argument(name, value) == [name |-> name, value |-> value]

Without(arguments, position) ==
  SubSeq(arguments, 1, position - 1) \o SubSeq(arguments, position + 1, Len(arguments))

PositionsOf(arguments, name) ==
  SelectSeq([k \in DOMAIN arguments |-> k], LAMBDA k : arguments[k].name = name)

\* remove_named: the first argument of that name.
WithoutNamed(arguments, name) ==
  LET here == PositionsOf(arguments, name) IN
  IF here = <<>> THEN arguments ELSE Without(arguments, here[1])

\* get_nth_named, counted from 1, or NULL; get_named is the first.
NthNamed(arguments, name, n) ==
  LET here == PositionsOf(arguments, name) IN
  IF n \in DOMAIN here THEN arguments[here[n]] ELSE NULL

-----------------------------------------------------------------------------
(* The index: the positions of each name.                                  *)

\* Mutant: a name that comes again replaces its position.
IndexOfLast(arguments) ==
  FoldLeftDomain(LAMBDA index, k :
                   IF arguments[k].name = NULL THEN index
                   ELSE WithExtra(index, arguments[k].name, <<k>>),
                 NoExtras, arguments)

\* ArgumentIndex::new: one position after another is added to its name's.
IndexOfNames(arguments) ==
  LET before(index, n) == IF n \in DOMAIN index THEN index[n] ELSE <<>> IN
  FoldLeftDomain(LAMBDA index, k :
                   IF arguments[k].name = NULL THEN index
                   ELSE WithExtra(index, arguments[k].name,
                                  Append(before(index, arguments[k].name), k)),
                 NoExtras, arguments)

\* ArgumentIndex::get_nth_named.
NthIndexed(arguments, index, name, n) ==
  IF name \notin DOMAIN index \/ n \notin DOMAIN index[name] THEN NULL
  ELSE arguments[index[name][n]]

-----------------------------------------------------------------------------
(* Properties of a table.                                                  *)

\* set_property: in the place of the first of that name, if there is one.
WithProperty(properties, name, value) ==
  LET here == PositionsOf(properties, name) IN
  IF here = <<>> THEN Append(properties, Argument(name, value))
  ELSE [k \in DOMAIN properties |->
          IF k = here[1] THEN Argument(name, value) ELSE properties[k]]
=============================================================================
