----------------------------- MODULE SqliteTables -----------------------------
(***************************************************************************)
(* How the SQLite binding matches arguments with the parameters of a       *)
(* statement, and what it makes of a table in a database: the schema it    *)
(* discovers and the cells it reads (sqlite.rs).                           *)
(*                                                                         *)
(* A parameter's name is <<prefix, rest>>, the prefix "" or one of ":",    *)
(* "@" and "$"; numbered parameters have the prefix "?", and a parameter   *)
(* written "?" is named NULL.  What SQLite stores is <<class, content>>,   *)
(* or NULL.                                                                *)
(*                                                                         *)
(* A table in a database is its columns and its rows, as the engine        *)
(* reports them: for a column its declared type, whether NOT NULL, its     *)
(* place in the primary key (0 if none) and whether it is hidden; for the  *)
(* table, whether its primary key has an index.  rowid is the column that  *)
(* is an alias of the row number, 0 if none: the engine knows it but does  *)
(* not report it.                                                          *)
(***************************************************************************)
EXTENDS Arguments, TableData

CONSTANTS
  IntegerTypes,  \* I8 to U64
  FloatTypes,    \* F32 and F64
  RangeOf,       \* RangeOf[type]: what an integer type can hold
  NaNs,          \* contents of floats that are no numbers
  DeclaredType,  \* DeclaredType[declared]: declared_data_type, or ERR
  AsFloat,       \* AsFloat[type][<<class, content>>]: as a float, or ERR
  AsUuid,        \* AsUuid[<<class, content>>]: as a UUID, or ERR
  InvalidText    \* contents of texts that are not UTF-8

-----------------------------------------------------------------------------
(* bind_arguments.                                                         *)

\* sql_value_ref, or ERR.
SqlValue(v) ==
  IF v = NULL THEN NULL
  ELSE LET type == v[1]
           content == v[2]
       IN CASE type \in IntegerTypes ->
                 IF content \in RangeOf["i64"] THEN <<"integer", content>> ELSE ERR
            [] type = "bool" -> <<"integer", content>>
            [] type \in FloatTypes -> IF content \in NaNs THEN ERR ELSE <<"real", content>>
            [] type = "string" -> <<"text", content>>
            [] type \in {"bytes", "uuid"} -> <<"blob", content>>

\* statement_parameter_mode and argument_mode.
Mode(isNamed) ==
  IF isNamed = {} THEN "none"
  ELSE IF isNamed = {TRUE} THEN "named"
  ELSE IF isNamed = {FALSE} THEN "positional"
  ELSE "mixed"

StatementMode(parameters) ==
  Mode({parameters[p] # NULL /\ parameters[p][1] # "?" : p \in DOMAIN parameters})

ArgumentMode(arguments) == Mode({arguments[k].name # NULL : k \in DOMAIN arguments})

\* normalized_parameter_name.
Normalized(name) == name[2]

BoundPositional(parameters, arguments) ==
  IF Len(arguments) # Len(parameters) \/ \E k \in DOMAIN arguments : SqlValue(arguments[k].value) = ERR
  THEN ERR
  ELSE [p \in DOMAIN parameters |-> SqlValue(arguments[p].value)]

\* The map that bind_named fills from the arguments.
Supplied(arguments) ==
  LET named(n) == {k \in DOMAIN arguments : Normalized(arguments[k].name) = n}
      last(n) == CHOOSE k \in named(n) : \A l \in named(n) : l <= k
  IN [n \in {Normalized(arguments[k].name) : k \in DOMAIN arguments} |-> arguments[last(n)].value]

\* Mutant: a name that is supplied again replaces the value.
BoundToLast(parameters, arguments) ==
  LET supplied == Supplied(arguments)
      wanted == {Normalized(parameters[p]) : p \in DOMAIN parameters}
  IN IF \/ ~(wanted \subseteq DOMAIN supplied)
        \/ \E n \in wanted : SqlValue(supplied[n]) = ERR
        \/ ~(DOMAIN supplied \subseteq wanted)
     THEN ERR
     ELSE [p \in DOMAIN parameters |-> SqlValue(supplied[Normalized(parameters[p])])]

\* bind_named: no argument replaces another, every parameter finds one, and
\* every argument is used.
BoundNamed(parameters, arguments) ==
  LET supplied == Supplied(arguments)
      wanted == {Normalized(parameters[p]) : p \in DOMAIN parameters}
  IN IF \/ Cardinality(DOMAIN supplied) # Len(arguments)
        \/ ~(wanted \subseteq DOMAIN supplied)
        \/ \E n \in wanted : SqlValue(supplied[n]) = ERR
        \/ ~(DOMAIN supplied \subseteq wanted)
     THEN ERR
     ELSE [p \in DOMAIN parameters |-> SqlValue(supplied[Normalized(parameters[p])])]

\* bind_arguments: what each parameter is bound to, or ERR.
Bound(parameters, arguments) ==
  LET mode == StatementMode(parameters) IN
  IF mode # ArgumentMode(arguments) \/ mode = "mixed" THEN ERR
  ELSE CASE mode = "none" -> <<>>
         [] mode = "positional" -> BoundPositional(parameters, arguments)
         [] mode = "named" -> BoundNamed(parameters, arguments)

-----------------------------------------------------------------------------
(* What is read.                                                           *)

Visible(stored) == SelectSeq(stored.columns, LAMBDA column : column.hidden # 1)

ColumnOf(name, type, nullable) ==
  [name |-> name, alias |-> NULL, type |-> type, nullable |-> nullable,
   fits |-> Values, converter |-> NULL]

\* typed_value and integer_value: a cell of a type, or ERR.
TypedValue(type, raw) ==
  IF raw = NULL THEN NULL
  ELSE LET class == raw[1]
           content == raw[2]
       IN CASE type \in IntegerTypes \cup {"bool"} ->
                 IF class = "integer" /\ content \in RangeOf[type] THEN <<type, content>> ELSE ERR
            [] type \in FloatTypes ->
                 IF class \in {"integer", "real"} THEN AsFloat[type][raw] ELSE ERR
            [] type = "string" ->
                 IF class = "text" /\ content \notin InvalidText THEN <<type, content>> ELSE ERR
            [] type = "bytes" -> IF class = "blob" THEN <<type, content>> ELSE ERR
            [] type = "uuid" -> IF class \in {"text", "blob"} THEN AsUuid[raw] ELSE ERR
            [] type = NullType -> ERR

\* inferred_data_type.
InferredType(class) ==
  CASE class = "integer" -> "i64"
    [] class = "real" -> "f64"
    [] class = "text" -> "string"
    [] class = "blob" -> "bytes"

\* inferred_value.
InferredValue(raw) == IF raw = NULL THEN NULL ELSE TypedValue(InferredType(raw[1]), raw)

\* Mutant: every INTEGER primary key is taken for the row number.
AnyIntegerKey(column, indexed) == column.pk = 1 /\ column.declared = "INTEGER"

\* A column that schema_for_table takes for the row number.
RowidAlias(column, indexed) == column.pk = 1 /\ column.declared = "INTEGER" /\ ~indexed

\* schema_for_table: from the columns, and from whether a primary key index was
\* found before; or ERR.
Discovered(stored, indexed) ==
  LET columns == Visible(stored)
      type(c) == DeclaredType[columns[c].declared]
      nullable(c) == ~columns[c].notNull /\ ~RowidAlias(columns[c], indexed)
  IN IF columns = <<>> \/ \E c \in DOMAIN columns : type(c) = ERR
     THEN ERR
     ELSE SchemaOf([c \in DOMAIN columns |-> ColumnOf(columns[c].name, type(c), nullable(c))], FALSE)

\* query_table_with_schema after its statement was prepared: the rows that the
\* statement returns now, or ERR.  A row has no column after its last.
Streamed(schema, rows) ==
  LET values(row) == [c \in Positions(schema) |->
                        IF c \in DOMAIN row THEN TypedValue(schema.columns[c].type, row[c]) ELSE ERR]
      after[k \in 0..Len(rows)] ==
        IF k = 0 THEN NewTable(schema)
        ELSE IF after[k - 1] = ERR \/ (\E c \in Positions(schema) : values(rows[k])[c] = ERR)
                \/ PrepareRow(schema, values(rows[k])) = ERR
        THEN ERR
        ELSE Pushed(after[k - 1], PrepareRow(schema, values(rows[k])), EmptyExtras(0))
  IN after[Len(rows)]

\* query_table: the class of a column is that of its first value that is not
\* null, and the rows are kept until all classes are known.  After k rows, the
\* classes, or ERR.
Classes(width, rows) ==
  LET class(k, c) == IF rows[k][c] = NULL THEN NULL ELSE rows[k][c][1]
      legal(seen, k) == \A c \in 1..width :
                          /\ c \in DOMAIN rows[k]
                          /\ class(k, c) # NULL => seen[c] \in {NULL, class(k, c)}
                          /\ InferredValue(rows[k][c]) # ERR
      after[k \in 0..Len(rows)] ==
        IF k = 0 THEN [c \in 1..width |-> NULL]
        ELSE IF after[k - 1] = ERR \/ ~legal(after[k - 1], k) THEN ERR
        ELSE [c \in 1..width |-> IF after[k - 1][c] = NULL THEN class(k, c) ELSE after[k - 1][c]]
  IN after[Len(rows)]

\* query_table: names are those of the statement when it was prepared.
Inferred(names, rows) ==
  LET classes == Classes(Len(names), rows)
      type(c) == IF classes[c] = NULL THEN NullType ELSE InferredType(classes[c])
      schema == SchemaOf([c \in DOMAIN names |-> ColumnOf(names[c], type(c), TRUE)], FALSE)
  IN IF classes = ERR \/ ~DistinctNames(schema.columns) THEN ERR
     ELSE [NewTable(schema) EXCEPT
             !.columns = [c \in DOMAIN names |-> Filled(schema.columns[c],
                            [k \in DOMAIN rows |-> InferredValue(rows[k][c])])],
             !.rowCount = Len(rows)]
=============================================================================
