----------------------------- MODULE TableSchema -----------------------------
(***************************************************************************)
(* Schemas and the preparation of values (table/schema.rs, prepare_cell,   *)
(* prepare_row and collect_extras in table.rs): what a column accepts, and *)
(* what becomes of a value on its way into a cell.                         *)
(***************************************************************************)
EXTENDS Naturals, Sequences, FiniteSets

CONSTANTS
  Values,   \* non-null values
  Types,    \* data types
  TypeOf,   \* TypeOf[v]: the data type of v
  Names,    \* column names, aliases and names of extra fields
  NULL,     \* the null value, "none"
  ERR       \* a rejected value

\* fits: the values that the storage layout has room for (fixed strings).
\* converter: what the column's converter returns, NULL if it has none.
ColumnSpec ==
  [name : Names, alias : Names \cup {NULL}, type : Types, nullable : BOOLEAN,
   fits : SUBSET Values, converter : [Values -> Values \cup {NULL, ERR}] \cup {NULL}]

NamesOf(spec) == {spec.name, spec.alias} \ {NULL}

\* Schema::new rejects a name or alias that two columns share.
SchemaOf(columns, open) == [columns |-> columns, open |-> open]

DistinctNames(columns) ==
  \A c, d \in DOMAIN columns :
    c # d => NamesOf(columns[c]) \cap NamesOf(columns[d]) = {}

Width(schema) == Len(schema.columns)

Positions(schema) == 1..Width(schema)

\* Schema::column_index.
ColumnIndex(schema, name) ==
  LET here == {c \in Positions(schema) : name \in NamesOf(schema.columns[c])} IN
  IF here = {} THEN NULL ELSE CHOOSE c \in here : TRUE

\* validate_cell.
Accepts(spec, v) ==
  IF v = NULL THEN spec.nullable ELSE TypeOf[v] = spec.type /\ v \in spec.fits

\* prepare_cell: a value of the column's type never goes through its converter.
Prepare(spec, v) ==
  LET direct == v = NULL \/ TypeOf[v] = spec.type \/ spec.converter = NULL
      stored == IF direct THEN v ELSE spec.converter[v]
  IN IF stored # ERR /\ Accepts(spec, stored) THEN stored ELSE ERR

\* prepare_row: the whole row, or nothing.
PrepareRow(schema, values) ==
  IF Len(values) # Width(schema)
     \/ \E c \in Positions(schema) : Prepare(schema.columns[c], values[c]) = ERR
  THEN ERR
  ELSE [c \in Positions(schema) |-> Prepare(schema.columns[c], values[c])]

NoExtras == [n \in {} |-> NULL]

\* RowExtras::set.
WithExtra(extras, n, v) ==
  [m \in DOMAIN extras \cup {n} |-> IF m = n THEN v ELSE extras[m]]

\* The fields of <<name, value>> pairs: of two of a name, the last.
FieldsIn(pairs) ==
  LET last(n) == CHOOSE k \in DOMAIN pairs :
                   pairs[k][1] = n /\ \A l \in DOMAIN pairs : pairs[l][1] = n => l <= k
  IN [n \in {pairs[k][1] : k \in DOMAIN pairs} |-> pairs[last(n)][2]]

\* collect_extras: a field may not have a column's name, and a closed schema
\* takes none.
CollectExtras(schema, extras) ==
  IF \E n \in DOMAIN extras : ColumnIndex(schema, n) # NULL \/ ~schema.open
  THEN ERR
  ELSE extras

\* layouts_match: the cells can be taken over without looking at them.
LayoutsMatch(source, destination) ==
  /\ source.type = destination.type
  /\ source.nullable = destination.nullable
  /\ source.fits = destination.fits
=============================================================================
