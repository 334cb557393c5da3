-------------------------------- MODULE Table --------------------------------
(***************************************************************************)
(* Table (table.rs) with its storage (table/storage.rs), its tombstones    *)
(* (table/tombstones.rs), compaction and append (table/append.rs), and     *)
(* bulk writes through typed views (table/views.rs).                       *)
(* Every call on one table or two is one step.                             *)
(***************************************************************************)
EXTENDS ColumnViews

CONSTANTS
  Tables,      \* tables
  Schemas,     \* schemas a table can have
  RowInputs,   \* sequences of values that callers push
  ExtraInputs, \* sequences of <<name, value>> that callers push with a row
  CellInputs,  \* values that callers set cells to
  SlotInputs,  \* values that callers assign through views
  Selections,  \* sequences of row positions that callers copy
  Mappings,    \* sequences of <<source, destination>> that callers append with
  MaxRows      \* bound: table t grows to at most MaxRows[t] rows

\* NULL is no value and no extra fields, ERR is no value, no value is of type Null.
ASSUME ValuesAssumption ==
  /\ NULL \notin Values /\ ERR \notin Values /\ ERR # NULL
  /\ NULL \notin Names \cup RowFields \cup Seq(RowFields \cup {NULL})
  /\ ERR \notin UNION {[F -> Values \cup {NULL}] : F \in SUBSET Names}
  /\ TypeOf \in [Values -> Types \ {NullType}]
  /\ NullType \notin Numbers
  /\ "string" \notin Numbers
  /\ \A type \in Numbers : Zero[type] \in Values /\ TypeOf[Zero[type]] = type

\* NULL is no column, and ERR none of what the parts of a call compute.
ASSUME SentinelsAssumption ==
  /\ NULL \notin Nat
  /\ ERR \notin RowFields \cup Seq(RowFields \cup {NULL}) \cup Seq(Nat \cup {NULL})

\* Only strings have layouts without room for some values.
ASSUME SchemasAssumption ==
  \A s \in Schemas :
    /\ s.columns \in Seq(ColumnSpec) /\ s.open \in BOOLEAN
    /\ DistinctNames(s.columns)
    /\ \A c \in DOMAIN s.columns : s.columns[c].type # "string" => s.columns[c].fits = Values

ASSUME InputsAssumption ==
  /\ RowInputs \subseteq Seq(Values \cup {NULL})
  /\ ExtraInputs \subseteq Seq(Names \X (Values \cup {NULL}))
  /\ CellInputs \cup SlotInputs \subseteq Values \cup {NULL}
  /\ Selections \subseteq Seq(Nat \ {0})
  /\ Mappings \subseteq Seq((Nat \ {0}) \X (Nat \ {0}))
  /\ HashThreshold \in Nat

VARIABLES
  table,    \* table[t]: the fields of table t
  outcome   \* what the last call returned: "ok" or "err"

vars == <<table, outcome>>

-----------------------------------------------------------------------------
(* Calls.                                                                  *)

Init ==
  /\ \E schema \in [Tables -> Schemas] : table = [t \in Tables |-> NewTable(schema[t])]
  /\ outcome = "err"

Return(t, T) ==
  /\ table' = [table EXCEPT ![t] = T]
  /\ outcome' = "ok"

Refuse ==
  /\ outcome' = "err"
  /\ UNCHANGED table

\* push_row, push_row_vec, push_row_buffer and their forms with extra fields.
PushRow(t, values, extras) ==
  LET T == table[t]
      row == PrepareRow(T.schema, values)
      more == Collected(T.schema, extras)
  IN /\ T.rowCount < MaxRows[t]
     /\ IF row = ERR \/ more = ERR THEN Refuse ELSE Return(t, Pushed(T, row, more))

\* pop_row returns false on an empty table.
PopRow(t) ==
  IF table[t].rowCount = 0 THEN Refuse ELSE Return(t, Popped(table[t]))

SetCell(t, i, c, v) ==
  LET T == table[t] IN
  IF i > T.rowCount \/ c \notin Positions(T.schema) THEN Refuse
  ELSE LET w == Prepare(T.schema.columns[c], v) IN
       IF w = ERR THEN Refuse ELSE Return(t, [T EXCEPT !.columns[c] = PutCell(@, i, w)])

\* set_named: a column's name or alias first, an extra field otherwise.
SetNamed(t, i, n, v) ==
  LET T == table[t]
      c == ColumnIndex(T.schema, n)
  IN IF c # NULL THEN SetCell(t, i, c, v)
     ELSE IF ~T.schema.open \/ i > T.rowCount THEN Refuse
     ELSE Return(t, [T EXCEPT !.extras = SetField(@, i, n, v)])

\* The caller borrows column c for writing, as values of a type or optional ones,
\* and assigns to row i: NullableValuesMut::set, or an element of a slice.
WriteSlot(t, c, i, v, optional) ==
  LET T == table[t]
      type == IF v = NULL THEN T.schema.columns[c].type ELSE TypeOf[v]
  IN IF \/ BorrowFault(Width(T.schema), <<>>, <<c>>) # "ok"
        \/ SliceFault(T.schema.columns[c], type, optional) # "ok"
        \/ i > T.rowCount
     THEN Refuse
     ELSE Return(t, [T EXCEPT !.columns[c] = PutSlot(@, i, v)])

\* An element of the vectors that into_parts returns is assigned to: no call.
WriteParts(t, C, c) ==
  /\ table' = [table EXCEPT ![t].columns[c] = C]
  /\ UNCHANGED outcome

WritePlaceholder(t, c, i, v) ==
  /\ SliceFault(table[t].schema.columns[c], TypeOf[v], TRUE) = "ok"
  /\ WriteParts(t, PutPlaceholder(table[t].columns[c], i, v), c)

WriteValidity(t, c, i, valid) == WriteParts(t, PutValidity(table[t].columns[c], i, valid), c)

TombstoneRow(t, i) ==
  IF i > table[t].rowCount THEN Refuse ELSE Return(t, SetFlag(table[t], i, TRUE))

\* Restoring a row of a table without flags changes nothing.
RestoreRow(t, i) ==
  IF i > table[t].rowCount THEN Refuse ELSE Return(t, SetFlag(table[t], i, FALSE))

RestoreAllRows(t) == Return(t, WithFlags(table[t], <<>>, 0))

\* compact returns what RemovalOf says.
Compact(t) == Return(t, Compacted(table[t]))

CopyRows(t, u, positions) ==
  /\ Len(positions) <= MaxRows[u]
  /\ IF \E j \in DOMAIN positions : positions[j] > table[t].rowCount THEN Refuse
     ELSE Return(u, Copied(table[t], positions))

\* A source is borrowed while its rows are appended: it is another table.  The
\* bound holds back only what would be added, never a refusal.
AppendMapped(t, u, mapping) ==
  LET layout == LayoutOf(table[t], table[u], mapping) IN
  IF layout = ERR \/ ~CanAppendRows(table[t], table[u], layout) THEN Refuse
  ELSE /\ table[t].rowCount + table[u].rowCount <= MaxRows[t]
       /\ Return(t, Appended(table[t], table[u], layout))

\* append: column by column, in order.
AppendByPosition(t, u) ==
  IF Width(table[t].schema) # Width(table[u].schema) THEN Refuse
  ELSE AppendMapped(t, u, [d \in Positions(table[t].schema) |-> <<d, d>>])

AppendNamed(t, u) ==
  LET layout == NamedMapping(table[t], table[u]) IN
  IF layout = ERR \/ ~CanAppendRows(table[t], table[u], layout) THEN Refuse
  ELSE /\ table[t].rowCount + table[u].rowCount <= MaxRows[t]
       /\ Return(t, Appended(table[t], table[u], layout))

\* Row positions callers pass, one past the end included.
RowPositions(t) == 1..(table[t].rowCount + 1)

Next ==
  \E t \in Tables :
    \/ \E values \in RowInputs, extras \in ExtraInputs : PushRow(t, values, extras)
    \/ PopRow(t)
    \/ \E i \in RowPositions(t), v \in CellInputs :
         \/ \E c \in 1..(Width(table[t].schema) + 1) : SetCell(t, i, c, v)
         \/ \E n \in Names : SetNamed(t, i, n, v)
    \/ \E c \in Positions(table[t].schema), i \in RowPositions(t) :
         \E v \in SlotInputs, optional \in BOOLEAN :
           (v = NULL => optional) /\ WriteSlot(t, c, i, v, optional)
    \/ \E c \in Positions(table[t].schema), i \in 1..table[t].rowCount :
         /\ IsSplit(table[t].schema.columns[c])
         /\ \/ \E v \in SlotInputs \ {NULL} : WritePlaceholder(t, c, i, v)
            \/ \E valid \in BOOLEAN : WriteValidity(t, c, i, valid)
    \/ \E i \in RowPositions(t) : TombstoneRow(t, i) \/ RestoreRow(t, i)
    \/ RestoreAllRows(t)
    \/ Compact(t)
    \/ \E u \in Tables, positions \in Selections : CopyRows(t, u, positions)
    \/ \E u \in Tables \ {t} :
         \/ \E mapping \in Mappings : AppendMapped(t, u, mapping)
         \/ AppendByPosition(t, u)
         \/ AppendNamed(t, u)

Spec == Init /\ [][Next]_vars
-----------------------------------------------------------------------------
(* Properties.                                                             *)

\* The vectors of a table never drift apart: all columns and the extra fields
\* have one element per row, and the flags either do not exist, when no row is
\* marked, or have one element per row and count the marked rows.
Aligned ==
  \A t \in Tables :
    LET T == table[t] IN
    /\ \A c \in DOMAIN T.columns :
         /\ Length(T.columns[c]) = T.rowCount
         /\ \A x \in VectorsOf(T.columns[c]) : Len(T.columns[c][x]) = T.rowCount
    /\ T.extras # NULL => Len(T.extras) = T.rowCount
    /\ (T.flags = <<>>) = (T.count = 0)
    /\ T.flags # <<>> => Len(T.flags) = T.rowCount
    /\ T.count = Cardinality({i \in DOMAIN T.flags : T.flags[i]})

\* Whatever path a value took into a table (push, set, append with or without a
\* converter, copy), the column it is in accepts it.
CellsValid ==
  \A t \in Tables :
    LET T == table[t] IN
    \A c \in DOMAIN T.columns : \A i \in 1..T.rowCount :
      Accepts(T.schema.columns[c], Cell(T, i, c))

\* No extra field hides behind, or is hidden by, a column's name or alias, not
\* even one that was an extra field of a table with another schema.
ExtrasDisjoint ==
  \A t \in Tables :
    LET T == table[t] IN
    \A i \in 1..T.rowCount : \A n \in DOMAIN FieldsOf(T.extras, i) :
      ColumnIndex(T.schema, n) = NULL

\* The extra fields of one row, set one by one.
SetUpto(pairs) ==
  LET upto[k \in 0..Len(pairs)] ==
        IF k = 0 THEN <<NULL>> ELSE SetField(upto[k - 1], 1, pairs[k][1], pairs[k][2])
  IN upto

\* However many fields a row is given, at once or one by one, in a list or in a map,
\* each name has the value it was given last, and once.
ExtrasAreKept ==
  \A pairs \in UNION {[1..k -> Names \X (CellInputs \cup {NULL})] : k \in 0..3} :
    LET fields == FieldsIn(pairs)
        schema == SchemaOf(<<>>, TRUE)
        atOnce == <<Collected(schema, pairs)>>
        oneByOne == SetUpto(pairs)[Len(pairs)]
    IN \A X \in {atOnce, oneByOne} :
         /\ FieldsOf(X, 1) = fields
         /\ X[1] # NULL => Len(FieldPairs(X[1])) = Cardinality(DOMAIN fields)

\* Every row of every table is one its own schema allows, wherever the row was
\* pushed, appended, mapped or selected from, and its extra fields are those it was
\* given.
RowsAreLegal == CellsValid /\ ExtrasDisjoint /\ ExtrasAreKept

Rows == INSTANCE TableRows WITH
          schema <- [t \in Tables |-> table[t].schema],
          rows <- [t \in Tables |-> RowsOf(table[t])]

\* The vectors behave as the rows of TableRows: an operation moves a row as a
\* whole, and one that is refused changes nothing.
ImplementsRows == Rows!Spec

\* The ways in which the columns of t can be filled from those of u by the calls.
LayoutsOf(t, u) ==
  ({LayoutOf(table[t], table[u], mapping) : mapping \in Mappings}
     \cup {NamedMapping(table[t], table[u])}) \ {ERR}

\* A column takes the type of the one it is filled from, or converts it.
Convertible(t, u, layout) ==
  \A d \in DOMAIN layout : layout[d] # NULL =>
    LET spec == table[t].schema.columns[d] IN
    table[u].schema.columns[layout[d]].type \in {spec.type, NullType} \/ spec.converter # NULL

\* An append takes rows exactly if every one of them, the last as well as the first,
\* would be taken alone, although it prepares them column by column and passes over
\* the cells of columns that are alike.
AppendsTakeWholeSources ==
  \A t \in Tables : \A u \in Tables \ {t} : \A layout \in LayoutsOf(t, u) :
    table[u].rowCount > 0 =>
      (CanAppendRows(table[t], table[u], layout) <=>
         /\ Convertible(t, u, layout)
         /\ \A i \in 1..table[u].rowCount :
              LET row == Rows!Moved(t, u, layout, RowsOf(table[u])[i]) IN
              row.extra # ERR /\ \A d \in DOMAIN row.cells : row.cells[d] # ERR)

\* What the result of compact says of the rows of a table: those that it does not
\* list are at their new positions, and no other row is left.
RowsAreTracked(before, after, removal) ==
  LET kept == 1..removal.previous \ removal.removed
  IN /\ kept = {i \in DOMAIN before : ~before[i].dead}
     /\ {NewPosition(i, removal.removed) : i \in kept} = DOMAIN after
     /\ \A i \in kept : after[NewPosition(i, removal.removed)] = before[i]

\* The result of compact tells the holder of row positions where each row went:
\* a row it does not list is, unchanged, at its new position, and no row is
\* left over.
CompactionTracksRows ==
  [][\A t \in Tables :
       Compact(t) => RowsAreTracked(RowsOf(table[t]), RowsOf(table'[t]), RemovalOf(table[t]))]_vars

\* Tables with equal schemas can always be appended to each other: what one
\* accepted, as a row, as an update or through a view, the other does not refuse.
SameSchemaAppends ==
  [][\A t \in Tables : \A u \in Tables \ {t} :
       table[t].schema = table[u].schema /\ AppendByPosition(t, u)
         => outcome' = "ok"]_vars

\* The columns of a schema that share a name with a column.
Sharing(schema, spec) ==
  {c \in Positions(schema) : NamesOf(schema.columns[c]) \cap NamesOf(spec) # {}}

\* The rows that a table got from another: a column is filled from the source column
\* that shares a name with it, and with null if there is none.
FilledByNames(before, source, after) ==
  \A d \in Positions(before.schema) : \A i \in 1..source.rowCount :
    LET spec == before.schema.columns[d]
        new == Cell(after, before.rowCount + i, d)
    IN /\ Sharing(source.schema, spec) = {} => new = NULL
       /\ \A c \in Sharing(source.schema, spec) : new = Prepare(spec, Cell(source, i, c))

\* append_named finds the source column by whichever of its names and aliases, and
\* never chooses between two.
NamedAppendFollowsNames ==
  [][\A t \in Tables : \A u \in Tables \ {t} :
       outcome' = "ok" /\ AppendNamed(t, u) =>
         FilledByNames(table[t], table[u], table'[t])]_vars

\* A table refuses no rows of a table like it, and fills its columns from those of
\* another as their names say.
AppendsFollowSchemas == SameSchemaAppends /\ NamedAppendFollowsNames

\* The inputs and outputs that columns_io grants are those that were asked for,
\* it grants them whenever no output is also something else, and column_pair_mut
\* agrees.
BorrowsAreExclusive ==
  LET n == Cardinality(Names)
      asked == UNION {[1..k -> 1..(n + 1)] : k \in 0..2}
  IN \A inputs, outputs \in asked :
       LET granted == BorrowFault(n, inputs, outputs) = "ok" IN
       /\ granted = /\ Range(inputs) \cup Range(outputs) \subseteq 1..n
                    /\ Range(inputs) \cap Range(outputs) = {}
                    /\ IsInjective(outputs)
       /\ granted => BorrowedColumns(n, inputs, outputs) = [inputs |-> inputs, outputs |-> outputs]
       /\ Len(inputs) = 1 /\ Len(outputs) = 1 =>
            BorrowedPair(n, inputs[1], outputs[1])
              = IF granted THEN inputs \o outputs ELSE NULL

\* Whichever way a column is read in bulk, cell by cell, value by value or as
\* slices, it holds the table's cells; what a nullable column keeps in the place
\* of a null shows in none of them, and a sum has every other row once, within a
\* chain in the order of the rows.
ReadersAgree ==
  \A t \in Tables : \A c \in DOMAIN table[t].columns :
    LET T == table[t]
        C == T.columns[c]
        spec == T.schema.columns[c]
        cells == [i \in 1..T.rowCount |-> Cell(T, i, c)]
        rows == {i \in DOMAIN cells : cells[i] # NULL}
        sum == SumOf(C)
        slice == SliceOfColumn(C)
    IN /\ IterValues(C) = cells
       /\ ForEachValue(C) = cells
       /\ SliceFault(spec, spec.type, FALSE) = "ok" => slice = cells /\ rows = DOMAIN cells
       /\ SliceFault(spec, spec.type, TRUE) = "ok" =>
            IF IsSplit(spec)
            THEN /\ Zipped(slice) = cells
                 /\ \A i \in 1..(T.rowCount + 1) :
                      NullableAt(slice, i) = IF i \in DOMAIN cells THEN cells[i] ELSE ERR
            ELSE slice = cells
       /\ spec.type \in SumTypes =>
            /\ (UNION {Range(sum[k]) : k \in DOMAIN sum}) \ {NULL} = rows
            /\ \A k, l \in DOMAIN sum : k # l => Range(sum[k]) \cap Range(sum[l]) \subseteq {NULL}
            /\ \A k \in DOMAIN sum : \A a, b \in DOMAIN sum[k] :
                 a < b /\ {sum[k][a], sum[k][b]} \subseteq rows => sum[k][a] < sum[k][b]

\* Columns are reached and read correctly in bulk.
ViewsAgree == BorrowsAreExclusive /\ ReadersAgree
=============================================================================
