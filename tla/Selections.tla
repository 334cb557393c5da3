------------------------------ MODULE Selections ------------------------------
(***************************************************************************)
(* Selections over a table that does not change: TableSelection, which     *)
(* borrows it (table/selection_view.rs), SharedTableSelection, which keeps *)
(* it alive (table/shared_selection.rs), and the copies that are made of   *)
(* it (table/selection.rs).                                                *)
(*                                                                         *)
(* A selection is a list of row positions and a list of column positions   *)
(* of the source, and every selection of a selection has to translate its  *)
(* own positions into those of the source.  All of them are values, so one *)
(* handle shows what any number of them do.                                *)
(***************************************************************************)
EXTENDS TableData

CONSTANTS
  Sources,      \* tables that are selected from
  RowLists,     \* sequences of row positions that callers select
  ColumnLists,  \* sequences of column positions that callers select
  Tests,        \* what callers filter by: a field that has a value
  Ranges        \* pairs of the rows to skip and the last row of a slice

VARIABLES
  source,  \* the table
  view,    \* the handle: its kind, plan and projected schema
  result   \* what the last call returned: "ok", or what was wrong

vars == <<source, view, result>>

-----------------------------------------------------------------------------
(* Rows of a plan.  A range has skipped start rows, of the source or of a  *)
(* list of positions.                                                      *)

RangeOf(start, end) == [positions |-> NULL, start |-> start, end |-> end]

\* RowSelection::indices.
Indices(positions) == [positions |-> positions, start |-> 0, end |-> Len(positions)]

RowCount(rows) == rows.end - rows.start

Position(rows, i) ==
  IF rows.positions = NULL THEN rows.start + i ELSE rows.positions[rows.start + i]

PositionsOf(rows) == [i \in 1..RowCount(rows) |-> Position(rows, i)]

\* RowSelection::slice.
SliceOf(rows, start, end) ==
  [rows EXCEPT !.start = rows.start + start, !.end = rows.start + end]

-----------------------------------------------------------------------------
(* Handles.                                                                *)

\* kind: "shared" or "borrowed".  A borrowed selection has a vector of positions.
Plan(kind, rows, columns, schema) ==
  [kind |-> kind, rows |-> rows, columns |-> columns, schema |-> schema]

AllColumns(T) == [c \in Positions(T.schema) |-> c]

AllRows(T) == [i \in 1..T.rowCount |-> i]

\* SharedTableSelection::new.
NewShared(T) == Plan("shared", RangeOf(0, T.rowCount), AllColumns(T), T.schema)

\* SelectedRow::get.
Get(T, w, i, k) == Cell(T, Position(w.rows, i), w.columns[k])

ExtrasAt(T, i) == FieldsOf(T.extras, i)

\* Row::get_named on row i of the source.
RowNamed(T, i, name) ==
  LET c == ColumnIndex(T.schema, name) IN
  IF c # NULL THEN Cell(T, i, c)
  ELSE IF name \in DOMAIN ExtrasAt(T, i) THEN ExtrasAt(T, i)[name] ELSE NULL

\* Mutant: whatever is not projected is looked up in the source.
GetNamedThrough(T, w, i, name) ==
  LET k == ColumnIndex(w.schema, name) IN
  IF k # NULL THEN Get(T, w, i, k) ELSE RowNamed(T, Position(w.rows, i), name)

\* SelectedRow::get_named: extra fields show, columns that were left out do not.
GetNamed(T, w, i, name) ==
  LET k == ColumnIndex(w.schema, name) IN
  IF k # NULL THEN Get(T, w, i, k)
  ELSE IF ColumnIndex(T.schema, name) = NULL THEN RowNamed(T, Position(w.rows, i), name)
  ELSE NULL

-----------------------------------------------------------------------------
(* What a call does before it makes anything.                              *)

\* map_columns.
OutOfBounds(columns, n) == \E k \in DOMAIN columns : columns[k] \notin 1..n

Mapped(w, columns) == [k \in DOMAIN columns |-> w.columns[columns[k]]]

\* projection_schema, of source columns.
ProjectionSchema(T, columns) ==
  SchemaOf([k \in DOMAIN columns |-> T.schema.columns[columns[k]]], T.schema.open)

\* The checks of Table::select and select_view: columns, then the names of the
\* projected schema, then rows.
SelectFault(T, rows, columns) ==
  IF OutOfBounds(columns, Width(T.schema)) THEN "columns"
  ELSE IF ~DistinctNames(ProjectionSchema(T, columns).columns) THEN "names"
  ELSE IF OutOfBounds(rows, T.rowCount) THEN "rows"
  ELSE "ok"

\* Table::select, when it does not fail.
SelectedTable(T, rows, columns) ==
  Copied([T EXCEPT !.schema = ProjectionSchema(T, columns),
                   !.columns = [k \in DOMAIN columns |-> T.columns[columns[k]]]],
         rows)

\* Table::select_rows.
SelectRows(T, test) ==
  SelectSeq(AllRows(T), LAMBDA i :
    ~IsTombstoned(T, i) /\ RowNamed(T, i, test.name) = test.value)

-----------------------------------------------------------------------------
(* Calls.                                                                  *)

Init ==
  /\ source \in Sources
  /\ view = NewShared(source)
  /\ result = "ok"

Return(w) == view' = w /\ result' = "ok" /\ UNCHANGED source

Refuse(fault) == result' = fault /\ UNCHANGED <<source, view>>

\* The call ends in table T, which is shared then: into_shared.
ReturnTable(T) == source' = T /\ view' = NewShared(T) /\ result' = "ok"

\* filter_rows of both kinds.
Filter(test) ==
  LET at(i) == /\ ~IsTombstoned(source, Position(view.rows, i))
               /\ GetNamed(source, view, i, test.name) = test.value
      kept == SelectSeq([i \in 1..RowCount(view.rows) |-> i], at)
  IN Return([view EXCEPT !.rows = Indices([j \in DOMAIN kept |-> Position(view.rows, kept[j])])])

\* Mutant: the range is compared with the rows of the source.
SliceOfSource(start, end) ==
  /\ view.kind = "shared"
  /\ IF start > end \/ end > source.rowCount THEN Refuse("range")
     ELSE Return([view EXCEPT !.rows = SliceOf(@, start, end)])

\* SharedTableSelection::slice.
Slice(start, end) ==
  /\ view.kind = "shared"
  /\ IF start > end \/ end > RowCount(view.rows) THEN Refuse("range")
     ELSE Return([view EXCEPT !.rows = SliceOf(@, start, end)])

\* project: a shared selection keeps its rows, a borrowed one ends in select_view.
Project(columns) ==
  LET mapped == Mapped(view, columns)
      schema == ProjectionSchema(source, mapped)
  IN IF OutOfBounds(columns, Len(view.columns)) THEN Refuse("columns")
     ELSE IF view.kind = "borrowed"
     THEN LET fault == SelectFault(source, PositionsOf(view.rows), mapped) IN
          IF fault # "ok" THEN Refuse(fault)
          ELSE Return(Plan("borrowed", Indices(PositionsOf(view.rows)), mapped, schema))
     ELSE IF ~DistinctNames(schema.columns) THEN Refuse("names")
     ELSE Return(Plan("shared", view.rows, mapped, schema))

\* SharedTableSelection::select.
Select(rows, columns) ==
  LET mapped == Mapped(view, columns)
      schema == ProjectionSchema(source, mapped)
      positions == [i \in DOMAIN rows |-> Position(view.rows, rows[i])]
  IN /\ view.kind = "shared"
     /\ IF OutOfBounds(columns, Len(view.columns)) THEN Refuse("columns")
        ELSE IF ~DistinctNames(schema.columns) THEN Refuse("names")
        ELSE IF OutOfBounds(rows, RowCount(view.rows)) THEN Refuse("rows")
        ELSE Return(Plan("shared", Indices(positions), mapped, schema))

AsBorrowed ==
  /\ view.kind = "shared"
  /\ Return([view EXCEPT !.kind = "borrowed", !.rows = Indices(PositionsOf(@))])

\* materialize of both kinds: Table::select on the source.
Materialize ==
  LET fault == SelectFault(source, PositionsOf(view.rows), view.columns) IN
  IF fault # "ok" THEN Refuse(fault)
  ELSE ReturnTable(SelectedTable(source, PositionsOf(view.rows), view.columns))

\* Table::filter_view, project_view and select_view on the source.
FilterView(test) ==
  Return(Plan("borrowed", Indices(SelectRows(source, test)), AllColumns(source), source.schema))

SelectView(rows, columns) ==
  LET fault == SelectFault(source, rows, columns) IN
  IF fault # "ok" THEN Refuse(fault)
  ELSE Return(Plan("borrowed", Indices(rows), columns, ProjectionSchema(source, columns)))

ProjectView(columns) == SelectView(AllRows(source), columns)

\* Table::filter_rows, select and project.
FilterRows(test) == ReturnTable(Copied(source, SelectRows(source, test)))

SelectTable(rows, columns) ==
  LET fault == SelectFault(source, rows, columns) IN
  IF fault # "ok" THEN Refuse(fault) ELSE ReturnTable(SelectedTable(source, rows, columns))

ProjectTable(columns) ==
  LET fault == SelectFault(source, <<>>, columns) IN
  IF fault # "ok" THEN Refuse(fault)
  ELSE ReturnTable([source EXCEPT
                      !.schema = ProjectionSchema(source, columns),
                      !.columns = [k \in DOMAIN columns |-> @[columns[k]]]])

Next ==
  \/ \E test \in Tests : Filter(test) \/ FilterView(test) \/ FilterRows(test)
  \/ \E range \in Ranges : Slice(range[1], range[2])
  \/ \E columns \in ColumnLists :
       \/ Project(columns) \/ ProjectView(columns) \/ ProjectTable(columns)
       \/ \E rows \in RowLists :
            \/ Select(rows, columns) \/ SelectView(rows, columns)
            \/ SelectTable(rows, columns)
  \/ Materialize \/ AsBorrowed

Spec == Init /\ [][Next]_vars

-----------------------------------------------------------------------------
(* Properties.                                                             *)

\* Positions of rows and columns exist in the source and ranges end within their
\* list, so no row is made at a position that the source does not have (rows()
\* does not look), and the projected schema is that of the columns.
PositionsExist ==
  /\ 0 <= view.rows.start /\ view.rows.start <= view.rows.end
  /\ view.rows.positions # NULL => view.rows.end <= Len(view.rows.positions)
  /\ \A i \in 1..RowCount(view.rows) : Position(view.rows, i) \in 1..source.rowCount
  /\ \A k \in DOMAIN view.columns : view.columns[k] \in Positions(source.schema)
  /\ view.schema = ProjectionSchema(source, view.columns)
  /\ view.kind = "borrowed" => view.rows = Indices(PositionsOf(view.rows))

PicksOf(T) == [schema |-> T.schema, rows |-> RowsOf(T)]

\* What can be read through the handle.
PickedRows ==
  [i \in 1..RowCount(view.rows) |->
     [cells |-> [k \in DOMAIN view.columns |-> Get(source, view, i, k)],
      extra |-> ExtrasAt(source, Position(view.rows, i)),
      dead |-> IsTombstoned(source, Position(view.rows, i))]]

Picks == INSTANCE RowPicks WITH
           InitialPicks <- {PicksOf(T) : T \in Sources},
           whole <- PicksOf(source),
           picked <- [schema |-> view.schema, rows |-> PickedRows]

\* However selections are made of selections, sliced, borrowed, copied and shared
\* again, each call does to what can be read what the same call does to a table of
\* copied rows, and fails when, and as, that one does: no position is lost,
\* repeated or translated twice, no deleted row is filtered in or dropped by
\* anything else, and no column that was left out shows.
CallsFollowPicks ==
  [][/\ \A test \in Tests :
          /\ Filter(test) => Picks!Filter(test)
          /\ FilterView(test) => Picks!FilterSource(test)
          /\ FilterRows(test) => Picks!CopyFiltered(test)
     /\ \A range \in Ranges : Slice(range[1], range[2]) => Picks!Slice(range[1], range[2])
     /\ \A columns \in ColumnLists :
          /\ Project(columns) => Picks!Project(columns)
          /\ ProjectView(columns) => Picks!ProjectSource(columns)
          /\ ProjectTable(columns) => Picks!CopyProjected(columns)
          /\ \A rows \in RowLists :
               /\ Select(rows, columns) => Picks!Select(rows, columns)
               /\ SelectView(rows, columns) => Picks!SelectSource(rows, columns)
               /\ SelectTable(rows, columns) => Picks!CopySelected(rows, columns)
     /\ Materialize => Picks!Materialize
     /\ AsBorrowed => Picks!Same]_vars
===============================================================================
