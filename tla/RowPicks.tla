------------------------------- MODULE RowPicks -------------------------------
(***************************************************************************)
(* What a selection promises: it is a small table of its own, made of the  *)
(* rows and columns that were picked, as if they had been copied by each   *)
(* call.  There are no positions here, and nothing of the source can be    *)
(* seen through a selection but what was picked.  Selections implements    *)
(* this specification call by call (Selections!CallsFollowPicks).          *)
(***************************************************************************)
EXTENDS TableSchema, SequencesExt

CONSTANTS
  InitialPicks,  \* what the first selection can have picked
  RowLists,      \* sequences of row positions that callers select
  ColumnLists,   \* sequences of column positions that callers select
  Tests,         \* what callers filter by: a field that has a value
  Ranges         \* pairs of the rows to skip and the last row of a slice

VARIABLES
  whole,   \* the source: its schema and rows
  picked,  \* the selection: its schema and rows
  result   \* what the last call returned: "ok", or what was wrong

absVars == <<whole, picked, result>>

Picks(schema, rows) == [schema |-> schema, rows |-> rows]

\* A field by name, as a reader of the picks finds it.
Field(schema, row, name) ==
  LET c == ColumnIndex(schema, name) IN
  IF c # NULL THEN row.cells[c]
  ELSE IF name \in DOMAIN row.extra THEN row.extra[name] ELSE NULL

Filtered(p, test) ==
  Picks(p.schema,
        SelectSeq(p.rows, LAMBDA row :
          ~row.dead /\ Field(p.schema, row, test.name) = test.value))

Selected(p, rows, columns) ==
  Picks(SchemaOf([k \in DOMAIN columns |-> p.schema.columns[columns[k]]], p.schema.open),
        [i \in DOMAIN rows |->
           [cells |-> [k \in DOMAIN columns |-> p.rows[rows[i]].cells[columns[k]]],
            extra |-> p.rows[rows[i]].extra,
            dead |-> p.rows[rows[i]].dead]])

All(p) == [i \in DOMAIN p.rows |-> i]

\* Columns are looked at first, then their names, and rows at last.
Fault(p, rows, columns) ==
  IF \E k \in DOMAIN columns : columns[k] \notin Positions(p.schema) THEN "columns"
  ELSE IF ~IsInjective(columns) THEN "names"
  ELSE IF \E i \in DOMAIN rows : rows[i] \notin DOMAIN p.rows THEN "rows"
  ELSE "ok"

Init ==
  /\ whole \in InitialPicks
  /\ picked = whole
  /\ result = "ok"

Become(source, p) == whole' = source /\ picked' = p /\ result' = "ok"

Refuse(fault) == result' = fault /\ UNCHANGED <<whole, picked>>

\* Filters skip deleted rows; nothing else does.
Filter(test) == Become(whole, Filtered(picked, test))

FilterSource(test) == Become(whole, Filtered(whole, test))

CopyFiltered(test) == LET p == Filtered(whole, test) IN Become(p, p)

Slice(start, end) ==
  IF start > end \/ end > Len(picked.rows)
  THEN Refuse("range")
  ELSE Become(whole, Picks(picked.schema, SubSeq(picked.rows, start + 1, end)))

Select(rows, columns) ==
  LET fault == Fault(picked, rows, columns) IN
  IF fault # "ok" THEN Refuse(fault)
  ELSE Become(whole, Selected(picked, rows, columns))

Project(columns) == Select(All(picked), columns)

SelectSource(rows, columns) ==
  LET fault == Fault(whole, rows, columns) IN
  IF fault # "ok" THEN Refuse(fault)
  ELSE Become(whole, Selected(whole, rows, columns))

ProjectSource(columns) == SelectSource(All(whole), columns)

\* A copy is a source of its own.
CopySelected(rows, columns) ==
  LET fault == Fault(whole, rows, columns)
      p == Selected(whole, rows, columns)
  IN IF fault # "ok" THEN Refuse(fault) ELSE Become(p, p)

CopyProjected(columns) == CopySelected(All(whole), columns)

Materialize == Become(picked, picked)

\* Another handle on the same picks.
Same == Become(whole, picked)

Next ==
  \/ \E test \in Tests : Filter(test) \/ FilterSource(test) \/ CopyFiltered(test)
  \/ \E range \in Ranges : Slice(range[1], range[2])
  \/ \E columns \in ColumnLists :
       \/ Project(columns) \/ ProjectSource(columns) \/ CopyProjected(columns)
       \/ \E rows \in RowLists :
            \/ Select(rows, columns) \/ SelectSource(rows, columns)
            \/ CopySelected(rows, columns)
  \/ Materialize \/ Same

Spec == Init /\ [][Next]_absVars
===============================================================================
