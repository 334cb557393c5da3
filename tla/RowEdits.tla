------------------------------- MODULE RowEdits -------------------------------
(***************************************************************************)
(* The update of rows in place, as the callers of par_for_each_row_mut see *)
(* it: an operation is owed to some rows, and each of these rows changes   *)
(* once, as a whole, whatever happens to the other rows in the meantime.   *)
(* There are no threads, ranges and vectors here.  RowRanges implements    *)
(* this specification (RowRanges!ImplementsRowEdits).                      *)
(***************************************************************************)
EXTENDS TableSchema

CONSTANTS
  Operations,  \* what callers do to a row: [live : BOOLEAN, edits : Seq(Edits)]
  InitialRows  \* pairs of a schema and the rows that a table has under it

VARIABLES
  schema,  \* the table's schema
  rows,    \* its rows: cells, extra fields, deletion mark
  todo     \* todo[i]: the operation that is owed to row i, or NULL

absVars == <<schema, rows, todo>>

\* RowMut::get_named, in a row of a table with schema s.  NULL stands for no
\* value, too.
Named(s, row, name) ==
  LET c == ColumnIndex(s, name) IN
  IF c # NULL THEN row.cells[c]
  ELSE IF name \in DOMAIN row.extra THEN row.extra[name] ELSE NULL

\* RowMut::set_named, by an operation that goes on after an error.
WithNamed(s, row, name, v) ==
  LET c == ColumnIndex(s, name)
      w == IF c = NULL THEN v ELSE Prepare(s.columns[c], v)
  IN IF w = ERR \/ (c = NULL /\ ~s.open) THEN row
     ELSE IF c # NULL THEN [row EXCEPT !.cells[c] = w]
     ELSE [row EXCEPT !.extra = WithExtra(@, name, w)]

\* An edit computes one field of a row from another field of the same row.
Edited(s, row, edit) == WithNamed(s, row, edit.to, edit.by[Named(s, row, edit.from)])

\* What becomes of a row, edit by edit.
Run(s, edits, row) ==
  LET run[k \in 0..Len(edits)] ==
        IF k = 0 THEN row ELSE Edited(s, run[k - 1], edits[k])
  IN run

\* An operation may leave tombstoned rows alone.
Operated(s, operation, row) ==
  IF operation.live /\ row.dead THEN row
  ELSE Run(s, operation.edits, row)[Len(operation.edits)]

Init ==
  /\ \E table \in InitialRows : schema = table[1] /\ rows = table[2]
  /\ todo = [i \in DOMAIN rows |-> NULL]

\* for_each and par_for_each, on the rows of a range.
Owe(first, last, operation) ==
  /\ \A i \in first..last : todo[i] = NULL
  /\ todo' = [i \in DOMAIN rows |-> IF i \in first..last THEN operation ELSE todo[i]]
  /\ UNCHANGED <<schema, rows>>

Operate(i) ==
  /\ todo[i] # NULL
  /\ rows' = [rows EXCEPT ![i] = Operated(schema, todo[i], @)]
  /\ todo' = [todo EXCEPT ![i] = NULL]
  /\ UNCHANGED schema

\* row_mut, on one row.
OperateNow(i, operation) ==
  /\ todo[i] = NULL
  /\ rows' = [rows EXCEPT ![i] = Operated(schema, operation, @)]
  /\ UNCHANGED <<schema, todo>>

Next ==
  \/ \E first, last \in DOMAIN rows, operation \in Operations : Owe(first, last, operation)
  \/ \E i \in DOMAIN rows :
       \/ Operate(i)
       \/ \E operation \in Operations : OperateNow(i, operation)

Spec == Init /\ [][Next]_absVars
=============================================================================
