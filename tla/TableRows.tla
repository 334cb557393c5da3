------------------------------ MODULE TableRows ------------------------------
(***************************************************************************)
(* A table as its users see it: a sequence of rows, each with its cells,   *)
(* its extra fields and a deletion mark.  There are no columns here: a row *)
(* is written, marked, moved or removed as one thing.  Table implements    *)
(* this specification (Table!ImplementsRows).                              *)
(***************************************************************************)
EXTENDS TableSchema, Subsequences

CONSTANTS
  Tables,      \* tables
  Schemas,     \* schemas a table can have
  RowInputs,   \* sequences of values that callers push
  ExtraInputs, \* sequences of <<name, value>> that callers push with a row
  CellInputs,  \* values that callers set cells to
  SlotInputs,  \* values that callers assign through views
  Selections   \* sequences of row positions that callers copy

VARIABLES
  schema,    \* schema[t]: the schema of table t
  rows,      \* rows[t]: its rows
  outcome    \* what the last call returned

absVars == <<schema, rows, outcome>>

Init ==
  /\ schema \in [Tables -> Schemas]
  /\ rows = [t \in Tables |-> <<>>]
  /\ outcome = "err"

\* A call that fails leaves every table as it was.
Fail ==
  /\ outcome' = "err"
  /\ UNCHANGED <<schema, rows>>

\* The rows of table t become new.
Become(t, new) ==
  /\ outcome' = "ok"
  /\ rows' = [rows EXCEPT ![t] = new]
  /\ UNCHANGED schema

PushRow(t, values, extras) ==
  LET row == PrepareRow(schema[t], values)
      more == CollectExtras(schema[t], FieldsIn(extras))
  IN /\ row # ERR /\ more # ERR
     /\ Become(t, Append(rows[t], [cells |-> row, extra |-> more, dead |-> FALSE]))

PopRow(t) ==
  /\ rows[t] # <<>>
  /\ Become(t, SubSeq(rows[t], 1, Len(rows[t]) - 1))

SetCell(t, i, c, v) ==
  LET w == Prepare(schema[t].columns[c], v) IN
  /\ i \in DOMAIN rows[t]
  /\ w # ERR
  /\ Become(t, [rows[t] EXCEPT ![i].cells[c] = w])

\* A typed view takes what the column takes as it is.
SetSlot(t, i, c, v) ==
  /\ i \in DOMAIN rows[t]
  /\ Accepts(schema[t].columns[c], v)
  /\ Become(t, [rows[t] EXCEPT ![i].cells[c] = v])

\* A cell is made null, or becomes some value that the column accepts, without
\* a call.
Overwrite(t, i, c, v) ==
  /\ i \in DOMAIN rows[t]
  /\ Accepts(schema[t].columns[c], v)
  /\ UNCHANGED <<outcome, schema>>
  /\ rows' = [rows EXCEPT ![t][i].cells[c] = v]

SetExtra(t, i, n, v) ==
  /\ i \in DOMAIN rows[t]
  /\ schema[t].open /\ ColumnIndex(schema[t], n) = NULL
  /\ Become(t, [rows[t] EXCEPT ![i].extra = WithExtra(@, n, v)])

Mark(t, i, dead) ==
  /\ i \in DOMAIN rows[t]
  /\ Become(t, [rows[t] EXCEPT ![i].dead = dead])

RestoreAll(t) == Become(t, [i \in DOMAIN rows[t] |-> [rows[t][i] EXCEPT !.dead = FALSE]])

\* The marked rows go; the others keep their order.
Compact(t) ==
  LET kept == KeptOf({i \in DOMAIN rows[t] : ~rows[t][i].dead}, Len(rows[t])) IN
  Become(t, [j \in DOMAIN kept |-> rows[t][kept[j]]])

\* Table u becomes a copy of the rows of t at the given positions.
Copy(t, u, positions) ==
  /\ \A j \in DOMAIN positions : positions[j] \in DOMAIN rows[t]
  /\ outcome' = "ok"
  /\ schema' = [schema EXCEPT ![u] = schema[t]]
  /\ rows' = [rows EXCEPT ![u] = [j \in DOMAIN positions |-> rows[t][positions[j]]]]

\* layout[c]: the column of u that column c of t is filled from, or NULL.
Moved(t, u, layout, row) ==
  [cells |-> [c \in Positions(schema[t]) |->
                Prepare(schema[t].columns[c],
                        IF layout[c] = NULL THEN NULL ELSE row.cells[layout[c]])],
   extra |-> CollectExtras(schema[t], row.extra),
   dead |-> row.dead]

\* Every row of u passes into t as if it were pushed, or none does.
AppendTable(t, u, layout) ==
  LET new == [i \in DOMAIN rows[u] |-> Moved(t, u, layout, rows[u][i])] IN
  /\ \A i \in DOMAIN new :
       /\ new[i].extra # ERR
       /\ \A c \in DOMAIN new[i].cells : new[i].cells[c] # ERR
  /\ Become(t, rows[t] \o new)

Layouts(t, u) == [Positions(schema[t]) -> Positions(schema[u]) \cup {NULL}]

Next ==
  \/ Fail
  \/ \E t \in Tables :
       \/ \E values \in RowInputs, extras \in ExtraInputs : PushRow(t, values, extras)
       \/ PopRow(t)
       \/ \E i \in DOMAIN rows[t] :
            \/ \E c \in Positions(schema[t]), v \in CellInputs : SetCell(t, i, c, v)
            \/ \E c \in Positions(schema[t]), v \in SlotInputs : SetSlot(t, i, c, v)
            \/ \E n \in Names, v \in CellInputs : SetExtra(t, i, n, v)
            \/ \E dead \in BOOLEAN : Mark(t, i, dead)
       \/ RestoreAll(t)
       \/ Compact(t)
       \/ \E u \in Tables, positions \in Selections : Copy(t, u, positions)
       \/ \E i \in DOMAIN rows[t] :
            \E c \in Positions(schema[t]), v \in Values \cup {NULL} : Overwrite(t, i, c, v)
       \/ \E u \in Tables \ {t} : \E layout \in Layouts(t, u) : AppendTable(t, u, layout)

Spec == Init /\ [][Next]_absVars
=============================================================================
