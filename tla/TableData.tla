------------------------------ MODULE TableData ------------------------------
(***************************************************************************)
(* The data of a table (table.rs) in its storage (table/storage.rs) with   *)
(* its tombstones (table/tombstones.rs), and what copies, compaction and   *)
(* append (table/append.rs) do to it.                                      *)
(*                                                                         *)
(* A table is a structure of arrays: one vector per column, one vector of  *)
(* extra fields, one vector of deletion flags that only exists while some  *)
(* row is marked, and two counters.  Every operation has to move all of    *)
(* them together, or none.                                                 *)
(***************************************************************************)
EXTENDS ColumnStorage

NewTable(schema) ==
  [schema |-> schema,
   columns |-> [c \in Positions(schema) |-> ForSpec(schema.columns[c])],
   extras |-> NewExtras(schema.open),
   flags |-> <<>>,
   count |-> 0,
   rowCount |-> 0]

\* Table::cell.
Cell(T, i, c) == GetCell(T.columns[c], i)

-----------------------------------------------------------------------------
(* Tombstones.                                                             *)

Resized(flags, n) == [i \in 1..n |-> IF i <= Len(flags) THEN flags[i] ELSE FALSE]

IsTombstoned(T, i) == i <= Len(T.flags) /\ T.flags[i]

\* The flag vector is dropped with the last mark.
WithFlags(T, flags, count) ==
  [T EXCEPT !.flags = IF count = 0 THEN <<>> ELSE flags, !.count = count]

\* Tombstones::set.
SetFlag(T, i, dead) ==
  LET flags == IF T.flags = <<>> THEN Resized(<<>>, T.rowCount) ELSE T.flags IN
  IF flags[i] = dead THEN T
  ELSE WithFlags(T, Replaced(flags, i, dead), IF dead THEN T.count + 1 ELSE T.count - 1)

\* Tombstones::push_live.
PushLive(T) == IF T.flags = <<>> THEN T ELSE [T EXCEPT !.flags = Append(@, FALSE)]

\* Mutant: the mark of a removed row is still counted.
PopFlagCounted(T) == IF T.flags = <<>> THEN T ELSE [T EXCEPT !.flags = Front(@)]

\* Tombstones::pop.
PopFlag(T) ==
  IF T.flags = <<>> THEN T
  ELSE IF ~T.flags[Len(T.flags)] THEN [T EXCEPT !.flags = Front(@)]
  ELSE WithFlags(T, Front(T.flags), T.count - 1)

\* Tombstones::append, before row_count is advanced.
AppendFlags(T, S) ==
  IF T.count = 0 /\ S.count = 0 THEN T
  ELSE [T EXCEPT !.flags = IF S.flags = <<>>
                           THEN Resized(@, T.rowCount + S.rowCount)
                           ELSE Resized(@, T.rowCount) \o S.flags,
                 !.count = @ + S.count]

\* Tombstones::copy_rows and copy_range.
CopiedFlags(T, positions) ==
  IF T.count = 0 THEN <<>>
  ELSE [j \in DOMAIN positions |-> IsTombstoned(T, positions[j])]

-----------------------------------------------------------------------------
(* Operations on one table.                                                *)

\* push_validated_row, after prepare_row.
Pushed(T, values, extras) ==
  PushLive([T EXCEPT !.columns = [c \in DOMAIN @ |-> PushCell(@[c], values[c])],
                     !.extras = SetExtras(PushEmpty(@), T.rowCount + 1, extras),
                     !.rowCount = @ + 1])

Popped(T) ==
  PopFlag([T EXCEPT !.columns = [c \in DOMAIN @ |-> PopCell(@[c])],
                    !.extras = PopExtras(@),
                    !.rowCount = @ - 1])

Compacted(T) ==
  IF T.flags = <<>> THEN T
  ELSE [T EXCEPT
          !.columns = [c \in DOMAIN @ |-> RetainRows(@[c], T.flags, T.count)],
          !.extras = RetainExtras(@, T.flags),
          !.flags = <<>>,
          !.count = 0,
          !.rowCount = @ - T.count]

\* The RowCompaction that compact returns: what was removed, and from how many.
RemovalOf(T) == [removed |-> {i \in DOMAIN T.flags : T.flags[i]}, previous |-> T.rowCount]

\* RowCompaction::new_position of a row that was not removed.
NewPosition(i, removed) == i - Cardinality({r \in removed : r < i})

\* copy_rows, copy_range and their parallel forms.
Copied(T, positions) ==
  LET flags == CopiedFlags(T, positions)
      count == Cardinality({j \in DOMAIN flags : flags[j]})
  IN WithFlags(
       [T EXCEPT !.columns = [c \in DOMAIN @ |-> CopyCells(@[c], positions)],
                 !.extras = CopyExtras(@, positions),
                 !.rowCount = Len(positions)],
       flags, count)

-----------------------------------------------------------------------------
(* Append: everything that can fail is staged before the table is changed. *)

\* layout[d]: the source column mapped to column d, or NULL; ERR if the mapping
\* is out of bounds or names a destination twice.
LayoutOf(T, S, mapping) ==
  LET to(d) == {m \in DOMAIN mapping : mapping[m][2] = d} IN
  IF \/ \E m \in DOMAIN mapping : \/ mapping[m][1] \notin Positions(S.schema)
                                  \/ mapping[m][2] \notin Positions(T.schema)
     \/ \E d \in Positions(T.schema) : Cardinality(to(d)) > 1
  THEN ERR
  ELSE [d \in Positions(T.schema) |->
          IF to(d) = {} THEN NULL ELSE mapping[CHOOSE m \in to(d) : TRUE][1]]

\* Mutant: the alias is only looked at when the name is not found.
FirstNamedMapping(T, S) ==
  [d \in Positions(T.schema) |->
     LET spec == T.schema.columns[d]
         primary == ColumnIndex(S.schema, spec.name)
     IN IF primary = NULL /\ spec.alias # NULL THEN ColumnIndex(S.schema, spec.alias)
        ELSE primary]

\* append_named: each destination's name and alias are looked up in the source.
NamedMapping(T, S) ==
  LET primary(d) == ColumnIndex(S.schema, T.schema.columns[d].name)
      alias(d) == IF T.schema.columns[d].alias = NULL THEN NULL
                  ELSE ColumnIndex(S.schema, T.schema.columns[d].alias)
  IN IF \E d \in Positions(T.schema) :
          primary(d) # NULL /\ alias(d) # NULL /\ primary(d) # alias(d)
     THEN ERR
     ELSE [d \in Positions(T.schema) |-> IF primary(d) # NULL THEN primary(d) ELSE alias(d)]

\* Mutant: only the first row of the source is looked at.
CanStageFirst(T, S, d, from) ==
  LET spec == T.schema.columns[d]
      source == S.schema.columns[from]
  IN IF from = NULL THEN spec.nullable
     ELSE \/ LayoutsMatch(source, spec)
          \/ /\ source.type \in {spec.type, NullType} \/ spec.converter # NULL
             /\ S.rowCount > 0 => Prepare(spec, Cell(S, 1, from)) # ERR

\* stage_columns for destination column d: every cell has to be prepared, unless the
\* layouts match.
CanStage(T, S, d, from) ==
  LET spec == T.schema.columns[d]
      source == S.schema.columns[from]
  IN IF from = NULL THEN spec.nullable
     ELSE \/ LayoutsMatch(source, spec)
          \/ /\ source.type \in {spec.type, NullType} \/ spec.converter # NULL
             /\ \A i \in 1..S.rowCount : Prepare(spec, Cell(S, i, from)) # ERR

\* The storage to append.
StagedColumn(T, S, d, from) ==
  LET spec == T.schema.columns[d] IN
  IF from = NULL THEN Filled(spec, [i \in 1..S.rowCount |-> NULL])
  ELSE IF LayoutsMatch(S.schema.columns[from], spec) THEN S.columns[from]
  ELSE Filled(spec, [i \in 1..S.rowCount |-> Prepare(spec, Cell(S, i, from))])

\* Mutant: extra fields are taken over as they are.
StagedUnchecked(T, S) ==
  IF T.extras = NULL THEN NULL ELSE [i \in 1..S.rowCount |-> IF S.extras = NULL THEN NULL ELSE S.extras[i]]

\* stage_extras.
StagedExtras(T, S) ==
  LET pairs(i) == IF S.extras = NULL \/ S.extras[i] = NULL THEN <<>> ELSE FieldPairs(S.extras[i])
      given == [i \in 1..S.rowCount |-> Collected(T.schema, pairs(i))]
  IN IF \E i \in DOMAIN given : given[i] = ERR THEN ERR
     ELSE IF ~T.schema.open THEN NULL
     ELSE [i \in DOMAIN given |-> IF FieldMap(given[i]) = NoExtras THEN NULL ELSE given[i]]

\* append_mapped with a valid layout: what can fail,
CanAppendRows(T, S, layout) ==
  LET extras == StagedExtras(T, S) IN
  /\ \A d \in Positions(T.schema) : CanStage(T, S, d, layout[d])
  /\ extras # ERR
  /\ CanAppendExtras(T.extras, extras)
  /\ \A d \in Positions(T.schema) : CanAppend(T.columns[d], StagedColumn(T, S, d, layout[d]))

\* and what it does.
Appended(T, S, layout) ==
  [AppendFlags(T, S) EXCEPT
     !.columns = [d \in DOMAIN @ |-> AppendCells(@[d], StagedColumn(T, S, d, layout[d]))],
     !.extras = AppendExtras(@, StagedExtras(T, S)),
     !.rowCount = @ + S.rowCount]

-----------------------------------------------------------------------------
\* The rows of a table, put together from its vectors.
RowsOf(T) ==
  [i \in 1..T.rowCount |->
     [cells |-> [c \in DOMAIN T.columns |-> Cell(T, i, c)],
      extra |-> FieldsOf(T.extras, i),
      dead |-> IsTombstoned(T, i)]]
=============================================================================
