----------------------------- MODULE ColumnStorage -----------------------------
(***************************************************************************)
(* The storage of one column, and of the extra fields of the rows of a     *)
(* table (table/storage.rs).                                               *)
(*                                                                         *)
(* A column of type Null is only a length.  A nullable column of numbers   *)
(* is split into two vectors, and keeps some number in the place of a      *)
(* null: the type's default, or whatever was there before.  All others,    *)
(* strings included, are one vector of cells here; FixedStrings and        *)
(* Interner say how two kinds of strings are really kept.                  *)
(***************************************************************************)
EXTENDS TableSchema, Subsequences, SequencesExt

CONSTANTS
  NullType,      \* DataType::Null
  Numbers,       \* the numeric data types
  Zero,          \* Zero[type]: T::default() of a numeric type
  HashThreshold  \* pairs that a row's list of extra fields holds (4 in the code)

Replaced(s, i, v) == [j \in DOMAIN s |-> IF j = i THEN v ELSE s[j]]

IsSplit(spec) == spec.type \in Numbers /\ spec.nullable

\* ColumnStorage::for_spec.
ForSpec(spec) ==
  CASE spec.type = NullType -> [kind |-> "length", len |-> 0]
    [] IsSplit(spec) -> [kind |-> "split", type |-> spec.type, values |-> <<>>, valid |-> <<>>]
    [] OTHER -> [kind |-> IF spec.nullable THEN "nullable" ELSE "required", cells |-> <<>>]

\* The vectors of a column.
VectorsOf(C) == DOMAIN C \ {"kind", "type", "len"}

\* ColumnStorage::len looks at the first of the vectors.
Length(C) ==
  CASE C.kind = "length" -> C.len
    [] C.kind = "split" -> Len(C.values)
    [] OTHER -> Len(C.cells)

-----------------------------------------------------------------------------
(* NumericData: two vectors.                                               *)

\* NumericData::get: the value is looked at only if the row is valid.
NumberAt(C, i) ==
  IF i > Len(C.valid) THEN ERR
  ELSE IF ~C.valid[i] THEN NULL
  ELSE IF i > Len(C.values) THEN ERR ELSE C.values[i]

\* NumericData::push.
PushNumber(C, v) ==
  [C EXCEPT !.values = Append(@, IF v = NULL THEN Zero[C.type] ELSE v),
            !.valid = Append(@, v # NULL)]

\* Mutant: a null is written as a number, and the row stays valid.
PutNumberOverNull(C, i, v) ==
  [C EXCEPT !.values = Replaced(@, i, IF v = NULL THEN Zero[C.type] ELSE v)]

\* NumericData::set: a null only clears the validity.
PutNumber(C, i, v) ==
  [C EXCEPT !.values = IF v = NULL THEN @ ELSE Replaced(@, i, v),
            !.valid = Replaced(@, i, v # NULL)]

\* pop, retain_live, copy_range and copy_rows take both vectors at the same rows.
RowsAt(C, positions) ==
  [x \in DOMAIN C |->
     IF x \in VectorsOf(C) THEN [j \in DOMAIN positions |-> C[x][positions[j]]] ELSE C[x]]

-----------------------------------------------------------------------------
(* ColumnStorage: any column.                                              *)

\* ColumnStorage::get: ERR if there is no such row.
GetCell(C, i) ==
  CASE C.kind = "length" -> IF i <= C.len THEN NULL ELSE ERR
    [] C.kind = "split" -> NumberAt(C, i)
    [] OTHER -> IF i <= Len(C.cells) THEN C.cells[i] ELSE ERR

\* push_validated.
PushCell(C, v) ==
  CASE C.kind = "length" -> [C EXCEPT !.len = @ + 1]
    [] C.kind = "split" -> PushNumber(C, v)
    [] OTHER -> [C EXCEPT !.cells = Append(@, v)]

\* A new column of the given cells, pushed one by one.
FilledUpto(spec, cells) ==
  LET upto[k \in 0..Len(cells)] ==
        IF k = 0 THEN ForSpec(spec) ELSE PushCell(upto[k - 1], cells[k])
  IN upto

Filled(spec, cells) == FilledUpto(spec, cells)[Len(cells)]

\* set_validated.
PutCell(C, i, v) ==
  CASE C.kind = "length" -> C
    [] C.kind = "split" -> PutNumber(C, i, v)
    [] OTHER -> [C EXCEPT !.cells = Replaced(@, i, v)]

PopCell(C) ==
  IF C.kind = "length" THEN [C EXCEPT !.len = @ - 1]
  ELSE RowsAt(C, [i \in 1..(Length(C) - 1) |-> i])

\* The positions that are not flagged.
Kept(flags) == KeptOf({i \in DOMAIN flags : ~flags[i]}, Len(flags))

\* Mutant: holes are filled from the end, as Vec::swap_remove does.
RetainBySwapping(s, flags) ==
  LET last == Len(Kept(flags))
      hole(j) == Cardinality({i \in 1..j : flags[i]})
  IN [j \in 1..last |-> IF flags[j] THEN s[Kept(flags)[last + 1 - hole(j)]] ELSE s[j]]

\* retain_live, on one vector.
RetainLive(s, flags) == [j \in DOMAIN Kept(flags) |-> s[Kept(flags)[j]]]

RetainRows(C, flags, removed) ==
  IF C.kind = "length" THEN [C EXCEPT !.len = @ - removed]
  ELSE [x \in DOMAIN C |-> IF x \in VectorsOf(C) THEN RetainLive(C[x], flags) ELSE C[x]]

\* can_append: storage of the same kind.
CanAppend(C, D) == C.kind = D.kind

\* append and append_from.
AppendCells(C, D) ==
  IF C.kind = "length" THEN [C EXCEPT !.len = @ + D.len]
  ELSE [x \in DOMAIN C |-> IF x \in VectorsOf(C) THEN C[x] \o D[x] ELSE C[x]]

\* copy_rows, and copy_range for the positions of a range.
CopyCells(C, positions) ==
  IF C.kind = "length" THEN [C EXCEPT !.len = Len(positions)] ELSE RowsAt(C, positions)

-----------------------------------------------------------------------------
(* RowExtras.  A row has nothing, a short list of pairs, or a map once the  *)
(* list was full.  What is said of a row's fields holds of all three:       *)
(* FieldMap and FieldsOf give them as a function, as TableSchema has them.  *)

Inline(entries) == [kind |-> "inline", entries |-> entries]

Hashed(fields) == [kind |-> "hashed", fields |-> fields]

\* The fields of a row that has some.
RowFields ==
  [kind : {"inline"}, entries : Seq(Names \X (Values \cup {NULL}))]
    \cup [kind : {"hashed"}, fields : UNION {[D -> Values \cup {NULL}] : D \in SUBSET Names}]

\* RowExtras::with_capacity.
EmptyExtras(capacity) == IF capacity > HashThreshold THEN Hashed(NoExtras) ELSE Inline(<<>>)

\* What RowExtras::get finds, under each name.
FieldMap(E) ==
  IF E.kind = "hashed" THEN E.fields
  ELSE LET found(n) == CHOOSE k \in DOMAIN E.entries : E.entries[k][1] = n
       IN [n \in {E.entries[k][1] : k \in DOMAIN E.entries} |-> E.entries[found(n)][2]]

\* RowExtras::iter, in the order of the list or in any order.
FieldPairs(E) ==
  IF E.kind = "inline" THEN E.entries ELSE SetToSeq({<<n, E.fields[n]>> : n \in DOMAIN E.fields})

\* Mutant: the field that no longer fits the list is not taken into the map.
PutFieldBesides(E, n, v) ==
  IF E.kind = "hashed" THEN Hashed(WithExtra(E.fields, n, v))
  ELSE IF \E k \in DOMAIN E.entries : E.entries[k][1] = n
  THEN Inline([k \in DOMAIN E.entries |->
                 IF E.entries[k][1] = n THEN <<n, v>> ELSE E.entries[k]])
  ELSE IF Len(E.entries) < HashThreshold THEN Inline(Append(E.entries, <<n, v>>))
  ELSE Hashed(FieldsIn(E.entries))

\* RowExtras::set: a new field that does not fit the list turns it into a map.
PutField(E, n, v) ==
  IF E.kind = "hashed" THEN Hashed(WithExtra(E.fields, n, v))
  ELSE IF \E k \in DOMAIN E.entries : E.entries[k][1] = n
  THEN Inline([k \in DOMAIN E.entries |->
                 IF E.entries[k][1] = n THEN <<n, v>> ELSE E.entries[k]])
  ELSE IF Len(E.entries) < HashThreshold THEN Inline(Append(E.entries, <<n, v>>))
  ELSE Hashed(WithExtra(FieldsIn(E.entries), n, v))

\* The pairs put one after the other into E.
PutUpto(E, pairs) ==
  LET upto[k \in 0..Len(pairs)] ==
        IF k = 0 THEN E ELSE PutField(upto[k - 1], pairs[k][1], pairs[k][2])
  IN upto

\* collect_extras: pairs as a caller gives them, or ERR.
Collected(schema, pairs) ==
  IF CollectExtras(schema, FieldsIn(pairs)) = ERR THEN ERR
  ELSE PutUpto(EmptyExtras(Len(pairs)), pairs)[Len(pairs)]

-----------------------------------------------------------------------------
(* ExtrasStorage: NULL when it is disabled, or a slot per row, NULL for a   *)
(* row without fields.                                                     *)

\* ExtrasStorage::with_capacity.
NewExtras(open) == IF open THEN <<>> ELSE NULL

PushEmpty(X) == IF X = NULL THEN NULL ELSE Append(X, NULL)

\* set, for a row of an enabled storage; no slot is made for no fields.
SetExtras(X, i, E) == IF FieldMap(E) = NoExtras THEN X ELSE Replaced(X, i, E)

\* The fields of row i (get).
FieldsOf(X, i) ==
  IF X = NULL THEN NoExtras
  ELSE IF i > Len(X) THEN ERR
  ELSE IF X[i] = NULL THEN NoExtras
  ELSE FieldMap(X[i])

\* get_or_insert and the update of one field.
SetField(X, i, n, v) ==
  Replaced(X, i, PutField(IF X[i] = NULL THEN EmptyExtras(0) ELSE X[i], n, v))

PopExtras(X) == IF X = NULL THEN NULL ELSE Front(X)

RetainExtras(X, flags) == IF X = NULL THEN NULL ELSE RetainLive(X, flags)

\* copy_rows, and copy_range for the positions of a range.
CopyExtras(X, positions) ==
  IF X = NULL THEN NULL ELSE [j \in DOMAIN positions |-> X[positions[j]]]

\* ExtrasStorage::can_append.
CanAppendExtras(X, Y) == (X = NULL) = (Y = NULL)

AppendExtras(X, Y) == IF X = NULL THEN NULL ELSE X \o Y
=============================================================================
