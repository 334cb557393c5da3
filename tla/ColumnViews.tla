------------------------------ MODULE ColumnViews ------------------------------
(***************************************************************************)
(* Columns borrowed for bulk work: which of them can be borrowed together  *)
(* (Table::columns_io and column_pair_mut, table.rs), the typed slices and *)
(* iterators over one of them (table/views.rs), and the sums that run over *)
(* both vectors of a nullable column at once (table/float_sum.rs).         *)
(***************************************************************************)
EXTENDS TableData

CONSTANTS
  Lanes,    \* accumulators of a sum
  SumTypes  \* the data types that can be summed

ASSUME ViewsAssumption ==
  /\ Lanes \in Nat \ {0}
  /\ SumTypes \subseteq Numbers
  /\ IsFiniteSet(Names)

-----------------------------------------------------------------------------
(* Borrowing columns 1..n of a table.                                      *)

\* The checks of select_column_storage: inputs first, then one output after the
\* other.  Inputs may repeat.
BorrowFault(n, inputs, outputs) ==
  LET fault(k) ==
        IF outputs[k] \notin 1..n THEN "bounds"
        ELSE IF outputs[k] \in Range(inputs) THEN "overlap"
        ELSE IF outputs[k] \in {outputs[l] : l \in 1..(k - 1)} THEN "duplicate"
        ELSE "ok"
      wrong == {k \in DOMAIN outputs : fault(k) # "ok"}
  IN IF ~(Range(inputs) \subseteq 1..n) THEN "bounds"
     ELSE IF wrong = {} THEN "ok"
     ELSE fault(CHOOSE k \in wrong : \A l \in wrong : k <= l)

\* One step of the walk over the sorted requests: the column at p is split off
\* what is left of the columns, and all requests for it are served.
TakenColumn(taken, p) ==
  [at |-> [q \in DOMAIN taken.at \cup {p} |->
             IF q = p THEN taken.rest[p - taken.start] ELSE taken.at[q]],
   rest |-> SubSeq(taken.rest, p - taken.start + 1, Len(taken.rest)),
   start |-> p]

\* At k, what the first k steps made of columns 1..n, told apart by their positions.
TakenUpto(n, positions) ==
  LET upto[k \in 0..Len(positions)] ==
        IF k = 0 THEN [at |-> <<>>, rest |-> [c \in 1..n |-> c], start |-> 0]
        ELSE TakenColumn(upto[k - 1], positions[k])
  IN upto

\* select_column_storage: the requests are sorted by position before.
BorrowedColumns(n, inputs, outputs) ==
  LET positions == KeptOf(Range(inputs) \cup Range(outputs), n)
      taken == TakenUpto(n, positions)[Len(positions)]
  IN [inputs |-> [k \in DOMAIN inputs |-> taken.at[inputs[k]]],
      outputs |-> [k \in DOMAIN outputs |-> taken.at[outputs[k]]]]

\* column_pair_mut: one cut of the columns before the later of the two.
BorrowedPair(n, source, target) ==
  LET later == IF source < target THEN target ELSE source
      front == [c \in 1..(later - 1) |-> c]
      back == [c \in 1..(n - later + 1) |-> c + later - 1]
  IN IF source = target \/ source \notin 1..n \/ target \notin 1..n THEN NULL
     ELSE IF source < target THEN <<front[source], back[1]>>
     ELSE <<back[1], front[target]>>

-----------------------------------------------------------------------------
(* Typed slices of one column.                                             *)

\* required_values and nullable_values, with mismatch: what is wrong with asking
\* for a slice of a type, of values or of optional values.
SliceFault(spec, type, optional) ==
  IF spec.type # type \/ type = NullType THEN "type"
  ELSE IF type = "string" /\ spec.fits # Values THEN "layout"
  ELSE IF optional # spec.nullable THEN "nullability"
  ELSE "ok"

\* The slice that as_slice or as_nullable_slice returns.
SliceOfColumn(C) == IF C.kind = "split" THEN [values |-> C.values, valid |-> C.valid] ELSE C.cells

\* NullableValues::get and value.
NullableAt(slice, i) ==
  IF i > Len(slice.valid) THEN ERR ELSE IF slice.valid[i] THEN slice.values[i] ELSE NULL

\* NullableValues::iter and to_vec go through both vectors in step.
Zipped(slice) ==
  [i \in 1..(IF Len(slice.values) < Len(slice.valid) THEN Len(slice.values) ELSE Len(slice.valid)) |->
     IF slice.valid[i] THEN slice.values[i] ELSE NULL]

\* Column::for_each_value.
ForEachValue(C) ==
  CASE C.kind = "length" -> [i \in 1..C.len |-> NULL]
    [] C.kind = "split" -> Zipped(C)
    [] OTHER -> C.cells

\* Column::iter.
IterValues(C) ==
  [i \in 1..Length(C) |-> IF GetCell(C, i) = ERR THEN NULL ELSE GetCell(C, i)]

\* NullableValuesMut::set, and an assignment to an element of the other slices.
PutSlot(C, i, v) ==
  IF C.kind = "split"
  THEN [C EXCEPT !.valid = Replaced(@, i, v # NULL),
                 !.values = IF v = NULL THEN @ ELSE Replaced(@, i, v)]
  ELSE [C EXCEPT !.cells = Replaced(@, i, v)]

\* Writes through the two vectors of NullableValuesMut::into_parts.
PutPlaceholder(C, i, v) == [C EXCEPT !.values = Replaced(@, i, v)]

PutValidity(C, i, valid) == [C EXCEPT !.valid = Replaced(@, i, valid)]

-----------------------------------------------------------------------------
(* Sums.  A sum is the list of chains of rows that are added up, each chain *)
(* from zero, and then one after the other; NULL is in the place of a row    *)
(* for which zero is added, or nothing.                                      *)

Lane(n, l) == [k \in 1..(n \div Lanes) |-> (k - 1) * Lanes + l]

\* The rows after the last whole chunk.
Remainder(n) == [k \in 1..(n % Lanes) |-> n - (n % Lanes) + k]

\* combine: the lanes in order, then the rows of the tail.
Combined(lanes, tail) == lanes \o [k \in DOMAIN tail |-> <<tail[k]>>]

SumRequired(values) ==
  Combined([l \in 1..Lanes |-> Lane(Len(values), l)], Remainder(Len(values)))

\* A null in a chunk is masked to zero, one in the tail is skipped.
Masked(rows, valid) == [k \in DOMAIN rows |-> IF valid[rows[k]] THEN rows[k] ELSE NULL]

\* Mutant: whatever is in the slot of a null is added.
SumUnmasked(values, valid) ==
  Combined([l \in 1..Lanes |-> Lane(Len(values), l)], Masked(Remainder(Len(values)), valid))

\* sum_nullable.
SumNullable(values, valid) ==
  Combined([l \in 1..Lanes |-> Masked(Lane(Len(values), l), valid)],
           Masked(Remainder(Len(values)), valid))

\* Column::sum_f64 and sum_f32, of a column that is not empty.
SumOf(C) == IF C.kind = "split" THEN SumNullable(C.values, C.valid) ELSE SumRequired(C.cells)
=============================================================================
