----------------------------- MODULE TableProof -----------------------------
(***************************************************************************)
(* Proofs about Table: its vectors never drift apart, every row is legal   *)
(* under its schema, it implements TableRows, the result of compact tells  *)
(* where rows went, appends follow the schemas, and bulk reads agree;      *)
(* about TableQueries: indexes partition the rows, joins are relational,   *)
(* and orders are stable; and about SharedProjection: guards are usable,   *)
(* exclusive and confined, and leave a table whole.                        *)
(*                                                                         *)
(* From the inside out: what each operation of ColumnStorage does to one   *)
(* column, to the extra fields and to the tombstones; what each operation  *)
(* of TableData, which does these together, does to the rows of a table;   *)
(* and that each call of Table is a step of TableRows.  The sections about *)
(* SharedProjection at the end rest on the last of these.                  *)
(***************************************************************************)
EXTENDS SharedProjection, TableQueries, NaturalLemmas, FiniteSetTheorems, TLAPS

\* What a cell or an extra field can hold.
Slots == Values \cup {NULL}

\* Column specifications as SchemasAssumption has them.
IsSpec(spec) == spec \in ColumnSpec /\ (spec.type # "string" => spec.fits = Values)

-----------------------------------------------------------------------------
(* Columns.                                                                *)

\* The three shapes of a column C of n rows: a length, for columns of nulls,
LengthColumn(spec, C, n) ==
  /\ spec.type = NullType
  /\ DOMAIN C = {"kind", "len"} /\ C.kind = "length" /\ C.len = n
  /\ n > 0 => spec.nullable

\* two vectors, for nullable numbers,
SplitColumn(spec, C, n) ==
  /\ IsSplit(spec)
  /\ DOMAIN C = {"kind", "type", "values", "valid"} /\ C.kind = "split" /\ C.type = spec.type
  /\ C.values \in Seq({v \in Values : TypeOf[v] = spec.type}) /\ Len(C.values) = n
  /\ C.valid \in Seq(BOOLEAN) /\ Len(C.valid) = n

\* one vector of cells, for all others.
CellColumn(spec, C, n) ==
  /\ spec.type # NullType /\ ~IsSplit(spec)
  /\ DOMAIN C = {"kind", "cells"}
  /\ C.kind = IF spec.nullable THEN "nullable" ELSE "required"
  /\ C.cells \in Seq({v \in Slots : Accepts(spec, v)}) /\ Len(C.cells) = n

\* C stores n rows of a column as for_spec would.
HasShape(spec, C, n) ==
  LengthColumn(spec, C, n) \/ SplitColumn(spec, C, n) \/ CellColumn(spec, C, n)

\* A split column accepts null and the numbers of its type, Zero[type] among them.
LEMMA SplitAccepts ==
  ASSUME NEW spec, IsSpec(spec), IsSplit(spec)
  PROVE  /\ \A v \in Slots : Accepts(spec, v) <=> v = NULL \/ (v \in Values /\ TypeOf[v] = spec.type)
         /\ Zero[spec.type] \in {v \in Values : TypeOf[v] = spec.type}
         /\ spec.type # NullType
  BY ValuesAssumption DEF IsSpec, IsSplit, Accepts, Slots, ColumnSpec

\* A column of nulls accepts null, if anything.
LEMMA NullAccepts ==
  ASSUME NEW spec, spec.type = NullType
  PROVE  \A v \in Slots : Accepts(spec, v) <=> v = NULL /\ spec.nullable
  BY ValuesAssumption DEF Accepts, Slots

\* What get finds in a column of each shape.
LEMMA LengthAt ==
  ASSUME NEW spec, NEW C, NEW n \in Nat, LengthColumn(spec, C, n)
  PROVE  \A i \in 1..n : GetCell(C, i) = NULL
  BY DEF LengthColumn, GetCell

\* Of a split column, the value of a valid row.
LEMMA SplitAt ==
  ASSUME NEW spec, NEW C, NEW n \in Nat, SplitColumn(spec, C, n)
  PROVE  \A i \in 1..n : GetCell(C, i) = IF C.valid[i] THEN C.values[i] ELSE NULL
  BY DEF SplitColumn, GetCell, NumberAt

\* Of a vector of cells, the cell.
LEMMA CellAt ==
  ASSUME NEW spec, NEW C, NEW n \in Nat, CellColumn(spec, C, n)
  PROVE  \A i \in 1..n : GetCell(C, i) = C.cells[i]
  <1>1. C.kind \notin {"length", "split"}
    BY DEF CellColumn
  <1>. QED  BY <1>1 DEF CellColumn, GetCell

\* What a column holds is what it accepts, and all of its vectors are as long.
LEMMA ShapeHolds ==
  ASSUME NEW spec, NEW C, NEW n \in Nat, IsSpec(spec), HasShape(spec, C, n)
  PROVE  /\ Length(C) = n
         /\ \A x \in VectorsOf(C) : Len(C[x]) = n
         /\ \A i \in 1..n : GetCell(C, i) \in Slots /\ Accepts(spec, GetCell(C, i))
  <1>1. CASE LengthColumn(spec, C, n)
    <2>1. ASSUME NEW i \in 1..n  PROVE GetCell(C, i) \in Slots /\ Accepts(spec, GetCell(C, i))
      <3>1. GetCell(C, i) = NULL /\ spec.nullable
        BY <1>1, LengthAt DEF LengthColumn
      <3>. QED  BY <3>1 DEF Slots, Accepts
    <2>. QED  BY <1>1, <2>1 DEF LengthColumn, Length, VectorsOf
  <1>2. CASE SplitColumn(spec, C, n)
    <2>1. Length(C) = n /\ \A x \in VectorsOf(C) : Len(C[x]) = n
      BY <1>2 DEF SplitColumn, Length, VectorsOf
    <2>2. ASSUME NEW i \in 1..n  PROVE GetCell(C, i) \in Slots /\ Accepts(spec, GetCell(C, i))
      <3>1. GetCell(C, i) = IF C.valid[i] THEN C.values[i] ELSE NULL
        BY <1>2, SplitAt
      <3>2. C.values[i] \in {v \in Values : TypeOf[v] = spec.type}
        BY <1>2 DEF SplitColumn
      <3>. QED  BY <1>2, <3>1, <3>2, SplitAccepts DEF SplitColumn, Slots
    <2>. QED  BY <2>1, <2>2
  <1>3. CASE CellColumn(spec, C, n)
    <2>1. C.kind \notin {"length", "split"}
      BY <1>3 DEF CellColumn
    <2>2. \A i \in 1..n : C.cells[i] \in Slots /\ Accepts(spec, C.cells[i])
      BY <1>3 DEF CellColumn
    <2>. QED  BY <1>3, <2>1, <2>2, CellAt DEF CellColumn, Length, VectorsOf
  <1>. QED  BY <1>1, <1>2, <1>3 DEF HasShape

\* for_spec makes an empty column of the right shape.
LEMMA NewShape ==
  ASSUME NEW spec, IsSpec(spec)
  PROVE  HasShape(spec, ForSpec(spec), 0)
  <1>0. spec.nullable \in BOOLEAN
    BY DEF IsSpec, ColumnSpec
  <1>. DEFINE C == ForSpec(spec)
  <1>1. CASE spec.type = NullType
    <2>1. C = [kind |-> "length", len |-> 0]
      BY <1>1, ValuesAssumption DEF ForSpec, IsSplit
    <2>. HIDE DEF C
    <2>2. LengthColumn(spec, C, 0)
      BY <1>1, <2>1 DEF LengthColumn
    <2>. QED  BY <2>2 DEF C, HasShape
  <1>2. CASE IsSplit(spec)
    <2>1. C = [kind |-> "split", type |-> spec.type, values |-> <<>>, valid |-> <<>>]
      BY <1>2, SplitAccepts DEF ForSpec
    <2>. HIDE DEF C
    <2>2. SplitColumn(spec, C, 0)
      BY <1>2, <2>1 DEF SplitColumn
    <2>. QED  BY <2>2 DEF C, HasShape
  <1>3. CASE spec.type # NullType /\ ~IsSplit(spec)
    <2>1. C = [kind |-> IF spec.nullable THEN "nullable" ELSE "required", cells |-> <<>>]
      BY <1>3 DEF ForSpec
    <2>. HIDE DEF C
    <2>2. CellColumn(spec, C, 0)
      BY <1>3, <2>1 DEF CellColumn
    <2>. QED  BY <2>2 DEF C, HasShape
  <1>. QED  BY <1>1, <1>2, <1>3

\* push_validated adds one row and leaves the others alone.
LEMMA PushShape ==
  ASSUME NEW spec, NEW C, NEW n \in Nat, NEW w \in Slots,
         IsSpec(spec), HasShape(spec, C, n), Accepts(spec, w)
  PROVE  /\ HasShape(spec, PushCell(C, w), n + 1)
         /\ \A i \in 1..n : GetCell(PushCell(C, w), i) = GetCell(C, i)
         /\ GetCell(PushCell(C, w), n + 1) = w
  <1>. DEFINE D == PushCell(C, w)
  <1>1. CASE LengthColumn(spec, C, n)
    BY <1>1, NullAccepts DEF LengthColumn, HasShape, GetCell, PushCell
  <1>2. CASE SplitColumn(spec, C, n)
    <2>. DEFINE v == IF w = NULL THEN Zero[C.type] ELSE w
                S == {u \in Values : TypeOf[u] = spec.type}
    <2>1. v \in S
      BY <1>2, SplitAccepts DEF SplitColumn
    <2>2. /\ DOMAIN D = DOMAIN C /\ D.kind = C.kind /\ D.type = C.type
          /\ D.values = Append(C.values, v)
      BY <1>2, Zenon DEF SplitColumn, PushCell, PushNumber
    <2>3. D.valid = Append(C.valid, w # NULL)
      BY <1>2, Zenon DEF SplitColumn, PushCell, PushNumber
    <2>. HIDE DEF D, v
    <2>4. /\ D.valid \in Seq(BOOLEAN) /\ Len(D.valid) = n + 1
          /\ \A i \in 1..n : D.valid[i] = C.valid[i]
          /\ D.valid[n + 1] = (w # NULL)
      BY <1>2, <2>3 DEF SplitColumn
    <2>5. SplitColumn(spec, D, n + 1)
      BY <1>2, <2>1, <2>2, <2>4 DEF SplitColumn
    <2>6. \A i \in 1..n : D.values[i] = C.values[i]
      BY <1>2, <2>1, <2>2 DEF SplitColumn
    <2>7. w # NULL => D.values[n + 1] = w
      BY <1>2, <2>1, <2>2 DEF SplitColumn, v
    <2>8. \A i \in 1..n : GetCell(D, i) = GetCell(C, i)
      <3>. TAKE i \in 1..n
      <3>1. n + 1 \in Nat /\ i \in 1..(n + 1)
        OBVIOUS
      <3>2. GetCell(C, i) = IF C.valid[i] THEN C.values[i] ELSE NULL
        BY <1>2, SplitAt
      <3>3. GetCell(D, i) = IF D.valid[i] THEN D.values[i] ELSE NULL
        BY <2>5, <3>1, SplitAt
      <3>4. D.valid[i] = C.valid[i] /\ D.values[i] = C.values[i]
        BY <2>4, <2>6
      <3>. QED  BY <3>2, <3>3, <3>4
    <2>9. GetCell(D, n + 1) = w
      <3>1. GetCell(D, n + 1) = IF D.valid[n + 1] THEN D.values[n + 1] ELSE NULL
        BY <2>5, SplitAt
      <3>. QED  BY <2>4, <2>7, <3>1
    <2>. QED  BY <2>5, <2>8, <2>9 DEF HasShape, D
  <1>3. CASE CellColumn(spec, C, n)
    <2>1. C.kind \notin {"length", "split"}
      BY <1>3 DEF CellColumn
    <2>2. DOMAIN D = DOMAIN C /\ D.kind = C.kind /\ D.cells = Append(C.cells, w)
      BY <1>3, <2>1 DEF CellColumn, PushCell
    <2>3. CellColumn(spec, D, n + 1)
      BY <1>3, <2>2 DEF CellColumn
    <2>4. \A i \in 1..n : D.cells[i] = C.cells[i]
      BY <1>3, <2>2 DEF CellColumn
    <2>5. D.cells[n + 1] = w
      BY <1>3, <2>2 DEF CellColumn
    <2>. HIDE DEF D
    <2>6. \A i \in 1..n : GetCell(D, i) = GetCell(C, i)
      BY <1>3, <2>3, <2>4, CellAt
    <2>7. GetCell(D, n + 1) = w
      BY <2>3, <2>5, CellAt
    <2>. QED  BY <2>3, <2>6, <2>7 DEF HasShape, D
  <1>. QED  BY <1>1, <1>2, <1>3 DEF HasShape

\* set_validated changes one row of a column, and a view's element does the same.
LEMMA PutShape ==
  ASSUME NEW spec, NEW C, NEW n \in Nat, NEW w \in Slots, NEW i \in 1..n,
         IsSpec(spec), HasShape(spec, C, n), Accepts(spec, w)
  PROVE  /\ HasShape(spec, PutCell(C, i, w), n)
         /\ \A j \in 1..n : GetCell(PutCell(C, i, w), j) = IF j = i THEN w ELSE GetCell(C, j)
         /\ spec.type # NullType => PutSlot(C, i, w) = PutCell(C, i, w)
  <1>. DEFINE D == PutCell(C, i, w)
  <1>1. CASE LengthColumn(spec, C, n)
    <2>1. D = C /\ w = NULL
      BY <1>1, NullAccepts DEF LengthColumn, PutCell
    <2>. QED  BY <1>1, <2>1, LengthAt DEF HasShape, LengthColumn
  <1>2. CASE SplitColumn(spec, C, n)
    <2>. DEFINE S == {u \in Values : TypeOf[u] = spec.type}
                b == w # NULL
                values == IF w = NULL THEN C.values ELSE Replaced(C.values, i, w)
                valid == Replaced(C.valid, i, b)
    <2>0. /\ C.kind = "split" /\ C.values \in Seq(S) /\ C.valid \in Seq(BOOLEAN)
          /\ Len(C.values) = n /\ Len(C.valid) = n
      BY <1>2 DEF SplitColumn
    <2>1. w # NULL => w \in S
      BY <1>2, SplitAccepts DEF SplitColumn
    <2>2. D = [C EXCEPT !.values = values, !.valid = valid]
      BY <1>2 DEF SplitColumn, PutCell, PutNumber
    <2>3. PutSlot(C, i, w) = D
      BY <1>2, <2>2, Zenon DEF SplitColumn, PutSlot
    <2>4. /\ valid \in Seq(BOOLEAN) /\ Len(valid) = n /\ valid[i] = (w # NULL)
          /\ \A j \in 1..n : j # i => valid[j] = C.valid[j]
      <3>. DEFINE s == C.valid
      <3>1. s \in Seq(BOOLEAN) /\ n = Len(s) /\ b \in BOOLEAN
        BY <2>0
      <3>2. valid = [j \in 1..n |-> IF j = i THEN b ELSE s[j]]
        BY <2>0 DEF Replaced
      <3>. HIDE DEF b, s, valid
      <3>3. /\ valid \in Seq(BOOLEAN) /\ Len(valid) = n /\ valid[i] = b
            /\ \A j \in 1..n : j # i => valid[j] = s[j]
        BY <3>1, <3>2
      <3>. QED  BY <3>3 DEF b, s
    <2>5. /\ values \in Seq(S) /\ Len(values) = n /\ (w # NULL => values[i] = w)
          /\ \A j \in 1..n : j # i => values[j] = C.values[j]
      <3>1. CASE w = NULL
        BY <2>0, <3>1
      <3>2. CASE w # NULL
        <4>. DEFINE s == C.values
        <4>1. s \in Seq(S) /\ n = Len(s) /\ w \in S
          BY <2>0, <2>1, <3>2
        <4>2. values = [j \in 1..n |-> IF j = i THEN w ELSE s[j]]
          BY <2>0, <3>2 DEF Replaced
        <4>. HIDE DEF S, s, values
        <4>3. /\ values \in Seq(S) /\ Len(values) = n /\ values[i] = w
              /\ \A j \in 1..n : j # i => values[j] = s[j]
          BY <4>1, <4>2
        <4>. QED  BY <3>2, <4>3 DEF s
      <3>. QED  BY <3>1, <3>2
    <2>. HIDE DEF values, valid, D, b
    <2>7. SplitColumn(spec, D, n) /\ D.values = values /\ D.valid = valid
      BY <1>2, <2>2, <2>4, <2>5 DEF SplitColumn
    <2>8. \A j \in 1..n : GetCell(D, j) = IF j = i THEN w ELSE GetCell(C, j)
      <3>. TAKE j \in 1..n
      <3>1. GetCell(C, j) = IF C.valid[j] THEN C.values[j] ELSE NULL
        BY <1>2, SplitAt
      <3>2. GetCell(D, j) = IF valid[j] THEN values[j] ELSE NULL
        BY <2>7, SplitAt
      <3>. QED  BY <2>4, <2>5, <3>1, <3>2
    <2>. QED  BY <2>3, <2>7, <2>8 DEF HasShape, D
  <1>3. CASE CellColumn(spec, C, n)
    <2>1. C.kind \notin {"length", "split"}
      BY <1>3 DEF CellColumn
    <2>2. D = [C EXCEPT !.cells = Replaced(C.cells, i, w)] /\ PutSlot(C, i, w) = D
      BY <1>3, <2>1 DEF CellColumn, PutCell, PutSlot
    <2>. DEFINE S == {u \in Slots : Accepts(spec, u)}
                r == Replaced(C.cells, i, w)
    <2>3. r \in Seq(S) /\ Len(r) = n /\ \A j \in 1..n : r[j] = IF j = i THEN w ELSE C.cells[j]
      <3>. DEFINE s == C.cells
      <3>1. s \in Seq(S) /\ n = Len(s) /\ w \in S /\ r = [j \in 1..n |-> IF j = i THEN w ELSE s[j]]
        BY <1>3 DEF CellColumn, Replaced
      <3>. HIDE DEF S, r, s
      <3>2. /\ r \in Seq(S) /\ Len(r) = n /\ r[i] = w
            /\ \A j \in 1..n : j # i => r[j] = s[j]
        BY <3>1
      <3>. QED  BY <3>2 DEF s
    <2>. HIDE DEF D, r
    <2>4. CellColumn(spec, D, n) /\ D.cells = r
      BY <1>3, <2>2, <2>3 DEF CellColumn, r
    <2>5. \A j \in 1..n : D.cells[j] = IF j = i THEN w ELSE C.cells[j]
      BY <2>3, <2>4
    <2>6. \A j \in 1..n : GetCell(D, j) = IF j = i THEN w ELSE GetCell(C, j)
      BY <1>3, <2>4, <2>5, CellAt
    <2>. QED  BY <2>2, <2>4, <2>6 DEF HasShape, D
  <1>. QED  BY <1>1, <1>2, <1>3 DEF HasShape

\* copy_rows gathers the rows at the given positions.
LEMMA CopyShape ==
  ASSUME NEW spec, NEW C, NEW n \in Nat, NEW p \in Seq(1..n), IsSpec(spec), HasShape(spec, C, n)
  PROVE  /\ HasShape(spec, CopyCells(C, p), Len(p))
         /\ \A j \in 1..Len(p) : GetCell(CopyCells(C, p), j) = GetCell(C, p[j])
  <1>. DEFINE D == CopyCells(C, p)
              m == Len(p)
  <1>0. m \in Nat /\ DOMAIN p = 1..m /\ (m > 0 => n > 0) /\ \A j \in 1..m : p[j] \in 1..n
    <2>1. m \in Nat /\ DOMAIN p = 1..m /\ \A j \in 1..m : p[j] \in 1..n
      BY ONLY p \in Seq(1..n)
    <2>. HIDE DEF m
    <2>2. ASSUME m > 0  PROVE n > 0
      <3>1. 1 \in 1..m
        BY ONLY <2>1, <2>2
      <3>2. p[1] \in 1..n
        BY ONLY <2>1, <3>1
      <3>. QED  BY ONLY <3>2, n \in Nat
    <2>. QED  BY ONLY <2>1, <2>2
  <1>. HIDE DEF m
  <1>1. CASE LengthColumn(spec, C, n)
    <2>1. D = [C EXCEPT !.len = m]
      BY <1>1 DEF LengthColumn, CopyCells, m
    <2>. HIDE DEF D
    <2>2. LengthColumn(spec, D, m)
      BY <1>0, <1>1, <2>1 DEF LengthColumn
    <2>. QED  BY <1>0, <1>1, <2>2, LengthAt DEF HasShape, D, m
  <1>2. CASE SplitColumn(spec, C, n)
    <2>. DEFINE S == {u \in Values : TypeOf[u] = spec.type}
    <2>1. /\ DOMAIN D = DOMAIN C /\ D.kind = "split" /\ D.type = C.type
          /\ D.values = [j \in 1..m |-> C.values[p[j]]]
          /\ D.valid = [j \in 1..m |-> C.valid[p[j]]]
      BY <1>0, <1>2 DEF SplitColumn, CopyCells, RowsAt, VectorsOf
    <2>. HIDE DEF D
    <2>2. \A j \in 1..n : C.values[j] \in S /\ C.valid[j] \in BOOLEAN
      BY <1>2 DEF SplitColumn
    <2>3. D.values \in Seq(S) /\ Len(D.values) = m
      BY <1>0, <2>1, <2>2
    <2>4. D.valid \in Seq(BOOLEAN) /\ Len(D.valid) = m
      BY <1>0, <2>1, <2>2
    <2>5. SplitColumn(spec, D, m)
      BY <1>2, <2>1, <2>3, <2>4, Zenon DEF SplitColumn
    <2>6. \A j \in 1..m : GetCell(D, j) = GetCell(C, p[j])
      <3>. TAKE j \in 1..m
      <3>1. GetCell(D, j) = IF D.valid[j] THEN D.values[j] ELSE NULL
        BY <1>0, <2>5, SplitAt
      <3>2. GetCell(C, p[j]) = IF C.valid[p[j]] THEN C.values[p[j]] ELSE NULL
        BY <1>0, <1>2, SplitAt
      <3>3. D.values[j] = C.values[p[j]] /\ D.valid[j] = C.valid[p[j]]
        BY <2>1
      <3>. QED  BY <3>1, <3>2, <3>3
    <2>. QED  BY <2>5, <2>6 DEF HasShape, D, m
  <1>3. CASE CellColumn(spec, C, n)
    <2>0. C.kind \notin {"length", "split"}
      BY <1>3 DEF CellColumn
    <2>1. DOMAIN D = DOMAIN C /\ D.kind = C.kind /\ D.cells = [j \in 1..m |-> C.cells[p[j]]]
      BY <1>0, <1>3, <2>0 DEF CellColumn, CopyCells, RowsAt, VectorsOf
    <2>. HIDE DEF D
    <2>2. \A j \in 1..n : C.cells[j] \in {v \in Slots : Accepts(spec, v)}
      BY <1>3 DEF CellColumn
    <2>3. D.cells \in Seq({v \in Slots : Accepts(spec, v)}) /\ Len(D.cells) = m
      <3>. DEFINE S == {v \in Slots : Accepts(spec, v)}
                  s == D.cells
      <3>1. s = [j \in 1..m |-> C.cells[p[j]]] /\ \A j \in 1..n : C.cells[j] \in S
        BY <2>1, <2>2
      <3>. HIDE DEF S, s
      <3>2. s \in [1..m -> S]
        BY ONLY <1>0, <3>1
      <3>3. s \in Seq(S) /\ Len(s) = m
        BY ONLY <1>0, <3>2
      <3>. QED  BY ONLY <3>3 DEF S, s
    <2>4. CellColumn(spec, D, m)
      BY <1>3, <2>1, <2>3, Zenon DEF CellColumn
    <2>5. \A j \in 1..m : GetCell(D, j) = GetCell(C, p[j])
      BY <1>0, <1>3, <2>1, <2>4, CellAt
    <2>. QED  BY <2>4, <2>5 DEF HasShape, D, m
  <1>. QED  BY <1>1, <1>2, <1>3 DEF HasShape

\* retain_live is copy_rows of the rows that stay.
LEMMA RetainShape ==
  ASSUME NEW spec, NEW C, NEW n \in Nat, IsSpec(spec), HasShape(spec, C, n),
         NEW flags, NEW removed \in Nat,
         Kept(flags) \in Seq(1..n), Len(Kept(flags)) = n - removed
  PROVE  RetainRows(C, flags, removed) = CopyCells(C, Kept(flags))
  <1>1. Length(C) = n
    BY ShapeHolds
  <1>2. CASE C.kind = "length"
    BY <1>1, <1>2 DEF RetainRows, CopyCells, Length
  <1>3. CASE C.kind # "length"
    BY <1>3 DEF RetainRows, CopyCells, RowsAt, RetainLive
  <1>. QED  BY <1>2, <1>3

\* append_from adds the rows of a column of the same shape, whatever its storage held.
LEMMA AppendShape ==
  ASSUME NEW spec, NEW C, NEW D, NEW n \in Nat, NEW m \in Nat, IsSpec(spec),
         HasShape(spec, C, n), HasShape(spec, D, m)
  PROVE  /\ HasShape(spec, AppendCells(C, D), n + m)
         /\ \A i \in 1..n : GetCell(AppendCells(C, D), i) = GetCell(C, i)
         /\ \A i \in 1..m : GetCell(AppendCells(C, D), n + i) = GetCell(D, i)
         /\ CanAppend(C, D)
  <1>. DEFINE E == AppendCells(C, D)
  <1>1. CASE LengthColumn(spec, C, n) /\ LengthColumn(spec, D, m)
    <2>1. E = [C EXCEPT !.len = n + m]
      BY <1>1 DEF LengthColumn, AppendCells
    <2>. HIDE DEF E
    <2>2. LengthColumn(spec, E, n + m)
      BY <1>1, <2>1 DEF LengthColumn
    <2>3. CanAppend(C, D)
      BY <1>1 DEF LengthColumn, CanAppend
    <2>. QED  BY <1>1, <2>2, <2>3, LengthAt DEF HasShape, E
  <1>2. CASE SplitColumn(spec, C, n) /\ SplitColumn(spec, D, m)
    <2>. DEFINE S == {u \in Values : TypeOf[u] = spec.type}
    <2>1. /\ DOMAIN E = DOMAIN C /\ E.kind = "split" /\ E.type = C.type
          /\ E.values = C.values \o D.values /\ E.valid = C.valid \o D.valid
      BY <1>2 DEF SplitColumn, AppendCells, VectorsOf
    <2>. HIDE DEF E
    <2>2. /\ E.values \in Seq(S) /\ Len(E.values) = n + m
          /\ \A i \in 1..n : E.values[i] = C.values[i]
          /\ \A i \in 1..m : E.values[n + i] = D.values[i]
      <3>. DEFINE s == C.values
                  t == D.values
                  r == E.values
      <3>1. s \in Seq(S) /\ t \in Seq(S) /\ n = Len(s) /\ m = Len(t) /\ r = s \o t
        BY <1>2, <2>1 DEF SplitColumn
      <3>. HIDE DEF S, s, t, r
      <3>2. /\ r \in Seq(S) /\ Len(r) = n + m
            /\ \A i \in 1..n : r[i] = s[i]
            /\ \A i \in 1..m : r[n + i] = t[i]
        BY <3>1, ConcatSeq
      <3>. QED  BY <3>2 DEF s, t, r
    <2>3. /\ E.valid \in Seq(BOOLEAN) /\ Len(E.valid) = n + m
          /\ \A i \in 1..n : E.valid[i] = C.valid[i]
          /\ \A i \in 1..m : E.valid[n + i] = D.valid[i]
      <3>. DEFINE s == C.valid
                  t == D.valid
                  r == E.valid
      <3>1. s \in Seq(BOOLEAN) /\ t \in Seq(BOOLEAN) /\ n = Len(s) /\ m = Len(t) /\ r = s \o t
        BY <1>2, <2>1 DEF SplitColumn
      <3>. HIDE DEF s, t, r
      <3>2. /\ r \in Seq(BOOLEAN) /\ Len(r) = n + m
            /\ \A i \in 1..n : r[i] = s[i]
            /\ \A i \in 1..m : r[n + i] = t[i]
        BY <3>1, ConcatSeq
      <3>. QED  BY <3>2 DEF s, t, r
    <2>4. SplitColumn(spec, E, n + m)
      BY <1>2, <2>1, <2>2, <2>3 DEF SplitColumn
    <2>5. \A i \in 1..n : GetCell(E, i) = GetCell(C, i)
      <3>. TAKE i \in 1..n
      <3>0. i \in 1..(n + m) /\ n + m \in Nat
        OBVIOUS
      <3>1. GetCell(E, i) = IF E.valid[i] THEN E.values[i] ELSE NULL
        BY <2>4, <3>0, SplitAt
      <3>2. GetCell(C, i) = IF C.valid[i] THEN C.values[i] ELSE NULL
        BY <1>2, SplitAt
      <3>3. E.valid[i] = C.valid[i] /\ E.values[i] = C.values[i]
        BY <2>2, <2>3
      <3>. QED  BY ONLY <3>1, <3>2, <3>3
    <2>6. \A i \in 1..m : GetCell(E, n + i) = GetCell(D, i)
      <3>. TAKE i \in 1..m
      <3>1. GetCell(E, n + i) = IF E.valid[n + i] THEN E.values[n + i] ELSE NULL
        BY <2>4, SplitAt
      <3>2. GetCell(D, i) = IF D.valid[i] THEN D.values[i] ELSE NULL
        BY <1>2, SplitAt
      <3>. QED  BY <2>2, <2>3, <3>1, <3>2
    <2>7. CanAppend(C, D)
      BY <1>2 DEF SplitColumn, CanAppend
    <2>. QED  BY <2>4, <2>5, <2>6, <2>7 DEF HasShape, E
  <1>3. CASE CellColumn(spec, C, n) /\ CellColumn(spec, D, m)
    <2>. DEFINE S == {u \in Slots : Accepts(spec, u)}
    <2>0. C.kind \notin {"length", "split"}
      BY <1>3 DEF CellColumn
    <2>1. DOMAIN E = DOMAIN C /\ E.kind = C.kind /\ E.cells = C.cells \o D.cells
      BY <1>3, <2>0 DEF CellColumn, AppendCells, VectorsOf
    <2>. HIDE DEF E
    <2>2. /\ E.cells \in Seq(S) /\ Len(E.cells) = n + m
          /\ \A i \in 1..n : E.cells[i] = C.cells[i]
          /\ \A i \in 1..m : E.cells[n + i] = D.cells[i]
      <3>. DEFINE s == C.cells
                  t == D.cells
                  r == E.cells
      <3>1. s \in Seq(S) /\ t \in Seq(S) /\ n = Len(s) /\ m = Len(t) /\ r = s \o t
        BY <1>3, <2>1 DEF CellColumn
      <3>. HIDE DEF S, s, t, r
      <3>2. /\ r \in Seq(S) /\ Len(r) = n + m
            /\ \A i \in 1..n : r[i] = s[i]
            /\ \A i \in 1..m : r[n + i] = t[i]
        BY <3>1, ConcatSeq
      <3>. QED  BY <3>2 DEF s, t, r
    <2>3. CellColumn(spec, E, n + m)
      BY <1>3, <2>1, <2>2 DEF CellColumn
    <2>4. \A i \in 1..n : GetCell(E, i) = GetCell(C, i)
      <3>1. n + m \in Nat /\ CellColumn(spec, C, n)
        BY <1>3
      <3>2. \A i \in 1..n : GetCell(C, i) = C.cells[i]
        BY <3>1, CellAt
      <3>3. \A i \in 1..(n + m) : GetCell(E, i) = E.cells[i]
        BY <2>3, <3>1, CellAt
      <3>4. \A i \in 1..n : i \in 1..(n + m)
        BY ONLY n \in Nat, m \in Nat
      <3>. QED  BY <2>2, <3>2, <3>3, <3>4, Zenon
    <2>5. \A i \in 1..m : GetCell(E, n + i) = GetCell(D, i)
      <3>. TAKE i \in 1..m
      <3>1. n + i \in 1..(n + m)
        BY ONLY n \in Nat, m \in Nat, i \in 1..m
      <3>2. GetCell(E, n + i) = E.cells[n + i] /\ GetCell(D, i) = D.cells[i]
        BY <1>3, <2>3, <3>1, CellAt
      <3>. QED  BY <2>2, <3>2
    <2>6. CanAppend(C, D)
      BY <1>3 DEF CellColumn, CanAppend
    <2>. QED  BY <2>3, <2>4, <2>5, <2>6 DEF HasShape, E
  <1>4. /\ LengthColumn(spec, C, n) => LengthColumn(spec, D, m)
        /\ SplitColumn(spec, C, n) => SplitColumn(spec, D, m)
        /\ CellColumn(spec, C, n) => CellColumn(spec, D, m)
    BY SplitAccepts DEF HasShape, LengthColumn, SplitColumn, CellColumn
  <1>. QED  BY <1>1, <1>2, <1>3, <1>4 DEF HasShape

\* Writes through the parts of a nullable column.
LEMMA PartsShape ==
  ASSUME NEW spec, NEW C, NEW n \in Nat, NEW i \in 1..n, IsSpec(spec), HasShape(spec, C, n),
         IsSplit(spec)
  PROVE  /\ \A v \in Values : TypeOf[v] = spec.type =>
              HasShape(spec, PutPlaceholder(C, i, v), n)
              /\ \A j \in 1..n : GetCell(PutPlaceholder(C, i, v), j) =
                                   IF j = i /\ GetCell(C, i) # NULL THEN v ELSE GetCell(C, j)
         /\ \A b \in BOOLEAN :
              HasShape(spec, PutValidity(C, i, b), n)
              /\ \A j \in 1..n : j # i => GetCell(PutValidity(C, i, b), j) = GetCell(C, j)
  <1>. DEFINE S == {u \in Values : TypeOf[u] = spec.type}
              s == C.values
              t == C.valid
  <1>1. SplitColumn(spec, C, n)
    BY SplitAccepts DEF HasShape, LengthColumn, CellColumn
  <1>2. s \in Seq(S) /\ Len(s) = n
    BY <1>1 DEF SplitColumn
  <1>2a. t \in Seq(BOOLEAN) /\ Len(t) = n
    BY <1>1 DEF SplitColumn
  <1>3. \A j \in 1..n : s[j] \in S /\ t[j] \in BOOLEAN /\ s[j] # NULL
    <2>. HIDE DEF s, t
    <2>1. \A j \in 1..n : s[j] \in S
      BY <1>2
    <2>2. \A j \in 1..n : t[j] \in BOOLEAN
      BY <1>2a
    <2>. QED  BY <2>1, <2>2, ValuesAssumption
  <1>4. \A j \in 1..n : GetCell(C, j) = IF t[j] THEN s[j] ELSE NULL
    BY <1>1, SplitAt
  <1>5. ASSUME NEW v \in Values, TypeOf[v] = spec.type
        PROVE  /\ HasShape(spec, PutPlaceholder(C, i, v), n)
               /\ \A j \in 1..n : GetCell(PutPlaceholder(C, i, v), j) =
                                   IF j = i /\ GetCell(C, i) # NULL THEN v ELSE GetCell(C, j)
    <2>. DEFINE D == PutPlaceholder(C, i, v)
                r == Replaced(s, i, v)
    <2>1. r = [j \in 1..n |-> IF j = i THEN v ELSE s[j]]
      <3>. HIDE DEF s
      <3>. QED  BY <1>2 DEF Replaced
    <2>2. D = [C EXCEPT !.values = r]
      BY DEF PutPlaceholder
    <2>. HIDE DEF D, r
    <2>3. v \in S
      BY <1>5
    <2>4. r \in Seq(S) /\ Len(r) = n /\ \A j \in 1..n : r[j] = IF j = i THEN v ELSE s[j]
      <3>. HIDE DEF s, S
      <3>. QED  BY <1>2, <2>1, <2>3
    <2>5. SplitColumn(spec, D, n) /\ D.values = r /\ D.valid = t
      BY <1>1, <2>2, <2>4 DEF SplitColumn
    <2>6. \A j \in 1..n : GetCell(D, j) = IF t[j] THEN r[j] ELSE NULL
      BY <2>5, SplitAt
    <2>. HIDE DEF s, t, S
    <2>7. \A j \in 1..n : GetCell(D, j) = IF j = i /\ GetCell(C, i) # NULL THEN v ELSE GetCell(C, j)
      BY <1>3, <1>4, <2>4, <2>6
    <2>. QED  BY <2>5, <2>7 DEF HasShape, D
  <1>6. ASSUME NEW b \in BOOLEAN
        PROVE  /\ HasShape(spec, PutValidity(C, i, b), n)
               /\ \A j \in 1..n : j # i => GetCell(PutValidity(C, i, b), j) = GetCell(C, j)
    <2>. DEFINE D == PutValidity(C, i, b)
                r == Replaced(t, i, b)
    <2>1. r = [j \in 1..n |-> IF j = i THEN b ELSE t[j]]
      BY <1>2a DEF Replaced
    <2>2. D = [C EXCEPT !.valid = r]
      BY DEF PutValidity
    <2>. HIDE DEF D, r
    <2>4. r \in Seq(BOOLEAN) /\ Len(r) = n /\ \A j \in 1..n : r[j] = IF j = i THEN b ELSE t[j]
      BY <1>2a, <2>1
    <2>5. SplitColumn(spec, D, n) /\ D.valid = r /\ D.values = s
      BY <1>1, <2>2, <2>4 DEF SplitColumn
    <2>6. \A j \in 1..n : GetCell(D, j) = IF r[j] THEN s[j] ELSE NULL
      BY <2>5, SplitAt
    <2>. HIDE DEF s, t, S
    <2>7. \A j \in 1..n : j # i => GetCell(D, j) = GetCell(C, j)
      BY <1>3, <1>4, <2>4, <2>6
    <2>. QED  BY <2>5, <2>7 DEF HasShape, D
  <1>. QED  BY <1>5, <1>6

-----------------------------------------------------------------------------
(* Columns filled one cell after the other.                                *)

\* The recursion of FilledUpto defines a function.
LEMMA FilledUptoDef ==
  ASSUME NEW spec, NEW cells, NEW n \in Nat, n = Len(cells)
  PROVE  FilledUpto(spec, cells) =
           [k \in 0..n |-> IF k = 0 THEN ForSpec(spec)
                           ELSE PushCell(FilledUpto(spec, cells)[k - 1], cells[k])]
  <1>. DEFINE Step(f, k) == PushCell(f[k - 1], cells[k])
              Def(f, m) == f = [k \in 0..m |-> IF k = 0 THEN ForSpec(spec) ELSE Step(f, k)]
              T == {m \in Nat : \E f : Def(f, m)}
  <1>1. 0 \in T
    <2>1. Def([k \in 0..0 |-> ForSpec(spec)], 0)
      OBVIOUS
    <2>. QED  BY <2>1, Zenon
  <1>2. ASSUME NEW m \in T  PROVE m + 1 \in T
    <2>1. PICK f : Def(f, m)
      OBVIOUS
    <2>. DEFINE last == PushCell(f[m], cells[m + 1])
                g == [k \in 0..(m + 1) |-> IF k <= m THEN f[k] ELSE last]
    <2>2. /\ g = [k \in 0..(m + 1) |-> g[k]] /\ g[m + 1] = last /\ \A k \in 0..m : g[k] = f[k]
      <3>. HIDE DEF last
      <3>. QED  BY OneMoreValue
    <2>. HIDE DEF g
    <2>3. \A k \in 0..(m + 1) : g[k] = IF k = 0 THEN ForSpec(spec) ELSE Step(g, k)
      <3>1. \A k \in 0..m : f[k] = IF k = 0 THEN ForSpec(spec) ELSE Step(f, k)
        <4>. HIDE DEF Step
        <4>. QED  BY <2>1
      <3>. TAKE k \in 0..(m + 1)
      <3>2. CASE k \in 0..m
        <4>1. k = 0 \/ (k # 0 /\ k - 1 \in 0..m)
          BY <3>2
        <4>. QED  BY <2>2, <3>1, <3>2, <4>1
      <3>3. CASE k = m + 1
        <4>1. k # 0 /\ k - 1 = m /\ m \in 0..m
          BY <3>3
        <4>. QED  BY <2>2, <3>3, <4>1
      <3>. QED  BY <3>2, <3>3
    <2>4. Def(g, m + 1)
      <3>. HIDE DEF Step
      <3>. QED  BY <2>2, <2>3
    <2>. HIDE DEF Def
    <2>. QED  BY <2>4
  <1>3. T = Nat
    <2>1. T \in SUBSET Nat
      OBVIOUS
    <2>. HIDE DEF T
    <2>. QED  BY <1>1, <1>2, <2>1, SetInduction, Zenon
  <1>4. PICK f : Def(f, n)
    BY <1>3
  <1>. QED  BY <1>4, Zenon DEF FilledUpto

\* A column filled cell by cell has these cells.
LEMMA FilledShape ==
  ASSUME NEW spec, IsSpec(spec), NEW cells \in Seq(Slots), NEW n, n = Len(cells),
         \A i \in 1..n : Accepts(spec, cells[i])
  PROVE  /\ HasShape(spec, Filled(spec, cells), n)
         /\ \A i \in 1..n : GetCell(Filled(spec, cells), i) = cells[i]
  <1>. DEFINE u == FilledUpto(spec, cells)
              P(m) == HasShape(spec, u[m], m) /\ \A i \in 1..m : GetCell(u[m], i) = cells[i]
              T == {m \in 0..n : P(m)}
  <1>0. n \in Nat
    OBVIOUS
  <1>1. /\ u[0] = ForSpec(spec)
        /\ \A k \in 0..n : k < n => u[k + 1] = PushCell(u[k], cells[k + 1])
    <2>1. u = [k \in 0..n |-> IF k = 0 THEN ForSpec(spec) ELSE PushCell(u[k - 1], cells[k])]
      BY <1>0, FilledUptoDef
    <2>. HIDE DEF u
    <2>2. u[0] = ForSpec(spec)
      BY <1>0, <2>1
    <2>3. ASSUME NEW k \in 0..n, k < n  PROVE u[k + 1] = PushCell(u[k], cells[k + 1])
      <3>1. k + 1 \in 0..n /\ k + 1 # 0 /\ (k + 1) - 1 = k
        BY <1>0, <2>3
      <3>2. u[k + 1] = PushCell(u[(k + 1) - 1], cells[k + 1])
        BY <2>1, <3>1
      <3>. QED  BY <3>1, <3>2
    <2>. QED  BY <2>2, <2>3
  <1>2. Filled(spec, cells) = u[n]
    BY DEF Filled
  <1>. HIDE DEF u
  <1>3. 0 \in T
    BY <1>0, <1>1, NewShape
  <1>4. ASSUME NEW m \in 0..n, m < n, m \in T  PROVE m + 1 \in T
    <2>1. cells[m + 1] \in Slots /\ Accepts(spec, cells[m + 1]) /\ m + 1 \in 0..n
      BY <1>4
    <2>2. HasShape(spec, u[m], m) /\ \A i \in 1..m : GetCell(u[m], i) = cells[i]
      BY <1>4
    <2>3. /\ HasShape(spec, u[m + 1], m + 1)
          /\ \A i \in 1..m : GetCell(u[m + 1], i) = GetCell(u[m], i)
          /\ GetCell(u[m + 1], m + 1) = cells[m + 1]
      BY <1>1, <1>4, <2>1, <2>2, PushShape
    <2>4. \A i \in 1..(m + 1) : GetCell(u[m + 1], i) = cells[i]
      BY <2>2, <2>3
    <2>. QED  BY <2>1, <2>3, <2>4
  <1>. HIDE DEF P
  <1>5. T = 0..n
    <2>1. T \in SUBSET (0..n)
      OBVIOUS
    <2>. HIDE DEF T
    <2>. QED  BY <1>0, <1>3, <1>4, <2>1, BoundedInduction
  <1>6. P(n)
    BY <1>0, <1>5
  <1>. QED  BY <1>2, <1>6 DEF P

-----------------------------------------------------------------------------
(* Extra fields.                                                           *)

\* A list of fields: no name is in it twice.
InlineFields(E) ==
  /\ DOMAIN E = {"kind", "entries"} /\ E.kind = "inline"
  /\ E.entries \in Seq(Names \X Slots)
  /\ \A j, k \in 1..Len(E.entries) : E.entries[j][1] = E.entries[k][1] => j = k

\* A map of finitely many fields.
HashedFields(E) ==
  /\ DOMAIN E = {"kind", "fields"} /\ E.kind = "hashed"
  /\ E.fields \in [DOMAIN E.fields -> Slots]
  /\ DOMAIN E.fields \in SUBSET Names /\ IsFiniteSet(DOMAIN E.fields)

\* The fields of a row, as a list or as a map.
FieldsOk(E) == E \in RowFields /\ (InlineFields(E) \/ HashedFields(E))

\* A list without repeated names is the fields of a row.
LEMMA InlineOk ==
  ASSUME NEW entries \in Seq(Names \X Slots),
         \A j, k \in 1..Len(entries) : entries[j][1] = entries[k][1] => j = k
  PROVE  FieldsOk(Inline(entries)) /\ Inline(entries).entries = entries /\ InlineFields(Inline(entries))
  BY DEF FieldsOk, Inline, InlineFields, RowFields, Slots

\* A map of finitely many fields is the fields of a row.
LEMMA HashedOk ==
  ASSUME NEW D \in SUBSET Names, IsFiniteSet(D), NEW fields \in [D -> Slots]
  PROVE  FieldsOk(Hashed(fields)) /\ FieldMap(Hashed(fields)) = fields /\ HashedFields(Hashed(fields))
  <1>. DEFINE E == Hashed(fields)
  <1>1. HashedFields(E)
    BY DEF Hashed, HashedFields
  <1>2. E \in RowFields
    <2>1. fields \in UNION {[F -> Values \cup {NULL}] : F \in SUBSET Names}
      BY DEF Slots
    <2>. HIDE DEF Slots
    <2>. QED  BY <2>1 DEF Hashed, RowFields
  <1>3. FieldMap(E) = fields
    BY DEF Hashed, FieldMap
  <1>. QED  BY <1>1, <1>2, <1>3 DEF FieldsOk

\* M has the pairs of s.
Lists(M, s) ==
  /\ M \in [{s[k][1] : k \in 1..Len(s)} -> Slots]
  /\ \A k \in 1..Len(s) : M[s[k][1]] = s[k][2]

\* In a list without repeated names every pair is found.
LEMMA InlineMap ==
  ASSUME NEW E, InlineFields(E)
  PROVE  Lists(FieldMap(E), E.entries)
  <1>. DEFINE s == E.entries
              found(n) == CHOOSE k \in DOMAIN s : s[k][1] = n
              D == {s[k][1] : k \in 1..Len(s)}
  <1>1. s \in Seq(Names \X Slots) /\ DOMAIN s = 1..Len(s)
    BY DEF InlineFields
  <1>2. \A j, k \in 1..Len(s) : s[j][1] = s[k][1] => j = k
    BY DEF InlineFields
  <1>3. FieldMap(E) = [n \in D |-> s[found(n)][2]]
    BY <1>1 DEF InlineFields, FieldMap
  <1>. HIDE DEF s
  <1>4. \A k \in 1..Len(s) : s[k][2] \in Slots
    BY <1>1
  <1>5. \A k \in 1..Len(s) : found(s[k][1]) = k
    BY <1>1, <1>2
  <1>. HIDE DEF found
  <1>6. \A k \in 1..Len(s) : FieldMap(E)[s[k][1]] = s[k][2]
    BY <1>3, <1>5
  <1>7. \A n \in D : s[found(n)][2] \in Slots
    BY <1>4, <1>5
  <1>8. FieldMap(E) \in [D -> Slots]
    BY <1>3, <1>7
  <1>9. Lists(FieldMap(E), s)
    BY <1>6, <1>8 DEF Lists
  <1>. QED  BY <1>9 DEF s

\* A row starts without fields, whatever room it is given.
LEMMA EmptyOk ==
  ASSUME NEW capacity
  PROVE  FieldsOk(EmptyExtras(capacity)) /\ FieldMap(EmptyExtras(capacity)) = NoExtras
  <1>1. FieldsOk(Hashed(NoExtras)) /\ FieldMap(Hashed(NoExtras)) = NoExtras
    <2>1. NoExtras \in [{} -> Slots] /\ IsFiniteSet({}) /\ {} \in SUBSET Names
      BY FS_EmptySet DEF NoExtras
    <2>. QED  BY <2>1, HashedOk, Zenon
  <1>2. FieldsOk(Inline(<<>>)) /\ FieldMap(Inline(<<>>)) = NoExtras
    <2>1. FieldsOk(Inline(<<>>)) /\ Inline(<<>>).entries = <<>> /\ InlineFields(Inline(<<>>))
      <3>. DEFINE e == <<>>
      <3>1. e \in Seq(Names \X Slots) /\ Len(e) = 0
        OBVIOUS
      <3>. HIDE DEF e
      <3>1a. \A j, k \in 1..Len(e) : e[j][1] = e[k][1] => j = k
        BY <3>1
      <3>2. FieldsOk(Inline(e)) /\ Inline(e).entries = e /\ InlineFields(Inline(e))
        BY <3>1, <3>1a, InlineOk, Zenon
      <3>. QED  BY <3>2 DEF e
    <2>2. FieldMap(Inline(<<>>)) = NoExtras
      BY DEF FieldMap, Inline, NoExtras
    <2>. QED  BY <2>1, <2>2
  <1>. QED  BY <1>1, <1>2 DEF EmptyExtras

\* One more field makes a map of fields again.
LEMMA WithExtraType ==
  ASSUME NEW D \in SUBSET Names, IsFiniteSet(D), NEW fields \in [D -> Slots],
         NEW n \in Names, NEW v \in Slots
  PROVE  /\ D \cup {n} \in SUBSET Names /\ IsFiniteSet(D \cup {n})
         /\ WithExtra(fields, n, v) \in [D \cup {n} -> Slots]
  <1>1. IsFiniteSet(D \cup {n})
    BY FS_AddElement
  <1>2. WithExtra(fields, n, v) \in [D \cup {n} -> Slots]
    BY DEF WithExtra
  <1>. QED  BY <1>1, <1>2

\* Of two pairs of a name the last counts.
LEMMA FieldsInIs ==
  ASSUME NEW pairs \in Seq(Names \X Slots)
  PROVE  /\ FieldsIn(pairs) \in [{pairs[k][1] : k \in 1..Len(pairs)} -> Slots]
         /\ \A k \in 1..Len(pairs) :
              (\A l \in 1..Len(pairs) : pairs[l][1] = pairs[k][1] => l <= k)
                => FieldsIn(pairs)[pairs[k][1]] = pairs[k][2]
         /\ \A j \in 1..Len(pairs) : \E k \in 1..Len(pairs) :
              /\ pairs[k][1] = pairs[j][1]
              /\ \A l \in 1..Len(pairs) : pairs[l][1] = pairs[k][1] => l <= k
         /\ {pairs[k][1] : k \in 1..Len(pairs)} \in SUBSET Names
         /\ IsFiniteSet({pairs[k][1] : k \in 1..Len(pairs)})
  <1>. DEFINE N == Len(pairs)
              D == {pairs[k][1] : k \in 1..N}
              Latest(n, k) == pairs[k][1] = n /\ \A l \in 1..N : pairs[l][1] = n => l <= k
              last(n) == CHOOSE k \in 1..N : Latest(n, k)
  <1>0. N \in Nat /\ DOMAIN pairs = 1..N /\ \A k \in 1..N : pairs[k][1] \in Names /\ pairs[k][2] \in Slots
    OBVIOUS
  <1>1. FieldsIn(pairs) = [n \in D |-> pairs[last(n)][2]]
    BY <1>0 DEF FieldsIn
  <1>2. ASSUME NEW j \in 1..N  PROVE \E k \in 1..N : Latest(pairs[j][1], k)
    <2>. DEFINE T == {m \in Nat : N - m \in 1..N /\ pairs[N - m][1] = pairs[j][1]}
    <2>1. N - j \in T
      <3>1. N - j \in Nat /\ N - (N - j) = j
        BY <1>0
      <3>. QED  BY <3>1
    <2>2. PICK m \in T : \A l \in T : m <= l
      BY <2>1, LeastNatural, Zenon
    <2>3. ASSUME NEW l \in 1..N, pairs[l][1] = pairs[j][1]  PROVE l <= N - m
      <3>1. N - l \in Nat /\ N - (N - l) = l
        BY <1>0
      <3>2. N - l \in T
        BY <2>3, <3>1
      <3>3. m <= N - l /\ m \in Nat
        BY <2>2, <3>2, Zenon
      <3>. HIDE DEF N, T
      <3>. QED  BY <1>0, <3>3
    <2>4. N - m \in 1..N /\ pairs[N - m][1] = pairs[j][1]
      BY <2>2
    <2>. QED  BY <2>3, <2>4, Zenon
  <1>3. ASSUME NEW j \in 1..N  PROVE last(pairs[j][1]) \in 1..N /\ Latest(pairs[j][1], last(pairs[j][1]))
    <2>. HIDE DEF Latest
    <2>. QED  BY <1>2, Zenon
  <1>4. ASSUME NEW k \in 1..N, Latest(pairs[k][1], k)  PROVE last(pairs[k][1]) = k
    <2>1. last(pairs[k][1]) \in 1..N /\ Latest(pairs[k][1], last(pairs[k][1]))
      BY <1>3, Zenon
    <2>. HIDE DEF last
    <2>. QED  BY <1>0, <1>4, <2>1
  <1>. HIDE DEF last
  <1>5. \A n \in D : pairs[last(n)][2] \in Slots
    BY <1>0, <1>3
  <1>6. FieldsIn(pairs) \in [D -> Slots]
    BY <1>1, <1>5
  <1>7. \A k \in 1..N : Latest(pairs[k][1], k) => FieldsIn(pairs)[pairs[k][1]] = pairs[k][2]
    <2>. HIDE DEF Latest, N
    <2>. QED  BY <1>1, <1>4
  <1>8. IsFiniteSet(D)
    <2>1. IsFiniteSet(1..N)
      BY <1>0, FS_Interval
    <2>. DEFINE f == [k \in 1..N |-> pairs[k][1]]
    <2>2. f \in Surjection(1..N, D)
      BY Zenon DEF Surjection
    <2>. HIDE DEF f, D, N
    <2>. QED  BY <2>1, <2>2, FS_Surjection
  <1>9. D \in SUBSET Names
    BY <1>0
  <1>10. \A j \in 1..N : \E k \in 1..N : /\ pairs[k][1] = pairs[j][1]
                                         /\ \A l \in 1..N : pairs[l][1] = pairs[k][1] => l <= k
    BY <1>2
  <1>. QED  BY <1>6, <1>7, <1>8, <1>9, <1>10

\* A list of fields, read as what a caller gave, is the same map.
LEMMA FieldsInMap ==
  ASSUME NEW E, InlineFields(E)
  PROVE  FieldsIn(E.entries) = FieldMap(E)
  <1>. DEFINE s == E.entries
              D == {s[k][1] : k \in 1..Len(s)}
  <1>1. s \in Seq(Names \X Slots)
    BY DEF InlineFields
  <1>2. \A j, k \in 1..Len(s) : s[j][1] = s[k][1] => j = k
    BY DEF InlineFields
  <1>0. Lists(FieldMap(E), s)
    BY InlineMap
  <1>. HIDE DEF s
  <1>3. FieldMap(E) \in [D -> Slots] /\ \A k \in 1..Len(s) : FieldMap(E)[s[k][1]] = s[k][2]
    BY <1>0 DEF Lists
  <1>4. FieldsIn(s) \in [D -> Slots]
    BY <1>1, FieldsInIs, Zenon
  <1>5. \A k \in 1..Len(s) : FieldsIn(s)[s[k][1]] = s[k][2]
    <2>. TAKE k \in 1..Len(s)
    <2>1. \A l \in 1..Len(s) : s[l][1] = s[k][1] => l <= k
      BY <1>1, <1>2
    <2>. QED  BY <1>1, <2>1, FieldsInIs, Zenon
  <1>6. \A n \in D : FieldsIn(s)[n] = FieldMap(E)[n]
    BY <1>3, <1>5
  <1>. QED  BY <1>3, <1>4, <1>6 DEF s

\* RowExtras::set changes one field of the map, also when the list becomes a map.
LEMMA PutFieldOk ==
  ASSUME NEW E, FieldsOk(E), NEW n \in Names, NEW v \in Slots
  PROVE  FieldsOk(PutField(E, n, v)) /\ FieldMap(PutField(E, n, v)) = WithExtra(FieldMap(E), n, v)
  <1>1. CASE HashedFields(E)
    <2>1. FieldMap(E) = E.fields /\ PutField(E, n, v) = Hashed(WithExtra(E.fields, n, v))
      BY <1>1 DEF HashedFields, FieldMap, PutField
    <2>. DEFINE D == DOMAIN E.fields
                f == E.fields
    <2>2. D \in SUBSET Names /\ IsFiniteSet(D) /\ f \in [D -> Slots]
      BY <1>1 DEF HashedFields
    <2>. HIDE DEF D, f
    <2>3. /\ D \cup {n} \in SUBSET Names /\ IsFiniteSet(D \cup {n})
          /\ WithExtra(f, n, v) \in [D \cup {n} -> Slots]
      BY <2>2, WithExtraType, Zenon
    <2>4. FieldsOk(Hashed(WithExtra(f, n, v))) /\ FieldMap(Hashed(WithExtra(f, n, v))) = WithExtra(f, n, v)
      BY <2>3, HashedOk
    <2>. QED  BY <2>1, <2>4 DEF f
  <1>2. CASE InlineFields(E)
    <2>. DEFINE s == E.entries
                D == {s[k][1] : k \in 1..Len(s)}
                M == FieldMap(E)
    <2>0. E.kind = "inline" /\ s \in Seq(Names \X Slots) /\ DOMAIN s = 1..Len(s) /\ Len(s) \in Nat
      BY <1>2 DEF InlineFields
    <2>1. \A j, k \in 1..Len(s) : s[j][1] = s[k][1] => j = k
      BY <1>2 DEF InlineFields
    <2>2. M \in [D -> Slots] /\ \A k \in 1..Len(s) : M[s[k][1]] = s[k][2]
      <3>1. Lists(M, s)
        BY <1>2, InlineMap
      <3>. HIDE DEF s, M
      <3>. QED  BY <3>1 DEF Lists
    <2>3. CASE \E k \in 1..Len(s) : s[k][1] = n
      <3>. DEFINE r == [k \in 1..Len(s) |-> IF s[k][1] = n THEN <<n, v>> ELSE s[k]]
      <3>1. PutField(E, n, v) = Inline(r)
        BY <2>0, <2>3, Zenon DEF PutField
      <3>. HIDE DEF s, M
      <3>2. r \in Seq(Names \X Slots) /\ Len(r) = Len(s)
        <4>1. \A k \in 1..Len(s) : r[k] \in Names \X Slots
          BY <2>0
        <4>. HIDE DEF r
        <4>2. r = [k \in 1..Len(s) |-> r[k]]
          BY DEF r
        <4>. QED  BY <2>0, <4>1, <4>2
      <3>3. \A k \in 1..Len(s) : r[k][1] = s[k][1] /\ r[k][2] = IF s[k][1] = n THEN v ELSE s[k][2]
        BY <2>0
      <3>. HIDE DEF r
      <3>4. \A j, k \in 1..Len(r) : r[j][1] = r[k][1] => j = k
        BY <2>1, <3>2, <3>3
      <3>5. FieldsOk(Inline(r)) /\ Inline(r).entries = r /\ InlineFields(Inline(r))
        BY <3>2, <3>4, InlineOk
      <3>. DEFINE F == Inline(r)
      <3>6. /\ FieldMap(F) \in [{r[k][1] : k \in 1..Len(r)} -> Slots]
            /\ \A k \in 1..Len(r) : FieldMap(F)[r[k][1]] = r[k][2]
        <4>1. Lists(FieldMap(F), F.entries) /\ F.entries = r
          BY <3>5, InlineMap
        <4>. HIDE DEF F
        <4>. QED  BY <4>1 DEF Lists
      <3>7. {r[k][1] : k \in 1..Len(r)} = D /\ n \in D
        BY <2>3, <3>2, <3>3
      <3>8. \A m \in D : FieldMap(F)[m] = IF m = n THEN v ELSE M[m]
        <4>. TAKE m \in D
        <4>1. PICK k \in 1..Len(s) : s[k][1] = m
          OBVIOUS
        <4>2. FieldMap(F)[m] = r[k][2] /\ M[m] = s[k][2]
          BY <2>2, <3>2, <3>3, <3>6, <4>1, Zenon
        <4>. QED  BY <3>3, <4>1, <4>2
      <3>. HIDE DEF D, F
      <3>9. FieldMap(F) = WithExtra(M, n, v)
        <4>1. D \cup {n} = D /\ DOMAIN M = D
          BY <2>2, <3>7
        <4>2. WithExtra(M, n, v) = [m \in D |-> IF m = n THEN v ELSE M[m]]
          BY <4>1 DEF WithExtra
        <4>. QED  BY <3>6, <3>7, <3>8, <4>2
      <3>. QED  BY <3>1, <3>5, <3>9 DEF F, M
    <2>4. CASE ~(\E k \in 1..Len(s) : s[k][1] = n) /\ Len(s) < HashThreshold
      <3>. DEFINE r == Append(s, <<n, v>>)
      <3>1. PutField(E, n, v) = Inline(r)
        BY <2>0, <2>4 DEF PutField
      <3>. HIDE DEF s, M
      <3>2. r \in Seq(Names \X Slots) /\ Len(r) = Len(s) + 1
        BY <2>0
      <3>3. r[Len(s) + 1] = <<n, v>> /\ \A k \in 1..Len(s) : r[k] = s[k]
        BY <2>0
      <3>. HIDE DEF r
      <3>4. \A j, k \in 1..Len(r) : r[j][1] = r[k][1] => j = k
        <4>1. \A j, k \in 1..(Len(s) + 1) : r[j][1] = r[k][1] => j = k
          <5>. TAKE j, k \in 1..(Len(s) + 1)
          <5>1. CASE j \in 1..Len(s) /\ k \in 1..Len(s)
            BY <2>1, <3>3, <5>1
          <5>2. CASE j = Len(s) + 1 /\ k \in 1..Len(s)
            BY <2>4, <3>3, <5>2
          <5>3. CASE k = Len(s) + 1 /\ j \in 1..Len(s)
            BY <2>4, <3>3, <5>3
          <5>4. CASE k = Len(s) + 1 /\ j = Len(s) + 1
            BY <5>4
          <5>. QED  BY <2>0, <5>1, <5>2, <5>3, <5>4
        <4>. QED  BY <3>2, <4>1
      <3>5. FieldsOk(Inline(r)) /\ Inline(r).entries = r /\ InlineFields(Inline(r))
        BY <3>2, <3>4, InlineOk, Zenon
      <3>. DEFINE F == Inline(r)
      <3>6. /\ FieldMap(F) \in [{r[k][1] : k \in 1..Len(r)} -> Slots]
            /\ \A k \in 1..Len(r) : FieldMap(F)[r[k][1]] = r[k][2]
        <4>1. Lists(FieldMap(F), F.entries) /\ F.entries = r
          BY <3>5, InlineMap
        <4>. HIDE DEF F
        <4>. QED  BY <4>1 DEF Lists
      <3>7. {r[k][1] : k \in 1..Len(r)} = D \cup {n} /\ n \notin D
        <4>1. 1..Len(r) = 1..Len(s) \cup {Len(s) + 1}
          BY <2>0, <3>2
        <4>. QED  BY <2>4, <3>3, <4>1
      <3>8. \A m \in D \cup {n} : FieldMap(F)[m] = IF m = n THEN v ELSE M[m]
        <4>. TAKE m \in D \cup {n}
        <4>1. CASE m = n
          <5>1. Len(s) + 1 \in 1..Len(r) /\ r[Len(s) + 1][1] = n /\ r[Len(s) + 1][2] = v
            BY <2>0, <3>2, <3>3
          <5>. QED  BY <3>6, <4>1, <5>1
        <4>2. CASE m # n
          <5>1. PICK k \in 1..Len(s) : s[k][1] = m
            BY <4>2
          <5>2. k \in 1..Len(r) /\ r[k] = s[k]
            BY <2>0, <3>2, <3>3
          <5>. QED  BY <2>2, <3>6, <4>2, <5>1, <5>2, Zenon
        <4>. QED  BY <4>1, <4>2
      <3>. HIDE DEF D, F
      <3>9. FieldMap(F) = WithExtra(M, n, v)
        <4>1. DOMAIN M = D
          BY <2>2
        <4>2. WithExtra(M, n, v) = [m \in D \cup {n} |-> IF m = n THEN v ELSE M[m]]
          BY <4>1 DEF WithExtra
        <4>. QED  BY <3>6, <3>7, <3>8, <4>2
      <3>. QED  BY <3>1, <3>5, <3>9 DEF F, M
    <2>5. CASE ~(\E k \in 1..Len(s) : s[k][1] = n) /\ ~(Len(s) < HashThreshold)
      <3>1. PutField(E, n, v) = Hashed(WithExtra(FieldsIn(s), n, v))
        BY <2>0, <2>5 DEF PutField
      <3>2. FieldsIn(s) = M
        BY <1>2, FieldsInMap
      <3>3. D \in SUBSET Names /\ IsFiniteSet(D)
        <4>. HIDE DEF s
        <4>. QED  BY <2>0, FieldsInIs
      <3>. HIDE DEF s, M, D
      <3>4. /\ D \cup {n} \in SUBSET Names /\ IsFiniteSet(D \cup {n})
            /\ WithExtra(M, n, v) \in [D \cup {n} -> Slots]
        BY <2>2, <3>3, WithExtraType, Zenon
      <3>5. FieldsOk(Hashed(WithExtra(M, n, v))) /\ FieldMap(Hashed(WithExtra(M, n, v))) = WithExtra(M, n, v)
        BY <3>4, HashedOk
      <3>. QED  BY <3>1, <3>2, <3>5 DEF M
    <2>. QED  BY <2>3, <2>4, <2>5
  <1>. QED  BY <1>1, <1>2 DEF FieldsOk

\* The fields of a row map finitely many names to values.
LEMMA MapType ==
  ASSUME NEW E, FieldsOk(E)
  PROVE  /\ FieldMap(E) \in [DOMAIN FieldMap(E) -> Slots]
         /\ DOMAIN FieldMap(E) \in SUBSET Names
         /\ IsFiniteSet(DOMAIN FieldMap(E))
  <1>1. CASE HashedFields(E)
    BY <1>1 DEF HashedFields, FieldMap
  <1>2. CASE InlineFields(E)
    <2>. DEFINE s == E.entries
                D == {s[k][1] : k \in 1..Len(s)}
    <2>1. s \in Seq(Names \X Slots)
      BY <1>2 DEF InlineFields
    <2>2. Lists(FieldMap(E), s)
      BY <1>2, InlineMap
    <2>. HIDE DEF s
    <2>3. FieldMap(E) \in [D -> Slots]
      BY <2>2 DEF Lists
    <2>4. D \in SUBSET Names /\ IsFiniteSet(D)
      BY <2>1, FieldsInIs
    <2>. QED  BY <2>3, <2>4
  <1>. QED  BY <1>1, <1>2 DEF FieldsOk

\* The recursion of PutUpto defines a function.
LEMMA PutUptoDef ==
  ASSUME NEW E, NEW pairs, NEW n \in Nat, n = Len(pairs)
  PROVE  PutUpto(E, pairs) =
           [k \in 0..n |-> IF k = 0 THEN E
                           ELSE PutField(PutUpto(E, pairs)[k - 1], pairs[k][1], pairs[k][2])]
  <1>. DEFINE Step(f, k) == PutField(f[k - 1], pairs[k][1], pairs[k][2])
              Def(f, m) == f = [k \in 0..m |-> IF k = 0 THEN E ELSE Step(f, k)]
              T == {m \in Nat : \E f : Def(f, m)}
  <1>1. 0 \in T
    <2>1. Def([k \in 0..0 |-> E], 0)
      OBVIOUS
    <2>. QED  BY <2>1, Zenon
  <1>2. ASSUME NEW m \in T  PROVE m + 1 \in T
    <2>1. PICK f : Def(f, m)
      OBVIOUS
    <2>. DEFINE last == PutField(f[m], pairs[m + 1][1], pairs[m + 1][2])
                g == [k \in 0..(m + 1) |-> IF k <= m THEN f[k] ELSE last]
    <2>2. /\ g = [k \in 0..(m + 1) |-> g[k]] /\ g[m + 1] = last /\ \A k \in 0..m : g[k] = f[k]
      <3>. HIDE DEF last
      <3>. QED  BY OneMoreValue
    <2>. HIDE DEF g
    <2>3. \A k \in 0..(m + 1) : g[k] = IF k = 0 THEN E ELSE Step(g, k)
      <3>1. \A k \in 0..m : f[k] = IF k = 0 THEN E ELSE Step(f, k)
        <4>. HIDE DEF Step
        <4>. QED  BY <2>1
      <3>. TAKE k \in 0..(m + 1)
      <3>2. CASE k \in 0..m
        <4>1. k = 0 \/ (k # 0 /\ k - 1 \in 0..m)
          BY <3>2
        <4>. QED  BY <2>2, <3>1, <3>2, <4>1
      <3>3. CASE k = m + 1
        <4>1. k # 0 /\ k - 1 = m /\ m \in 0..m
          BY <3>3
        <4>. QED  BY <2>2, <3>3, <4>1
      <3>. QED  BY <3>2, <3>3
    <2>4. Def(g, m + 1)
      <3>. HIDE DEF Step
      <3>. QED  BY <2>2, <2>3
    <2>. HIDE DEF Def
    <2>. QED  BY <2>4
  <1>3. T = Nat
    <2>1. T \in SUBSET Nat
      OBVIOUS
    <2>. HIDE DEF T
    <2>. QED  BY <1>1, <1>2, <2>1, SetInduction, Zenon
  <1>4. PICK f : Def(f, n)
    BY <1>3
  <1>. QED  BY <1>4, Zenon DEF PutUpto

\* M has, of the first k pairs, the last of each name.
HasLatest(M, pairs, k) ==
  /\ M \in [{pairs[j][1] : j \in 1..k} -> Slots]
  /\ \A j \in 1..k : (\A l \in 1..k : pairs[l][1] = pairs[j][1] => l <= j)
                       => M[pairs[j][1]] = pairs[j][2]

\* Putting the next pair keeps the last of each name.
LEMMA LatestGrows ==
  ASSUME NEW pairs \in Seq(Names \X Slots), NEW k \in Nat, k < Len(pairs),
         NEW M, HasLatest(M, pairs, k)
  PROVE  HasLatest(WithExtra(M, pairs[k + 1][1], pairs[k + 1][2]), pairs, k + 1)
  <1>. DEFINE n == pairs[k + 1][1]
              v == pairs[k + 1][2]
              D == {pairs[j][1] : j \in 1..k}
              F == {pairs[j][1] : j \in 1..(k + 1)}
              W == WithExtra(M, n, v)
  <1>1. n \in Names /\ v \in Slots
    BY SMT
  <1>2. M \in [D -> Slots]
    BY DEF HasLatest
  <1>3. F = D \cup {n}
    <2>1. 1..(k + 1) = 1..k \cup {k + 1}
      OBVIOUS
    <2>. QED  BY <2>1
  <1>4. W = [m \in F |-> IF m = n THEN v ELSE M[m]]
    BY <1>2, <1>3 DEF WithExtra
  <1>5. W \in [F -> Slots]
    BY <1>1, <1>2, <1>3, <1>4
  <1>6. ASSUME NEW j \in 1..(k + 1), \A l \in 1..(k + 1) : pairs[l][1] = pairs[j][1] => l <= j
        PROVE  W[pairs[j][1]] = pairs[j][2]
    <2>. HIDE DEF W
    <2>1. CASE j = k + 1
      BY <1>4, <2>1
    <2>2. CASE j \in 1..k
      <3>1. pairs[j][1] # n
        <4>1. k + 1 \in 1..(k + 1) /\ ~(k + 1 <= j)
          BY <2>2
        <4>. QED  BY <1>6, <4>1
      <3>2. M[pairs[j][1]] = pairs[j][2]
        <4>1. \A l \in 1..k : pairs[l][1] = pairs[j][1] => l <= j
          BY <1>6
        <4>. QED  BY <2>2, <4>1, Zenon DEF HasLatest
      <3>3. pairs[j][1] \in F
        BY <2>2
      <3>. QED  BY <1>4, <3>1, <3>2, <3>3
    <2>. QED  BY <2>1, <2>2
  <1>. QED  BY <1>5, <1>6 DEF HasLatest

\* The last of each name is what FieldsIn says.
LEMMA LatestAll ==
  ASSUME NEW pairs \in Seq(Names \X Slots), NEW M, HasLatest(M, pairs, Len(pairs))
  PROVE  M = FieldsIn(pairs)
  <1>. DEFINE N == Len(pairs)
              D == {pairs[j][1] : j \in 1..N}
              Latest(j) == \A l \in 1..N : pairs[l][1] = pairs[j][1] => l <= j
  <1>1. M \in [D -> Slots] /\ \A j \in 1..N : Latest(j) => M[pairs[j][1]] = pairs[j][2]
    BY DEF HasLatest
  <1>2. FieldsIn(pairs) \in [D -> Slots]
    BY FieldsInIs, Zenon
  <1>3. \A j \in 1..N : Latest(j) => FieldsIn(pairs)[pairs[j][1]] = pairs[j][2]
    BY FieldsInIs, Zenon
  <1>4. \A j \in 1..N : \E k \in 1..N : pairs[k][1] = pairs[j][1] /\ Latest(k)
    BY FieldsInIs, Zenon
  <1>. HIDE DEF Latest, N
  <1>5. ASSUME NEW n \in D  PROVE M[n] = FieldsIn(pairs)[n]
    <2>1. PICK j \in 1..N : n = pairs[j][1]
      OBVIOUS
    <2>2. PICK k \in 1..N : pairs[k][1] = pairs[j][1] /\ Latest(k)
      BY <1>4
    <2>. QED  BY <1>1, <1>3, <2>1, <2>2, Zenon
  <1>. QED  BY <1>1, <1>2, <1>5

\* Pairs put one after the other into an empty row give FieldsIn.
LEMMA PutUptoOk ==
  ASSUME NEW E, FieldsOk(E), FieldMap(E) = NoExtras, NEW pairs \in Seq(Names \X Slots)
  PROVE  /\ FieldsOk(PutUpto(E, pairs)[Len(pairs)])
         /\ FieldMap(PutUpto(E, pairs)[Len(pairs)]) = FieldsIn(pairs)
  <1>. DEFINE u == PutUpto(E, pairs)
              n == Len(pairs)
              P(m) == FieldsOk(u[m]) /\ HasLatest(FieldMap(u[m]), pairs, m)
              T == {m \in 0..n : P(m)}
  <1>0. n \in Nat
    OBVIOUS
  <1>1. /\ u[0] = E
        /\ \A k \in 0..n : k < n => u[k + 1] = PutField(u[k], pairs[k + 1][1], pairs[k + 1][2])
    <2>1. u = [k \in 0..n |-> IF k = 0 THEN E ELSE PutField(u[k - 1], pairs[k][1], pairs[k][2])]
      BY <1>0, PutUptoDef
    <2>. HIDE DEF u, n
    <2>2. u[0] = E
      BY <1>0, <2>1
    <2>3. ASSUME NEW k \in 0..n, k < n
          PROVE  u[k + 1] = PutField(u[k], pairs[k + 1][1], pairs[k + 1][2])
      <3>1. k + 1 \in 0..n /\ k + 1 # 0 /\ (k + 1) - 1 = k
        BY <1>0, <2>3
      <3>2. u[k + 1] = PutField(u[(k + 1) - 1], pairs[k + 1][1], pairs[k + 1][2])
        BY <2>1, <3>1
      <3>. QED  BY <3>1, <3>2
    <2>. QED  BY <2>2, <2>3
  <1>. HIDE DEF u
  <1>2. 0 \in T
    <2>1. HasLatest(NoExtras, pairs, 0)
      BY DEF HasLatest, NoExtras
    <2>. QED  BY <1>0, <1>1, <2>1
  <1>3. ASSUME NEW m \in 0..n, m < n, m \in T  PROVE m + 1 \in T
    <2>. DEFINE name == pairs[m + 1][1]
                v == pairs[m + 1][2]
    <2>1. m + 1 \in 0..n /\ name \in Names /\ v \in Slots
      BY <1>0, <1>3
    <2>2. FieldsOk(u[m]) /\ HasLatest(FieldMap(u[m]), pairs, m)
      BY <1>3
    <2>3. u[m + 1] = PutField(u[m], name, v)
      BY <1>1, <1>3
    <2>4. HasLatest(WithExtra(FieldMap(u[m]), name, v), pairs, m + 1)
      BY <1>0, <1>3, <2>2, LatestGrows
    <2>. HIDE DEF name, v
    <2>5. FieldsOk(u[m + 1]) /\ FieldMap(u[m + 1]) = WithExtra(FieldMap(u[m]), name, v)
      BY <2>1, <2>2, <2>3, PutFieldOk
    <2>. QED  BY <2>1, <2>4, <2>5
  <1>. HIDE DEF P
  <1>4. T = 0..n
    <2>1. T \in SUBSET (0..n)
      OBVIOUS
    <2>. HIDE DEF T
    <2>. QED  BY <1>0, <1>2, <1>3, <2>1, BoundedInduction
  <1>5. P(n)
    BY <1>0, <1>4
  <1>. QED  BY <1>5, LatestAll DEF P, u

\* What a caller gives is what the row gets.
LEMMA CollectedOk ==
  ASSUME NEW schema, NEW pairs \in Seq(Names \X Slots), Collected(schema, pairs) # ERR
  PROVE  /\ FieldsOk(Collected(schema, pairs))
         /\ FieldMap(Collected(schema, pairs)) = FieldsIn(pairs)
         /\ CollectExtras(schema, FieldsIn(pairs)) = FieldsIn(pairs)
         /\ CollectExtras(schema, FieldsIn(pairs)) # ERR
         /\ \A n \in DOMAIN FieldsIn(pairs) : ColumnIndex(schema, n) = NULL /\ schema.open
  <1>1. CollectExtras(schema, FieldsIn(pairs)) # ERR
    BY DEF Collected
  <1>2. Collected(schema, pairs) = PutUpto(EmptyExtras(Len(pairs)), pairs)[Len(pairs)]
    BY <1>1 DEF Collected
  <1>3. /\ FieldsOk(PutUpto(EmptyExtras(Len(pairs)), pairs)[Len(pairs)])
        /\ FieldMap(PutUpto(EmptyExtras(Len(pairs)), pairs)[Len(pairs)]) = FieldsIn(pairs)
    BY EmptyOk, PutUptoOk
  <1>. QED  BY <1>1, <1>2, <1>3 DEF CollectExtras

\* The pairs of a row's fields are these fields, each once.
LEMMA PairsOk ==
  ASSUME NEW E, FieldsOk(E)
  PROVE  /\ FieldPairs(E) \in Seq(Names \X Slots)
         /\ FieldsIn(FieldPairs(E)) = FieldMap(E)
         /\ Len(FieldPairs(E)) = Cardinality(DOMAIN FieldMap(E))
  <1>1. ASSUME NEW F, InlineFields(F)
        PROVE  Len(F.entries) = Cardinality({F.entries[k][1] : k \in 1..Len(F.entries)})
    <2>. DEFINE s == F.entries
                N == Len(s)
                D == {s[k][1] : k \in 1..N}
                f == [k \in 1..N |-> s[k][1]]
    <2>1. s \in Seq(Names \X Slots) /\ N \in Nat
      BY <1>1 DEF InlineFields
    <2>2. \A j, k \in 1..N : s[j][1] = s[k][1] => j = k
      BY <1>1 DEF InlineFields
    <2>. HIDE DEF s, N
    <2>3. f \in [1..N -> D] /\ IsInjective(f) /\ \A n \in D : \E k \in 1..N : f[k] = n
      BY <2>2 DEF IsInjective
    <2>4. f \in Injection(1..N, D) /\ f \in Surjection(1..N, D)
      <3>. HIDE DEF f, D
      <3>. QED  BY <2>3 DEF Injection, Surjection
    <2>. HIDE DEF f, D
    <2>5. IsFiniteSet(1..N) /\ Cardinality(1..N) = N
      BY <2>1, FS_Interval
    <2>6. Cardinality(D) = Cardinality(1..N)
      BY <2>4, <2>5, FS_Surjection
    <2>. QED  BY <2>5, <2>6 DEF D, N, s
  <1>2. CASE InlineFields(E)
    <2>. DEFINE s == E.entries
                D == {s[k][1] : k \in 1..Len(s)}
    <2>1. FieldPairs(E) = s /\ s \in Seq(Names \X Slots)
      BY <1>2 DEF InlineFields, FieldPairs
    <2>2. FieldsIn(s) = FieldMap(E)
      BY <1>2, FieldsInMap
    <2>3. Lists(FieldMap(E), s)
      BY <1>2, InlineMap
    <2>4. Len(s) = Cardinality(D)
      BY <1>1, <1>2
    <2>. HIDE DEF s
    <2>5. DOMAIN FieldMap(E) = D
      BY <2>3 DEF Lists
    <2>. QED  BY <2>1, <2>2, <2>4, <2>5, Zenon
  <1>3. CASE HashedFields(E)
    <2>. DEFINE f == E.fields
                D == DOMAIN f
                S == {<<n, f[n]>> : n \in D}
                N == Cardinality(S)
                h == [n \in D |-> <<n, f[n]>>]
                g == SetToSeq(S)
    <2>1. FieldPairs(E) = g /\ FieldMap(E) = f
      BY <1>3 DEF HashedFields, FieldPairs, FieldMap
    <2>2. f \in [D -> Slots] /\ D \in SUBSET Names /\ IsFiniteSet(D)
      BY <1>3 DEF HashedFields
    <2>. HIDE DEF f
    <2>. HIDE DEF D
    <2>3. h \in Surjection(D, S)
      BY DEF Surjection
    <2>. HIDE DEF h
    <2>4. IsFiniteSet(S)
      <3>. HIDE DEF S
      <3>. QED  BY <2>2, <2>3, FS_Surjection
    <2>5. g \in [1..N -> S] /\ IsInjective(g) /\ N \in Nat
      <3>. HIDE DEF S
      <3>1. N \in Nat /\ ExistsBijection(1..N, S)
        BY <2>4, FS_CardinalityType
      <3>. HIDE DEF N
      <3>2. \E x \in [1..N -> S] : IsInjective(x)
        BY <3>1 DEF ExistsBijection, Bijection, Injection
      <3>3. g = CHOOSE x \in [1..N -> S] : IsInjective(x)
        BY DEF g, N, SetToSeq
      <3>. HIDE DEF g
      <3>. QED  BY <3>1, <3>2, <3>3
    <2>6. \A t \in S : \E k \in 1..N : g[k] = t
      <3>. HIDE DEF S, g
      <3>1. g \in Injection(1..N, S)
        BY <2>5 DEF Injection
      <3>2. Cardinality(1..N) = N
        <4>. HIDE DEF N
        <4>. QED  BY <2>5, FS_Interval
      <3>3. g \in Surjection(1..N, S)
        BY <2>4, <3>1, <3>2, FS_Injection
      <3>. HIDE DEF N
      <3>. QED  BY <3>3 DEF Surjection
    <2>. HIDE DEF g, N
    <2>7. S \subseteq Names \X Slots
      BY <2>2
    <2>8. g \in Seq(Names \X Slots) /\ Len(g) = N
      BY <2>5, <2>7
    <2>9. \A k \in 1..N : g[k][1] \in D /\ g[k][2] = f[g[k][1]] /\ g[k] = <<g[k][1], g[k][2]>>
      BY <2>5
    <2>10. \A j, k \in 1..Len(g) : g[j][1] = g[k][1] => j = k
      <3>1. \A j, k \in 1..N : g[j] = g[k] => j = k
        BY <2>5 DEF IsInjective
      <3>. QED  BY <2>8, <2>9, <3>1
    <2>. DEFINE I == Inline(g)
    <2>11. InlineFields(I) /\ I.entries = g
      BY <2>8, <2>10, InlineOk
    <2>12. {g[k][1] : k \in 1..Len(g)} = D
      <3>1. \A n \in D : \E k \in 1..N : g[k][1] = n
        <4>. TAKE n \in D
        <4>1. PICK k \in 1..N : g[k] = <<n, f[n]>>
          BY <2>6, Zenon
        <4>. QED  BY <4>1
      <3>. QED  BY <2>8, <2>9, <3>1
    <2>. HIDE DEF I, S
    <2>13. Lists(FieldMap(I), g)
      BY <2>11, InlineMap
    <2>14. FieldMap(I) = f
      <3>1. FieldMap(I) \in [D -> Slots] /\ \A k \in 1..N : FieldMap(I)[g[k][1]] = g[k][2]
        BY <2>8, <2>12, <2>13 DEF Lists
      <3>2. \A n \in D : FieldMap(I)[n] = f[n]
        BY <2>8, <2>9, <2>12, <3>1
      <3>. QED  BY <2>2, <3>1, <3>2
    <2>15. FieldsIn(g) = f
      BY <2>11, <2>14, FieldsInMap
    <2>16. Len(g) = Cardinality(D)
      BY <1>1, <2>11, <2>12
    <2>17. DOMAIN FieldMap(E) = D
      BY <2>1, <2>2
    <2>. QED  BY <2>1, <2>8, <2>15, <2>16, <2>17
  <1>. QED  BY <1>2, <1>3 DEF FieldsOk

-----------------------------------------------------------------------------
(* The extra fields of a table.                                            *)

\* The storage X of the extra fields of n rows.
HasExtras(X, n) ==
  X # NULL =>
    /\ X \in Seq(RowFields \cup {NULL}) /\ Len(X) = n
    /\ \A i \in 1..n : X[i] = NULL \/ FieldsOk(X[i])

\* The fields of row i, without the cases that cannot happen.
LEMMA ExtrasAt ==
  ASSUME NEW X, NEW n \in Nat, HasExtras(X, n)
  PROVE  \A i \in 1..n :
           /\ FieldsOf(X, i) = IF X = NULL \/ X[i] = NULL THEN NoExtras ELSE FieldMap(X[i])
           /\ X # NULL => X[i] = NULL \/ FieldsOk(X[i])
  BY DEF HasExtras, FieldsOf

\* Their names and values.
LEMMA ExtrasType ==
  ASSUME NEW X, NEW n \in Nat, HasExtras(X, n), NEW i \in 1..n
  PROVE  /\ DOMAIN FieldsOf(X, i) \in SUBSET Names
         /\ FieldsOf(X, i) \in [DOMAIN FieldsOf(X, i) -> Slots]
  <1>1. NoExtras \in [DOMAIN NoExtras -> Slots] /\ DOMAIN NoExtras \in SUBSET Names
    BY DEF NoExtras
  <1>. QED  BY <1>1, ExtrasAt, MapType

\* A new table stores extra fields if and only if its schema is open.
LEMMA NewExtrasOk ==
  ASSUME NEW open \in BOOLEAN
  PROVE  HasExtras(NewExtras(open), 0) /\ (NewExtras(open) = NULL <=> ~open)
  <1>1. <<>> \in Seq(RowFields \cup {NULL})
    OBVIOUS
  <1>2. <<>> # NULL
    BY <1>1, ValuesAssumption, Zenon
  <1>3. CASE open
    <2>1. NewExtras(open) = <<>>
      BY <1>3, Zenon DEF NewExtras
    <2>2. HasExtras(<<>>, 0)
      BY <1>1 DEF HasExtras
    <2>. QED  BY ONLY <1>2, <1>3, <2>1, <2>2, Zenon
  <1>4. CASE ~open
    <2>1. NewExtras(open) = NULL
      BY <1>4, Zenon DEF NewExtras
    <2>. QED  BY <1>4, <2>1 DEF HasExtras
  <1>. QED  BY <1>3, <1>4

\* The extra fields of a copy are those of the rows it was made from.
LEMMA CopyExtrasOk ==
  ASSUME NEW X, NEW n \in Nat, HasExtras(X, n), NEW p \in Seq(1..n)
  PROVE  /\ HasExtras(CopyExtras(X, p), Len(p)) /\ (CopyExtras(X, p) = NULL <=> X = NULL)
         /\ \A j \in 1..Len(p) : FieldsOf(CopyExtras(X, p), j) = FieldsOf(X, p[j])
  <1>. DEFINE Y == CopyExtras(X, p)
              m == Len(p)
  <1>0. m \in Nat /\ DOMAIN p = 1..m /\ \A j \in 1..m : p[j] \in 1..n
    OBVIOUS
  <1>1. CASE X = NULL
    BY <1>0, <1>1 DEF HasExtras, CopyExtras, FieldsOf
  <1>2. CASE X # NULL
    <2>1. X \in Seq(RowFields \cup {NULL}) /\ Len(X) = n
      BY <1>2 DEF HasExtras
    <2>2. Y = [j \in 1..m |-> X[p[j]]]
      BY <1>0, <1>2 DEF CopyExtras
    <2>. HIDE DEF Y, m
    <2>3. \A j \in 1..m : Y[j] = X[p[j]] /\ Y[j] \in RowFields \cup {NULL}
      BY <1>0, <2>1, <2>2
    <2>4. Y \in Seq(RowFields \cup {NULL}) /\ Len(Y) = m
      <3>1. Y \in [1..m -> RowFields \cup {NULL}]
        BY <2>2, <2>3
      <3>. QED  BY <1>0, <3>1
    <2>. Y # NULL
      BY <2>4, ValuesAssumption
    <2>5. HasExtras(Y, m)
      BY <1>0, <1>2, <2>3, <2>4, ExtrasAt DEF HasExtras
    <2>6. \A j \in 1..m : FieldsOf(Y, j) = FieldsOf(X, p[j])
      <3>. TAKE j \in 1..m
      <3>1. FieldsOf(Y, j) = IF Y[j] = NULL THEN NoExtras ELSE FieldMap(Y[j])
        BY <1>0, <1>2, <2>5, ExtrasAt
      <3>2. FieldsOf(X, p[j]) = IF X[p[j]] = NULL THEN NoExtras ELSE FieldMap(X[p[j]])
        BY <1>0, <1>2, ExtrasAt
      <3>. QED  BY <2>3, <3>1, <3>2
    <2>. QED  BY <1>2, <2>5, <2>6 DEF Y, m
  <1>. QED  BY <1>1, <1>2

-----------------------------------------------------------------------------
(* Rows at the end.                                                        *)

\* Taking the last row off is copying the others.
LEMMA PopExtrasOk ==
  ASSUME NEW X, NEW n \in Nat \ {0}, HasExtras(X, n)
  PROVE  PopExtras(X) = CopyExtras(X, FirstRows(n))
  <1>1. CASE X = NULL
    BY <1>1 DEF PopExtras, CopyExtras
  <1>2. CASE X # NULL
    <2>1. X \in Seq(RowFields \cup {NULL}) /\ Len(X) = n
      BY <1>2 DEF HasExtras
    <2>. DEFINE p == FirstRows(n)
    <2>2. Len(p) = n - 1 /\ DOMAIN p = 1..(n - 1) /\ \A i \in 1..(n - 1) : p[i] = i
      BY FirstRowsType
    <2>. HIDE DEF p
    <2>3. SubSeq(X, 1, n - 1) = [j \in 1..(n - 1) |-> X[p[j]]]
      BY <2>1, <2>2
    <2>. QED  BY <1>2, <2>1, <2>2, <2>3 DEF PopExtras, CopyExtras, Front, p
  <1>. QED  BY <1>1, <1>2

\* Setting a field changes that field of that row only.
LEMMA SetFieldOk ==
  ASSUME NEW X, X # NULL, NEW n \in Nat, HasExtras(X, n), NEW i \in 1..n,
         NEW name \in Names, NEW v \in Slots
  PROVE  /\ HasExtras(SetField(X, i, name, v), n) /\ SetField(X, i, name, v) # NULL
         /\ FieldsOf(SetField(X, i, name, v), i) = WithExtra(FieldsOf(X, i), name, v)
         /\ \A j \in 1..n : j # i => FieldsOf(SetField(X, i, name, v), j) = FieldsOf(X, j)
  <1>. DEFINE E == IF X[i] = NULL THEN EmptyExtras(0) ELSE X[i]
              F == PutField(E, name, v)
              Y == SetField(X, i, name, v)
  <1>1. X \in Seq(RowFields \cup {NULL}) /\ Len(X) = n /\ DOMAIN X = 1..n
    BY DEF HasExtras
  <1>2. FieldsOk(E) /\ FieldMap(E) = FieldsOf(X, i)
    BY ExtrasAt, EmptyOk
  <1>3. Y = [j \in 1..n |-> IF j = i THEN F ELSE X[j]]
    BY <1>1 DEF SetField, Replaced
  <1>. HIDE DEF E
  <1>4. FieldsOk(F) /\ FieldMap(F) = WithExtra(FieldsOf(X, i), name, v)
    BY <1>2, PutFieldOk
  <1>. HIDE DEF F, Y
  <1>5. F \in RowFields
    BY <1>4 DEF FieldsOk
  <1>6. Y \in Seq(RowFields \cup {NULL}) /\ Len(Y) = n
    <2>1. Y \in [1..n -> RowFields \cup {NULL}]
      BY <1>1, <1>3, <1>5
    <2>. QED  BY <2>1
  <1>. Y # NULL
    BY <1>6, ValuesAssumption
  <1>7. HasExtras(Y, n)
    BY <1>3, <1>4, <1>6, ExtrasAt DEF HasExtras
  <1>8. \A j \in 1..n : FieldsOf(Y, j) = IF Y[j] = NULL THEN NoExtras ELSE FieldMap(Y[j])
    BY <1>7, ExtrasAt
  <1>9. \A j \in 1..n : FieldsOf(X, j) = IF X[j] = NULL THEN NoExtras ELSE FieldMap(X[j])
    BY ExtrasAt
  <1>10. F # NULL
    BY <1>5, ValuesAssumption
  <1>11. /\ FieldsOf(Y, i) = WithExtra(FieldsOf(X, i), name, v)
         /\ \A j \in 1..n : j # i => FieldsOf(Y, j) = FieldsOf(X, j)
    BY <1>3, <1>4, <1>8, <1>9, <1>10
  <1>. QED  BY <1>7, <1>11 DEF Y

\* A pushed row brings its extra fields and leaves the others alone.
LEMMA PushExtrasOk ==
  ASSUME NEW X, NEW n \in Nat, HasExtras(X, n),
         NEW E, FieldsOk(E), X = NULL => FieldMap(E) = NoExtras
  PROVE  /\ HasExtras(SetExtras(PushEmpty(X), n + 1, E), n + 1)
         /\ SetExtras(PushEmpty(X), n + 1, E) = NULL <=> X = NULL
         /\ \A i \in 1..n : FieldsOf(SetExtras(PushEmpty(X), n + 1, E), i) = FieldsOf(X, i)
         /\ FieldsOf(SetExtras(PushEmpty(X), n + 1, E), n + 1) = FieldMap(E)
  <1>. DEFINE Y == SetExtras(PushEmpty(X), n + 1, E)
  <1>1. CASE X = NULL
    <2>1. X = NULL /\ Y = NULL
      BY <1>1 DEF HasExtras, SetExtras, PushEmpty
    <2>. QED  BY <1>1, <2>1 DEF HasExtras, FieldsOf
  <1>2. CASE X # NULL
    <2>. DEFINE e == IF FieldMap(E) = NoExtras THEN NULL ELSE E
    <2>1. X \in Seq(RowFields \cup {NULL}) /\ Len(X) = n
      BY <1>2 DEF HasExtras
    <2>2. E \in RowFields /\ E # NULL
      BY ValuesAssumption DEF FieldsOk
    <2>3. Y = [j \in 1..(n + 1) |-> IF j = n + 1 THEN e ELSE X[j]]
      <3>1. PushEmpty(X) = [j \in 1..(n + 1) |-> IF j = n + 1 THEN NULL ELSE X[j]]
        <4>1. NULL \in RowFields \cup {NULL}
          OBVIOUS
        <4>2. Append(X, NULL) = [j \in 1..(n + 1) |-> IF j = n + 1 THEN NULL ELSE X[j]]
          BY <2>1, <4>1, AppendIs
        <4>. QED  BY <1>2, <4>2 DEF PushEmpty
      <3>. QED  BY <3>1, Zenon DEF SetExtras, Replaced
    <2>. HIDE DEF Y
    <2>4. Y \in Seq(RowFields \cup {NULL}) /\ Len(Y) = n + 1
      <3>1. Y \in [1..(n + 1) -> RowFields \cup {NULL}]
        BY <2>1, <2>2, <2>3
      <3>. QED  BY <3>1
    <2>5. /\ \A j \in 1..n : Y[j] = X[j]
          /\ Y[n + 1] = e
      BY <2>3
    <2>. Y # NULL
      BY <2>4, ValuesAssumption
    <2>6. HasExtras(Y, n + 1)
      <3>1. \A i \in 1..(n + 1) : Y[i] = NULL \/ FieldsOk(Y[i])
        BY <1>2, <2>5, ExtrasAt
      <3>. QED  BY <1>2, <2>4, <3>1 DEF HasExtras
    <2>7. \A i \in 1..(n + 1) : FieldsOf(Y, i) = IF Y[i] = NULL THEN NoExtras ELSE FieldMap(Y[i])
      BY <1>2, <2>6, ExtrasAt
    <2>8. \A i \in 1..n : FieldsOf(X, i) = IF X[i] = NULL THEN NoExtras ELSE FieldMap(X[i])
      BY <1>2, ExtrasAt
    <2>9. \A i \in 1..n : FieldsOf(Y, i) = FieldsOf(X, i)
      BY <2>5, <2>7, <2>8
    <2>10. FieldsOf(Y, n + 1) = FieldMap(E)
      BY <2>2, <2>5, <2>7
    <2>. QED  BY <1>2, <2>6, <2>9, <2>10 DEF Y
  <1>. QED  BY <1>1, <1>2

\* Appended rows bring their extra fields and leave the others alone.
LEMMA AppendExtrasOk ==
  ASSUME NEW X, NEW Y, NEW n \in Nat, NEW m \in Nat,
         HasExtras(X, n), HasExtras(Y, m), X = NULL <=> Y = NULL
  PROVE  /\ HasExtras(AppendExtras(X, Y), n + m) /\ (AppendExtras(X, Y) = NULL <=> X = NULL)
         /\ \A i \in 1..n : FieldsOf(AppendExtras(X, Y), i) = FieldsOf(X, i)
         /\ \A i \in 1..m : FieldsOf(AppendExtras(X, Y), n + i) = FieldsOf(Y, i)
  <1>. DEFINE Z == AppendExtras(X, Y)
  <1>1. CASE X = NULL
    <2>1. X = NULL /\ Y = NULL /\ Z = NULL
      BY <1>1 DEF HasExtras, AppendExtras
    <2>. QED  BY <1>1, <2>1 DEF HasExtras, FieldsOf
  <1>2. CASE X # NULL
    <2>. DEFINE S == RowFields \cup {NULL}
    <2>1. /\ X \in Seq(S) /\ n = Len(X)
          /\ Y \in Seq(S) /\ m = Len(Y) /\ Y # NULL
      BY <1>2 DEF HasExtras
    <2>2. Z = X \o Y
      BY <1>2 DEF AppendExtras
    <2>. HIDE DEF S, Z
    <2>3. /\ Z \in Seq(S) /\ Len(Z) = n + m
          /\ \A i \in 1..n : Z[i] = X[i]
          /\ \A i \in 1..m : Z[n + i] = Y[i]
      BY ONLY <2>1, <2>2, ConcatSeq
    <2>3a. Z # NULL
      BY <2>3, ValuesAssumption DEF S
    <2>4. HasExtras(Z, n + m)
      <3>1. \A i \in 1..n : X[i] = NULL \/ FieldsOk(X[i])
        BY <1>2 DEF HasExtras
      <3>2. \A i \in 1..m : Y[i] = NULL \/ FieldsOk(Y[i])
        BY <2>1 DEF HasExtras
      <3>3. ASSUME NEW i \in 1..(n + m)  PROVE Z[i] = NULL \/ FieldsOk(Z[i])
        <4>1. CASE i <= n
          BY <2>3, <3>1, <4>1
        <4>2. CASE i > n
          <5>1. i - n \in 1..m /\ i = n + (i - n)
            BY <4>2
          <5>2. Z[i] = Y[i - n]
            BY <2>3, <5>1
          <5>. QED  BY <3>2, <5>1, <5>2
        <4>. QED  BY <4>1, <4>2
      <3>. QED  BY <1>2, <2>3, <3>3 DEF HasExtras, S
    <2>5. \A i \in 1..(n + m) : FieldsOf(Z, i) = IF Z[i] = NULL THEN NoExtras ELSE FieldMap(Z[i])
      BY <2>3a, <2>4, ExtrasAt
    <2>6. \A i \in 1..n : FieldsOf(X, i) = IF X[i] = NULL THEN NoExtras ELSE FieldMap(X[i])
      BY <1>2, ExtrasAt
    <2>7. \A i \in 1..m : FieldsOf(Y, i) = IF Y[i] = NULL THEN NoExtras ELSE FieldMap(Y[i])
      BY <2>1, ExtrasAt
    <2>8. \A i \in 1..n : FieldsOf(Z, i) = FieldsOf(X, i)
      BY <2>3, <2>5, <2>6
    <2>9. \A i \in 1..m : FieldsOf(Z, n + i) = FieldsOf(Y, i)
      <3>. TAKE i \in 1..m
      <3>1. n + i \in 1..(n + m)
        BY ONLY n \in Nat, m \in Nat, i \in 1..m
      <3>. QED  BY <2>3, <2>5, <2>7, <3>1
    <2>. QED  BY <1>2, <2>3a, <2>4, <2>8, <2>9 DEF Z
  <1>. QED  BY <1>1, <1>2

\* stage_extras takes the fields of every row over as they are, or fails.
LEMMA StagedExtrasOk ==
  ASSUME NEW T, NEW S, T.schema.open \in BOOLEAN, S.rowCount \in Nat,
         HasExtras(S.extras, S.rowCount), StagedExtras(T, S) # ERR
  PROVE  /\ HasExtras(StagedExtras(T, S), S.rowCount) /\ (StagedExtras(T, S) = NULL <=> ~T.schema.open)
         /\ \A i \in 1..S.rowCount :
              /\ FieldsOf(StagedExtras(T, S), i) = FieldsOf(S.extras, i)
              /\ CollectExtras(T.schema, FieldsOf(S.extras, i)) = FieldsOf(S.extras, i)
              /\ CollectExtras(T.schema, FieldsOf(S.extras, i)) # ERR
              /\ \A n \in DOMAIN FieldsOf(S.extras, i) : ColumnIndex(T.schema, n) = NULL
  <1>. DEFINE X == S.extras
              m == S.rowCount
              pairs(i) == IF X = NULL \/ X[i] = NULL THEN <<>> ELSE FieldPairs(X[i])
              given == [i \in 1..m |-> Collected(T.schema, pairs(i))]
              Y == StagedExtras(T, S)
  <1>0. m \in Nat /\ HasExtras(X, m)
    OBVIOUS
  <1>. HIDE DEF X, m
  <1>1. \A i \in 1..m : given[i] # ERR
    BY DEF StagedExtras, X, m
  <1>2. Y = IF ~T.schema.open THEN NULL
            ELSE [i \in 1..m |-> IF FieldMap(given[i]) = NoExtras THEN NULL ELSE given[i]]
    BY DEF StagedExtras, X, m
  <1>. HIDE DEF Y
  <1>3. ASSUME NEW i \in 1..m
        PROVE  pairs(i) \in Seq(Names \X Slots) /\ FieldsIn(pairs(i)) = FieldsOf(X, i)
    <2>1. CASE X = NULL \/ X[i] = NULL
      <3>1. pairs(i) = <<>> /\ FieldsOf(X, i) = NoExtras
        BY <1>0, <2>1, ExtrasAt
      <3>2. FieldsIn(<<>>) = NoExtras
        BY DEF FieldsIn, NoExtras
      <3>. HIDE DEF pairs
      <3>. QED  BY <3>1, <3>2
    <2>2. CASE X # NULL /\ X[i] # NULL
      <3>1. pairs(i) = FieldPairs(X[i]) /\ FieldsOf(X, i) = FieldMap(X[i]) /\ FieldsOk(X[i])
        BY <1>0, <2>2, ExtrasAt
      <3>. QED  BY <3>1, PairsOk
    <2>. QED  BY <1>0, <2>1, <2>2
  <1>. HIDE DEF pairs
  <1>4. ASSUME NEW i \in 1..m
        PROVE  /\ FieldsOk(given[i]) /\ FieldMap(given[i]) = FieldsOf(X, i)
               /\ CollectExtras(T.schema, FieldsOf(X, i)) = FieldsOf(X, i)
               /\ CollectExtras(T.schema, FieldsOf(X, i)) # ERR
               /\ \A n \in DOMAIN FieldsOf(X, i) : ColumnIndex(T.schema, n) = NULL /\ T.schema.open
    <2>1. given[i] = Collected(T.schema, pairs(i)) /\ Collected(T.schema, pairs(i)) # ERR
      BY <1>1
    <2>. QED  BY <1>3, <2>1, CollectedOk
  <1>. HIDE DEF given
  <1>5. CASE T.schema.open
    <2>0. Y = [i \in 1..m |-> IF FieldMap(given[i]) = NoExtras THEN NULL ELSE given[i]]
      BY <1>2, <1>5
    <2>1. \A i \in 1..m : given[i] \in RowFields
      BY <1>4 DEF FieldsOk
    <2>2. Y \in Seq(RowFields \cup {NULL}) /\ Len(Y) = m
      <3>1. Y \in [1..m -> RowFields \cup {NULL}]
        BY <2>0, <2>1
      <3>. QED  BY <1>0, <3>1
    <2>2a. Y # NULL
      BY <2>2, ValuesAssumption
    <2>3. HasExtras(Y, m)
      BY <1>4, <1>5, <2>0, <2>2, Zenon DEF HasExtras
    <2>4. \A i \in 1..m : FieldsOf(Y, i) = IF Y[i] = NULL THEN NoExtras ELSE FieldMap(Y[i])
      BY <1>0, <2>2a, <2>3, ExtrasAt
    <2>5. \A i \in 1..m : given[i] # NULL
      BY <2>1, ValuesAssumption
    <2>6. \A i \in 1..m : FieldsOf(Y, i) = FieldsOf(X, i)
      BY <1>4, <2>0, <2>4, <2>5
    <2>. QED  BY <1>4, <1>5, <2>2a, <2>3, <2>6 DEF Y, X, m
  <1>6. CASE ~T.schema.open
    <2>1. Y = NULL
      BY <1>2, <1>6
    <2>2. HasExtras(Y, m)
      BY <2>1 DEF HasExtras
    <2>3. \A i \in 1..m : FieldsOf(Y, i) = NoExtras
      BY <2>1 DEF FieldsOf
    <2>4. ASSUME NEW i \in 1..m  PROVE FieldsOf(X, i) = NoExtras
      <3>1. DOMAIN FieldsOf(X, i) = {}
        BY <1>4, <1>6, Zenon
      <3>2. FieldsOf(X, i) \in [DOMAIN FieldsOf(X, i) -> Slots]
        BY <1>0, ExtrasType
      <3>. QED  BY <3>1, <3>2 DEF NoExtras
    <2>. QED  BY <1>4, <1>6, <2>1, <2>2, <2>3, <2>4 DEF Y, X, m
  <1>. QED  BY <1>5, <1>6

-----------------------------------------------------------------------------
(* Tombstones.                                                             *)

\* Rows without flags are not marked.
LEMMA ResizedFlags ==
  ASSUME NEW flags \in Seq(BOOLEAN), NEW n \in Nat, Len(flags) <= n
  PROVE  /\ Resized(flags, n) \in Seq(BOOLEAN) /\ Len(Resized(flags, n)) = n
         /\ Flagged(Resized(flags, n)) = Flagged(flags)
  <1>. DEFINE r == Resized(flags, n)
  <1>1. r = [i \in 1..n |-> IF i <= Len(flags) THEN flags[i] ELSE FALSE]
    BY DEF Resized
  <1>. HIDE DEF r
  <1>2. \A i \in 1..n : r[i] \in BOOLEAN
    <2>1. \A i \in 1..Len(flags) : flags[i] \in BOOLEAN
      OBVIOUS
    <2>2. Len(flags) \in Nat
      OBVIOUS
    <2>3. ASSUME NEW i \in 1..n  PROVE r[i] \in BOOLEAN
      <3>1. CASE i <= Len(flags)
        BY <1>1, <2>1, <2>2, <3>1
      <3>2. CASE ~(i <= Len(flags))
        BY <1>1, <3>2
      <3>. QED  BY <3>1, <3>2
    <2>. QED  BY <2>3
  <1>3. r \in Seq(BOOLEAN) /\ Len(r) = n
    <2>1. r \in [1..n -> BOOLEAN]
      BY <1>1, <1>2, Zenon
    <2>. QED  BY ONLY <2>1, n \in Nat
  <1>4. \A i \in 1..n : r[i] <=> i \in Flagged(flags)
    BY <1>1 DEF Flagged
  <1>5. Flagged(flags) \subseteq 1..n
    BY DEF Flagged
  <1>6. Flagged(r) = Flagged(flags)
    <2>1. Flagged(r) = {i \in 1..n : r[i]}
      BY <1>3 DEF Flagged
    <2>. QED  BY <1>4, <1>5, <2>1
  <1>. QED  BY <1>3, <1>6 DEF r

\* The flags there are, or new ones.
LEMMA AllFlags ==
  ASSUME NEW flags, NEW count, NEW n \in Nat, FlagsOk(flags, count, n),
         NEW all, all = IF flags = <<>> THEN Resized(<<>>, n) ELSE flags
  PROVE  all \in Seq(BOOLEAN) /\ Len(all) = n /\ Flagged(all) = Flagged(flags)
  <1>1. flags \in Seq(BOOLEAN)
    BY DEF FlagsOk
  <1>2. CASE flags = <<>>
    <2>1. Len(flags) <= n
      BY <1>2
    <2>2. all = Resized(flags, n)
      BY <1>2
    <2>3. /\ Resized(flags, n) \in Seq(BOOLEAN) /\ Len(Resized(flags, n)) = n
          /\ Flagged(Resized(flags, n)) = Flagged(flags)
      BY <1>1, <2>1, ResizedFlags
    <2>. QED  BY <2>2, <2>3
  <1>3. CASE flags # <<>>
    BY <1>1, <1>3 DEF FlagsOk
  <1>. QED  BY <1>2, <1>3

\* One flag that is set or cleared.
LEMMA SetFlags ==
  ASSUME NEW flags \in Seq(BOOLEAN), NEW n \in Nat, Len(flags) = n, NEW i \in 1..n
  PROVE  /\ Replaced(flags, i, TRUE) \in Seq(BOOLEAN) /\ Len(Replaced(flags, i, TRUE)) = n
         /\ Flagged(Replaced(flags, i, TRUE)) = Flagged(flags) \cup {i}
         /\ Replaced(flags, i, FALSE) \in Seq(BOOLEAN) /\ Len(Replaced(flags, i, FALSE)) = n
         /\ Flagged(Replaced(flags, i, FALSE)) = Flagged(flags) \ {i}
  <1>1. ASSUME NEW b \in BOOLEAN, NEW r, r = [j \in 1..n |-> IF j = i THEN b ELSE flags[j]]
        PROVE  /\ r \in Seq(BOOLEAN) /\ Len(r) = n /\ r[i] = b
               /\ \A j \in 1..n : j # i => r[j] = flags[j]
    BY <1>1
  <1>2. ASSUME NEW r, r = [j \in 1..n |-> IF j = i THEN TRUE ELSE flags[j]]
        PROVE  r \in Seq(BOOLEAN) /\ Len(r) = n /\ Flagged(r) = Flagged(flags) \cup {i}
    <2>1. /\ r \in Seq(BOOLEAN) /\ Len(r) = n /\ r[i] = TRUE
          /\ \A j \in 1..n : j # i => r[j] = flags[j]
      BY <1>1, <1>2, Zenon
    <2>. QED  BY <2>1 DEF Flagged
  <1>3. ASSUME NEW r, r = [j \in 1..n |-> IF j = i THEN FALSE ELSE flags[j]]
        PROVE  r \in Seq(BOOLEAN) /\ Len(r) = n /\ Flagged(r) = Flagged(flags) \ {i}
    <2>1. /\ r \in Seq(BOOLEAN) /\ Len(r) = n /\ r[i] = FALSE
          /\ \A j \in 1..n : j # i => r[j] = flags[j]
      BY <1>1, <1>3, Zenon
    <2>. QED  BY <2>1 DEF Flagged
  <1>4. /\ Replaced(flags, i, TRUE) = [j \in 1..n |-> IF j = i THEN TRUE ELSE flags[j]]
        /\ Replaced(flags, i, FALSE) = [j \in 1..n |-> IF j = i THEN FALSE ELSE flags[j]]
    BY DEF Replaced
  <1>. QED  BY <1>2, <1>3, <1>4, Zenon

\* Everything but the flags.
SameButFlags(R, T) ==
  /\ DOMAIN R = DOMAIN T
  /\ R.schema = T.schema /\ R.columns = T.columns
  /\ R.extras = T.extras /\ R.rowCount = T.rowCount

\* The fields of a table.
TableFields == {"schema", "columns", "extras", "flags", "count", "rowCount"}

\* WithFlags changes flags and counter only.
LEMMA WithFlagsIs ==
  ASSUME NEW T, DOMAIN T = TableFields, NEW flags, NEW count, NEW R, R = WithFlags(T, flags, count)
  PROVE  /\ SameButFlags(R, T) /\ R.count = count
         /\ R.flags = IF count = 0 THEN <<>> ELSE flags
  BY DEF WithFlags, SameButFlags, TableFields

\* Tombstones::set marks one row and counts it once.
LEMMA MarkOk ==
  ASSUME NEW T, DOMAIN T = TableFields, NEW n \in Nat, T.rowCount = n,
         FlagsOk(T.flags, T.count, n), NEW i \in 1..n
  PROVE  LET R == SetFlag(T, i, TRUE) IN
         /\ SameButFlags(R, T) /\ FlagsOk(R.flags, R.count, n)
         /\ Flagged(R.flags) = Flagged(T.flags) \cup {i}
  <1>. DEFINE R == SetFlag(T, i, TRUE)
              all == IF T.flags = <<>> THEN Resized(<<>>, n) ELSE T.flags
  <1>1. all \in Seq(BOOLEAN) /\ Len(all) = n /\ Flagged(all) = Flagged(T.flags)
    BY AllFlags
  <1>2. T.count = Cardinality(Flagged(all))
    BY <1>1 DEF FlagsOk
  <1>3. R = IF all[i] = TRUE THEN T
            ELSE WithFlags(T, Replaced(all, i, TRUE), T.count + 1)
    BY Zenon DEF SetFlag
  <1>. HIDE DEF all, R
  <1>4. CASE all[i] = TRUE
    <2>1. R = T
      BY <1>3, <1>4, Zenon
    <2>2. i \in Flagged(T.flags)
      BY <1>1, <1>4 DEF Flagged
    <2>. QED  BY <2>1, <2>2, Zenon DEF R, SameButFlags
  <1>5. CASE all[i] # TRUE
    <2>. DEFINE marked == Replaced(all, i, TRUE)
    <2>1. R = WithFlags(T, marked, T.count + 1)
      BY <1>3, <1>5, Zenon
    <2>2. marked \in Seq(BOOLEAN) /\ Len(marked) = n /\ Flagged(marked) = Flagged(all) \cup {i}
      BY <1>1, SetFlags
    <2>. HIDE DEF marked
    <2>3. i \notin Flagged(all)
      BY <1>1, <1>5, Zenon DEF Flagged
    <2>4. IsFiniteSet(Flagged(all))
      BY <1>1, FlaggedIs
    <2>5. Cardinality(Flagged(marked)) = T.count + 1
      <3>1. Cardinality(Flagged(all) \cup {i}) = Cardinality(Flagged(all)) + 1
        BY <2>3, <2>4, FS_AddElement
      <3>. QED  BY <1>2, <2>2, <3>1
    <2>6. /\ SameButFlags(R, T) /\ R.count = T.count + 1
          /\ R.flags = IF T.count + 1 = 0 THEN <<>> ELSE marked
      BY <2>1, WithFlagsIs
    <2>7. FlagsOk(R.flags, R.count, n) /\ Flagged(R.flags) = Flagged(marked)
      BY <2>2, <2>5, <2>6, DroppedFlags
    <2>. QED  BY <1>1, <2>2, <2>6, <2>7, Zenon DEF R
  <1>. QED  BY <1>4, <1>5, Zenon

\* Tombstones::set clears one mark, and drops the flags with the last one.
LEMMA UnmarkOk ==
  ASSUME NEW T, DOMAIN T = TableFields, NEW n \in Nat, T.rowCount = n,
         FlagsOk(T.flags, T.count, n), NEW i \in 1..n
  PROVE  LET R == SetFlag(T, i, FALSE) IN
         /\ SameButFlags(R, T) /\ FlagsOk(R.flags, R.count, n)
         /\ Flagged(R.flags) = Flagged(T.flags) \ {i}
  <1>. DEFINE R == SetFlag(T, i, FALSE)
              all == IF T.flags = <<>> THEN Resized(<<>>, n) ELSE T.flags
  <1>1. all \in Seq(BOOLEAN) /\ Len(all) = n /\ Flagged(all) = Flagged(T.flags)
    BY AllFlags
  <1>2. T.count = Cardinality(Flagged(all))
    BY <1>1 DEF FlagsOk
  <1>3. R = IF all[i] = FALSE THEN T
            ELSE WithFlags(T, Replaced(all, i, FALSE), T.count - 1)
    BY Zenon DEF SetFlag
  <1>. HIDE DEF all, R
  <1>4. CASE all[i] = FALSE
    <2>1. R = T
      BY <1>3, <1>4, Zenon
    <2>2. i \notin Flagged(T.flags)
      BY <1>1, <1>4 DEF Flagged
    <2>. QED  BY <2>1, <2>2, Zenon DEF R, SameButFlags
  <1>5. CASE all[i] # FALSE
    <2>. DEFINE cleared == Replaced(all, i, FALSE)
    <2>1. R = WithFlags(T, cleared, T.count - 1)
      BY <1>3, <1>5, Zenon
    <2>2. cleared \in Seq(BOOLEAN) /\ Len(cleared) = n /\ Flagged(cleared) = Flagged(all) \ {i}
      BY <1>1, SetFlags
    <2>. HIDE DEF cleared
    <2>3. i \in Flagged(all)
      <3>1. all[i] \in BOOLEAN
        BY <1>1
      <3>. QED  BY <1>1, <1>5, <3>1, Zenon DEF Flagged
    <2>4. IsFiniteSet(Flagged(all))
      BY <1>1, FlaggedIs
    <2>. DEFINE d == T.count - 1
    <2>5. Cardinality(Flagged(cleared)) = d
      <3>1. Cardinality(Flagged(all) \ {i}) = Cardinality(Flagged(all)) - 1
        BY <2>3, <2>4, FS_RemoveElement
      <3>. QED  BY <1>2, <2>2, <3>1
    <2>5a. R = WithFlags(T, cleared, d)
      BY <2>1
    <2>. HIDE DEF d
    <2>6. /\ SameButFlags(R, T) /\ R.count = d
          /\ R.flags = IF d = 0 THEN <<>> ELSE cleared
      BY <2>5a, WithFlagsIs
    <2>7. FlagsOk(R.flags, R.count, n) /\ Flagged(R.flags) = Flagged(cleared)
      BY <2>2, <2>5, <2>6, DroppedFlags
    <2>. QED  BY <1>1, <2>2, <2>6, <2>7, Zenon DEF R
  <1>. QED  BY <1>4, <1>5, Zenon

\* A pushed row is not marked.
LEMMA PushLiveOk ==
  ASSUME NEW T, DOMAIN T = TableFields, NEW n \in Nat, FlagsOk(T.flags, T.count, n)
  PROVE  LET R == PushLive(T) IN
         /\ SameButFlags(R, T) /\ FlagsOk(R.flags, R.count, n + 1)
         /\ Flagged(R.flags) = Flagged(T.flags)
  <1>. DEFINE R == PushLive(T)
              s == T.flags
  <1>0. s \in Seq(BOOLEAN) /\ T.count = Cardinality(Flagged(s))
    BY DEF FlagsOk
  <1>1. CASE s = <<>>
    <2>1. R = T
      BY <1>1 DEF PushLive
    <2>2. T.count = 0
      BY <1>0, <1>1, FlaggedIs, Zenon
    <2>3. FlagsOk(T.flags, T.count, n + 1)
      BY <1>0, <1>1, <2>2 DEF FlagsOk
    <2>. QED  BY <2>1, <2>3 DEF SameButFlags
  <1>2. CASE s # <<>>
    <2>. DEFINE r == Append(s, FALSE)
    <2>1. /\ SameButFlags(R, T) /\ R.count = T.count /\ R.flags = r
      <3>. HIDE DEF r
      <3>1. R = [T EXCEPT !.flags = r]
        BY <1>2 DEF PushLive, r
      <3>. HIDE DEF R
      <3>. QED  BY <3>1 DEF SameButFlags, TableFields
    <2>2. Len(s) = n /\ T.count # 0
      BY <1>2 DEF FlagsOk
    <2>. HIDE DEF s, R
    <2>3. /\ r \in Seq(BOOLEAN) /\ Len(r) = n + 1 /\ r[n + 1] = FALSE
          /\ \A j \in 1..n : r[j] = s[j]
      <3>. DEFINE live == FALSE
      <3>1. live \in BOOLEAN /\ r = Append(s, live)
        BY DEF r
      <3>. HIDE DEF r, live
      <3>2. /\ r \in Seq(BOOLEAN) /\ Len(r) = n + 1 /\ r[n + 1] = live
            /\ \A j \in 1..n : r[j] = s[j]
        BY ONLY <1>0, <2>2, <3>1, n \in Nat, AppendHolds
      <3>. QED  BY <3>2 DEF live
    <2>. HIDE DEF r
    <2>4. Flagged(r) = Flagged(s)
      BY <2>2, <2>3 DEF Flagged
    <2>5. FlagsOk(R.flags, R.count, n + 1)
      BY <1>0, <2>1, <2>2, <2>3, <2>4 DEF FlagsOk
    <2>. QED  BY <2>1, <2>4, <2>5 DEF R, s
  <1>. QED  BY <1>1, <1>2

\* The flags without the last one.
LEMMA FrontFlags ==
  ASSUME NEW s \in Seq(BOOLEAN), NEW n \in Nat, n > 0, Len(s) = n
  PROVE  /\ Front(s) \in Seq(BOOLEAN) /\ Len(Front(s)) = n - 1
         /\ Flagged(Front(s)) = Flagged(s) \ {n}
         /\ s[n] <=> n \in Flagged(s)
  <1>. DEFINE r == Front(s)
  <1>1. /\ r \in Seq(BOOLEAN) /\ Len(r) = n - 1
        /\ \A j \in 1..(n - 1) : r[j] = s[j]
    BY DEF Front
  <1>. HIDE DEF r
  <1>2. Flagged(r) = Flagged(s) \ {n}
    BY <1>1 DEF Flagged
  <1>3. s[n] <=> n \in Flagged(s)
    BY DEF Flagged
  <1>. QED  BY <1>1, <1>2, <1>3 DEF r

\* The mark of a popped row goes with it.
LEMMA PopFlagOk ==
  ASSUME NEW T, DOMAIN T = TableFields, NEW n \in Nat, n > 0, FlagsOk(T.flags, T.count, n)
  PROVE  LET R == PopFlag(T) IN
         /\ SameButFlags(R, T) /\ FlagsOk(R.flags, R.count, n - 1)
         /\ Flagged(R.flags) = Flagged(T.flags) \ {n}
  <1>. DEFINE R == PopFlag(T)
              s == T.flags
  <1>0. s \in Seq(BOOLEAN) /\ T.count = Cardinality(Flagged(s))
    BY DEF FlagsOk
  <1>1. CASE s = <<>>
    <2>1. R = T
      BY <1>1 DEF PopFlag
    <2>2. T.count = 0 /\ Flagged(s) = {}
      BY <1>0, <1>1, FlaggedIs, Zenon
    <2>3. FlagsOk(T.flags, T.count, n - 1)
      BY <1>0, <1>1, <2>2 DEF FlagsOk
    <2>. QED  BY <2>1, <2>2, <2>3 DEF SameButFlags
  <1>2. CASE s # <<>>
    <2>1. Len(s) = n /\ T.count # 0
      BY <1>2 DEF FlagsOk
    <2>. DEFINE r == Front(s)
    <2>2. /\ r \in Seq(BOOLEAN) /\ Len(r) = n - 1 /\ Flagged(r) = Flagged(s) \ {n}
          /\ s[n] <=> n \in Flagged(s)
      BY <1>0, <2>1, FrontFlags
    <2>3. IsFiniteSet(Flagged(s))
      BY <1>0, <2>1, FlaggedIs
    <2>. HIDE DEF r
    <2>4. CASE n \notin Flagged(s)
      <3>1. R = [T EXCEPT !.flags = r]
        BY <1>2, <2>1, <2>2, <2>4 DEF PopFlag, r
      <3>. HIDE DEF R, s
      <3>2. SameButFlags(R, T) /\ R.count = T.count /\ R.flags = r
        BY <3>1 DEF SameButFlags, TableFields
      <3>3. Flagged(r) = Flagged(s)
        BY <2>2, <2>4
      <3>4. FlagsOk(R.flags, R.count, n - 1)
        BY <1>0, <2>1, <2>2, <3>2, <3>3 DEF FlagsOk
      <3>. QED  BY <2>2, <3>2, <3>4 DEF R, s
    <2>5. CASE n \in Flagged(s)
      <3>. DEFINE d == T.count - 1
      <3>1. R = WithFlags(T, r, d)
        BY <1>2, <2>1, <2>2, <2>5 DEF PopFlag, r
      <3>. HIDE DEF R, s
      <3>2. Cardinality(Flagged(r)) = d
        <4>1. Cardinality(Flagged(s) \ {n}) = Cardinality(Flagged(s)) - 1
          BY <2>3, <2>5, FS_RemoveElement
        <4>. QED  BY <1>0, <2>2, <4>1
      <3>. HIDE DEF d
      <3>3. SameButFlags(R, T) /\ R.count = d /\ R.flags = IF d = 0 THEN <<>> ELSE r
        BY <3>1, WithFlagsIs
      <3>4. FlagsOk(R.flags, R.count, n - 1) /\ Flagged(R.flags) = Flagged(r)
        <4>. DEFINE m == n - 1
        <4>1. m \in Nat /\ Len(r) = m
          BY <2>2
        <4>. HIDE DEF m
        <4>2. FlagsOk(R.flags, R.count, m) /\ Flagged(R.flags) = Flagged(r)
          BY <2>2, <3>2, <3>3, <4>1, DroppedFlags
        <4>. QED  BY <4>2 DEF m
      <3>. QED  BY <2>2, <3>3, <3>4 DEF R, s
    <2>. QED  BY <2>4, <2>5
  <1>. QED  BY <1>1, <1>2

\* The positions F, n further on.
Shifted(n, F) == {n + i : i \in F}

\* Tombstones::append keeps the marks of both tables.
LEMMA AppendFlagsOk ==
  ASSUME NEW T, DOMAIN T = TableFields, NEW S, NEW n \in Nat, n = T.rowCount, NEW m \in Nat, m = S.rowCount,
         FlagsOk(T.flags, T.count, n), FlagsOk(S.flags, S.count, m)
  PROVE  LET R == AppendFlags(T, S) IN
         /\ SameButFlags(R, T) /\ FlagsOk(R.flags, R.count, n + m)
         /\ Flagged(R.flags) = Flagged(T.flags) \cup Shifted(n, Flagged(S.flags))
  <1>. DEFINE R == AppendFlags(T, S)
              s == T.flags
              t == S.flags
              moved == {n + i : i \in Flagged(t)}
  <1>0. /\ s \in Seq(BOOLEAN) /\ T.count = Cardinality(Flagged(s))
        /\ t \in Seq(BOOLEAN) /\ S.count = Cardinality(Flagged(t))
    BY DEF FlagsOk
  <1>1. /\ Flagged(s) \in SUBSET (1..n) /\ IsFiniteSet(Flagged(s)) /\ T.count \in Nat
        /\ T.count = 0 <=> Flagged(s) = {}
    <2>1. Flagged(s) \in SUBSET (1..Len(s)) /\ IsFiniteSet(Flagged(s)) /\ T.count \in Nat
          /\ (T.count = 0 <=> Flagged(s) = {})
      BY <1>0, FlaggedIs
    <2>2. T.count # 0 => Len(s) = n
      BY DEF FlagsOk
    <2>. QED  BY <2>1, <2>2
  <1>2. /\ Flagged(t) \in SUBSET (1..m) /\ IsFiniteSet(Flagged(t)) /\ S.count \in Nat
        /\ S.count = 0 <=> Flagged(t) = {}
    <2>1. Flagged(t) \in SUBSET (1..Len(t)) /\ IsFiniteSet(Flagged(t)) /\ S.count \in Nat
          /\ (S.count = 0 <=> Flagged(t) = {})
      BY <1>0, FlaggedIs
    <2>2. S.count # 0 => Len(t) = m
      BY DEF FlagsOk
    <2>. QED  BY <2>1, <2>2
  <1>3. CASE T.count = 0 /\ S.count = 0
    <2>1. R = T /\ moved = {}
      BY <1>2, <1>3 DEF AppendFlags
    <2>2. FlagsOk(T.flags, T.count, n + m)
      BY <1>3 DEF FlagsOk
    <2>. QED  BY <2>1, <2>2, Zenon DEF SameButFlags, Shifted
  <1>4. CASE ~(T.count = 0 /\ S.count = 0)
    <2>. DEFINE r == IF t = <<>> THEN Resized(s, n + m) ELSE Resized(s, n) \o t
                k == T.count + S.count
    <2>1. R = [T EXCEPT !.flags = r, !.count = k]
      BY <1>4 DEF AppendFlags
    <2>. HIDE DEF r, k, R
    <2>2. SameButFlags(R, T) /\ R.flags = r /\ R.count = k
      BY <2>1 DEF SameButFlags, TableFields
    <2>3. Len(s) \in 0..n
      <3>1. s = <<>> \/ Len(s) = n
        BY DEF FlagsOk
      <3>. QED  BY <3>1
    <2>4. r \in Seq(BOOLEAN) /\ Len(r) = n + m /\ Flagged(r) = Flagged(s) \cup moved
      <3>1. CASE t = <<>>
        <4>. DEFINE l == n + m
        <4>1. l \in Nat /\ Len(s) <= l /\ r = Resized(s, l)
          BY <2>3, <3>1 DEF r
        <4>. HIDE DEF l
        <4>2. r \in Seq(BOOLEAN) /\ Len(r) = l /\ Flagged(r) = Flagged(s)
          BY <1>0, <4>1, ResizedFlags
        <4>3. Flagged(t) = {}
          BY <3>1 DEF Flagged
        <4>4. moved = {}
          BY <4>3
        <4>. QED  BY <4>2, <4>4, Zenon DEF l
      <3>2. CASE t # <<>>
        <4>. DEFINE q == Resized(s, n)
        <4>1. q \in Seq(BOOLEAN) /\ Len(q) = n /\ Flagged(q) = Flagged(s)
          BY <1>0, <2>3, ResizedFlags
        <4>2. Len(t) = m
          BY <3>2 DEF FlagsOk
        <4>3. r = q \o t
          BY <3>2, Zenon DEF r
        <4>. HIDE DEF q, moved
        <4>4. q \o t \in Seq(BOOLEAN) /\ Len(q \o t) = n + m /\ Flagged(q \o t) = Flagged(q) \cup moved
          BY <1>0, <4>1, <4>2, ConcatFlags, Zenon DEF moved
        <4>. QED  BY <4>1, <4>3, <4>4
      <3>. QED  BY <3>1, <3>2
    <2>5. IsFiniteSet(moved) /\ Cardinality(moved) = S.count
      BY <1>0, <1>2, ShiftedSet, Zenon
    <2>6. Flagged(s) \cap moved = {}
      BY <1>1, <1>2
    <2>. HIDE DEF moved
    <2>7. Cardinality(Flagged(s) \cup moved) = k
      <3>1. Cardinality(Flagged(s) \cup moved)
              = Cardinality(Flagged(s)) + Cardinality(moved) - Cardinality(Flagged(s) \cap moved)
        BY <1>1, <2>5, FS_Union
      <3>2. Cardinality({}) = 0
        BY FS_EmptySet
      <3>3. Cardinality(Flagged(s) \cup moved) = T.count + S.count - 0
        BY ONLY <1>0, <2>5, <2>6, <3>1, <3>2, Zenon
      <3>. QED  BY ONLY <1>1, <1>2, <3>3 DEF k
    <2>8. k # 0
      BY <1>1, <1>2, <1>4 DEF k
    <2>9. FlagsOk(R.flags, R.count, n + m)
      BY <2>2, <2>4, <2>7, <2>8 DEF FlagsOk
    <2>. QED  BY <2>2, <2>4, <2>9 DEF R, moved, Shifted
  <1>. QED  BY <1>3, <1>4

\* A copy is marked where its origin is.
LEMMA CopiedFlagsOk ==
  ASSUME NEW T, NEW U, DOMAIN U = TableFields, NEW n \in Nat, FlagsOk(T.flags, T.count, n),
         NEW p \in Seq(1..n),
         NEW c, c = CopiedFlags(T, p), NEW k, k = Cardinality(Flagged(c))
  PROVE  {j \in DOMAIN c : c[j]} = Flagged(c) /\
         LET R == WithFlags(U, c, k) IN
         /\ SameButFlags(R, U) /\ FlagsOk(R.flags, R.count, Len(p))
         /\ Flagged(R.flags) = {j \in 1..Len(p) : p[j] \in Flagged(T.flags)}
  <1>. DEFINE R == WithFlags(U, c, k)
              m == Len(p)
              s == T.flags
              F == {j \in 1..m : p[j] \in Flagged(s)}
  <1>0. s \in Seq(BOOLEAN) /\ T.count = Cardinality(Flagged(s))
    BY DEF FlagsOk
  <1>1. m \in Nat /\ DOMAIN p = 1..m /\ \A j \in 1..m : p[j] \in 1..n
    OBVIOUS
  <1>2. SameButFlags(R, U) /\ R.count = k /\ R.flags = IF k = 0 THEN <<>> ELSE c
    BY WithFlagsIs
  <1>. HIDE DEF m, s, R
  <1>3. CASE T.count = 0
    <2>1. c = <<>>
      BY <1>3 DEF CopiedFlags
    <2>2. Flagged(s) = {} /\ Flagged(<<>>) = {} /\ Cardinality(Flagged(<<>>)) = 0
      <3>1. Len(s) \in Nat
        BY <1>0
      <3>. QED  BY <1>0, <1>3, <3>1, FlaggedIs, Zenon
    <2>3. {j \in DOMAIN c : c[j]} = Flagged(c) /\ Flagged(c) = {}
      BY <2>1, <2>2
    <2>4. k = 0
      BY <2>1, <2>2
    <2>5. R.flags = <<>> /\ R.count = 0 /\ F = {}
      BY <1>2, <2>2, <2>4
    <2>6. <<>> \in Seq(BOOLEAN)
      OBVIOUS
    <2>7. FlagsOk(R.flags, R.count, m)
      BY ONLY <2>2, <2>5, <2>6 DEF FlagsOk
    <2>. QED  BY <1>2, <2>2, <2>3, <2>5, <2>7 DEF R, m, s
  <1>4. CASE T.count # 0
    <2>1. c = [j \in 1..m |-> p[j] <= Len(s) /\ s[p[j]]]
      BY <1>1, <1>4 DEF CopiedFlags, IsTombstoned, s
    <2>2. Len(s) = n
      BY <1>4 DEF FlagsOk, s
    <2>3. \A j \in 1..m : c[j] \in BOOLEAN /\ (c[j] <=> p[j] \in Flagged(s))
      <3>. TAKE j \in 1..m
      <3>1. c[j] = (p[j] <= Len(s) /\ s[p[j]])
        BY <2>1, Zenon
      <3>2. p[j] \in 1..Len(s)
        BY <1>1, <2>2
      <3>3. c[j] \in BOOLEAN /\ (c[j] <=> p[j] <= Len(s) /\ s[p[j]])
        BY <3>1, Zenon
      <3>4. (p[j] <= Len(s) /\ s[p[j]]) <=> p[j] \in Flagged(s)
        BY <3>2 DEF Flagged
      <3>. QED  BY <3>3, <3>4, Zenon
    <2>4. c \in Seq(BOOLEAN) /\ Len(c) = m /\ DOMAIN c = 1..m
      <3>1. c \in [1..m -> BOOLEAN]
        BY <2>1, <2>3
      <3>. QED  BY ONLY <3>1, <1>1
    <2>5. Flagged(c) = F /\ {j \in DOMAIN c : c[j]} = Flagged(c)
      BY <2>3, <2>4, Zenon DEF Flagged
    <2>6. FlagsOk(R.flags, R.count, m) /\ Flagged(R.flags) = Flagged(c)
      BY <1>1, <1>2, <2>4, <2>5, DroppedFlags
    <2>. QED  BY <1>2, <2>5, <2>6 DEF R, m, s
  <1>. QED  BY <1>3, <1>4

-----------------------------------------------------------------------------
(* The rows that are kept.                                                 *)

\* Compaction keeps the rows without marks.
LEMMA KeptFlags ==
  ASSUME NEW flags \in Seq(BOOLEAN), NEW n \in Nat, Len(flags) = n
  PROVE  /\ Kept(flags) = KeptOf(1..n \ Flagged(flags), n)
         /\ Kept(flags) \in Seq(1..n)
         /\ Len(Kept(flags)) = n - Cardinality(Flagged(flags))
  <1>. DEFINE F == Flagged(flags)
              K == 1..n \ F
  <1>1. {i \in DOMAIN flags : ~flags[i]} = K
    BY DEF Flagged
  <1>2. Kept(flags) = KeptOf(K, n)
    <2>. HIDE DEF K
    <2>. QED  BY <1>1, Zenon DEF Kept
  <1>3. F \in SUBSET (1..n) /\ IsFiniteSet(F)
    BY FlaggedIs
  <1>4. IsFiniteSet(1..n) /\ Cardinality(1..n) = n
    BY FS_Interval
  <1>. HIDE DEF F
  <1>5. Cardinality(K) = n - Cardinality(F)
    <2>1. Cardinality(1..n \ F) = Cardinality(1..n) - Cardinality((1..n) \cap F)
      BY <1>4, FS_Difference, Zenon
    <2>2. (1..n) \cap F = F
      BY <1>3, Zenon
    <2>. QED  BY <1>4, <2>1, <2>2, Zenon
  <1>6. KeptOf(K, n) \in Seq(1..n) /\ Len(KeptOf(K, n)) = Cardinality(K \cap (1..n))
    <2>1. n \in 0..n
      OBVIOUS
    <2>2. KeptUpto(K, n)[n] \in Seq(1..n)
      BY <2>1, KeptUptoType
    <2>3. Len(KeptUpto(K, n)[n]) = Cardinality(K \cap (1..n))
      BY <2>1, KeptUptoLen
    <2>. QED  BY <2>2, <2>3 DEF KeptOf
  <1>7. K \cap (1..n) = K
    OBVIOUS
  <1>. QED  BY <1>2, <1>5, <1>6, <1>7, Zenon DEF F

-----------------------------------------------------------------------------
(* Tables and their rows.                                                  *)

\* The columns of n rows of a schema.
HasColumns(schema, columns, n) ==
  /\ DOMAIN columns = Positions(schema)
  /\ \A c \in Positions(schema) : HasShape(schema.columns[c], columns[c], n)

\* No extra field has a column's name.
FieldsApart(schema, X, n) ==
  \A i \in 1..n : \A name \in DOMAIN FieldsOf(X, i) : ColumnIndex(schema, name) = NULL

\* A table that calls have made: its vectors are aligned, and its rows are legal.
IsTable(T) ==
  /\ DOMAIN T = TableFields
  /\ T.schema \in Schemas
  /\ T.rowCount \in Nat
  /\ HasColumns(T.schema, T.columns, T.rowCount)
  /\ HasExtras(T.extras, T.rowCount) /\ (T.extras = NULL <=> ~T.schema.open)
  /\ FieldsApart(T.schema, T.extras, T.rowCount)
  /\ FlagsOk(T.flags, T.count, T.rowCount)

\* The columns of a schema.
LEMMA SchemaIs ==
  ASSUME NEW s \in Schemas
  PROVE  /\ s.columns \in Seq(ColumnSpec) /\ Width(s) \in Nat /\ Positions(s) = DOMAIN s.columns
         /\ Positions(s) = 1..Width(s)
         /\ \A c \in Positions(s) : IsSpec(s.columns[c])
  <1>1. s.columns \in Seq(ColumnSpec)
    BY SchemasAssumption
  <1>2. Width(s) \in Nat /\ Positions(s) = DOMAIN s.columns /\ Positions(s) = 1..Width(s)
    BY <1>1 DEF Width, Positions
  <1>3. ASSUME NEW c \in Positions(s)  PROVE IsSpec(s.columns[c])
    <2>. DEFINE columns == s.columns
    <2>0. columns \in Seq(ColumnSpec) /\ c \in 1..Len(columns)
      BY <1>1, <1>2 DEF Width
    <2>. HIDE DEF columns
    <2>1. columns[c] \in ColumnSpec
      BY <2>0
    <2>. USE DEF columns
    <2>2. s.columns[c].type # "string" => s.columns[c].fits = Values
      BY <1>2, SchemasAssumption, Zenon
    <2>. QED  BY <2>1, <2>2 DEF IsSpec
  <1>. QED  BY <1>1, <1>2, <1>3

\* What the conjuncts of IsTable say of single cells.
LEMMA TableHolds ==
  ASSUME NEW T, IsTable(T)
  PROVE  /\ \A c \in Positions(T.schema) : \A i \in 1..T.rowCount :
              /\ Cell(T, i, c) \in Slots
              /\ Accepts(T.schema.columns[c], Cell(T, i, c))
         /\ \A c \in Positions(T.schema) :
              /\ Length(T.columns[c]) = T.rowCount
              /\ \A x \in VectorsOf(T.columns[c]) : Len(T.columns[c][x]) = T.rowCount
  <1>1. T.schema \in Schemas /\ T.rowCount \in Nat
    BY DEF IsTable
  <1>2. ASSUME NEW c \in Positions(T.schema)
        PROVE  /\ Length(T.columns[c]) = T.rowCount
               /\ \A x \in VectorsOf(T.columns[c]) : Len(T.columns[c][x]) = T.rowCount
               /\ \A i \in 1..T.rowCount : /\ GetCell(T.columns[c], i) \in Slots
                                           /\ Accepts(T.schema.columns[c], GetCell(T.columns[c], i))
    <2>1. IsSpec(T.schema.columns[c])
      BY <1>1, SchemaIs
    <2>2. HasShape(T.schema.columns[c], T.columns[c], T.rowCount)
      BY DEF IsTable, HasColumns
    <2>. QED  BY <1>1, <2>1, <2>2, ShapeHolds
  <1>. QED  BY <1>2 DEF Cell

\* Row i of a table, as RowsOf has it.
RowAt(T, i) ==
  [cells |-> [c \in DOMAIN T.columns |-> Cell(T, i, c)],
   extra |-> FieldsOf(T.extras, i),
   dead |-> IsTombstoned(T, i)]

\* Row i of R is row j of T.
SameRow(R, i, T, j) ==
  /\ \A c \in DOMAIN T.columns : Cell(R, i, c) = Cell(T, j, c)
  /\ FieldsOf(R.extras, i) = FieldsOf(T.extras, j)
  /\ i \in Flagged(R.flags) <=> j \in Flagged(T.flags)

\* is_tombstoned looks up the flag if there is one.
LEMMA DeadIs ==
  ASSUME NEW T, T.flags \in Seq(BOOLEAN), NEW i \in Nat \ {0}
  PROVE  IsTombstoned(T, i) \in BOOLEAN /\ (IsTombstoned(T, i) <=> i \in Flagged(T.flags))
  <1>. DEFINE s == T.flags
  <1>1. (i <= Len(s) /\ s[i]) <=> i \in Flagged(s)
    BY DEF Flagged
  <1>2. IsTombstoned(T, i) \in BOOLEAN /\ (IsTombstoned(T, i) <=> (i <= Len(s) /\ s[i]))
    BY Zenon DEF IsTombstoned
  <1>. QED  BY ONLY <1>1, <1>2, Zenon

\* The same cells, fields and mark make the same row.
LEMMA SameRowIs ==
  ASSUME NEW T, NEW R, T.flags \in Seq(BOOLEAN), R.flags \in Seq(BOOLEAN),
         DOMAIN R.columns = DOMAIN T.columns,
         NEW i \in Nat \ {0}, NEW j \in Nat \ {0}, SameRow(R, i, T, j)
  PROVE  RowAt(R, i) = RowAt(T, j)
  <1>1. /\ IsTombstoned(R, i) \in BOOLEAN /\ (IsTombstoned(R, i) <=> i \in Flagged(R.flags))
        /\ IsTombstoned(T, j) \in BOOLEAN /\ (IsTombstoned(T, j) <=> j \in Flagged(T.flags))
    BY DeadIs
  <1>2. i \in Flagged(R.flags) <=> j \in Flagged(T.flags)
    BY DEF SameRow
  <1>3. IsTombstoned(R, i) = IsTombstoned(T, j)
    <2>1. CASE j \in Flagged(T.flags)
      <3>1. IsTombstoned(R, i) = TRUE
        BY ONLY <1>1, <1>2, <2>1, Zenon
      <3>2. IsTombstoned(T, j) = TRUE
        BY ONLY <1>1, <2>1, Zenon
      <3>. QED  BY ONLY <3>1, <3>2, Zenon
    <2>2. CASE j \notin Flagged(T.flags)
      <3>1. IsTombstoned(R, i) = FALSE
        BY ONLY <1>1, <1>2, <2>2, Zenon
      <3>2. IsTombstoned(T, j) = FALSE
        BY ONLY <1>1, <2>2, Zenon
      <3>. QED  BY ONLY <3>1, <3>2, Zenon
    <2>. QED  BY <2>1, <2>2
  <1>4. FieldsOf(R.extras, i) = FieldsOf(T.extras, j)
    BY DEF SameRow
  <1>5. [c \in DOMAIN R.columns |-> Cell(R, i, c)] = [c \in DOMAIN T.columns |-> Cell(T, j, c)]
    BY DEF SameRow
  <1>. QED  BY <1>3, <1>4, <1>5, Zenon DEF RowAt

\* The rows of a table, one at a time.
LEMMA RowsIs ==
  ASSUME NEW T, T.rowCount \in Nat
  PROVE  /\ RowsOf(T) = [i \in 1..T.rowCount |-> RowAt(T, i)]
         /\ DOMAIN RowsOf(T) = 1..T.rowCount /\ Len(RowsOf(T)) = T.rowCount
         /\ \A i \in 1..T.rowCount : RowsOf(T)[i] = RowAt(T, i)
  <1>1. RowsOf(T) = [i \in 1..T.rowCount |-> RowAt(T, i)]
    BY Zenon DEF RowsOf, RowAt
  <1>. QED  BY <1>1

\* The rows of R are those of T at the positions p.
LEMMA GatherOk ==
  ASSUME NEW T, IsTable(T), NEW p \in Seq(1..T.rowCount),
         NEW R, DOMAIN R = TableFields, R.schema = T.schema, R.rowCount = Len(p),
         R.columns = [c \in DOMAIN T.columns |-> CopyCells(T.columns[c], p)],
         R.extras = CopyExtras(T.extras, p),
         FlagsOk(R.flags, R.count, Len(p)),
         Flagged(R.flags) = {j \in 1..Len(p) : p[j] \in Flagged(T.flags)}
  PROVE  IsTable(R) /\ RowsOf(R) = [j \in DOMAIN p |-> RowsOf(T)[p[j]]]
  <1>. DEFINE n == T.rowCount
              m == Len(p)
              schema == T.schema
  <1>1. /\ n \in Nat /\ m \in Nat /\ DOMAIN p = 1..m /\ schema \in Schemas
        /\ \A j \in 1..m : p[j] \in 1..n
    BY DEF IsTable
  <1>2. /\ DOMAIN T.columns = Positions(schema)
        /\ \A c \in Positions(schema) :
             IsSpec(schema.columns[c]) /\ HasShape(schema.columns[c], T.columns[c], n)
    BY <1>1, SchemaIs DEF IsTable, HasColumns
  <1>3. /\ DOMAIN R.columns = Positions(schema)
        /\ \A c \in Positions(schema) : R.columns[c] = CopyCells(T.columns[c], p)
    BY <1>2
  <1>4. /\ HasExtras(T.extras, n) /\ (T.extras = NULL <=> ~schema.open)
        /\ FieldsApart(schema, T.extras, n)
        /\ T.flags \in Seq(BOOLEAN) /\ R.flags \in Seq(BOOLEAN)
    BY DEF IsTable, FlagsOk
  <1>. HIDE DEF n, m, schema
  <1>5. ASSUME NEW c \in Positions(schema)
        PROVE  /\ HasShape(schema.columns[c], R.columns[c], m)
               /\ \A j \in 1..m : Cell(R, j, c) = Cell(T, p[j], c)
    <2>1. /\ HasShape(schema.columns[c], CopyCells(T.columns[c], p), Len(p))
          /\ \A j \in 1..Len(p) : GetCell(CopyCells(T.columns[c], p), j) = GetCell(T.columns[c], p[j])
      BY <1>1, <1>2, CopyShape DEF n
    <2>. QED  BY <1>3, <2>1 DEF Cell, m
  <1>6. /\ HasExtras(R.extras, m) /\ (R.extras = NULL <=> ~schema.open)
        /\ \A j \in 1..m : FieldsOf(R.extras, j) = FieldsOf(T.extras, p[j])
    <2>1. /\ HasExtras(CopyExtras(T.extras, p), Len(p))
          /\ (CopyExtras(T.extras, p) = NULL <=> T.extras = NULL)
          /\ \A j \in 1..Len(p) : FieldsOf(CopyExtras(T.extras, p), j) = FieldsOf(T.extras, p[j])
      BY <1>1, <1>4, CopyExtrasOk DEF n
    <2>. QED  BY <1>4, <2>1 DEF m
  <1>7. FieldsApart(schema, R.extras, m)
    BY <1>1, <1>4, <1>6 DEF FieldsApart
  <1>8. HasColumns(schema, R.columns, m)
    BY <1>3, <1>5, Zenon DEF HasColumns
  <1>9. IsTable(R)
    BY <1>1, <1>6, <1>7, <1>8 DEF IsTable, m, schema
  <1>10. ASSUME NEW j \in 1..m  PROVE RowAt(R, j) = RowAt(T, p[j])
    <2>1. SameRow(R, j, T, p[j])
      <3>1. j \in Flagged(R.flags) <=> p[j] \in Flagged(T.flags)
        BY DEF m
      <3>. QED  BY <1>2, <1>5, <1>6, <3>1 DEF SameRow
    <2>2. j \in Nat \ {0} /\ p[j] \in Nat \ {0} /\ DOMAIN R.columns = DOMAIN T.columns
      BY <1>1, <1>2, <1>3
    <2>3. T.flags \in Seq(BOOLEAN) /\ R.flags \in Seq(BOOLEAN)
      BY <1>4
    <2>. DEFINE k == p[j]
    <2>. HIDE DEF k
    <2>4. k \in Nat \ {0} /\ SameRow(R, j, T, k)
      BY <2>1, <2>2 DEF k
    <2>5. RowAt(R, j) = RowAt(T, k)
      BY ONLY <2>2, <2>3, <2>4, SameRowIs, Zenon
    <2>. QED  BY <2>5 DEF k
  <1>11. RowsOf(R) = [j \in 1..m |-> RowsOf(T)[p[j]]]
    <2>1. RowsOf(R) = [j \in 1..m |-> RowAt(R, j)]
      BY <1>1, RowsIs DEF m
    <2>2. \A j \in 1..m : RowsOf(T)[p[j]] = RowAt(T, p[j])
      BY <1>1, RowsIs DEF n
    <2>. QED  BY <1>10, <2>1, <2>2
  <1>. QED  BY <1>1, <1>9, <1>11

\* A new table is empty.
LEMMA NewTableOk ==
  ASSUME NEW schema \in Schemas
  PROVE  /\ IsTable(NewTable(schema)) /\ NewTable(schema).schema = schema
         /\ RowsOf(NewTable(schema)) = <<>>
  <1>. DEFINE T == NewTable(schema)
              open == schema.open
  <1>1. /\ DOMAIN T = TableFields /\ T.schema = schema /\ T.rowCount = 0
        /\ T.columns = [c \in Positions(schema) |-> ForSpec(schema.columns[c])]
        /\ T.extras = NewExtras(open) /\ T.flags = <<>> /\ T.count = 0
    BY DEF NewTable, TableFields
  <1>. HIDE DEF T
  <1>2. HasColumns(schema, T.columns, 0)
    <2>1. \A c \in Positions(schema) : HasShape(schema.columns[c], ForSpec(schema.columns[c]), 0)
      BY SchemaIs, NewShape
    <2>. QED  BY <1>1, <2>1 DEF HasColumns
  <1>3. HasExtras(T.extras, 0) /\ (T.extras = NULL <=> ~open)
    <2>1. open \in BOOLEAN
      BY SchemasAssumption
    <2>2. HasExtras(NewExtras(open), 0) /\ (NewExtras(open) = NULL <=> ~open)
      BY <2>1, NewExtrasOk, Zenon
    <2>3. T.extras = NewExtras(open)
      BY <1>1
    <2>. QED  BY ONLY <2>2, <2>3, Zenon
  <1>4. FieldsApart(schema, T.extras, 0)
    BY DEF FieldsApart
  <1>5. FlagsOk(T.flags, T.count, 0)
    <2>1. <<>> \in Seq(BOOLEAN) /\ Len(<<>>) \in Nat
      OBVIOUS
    <2>2. Cardinality(Flagged(<<>>)) = 0
      BY <2>1, FlaggedIs, Zenon
    <2>. QED  BY <1>1, <2>1, <2>2 DEF FlagsOk
  <1>6. IsTable(T)
    BY <1>1, <1>2, <1>3, <1>4, <1>5 DEF IsTable
  <1>7. RowsOf(T) = <<>>
    <2>1. RowsOf(T) = [i \in 1..0 |-> RowAt(T, i)]
      BY <1>1, RowsIs
    <2>. QED  BY <2>1
  <1>. QED  BY <1>1, <1>6, <1>7 DEF T

\* Popping a column keeps all rows but the last.
LEMMA PopIs ==
  ASSUME NEW spec, NEW C, NEW n \in Nat, n > 0, IsSpec(spec), HasShape(spec, C, n)
  PROVE  PopCell(C) = CopyCells(C, FirstRows(n))
  <1>1. Length(C) = n
    BY ShapeHolds
  <1>2. FirstRows(n) \in Seq(1..n) /\ Len(FirstRows(n)) = n - 1
    BY FirstRowsType
  <1>3. CASE C.kind = "length"
    BY <1>1, <1>2, <1>3 DEF PopCell, CopyCells, Length
  <1>4. CASE C.kind # "length"
    BY <1>1, <1>4 DEF PopCell, CopyCells, FirstRows
  <1>. QED  BY <1>3, <1>4

\* pop_row takes the last row out of every vector.
LEMMA PoppedOk ==
  ASSUME NEW T, IsTable(T), T.rowCount # 0
  PROVE  /\ IsTable(Popped(T)) /\ Popped(T).schema = T.schema
         /\ RowsOf(Popped(T)) = SubSeq(RowsOf(T), 1, Len(RowsOf(T)) - 1)
  <1>. DEFINE n == T.rowCount
              p == FirstRows(n)
              columns == [c \in DOMAIN T.columns |-> PopCell(T.columns[c])]
              U == [T EXCEPT !.columns = columns, !.extras = PopExtras(@), !.rowCount = @ - 1]
              R == Popped(T)
  <1>1. n \in Nat /\ n > 0 /\ T.schema \in Schemas
    BY DEF IsTable
  <1>2. p \in Seq(1..n) /\ Len(p) = n - 1 /\ \A i \in 1..(n - 1) : p[i] = i
    BY <1>1, FirstRowsType, Zenon
  <1>3. columns = [c \in DOMAIN T.columns |-> CopyCells(T.columns[c], p)]
    <2>1. \A c \in DOMAIN T.columns : PopCell(T.columns[c]) = CopyCells(T.columns[c], p)
      <3>. TAKE c \in DOMAIN T.columns
      <3>1. IsSpec(T.schema.columns[c]) /\ HasShape(T.schema.columns[c], T.columns[c], n)
        BY <1>1, SchemaIs DEF IsTable, HasColumns
      <3>. QED  BY <1>1, <3>1, PopIs
    <2>. QED  BY <2>1
  <1>4. PopExtras(T.extras) = CopyExtras(T.extras, p)
    BY <1>1, PopExtrasOk DEF IsTable
  <1>5. R = PopFlag(U)
    BY DEF Popped
  <1>. HIDE DEF columns
  <1>6. /\ DOMAIN U = TableFields /\ U.schema = T.schema /\ U.columns = columns
        /\ U.extras = PopExtras(T.extras) /\ U.rowCount = n - 1
        /\ U.flags = T.flags /\ U.count = T.count
    BY DEF IsTable, TableFields
  <1>7. FlagsOk(T.flags, T.count, n)
    BY DEF IsTable
  <1>. HIDE DEF n, p, U, R
  <1>8. /\ SameButFlags(R, U) /\ FlagsOk(R.flags, R.count, n - 1)
        /\ Flagged(R.flags) = Flagged(T.flags) \ {n}
    BY <1>1, <1>5, <1>6, <1>7, PopFlagOk
  <1>9. Flagged(R.flags) = {j \in 1..Len(p) : p[j] \in Flagged(T.flags)}
    <2>1. Flagged(T.flags) \in SUBSET (1..n)
      <3>1. T.flags = <<>> \/ Len(T.flags) = n
        BY <1>7 DEF FlagsOk
      <3>. QED  BY <3>1 DEF Flagged
    <2>. QED  BY <1>1, <1>2, <1>8, <2>1
  <1>10. IsTable(R) /\ RowsOf(R) = [j \in DOMAIN p |-> RowsOf(T)[p[j]]]
    <2>1. /\ DOMAIN R = TableFields /\ R.schema = T.schema /\ R.rowCount = Len(p)
          /\ R.columns = [c \in DOMAIN T.columns |-> CopyCells(T.columns[c], p)]
          /\ R.extras = CopyExtras(T.extras, p)
      BY <1>2, <1>3, <1>4, <1>6, <1>8 DEF SameButFlags
    <2>2. p \in Seq(1..T.rowCount) /\ FlagsOk(R.flags, R.count, Len(p))
      BY <1>2, <1>8 DEF n
    <2>. QED  BY <1>9, <2>1, <2>2, GatherOk
  <1>11. SubSeq(RowsOf(T), 1, Len(RowsOf(T)) - 1) = [j \in DOMAIN p |-> RowsOf(T)[p[j]]]
    <2>. DEFINE rows == RowsOf(T)
    <2>1. DOMAIN rows = 1..n /\ Len(rows) = n /\ rows = [i \in 1..n |-> RowAt(T, i)]
      BY <1>1, RowsIs DEF n
    <2>. HIDE DEF rows
    <2>2. DOMAIN p = 1..(n - 1)
      BY <1>2
    <2>3. SubSeq(rows, 1, n - 1) = [j \in 1..(n - 1) |-> rows[j]]
      BY <1>1, <2>1
    <2>. QED  BY <1>2, <2>1, <2>2, <2>3 DEF rows
  <1>12. R.schema = T.schema
    BY <1>6, <1>8 DEF SameButFlags
  <1>. QED  BY <1>10, <1>11, <1>12 DEF R

\* copy_rows takes whole rows.
LEMMA CopiedOk ==
  ASSUME NEW T, IsTable(T), NEW p \in Seq(1..T.rowCount)
  PROVE  /\ IsTable(Copied(T, p)) /\ Copied(T, p).schema = T.schema
         /\ RowsOf(Copied(T, p)) = [j \in DOMAIN p |-> RowsOf(T)[p[j]]]
  <1>. DEFINE n == T.rowCount
              columns == [c \in DOMAIN T.columns |-> CopyCells(T.columns[c], p)]
              U == [T EXCEPT !.columns = columns, !.extras = CopyExtras(@, p), !.rowCount = Len(p)]
              flags == CopiedFlags(T, p)
              count == Cardinality({j \in DOMAIN flags : flags[j]})
              R == Copied(T, p)
  <1>1. R = WithFlags(U, flags, count)
    BY DEF Copied
  <1>. HIDE DEF columns
  <1>2. /\ DOMAIN U = TableFields /\ U.schema = T.schema /\ U.columns = columns
        /\ U.extras = CopyExtras(T.extras, p) /\ U.rowCount = Len(p)
    BY DEF IsTable, TableFields
  <1>3. n \in Nat /\ FlagsOk(T.flags, T.count, n) /\ p \in Seq(1..n)
    BY DEF IsTable
  <1>. HIDE DEF n, U, R
  <1>4. /\ SameButFlags(R, U) /\ FlagsOk(R.flags, R.count, Len(p))
        /\ Flagged(R.flags) = {j \in 1..Len(p) : p[j] \in Flagged(T.flags)}
    <2>. HIDE DEF flags
    <2>1. flags = CopiedFlags(T, p)
      BY DEF flags
    <2>. DEFINE k == Cardinality(Flagged(flags))
    <2>2. k = Cardinality(Flagged(flags))
      OBVIOUS
    <2>. HIDE DEF k
    <2>3. /\ {j \in DOMAIN flags : flags[j]} = Flagged(flags)
          /\ LET Q == WithFlags(U, flags, k) IN
             /\ SameButFlags(Q, U) /\ FlagsOk(Q.flags, Q.count, Len(p))
             /\ Flagged(Q.flags) = {j \in 1..Len(p) : p[j] \in Flagged(T.flags)}
      BY ONLY <1>2, <1>3, <2>1, <2>2, CopiedFlagsOk
    <2>4. count = k
      BY <2>3, Zenon DEF k
    <2>. HIDE DEF count
    <2>. QED  BY <1>1, <2>3, <2>4
  <1>5. /\ DOMAIN R = TableFields /\ R.schema = T.schema /\ R.rowCount = Len(p)
        /\ R.columns = [c \in DOMAIN T.columns |-> CopyCells(T.columns[c], p)]
        /\ R.extras = CopyExtras(T.extras, p)
    BY <1>2, <1>4 DEF SameButFlags, columns
  <1>6. IsTable(R) /\ RowsOf(R) = [j \in DOMAIN p |-> RowsOf(T)[p[j]]]
    BY <1>4, <1>5, GatherOk
  <1>. QED  BY <1>5, <1>6 DEF R

\* The parts of a row.
LEMMA RowAtIs ==
  ASSUME NEW T, NEW i \in Nat \ {0}, T.flags \in Seq(BOOLEAN)
  PROVE  /\ DOMAIN RowAt(T, i) = {"cells", "extra", "dead"}
         /\ RowAt(T, i).cells = [c \in DOMAIN T.columns |-> Cell(T, i, c)]
         /\ RowAt(T, i).extra = FieldsOf(T.extras, i)
         /\ RowAt(T, i).dead \in BOOLEAN /\ (RowAt(T, i).dead <=> i \in Flagged(T.flags))
  <1>. DEFINE cells == [c \in DOMAIN T.columns |-> Cell(T, i, c)]
              extra == FieldsOf(T.extras, i)
              dead == IsTombstoned(T, i)
  <1>1. RowAt(T, i) = [cells |-> cells, extra |-> extra, dead |-> dead]
    BY Zenon DEF RowAt
  <1>2. dead \in BOOLEAN /\ (dead <=> i \in Flagged(T.flags))
    BY DeadIs
  <1>. HIDE DEF cells, extra, dead
  <1>3. /\ DOMAIN RowAt(T, i) = {"cells", "extra", "dead"}
        /\ RowAt(T, i).cells = cells /\ RowAt(T, i).extra = extra /\ RowAt(T, i).dead = dead
    BY <1>1
  <1>4. RowAt(T, i).dead \in BOOLEAN /\ (RowAt(T, i).dead <=> i \in Flagged(T.flags))
    BY <1>2, <1>3, Zenon
  <1>. QED  BY <1>3, <1>4 DEF cells, extra

\* compact takes the marked rows out of every vector, and keeps the order of the others.
LEMMA CompactedOk ==
  ASSUME NEW T, IsTable(T)
  PROVE  LET kept == KeptOf({i \in DOMAIN RowsOf(T) : ~RowsOf(T)[i].dead}, Len(RowsOf(T))) IN
         /\ IsTable(Compacted(T)) /\ Compacted(T).schema = T.schema
         /\ RowsOf(Compacted(T)) = [j \in DOMAIN kept |-> RowsOf(T)[kept[j]]]
  <1>. DEFINE n == T.rowCount
              F == Flagged(T.flags)
              K == 1..n \ F
              p == KeptOf(K, n)
              R == Compacted(T)
              rows == RowsOf(T)
  <1>1. n \in Nat /\ T.schema \in Schemas /\ FlagsOk(T.flags, T.count, n)
    BY DEF IsTable
  <1>2. T.flags \in Seq(BOOLEAN) /\ T.count = Cardinality(F) /\ (T.count = 0 => T.flags = <<>>)
    BY <1>1 DEF FlagsOk
  <1>3. DOMAIN rows = 1..n /\ Len(rows) = n /\ \A i \in 1..n : rows[i] = RowAt(T, i)
    BY <1>1, RowsIs
  <1>. HIDE DEF n, F, rows
  <1>4. {i \in DOMAIN rows : ~rows[i].dead} = K
    <2>1. ASSUME NEW i \in 1..n  PROVE ~rows[i].dead <=> i \notin F
      <3>1. rows[i] = RowAt(T, i)
        BY <1>3
      <3>2. i \in Nat \ {0}
        BY <1>1
      <3>3. RowAt(T, i).dead <=> i \in F
        BY <1>2, <3>2, RowAtIs, Zenon DEF F
      <3>. QED  BY <3>1, <3>3, Zenon
    <2>. HIDE DEF K
    <2>2. \A i \in 1..n : i \in K <=> i \notin F
      BY DEF K
    <2>3. K \subseteq 1..n
      BY DEF K
    <2>. QED  BY <1>3, <2>1, <2>2, <2>3, Zenon
  <1>5. IsTable(R) /\ R.schema = T.schema /\ RowsOf(R) = [j \in DOMAIN p |-> rows[p[j]]]
    <2>1. CASE T.flags = <<>>
      <3>1. R = T
        BY <2>1 DEF Compacted
      <3>2. F = {}
        BY <2>1 DEF F, Flagged
      <3>3. K = 1..n
        BY <3>2
      <3>4. p = [j \in 1..n |-> j]
        BY <1>1, <3>3, KeptAll, Zenon
      <3>. HIDE DEF p
      <3>5. rows = [i \in 1..n |-> RowAt(T, i)]
        BY <1>1, RowsIs DEF n, rows
      <3>6. rows = [j \in DOMAIN p |-> rows[p[j]]]
        BY <3>4, <3>5
      <3>. QED  BY <3>1, <3>6 DEF rows
    <2>2. CASE T.flags # <<>>
      <3>1. Len(T.flags) = n
        BY <1>1, <2>2 DEF FlagsOk
      <3>2. Kept(T.flags) = p /\ p \in Seq(1..n) /\ Len(p) = n - T.count
        BY <1>1, <1>2, <3>1, KeptFlags DEF F
      <3>3. T.count \in Nat
        BY <1>1, <1>2, <3>1, FlaggedIs DEF F
      <3>4. \A j \in 1..Len(p) : p[j] \in K
        <4>1. n \in 0..n
          BY <1>1
        <4>. QED  BY <1>1, <4>1, KeptUptoType, Zenon DEF KeptOf
      <3>. HIDE DEF p
      <3>. DEFINE columns == [c \in DOMAIN T.columns |-> RetainRows(T.columns[c], T.flags, T.count)]
      <3>5. columns = [c \in DOMAIN T.columns |-> CopyCells(T.columns[c], p)]
        <4>1. ASSUME NEW c \in DOMAIN T.columns
              PROVE  RetainRows(T.columns[c], T.flags, T.count) = CopyCells(T.columns[c], p)
          <5>1. IsSpec(T.schema.columns[c]) /\ HasShape(T.schema.columns[c], T.columns[c], n)
            BY <1>1, SchemaIs DEF IsTable, HasColumns, n
          <5>. QED  BY <1>1, <3>2, <3>3, <5>1, RetainShape
        <4>. QED  BY <4>1
      <3>6. RetainExtras(T.extras, T.flags) = CopyExtras(T.extras, p)
        BY <3>2 DEF RetainExtras, CopyExtras, RetainLive
      <3>7. R = [T EXCEPT !.columns = columns, !.extras = RetainExtras(@, T.flags),
                          !.flags = <<>>, !.count = 0, !.rowCount = @ - T.count]
        BY <2>2 DEF Compacted
      <3>. HIDE DEF columns, R
      <3>8. /\ DOMAIN R = TableFields /\ R.schema = T.schema /\ R.rowCount = n - T.count
            /\ R.columns = columns /\ R.extras = RetainExtras(T.extras, T.flags)
            /\ R.flags = <<>> /\ R.count = 0
        BY <3>7 DEF IsTable, TableFields, n
      <3>9. FlagsOk(R.flags, R.count, Len(p)) /\ Flagged(R.flags) = {}
        <4>1. <<>> \in Seq(BOOLEAN) /\ Len(<<>>) \in Nat
          OBVIOUS
        <4>2. Cardinality(Flagged(<<>>)) = 0 /\ Flagged(<<>>) = {}
          BY <4>1, FlaggedIs, Zenon
        <4>. QED  BY <3>8, <4>1, <4>2 DEF FlagsOk
      <3>10. Flagged(R.flags) = {j \in 1..Len(p) : p[j] \in Flagged(T.flags)}
        BY <3>4, <3>9 DEF F
      <3>11. R.rowCount = Len(p)
        BY <3>2, <3>8
      <3>12. /\ R.columns = [c \in DOMAIN T.columns |-> CopyCells(T.columns[c], p)]
             /\ R.extras = CopyExtras(T.extras, p)
        BY <3>5, <3>6, <3>8
      <3>13. p \in Seq(1..T.rowCount)
        BY <3>2 DEF n
      <3>14. IsTable(R) /\ RowsOf(R) = [j \in DOMAIN p |-> RowsOf(T)[p[j]]]
        BY <3>8, <3>9, <3>10, <3>11, <3>12, <3>13, GatherOk
      <3>. QED  BY <3>8, <3>14 DEF rows
    <2>. QED  BY <2>1, <2>2, Zenon
  <1>. QED  BY <1>3, <1>4, <1>5, Zenon DEF rows

-----------------------------------------------------------------------------
(* One cell, one extra field, one mark.                                    *)

\* One cell of one column is changed.
LEMMA CellChangedOk ==
  ASSUME NEW T, IsTable(T), NEW c \in Positions(T.schema), NEW i \in 1..T.rowCount, NEW w, NEW D,
         HasShape(T.schema.columns[c], D, T.rowCount),
         \A j \in 1..T.rowCount : GetCell(D, j) = IF j = i THEN w ELSE GetCell(T.columns[c], j)
  PROVE  LET R == [T EXCEPT !.columns[c] = D] IN
         /\ IsTable(R) /\ R.schema = T.schema
         /\ RowsOf(R) = [RowsOf(T) EXCEPT ![i].cells[c] = w]
  <1>. DEFINE n == T.rowCount
              schema == T.schema
              columns == [T.columns EXCEPT ![c] = D]
              R == [T EXCEPT !.columns[c] = D]
  <1>1. n \in Nat /\ schema \in Schemas /\ DOMAIN T = TableFields
    BY DEF IsTable
  <1>2. /\ DOMAIN T.columns = Positions(schema)
        /\ \A d \in Positions(schema) : HasShape(schema.columns[d], T.columns[d], n)
    BY DEF IsTable, HasColumns
  <1>3. columns = [d \in Positions(schema) |-> IF d = c THEN D ELSE T.columns[d]]
    BY <1>2
  <1>4. /\ DOMAIN R = TableFields /\ R.schema = T.schema /\ R.columns = columns
        /\ R.extras = T.extras /\ R.flags = T.flags /\ R.count = T.count /\ R.rowCount = n
    BY <1>1 DEF TableFields
  <1>. HIDE DEF R, columns, n, schema
  <1>5. HasColumns(schema, columns, n)
    BY <1>2, <1>3 DEF HasColumns, n, schema
  <1>6. IsTable(R)
    BY <1>1, <1>4, <1>5 DEF IsTable, n, schema
  <1>7. ASSUME NEW j \in 1..n
        PROVE  RowAt(R, j) = [RowAt(T, j) EXCEPT !.cells = [d \in Positions(schema) |->
                                                   IF j = i /\ d = c THEN w ELSE Cell(T, j, d)]]
    <2>1. \A d \in Positions(schema) : Cell(R, j, d) = IF j = i /\ d = c THEN w ELSE Cell(T, j, d)
      BY <1>3, <1>4 DEF Cell, n
    <2>2. DOMAIN R.columns = Positions(schema)
      BY <1>3, <1>4
    <2>3. [d \in DOMAIN R.columns |-> Cell(R, j, d)]
            = [d \in Positions(schema) |-> IF j = i /\ d = c THEN w ELSE Cell(T, j, d)]
      BY <2>1, <2>2
    <2>4. FieldsOf(R.extras, j) = FieldsOf(T.extras, j)
      BY <1>4
    <2>5. IsTombstoned(R, j) = IsTombstoned(T, j)
      BY <1>4, Zenon DEF IsTombstoned
    <2>6. RowAt(R, j) = [cells |-> [d \in DOMAIN R.columns |-> Cell(R, j, d)],
                         extra |-> FieldsOf(T.extras, j), dead |-> IsTombstoned(T, j)]
      BY <2>4, <2>5, Zenon DEF RowAt
    <2>. DEFINE dead == IsTombstoned(T, j)
                old == [d \in DOMAIN T.columns |-> Cell(T, j, d)]
                new == [d \in Positions(schema) |-> IF j = i /\ d = c THEN w ELSE Cell(T, j, d)]
                extra == FieldsOf(T.extras, j)
    <2>7. RowAt(R, j) = [cells |-> new, extra |-> extra, dead |-> dead]
      BY <2>3, <2>6, Zenon
    <2>8. RowAt(T, j) = [cells |-> old, extra |-> extra, dead |-> dead]
      BY Zenon DEF RowAt
    <2>. HIDE DEF dead, old, new, extra
    <2>. QED  BY <2>7, <2>8 DEF new
  <1>8. RowsOf(R) = [RowsOf(T) EXCEPT ![i].cells[c] = w]
    <2>1. RowsOf(R) = [j \in 1..n |-> RowAt(R, j)] /\ RowsOf(T) = [j \in 1..n |-> RowAt(T, j)]
      BY <1>1, <1>4, RowsIs DEF n
    <2>2. \A j \in 1..n : RowAt(T, j).cells = [d \in Positions(schema) |-> Cell(T, j, d)]
      BY <1>2, Zenon DEF RowAt
    <2>3. RowAt(R, i) = [RowAt(T, i) EXCEPT !.cells[c] = w]
      <3>. DEFINE old == RowAt(T, i).cells
      <3>1. [d \in Positions(schema) |-> IF d = c THEN w ELSE Cell(T, i, d)] = [old EXCEPT ![c] = w]
        <4>1. old = [d \in Positions(schema) |-> Cell(T, i, d)]
          BY <2>2 DEF n
        <4>. HIDE DEF old
        <4>. QED  BY <4>1
      <3>2. RowAt(R, i) = [RowAt(T, i) EXCEPT !.cells = [d \in Positions(schema) |->
                                                   IF d = c THEN w ELSE Cell(T, i, d)]]
        <4>1. i \in 1..n
          BY DEF n
        <4>2. [d \in Positions(schema) |-> IF i = i /\ d = c THEN w ELSE Cell(T, i, d)]
                = [d \in Positions(schema) |-> IF d = c THEN w ELSE Cell(T, i, d)]
          OBVIOUS
        <4>. QED  BY <1>7, <4>1, <4>2
      <3>. QED  BY <3>1, <3>2
    <2>4. \A j \in 1..n : j # i => RowAt(R, j) = RowAt(T, j)
      <3>. TAKE j \in 1..n
      <3>1. HAVE j # i
      <3>2. [d \in Positions(schema) |-> IF j = i /\ d = c THEN w ELSE Cell(T, j, d)] = RowAt(T, j).cells
        BY <2>2, <3>1
      <3>3. RowAt(R, j) = [RowAt(T, j) EXCEPT !.cells = RowAt(T, j).cells]
        BY <1>7, <3>2
      <3>4. RowAt(T, j) = [RowAt(T, j) EXCEPT !.cells = RowAt(T, j).cells]
        BY DEF RowAt
      <3>. QED  BY <3>3, <3>4
    <2>. DEFINE rows == RowsOf(T)
    <2>5. rows = [j \in 1..n |-> RowAt(T, j)] /\ i \in 1..n
      BY <2>1 DEF n
    <2>. HIDE DEF rows
    <2>6. [rows EXCEPT ![i].cells[c] = w]
            = [j \in 1..n |-> IF j = i THEN [rows[i] EXCEPT !.cells[c] = w] ELSE rows[j]]
      BY <2>5, Zenon
    <2>7. rows[i] = RowAt(T, i) /\ \A j \in 1..n : rows[j] = RowAt(T, j)
      BY <2>5
    <2>8. RowsOf(R) = [j \in 1..n |-> IF j = i THEN [rows[i] EXCEPT !.cells[c] = w] ELSE rows[j]]
      BY <2>1, <2>3, <2>4, <2>7
    <2>. QED  BY <2>6, <2>8 DEF rows
  <1>. QED  BY <1>4, <1>6, <1>8 DEF R

\* Rows that differ in their extra fields or in their marks.
CellsAt(T, i) == [c \in DOMAIN T.columns |-> Cell(T, i, c)]

\* The mark of a row, as a value.
LEMMA MarkIs ==
  ASSUME NEW R, R.flags \in Seq(BOOLEAN), NEW i \in Nat \ {0}, NEW d \in BOOLEAN,
         i \in Flagged(R.flags) <=> d = TRUE
  PROVE  IsTombstoned(R, i) = d
  <1>1. IsTombstoned(R, i) \in BOOLEAN /\ (IsTombstoned(R, i) <=> i \in Flagged(R.flags))
    BY DeadIs
  <1>2. CASE i \in Flagged(R.flags)
    BY <1>1, <1>2, Zenon
  <1>3. CASE i \notin Flagged(R.flags)
    <2>1. d = FALSE
      BY <1>3, Zenon
    <2>2. IsTombstoned(R, i) = FALSE
      BY <1>1, <1>3, Zenon
    <2>. QED  BY <2>1, <2>2, Zenon
  <1>. QED  BY <1>2, <1>3

\* T with v in the field of a name of row i.
WithField(T, i, name, v) == [T EXCEPT !.extras = SetField(@, i, name, v)]

\* One extra field of one row is set.
LEMMA ExtraChangedOk ==
  ASSUME NEW T, IsTable(T), T.extras # NULL, NEW i \in 1..T.rowCount, NEW name \in Names, NEW v \in Slots,
         ColumnIndex(T.schema, name) = NULL
  PROVE  /\ IsTable(WithField(T, i, name, v)) /\ WithField(T, i, name, v).schema = T.schema
         /\ RowsOf(WithField(T, i, name, v)) = [RowsOf(T) EXCEPT ![i].extra = WithExtra(@, name, v)]
  <1>. DEFINE n == T.rowCount
              X == T.extras
              Y == SetField(X, i, name, v)
              R == WithField(T, i, name, v)
  <1>1. n \in Nat /\ X # NULL /\ HasExtras(X, n) /\ i \in 1..n /\ T.flags \in Seq(BOOLEAN)
    BY DEF IsTable, FlagsOk
  <1>2. /\ DOMAIN R = TableFields /\ R.schema = T.schema /\ R.columns = T.columns
        /\ R.extras = Y /\ R.flags = T.flags /\ R.count = T.count /\ R.rowCount = n
    BY DEF IsTable, TableFields, WithField
  <1>. HIDE DEF R, n, X, Y
  <1>3. /\ HasExtras(Y, n) /\ Y # NULL
        /\ FieldsOf(Y, i) = WithExtra(FieldsOf(X, i), name, v)
        /\ \A j \in 1..n : j # i => FieldsOf(Y, j) = FieldsOf(X, j)
    BY ONLY <1>1, name \in Names, v \in Slots, SetFieldOk DEF Y
  <1>4. FieldsApart(T.schema, Y, n)
    <2>1. FieldsApart(T.schema, X, n)
      BY DEF IsTable, X, n
    <2>2. DOMAIN WithExtra(FieldsOf(X, i), name, v) = DOMAIN FieldsOf(X, i) \cup {name}
      BY DEF WithExtra
    <2>. QED  BY <1>1, <1>3, <2>1, <2>2 DEF FieldsApart
  <1>5. IsTable(R)
    BY <1>2, <1>3, <1>4 DEF IsTable, n
  <1>6. ASSUME NEW j \in 1..n  PROVE RowAt(R, j) = [RowAt(T, j) EXCEPT !.extra = FieldsOf(Y, j)]
    <2>. DEFINE dead == IsTombstoned(T, j)
                was == FieldsOf(T.extras, j)
                extra == FieldsOf(Y, j)
                cells == CellsAt(T, j)
    <2>1. CellsAt(R, j) = cells
      BY <1>2 DEF CellsAt, Cell
    <2>2. IsTombstoned(R, j) = dead
      BY <1>2, Zenon DEF IsTombstoned
    <2>3. RowAt(R, j) = [cells |-> cells, extra |-> extra, dead |-> dead]
      <3>1. RowAt(R, j) = [cells |-> CellsAt(R, j), extra |-> FieldsOf(R.extras, j),
                           dead |-> IsTombstoned(R, j)]
        BY Zenon DEF RowAt, CellsAt
      <3>. QED  BY <1>2, <2>1, <2>2, <3>1, Zenon
    <2>4. RowAt(T, j) = [cells |-> cells, extra |-> was, dead |-> dead]
      BY Zenon DEF RowAt, CellsAt
    <2>. HIDE DEF dead, was, extra, cells
    <2>5. RowAt(R, j) = [RowAt(T, j) EXCEPT !.extra = extra]
      BY <2>3, <2>4
    <2>. QED  BY <2>5 DEF extra
  <1>7. \A j \in 1..n : RowAt(T, j) = [RowAt(T, j) EXCEPT !.extra = FieldsOf(X, j)]
    <2>1. ASSUME NEW j \in 1..n  PROVE RowAt(T, j).extra = FieldsOf(X, j)
      <3>1. j \in Nat \ {0}
        BY <1>1
      <3>. QED  BY ONLY <1>1, <3>1, RowAtIs, Zenon DEF X
    <2>2. \A j \in 1..n : RowAt(T, j) = [RowAt(T, j) EXCEPT !.extra = RowAt(T, j).extra]
      BY DEF RowAt
    <2>. QED  BY <2>1, <2>2
  <1>8. RowsOf(R) = [RowsOf(T) EXCEPT ![i].extra = WithExtra(@, name, v)]
    <2>. DEFINE rows == RowsOf(T)
                e == WithExtra(FieldsOf(X, i), name, v)
    <2>1. rows = [j \in 1..n |-> RowAt(T, j)] /\ RowsOf(R) = [j \in 1..n |-> RowAt(R, j)]
      BY <1>1, <1>2, RowsIs DEF n
    <2>. HIDE DEF rows
    <2>2. rows[i].extra = FieldsOf(X, i)
      <3>1. i \in Nat \ {0}
        BY <1>1
      <3>2. RowAt(T, i).extra = FieldsOf(X, i)
        BY ONLY <1>1, <3>1, RowAtIs, Zenon DEF X
      <3>. QED  BY <1>1, <2>1, <3>2
    <2>3. RowAt(R, i) = [rows[i] EXCEPT !.extra = e]
      BY <1>1, <1>3, <1>6, <2>1
    <2>4. \A j \in 1..n : j # i => RowAt(R, j) = rows[j]
      BY <1>3, <1>6, <1>7, <2>1
    <2>. HIDE DEF e
    <2>5. [rows EXCEPT ![i].extra = e]
            = [j \in 1..n |-> IF j = i THEN [rows[i] EXCEPT !.extra = e] ELSE rows[j]]
      BY <1>1, <2>1, Zenon
    <2>6. RowsOf(R) = [rows EXCEPT ![i].extra = e]
      <3>1. \A j \in 1..n : RowAt(R, j) = IF j = i THEN [rows[i] EXCEPT !.extra = e] ELSE rows[j]
        BY ONLY <2>3, <2>4
      <3>2. RowsOf(R) = [j \in 1..n |-> IF j = i THEN [rows[i] EXCEPT !.extra = e] ELSE rows[j]]
        BY ONLY <2>1, <3>1
      <3>. QED  BY ONLY <2>5, <3>2
    <2>7. [rows EXCEPT ![i].extra = WithExtra(@, name, v)] = [rows EXCEPT ![i].extra = e]
      BY <2>2 DEF e
    <2>. QED  BY <2>6, <2>7 DEF rows
  <1>. QED  BY <1>2, <1>5, <1>8 DEF R

\* Only the flags of a table change.
LEMMA FlagsChangedOk ==
  ASSUME NEW T, IsTable(T), NEW R, SameButFlags(R, T), FlagsOk(R.flags, R.count, T.rowCount)
  PROVE  /\ IsTable(R) /\ R.schema = T.schema
         /\ RowsOf(R) = [i \in 1..T.rowCount |->
                           [RowsOf(T)[i] EXCEPT !.dead = IsTombstoned(R, i)]]
  <1>. DEFINE n == T.rowCount
  <1>1. IsTable(R) /\ R.schema = T.schema
    BY DEF IsTable, SameButFlags
  <1>2. n \in Nat /\ R.rowCount = n /\ R.columns = T.columns /\ R.extras = T.extras
    BY DEF IsTable, SameButFlags, FlagsOk
  <1>. HIDE DEF n
  <1>3. /\ RowsOf(R) = [i \in 1..n |-> RowAt(R, i)]
        /\ \A i \in 1..n : RowsOf(T)[i] = RowAt(T, i)
    BY <1>2, RowsIs DEF n
  <1>4. ASSUME NEW i \in 1..n
        PROVE  RowAt(R, i) = [RowAt(T, i) EXCEPT !.dead = IsTombstoned(R, i)]
    <2>. DEFINE dead == IsTombstoned(T, i)
                now == IsTombstoned(R, i)
                extra == FieldsOf(T.extras, i)
                cells == CellsAt(T, i)
    <2>1. CellsAt(R, i) = cells
      BY <1>2 DEF CellsAt, Cell
    <2>2. RowAt(R, i) = [cells |-> cells, extra |-> extra, dead |-> now]
      <3>1. RowAt(R, i) = [cells |-> CellsAt(R, i), extra |-> FieldsOf(R.extras, i),
                           dead |-> IsTombstoned(R, i)]
        BY Zenon DEF RowAt, CellsAt
      <3>. QED  BY <1>2, <2>1, <3>1, Zenon
    <2>3. RowAt(T, i) = [cells |-> cells, extra |-> extra, dead |-> dead]
      BY Zenon DEF RowAt, CellsAt
    <2>. HIDE DEF dead, now, extra, cells
    <2>4. RowAt(R, i) = [RowAt(T, i) EXCEPT !.dead = now]
      BY <2>2, <2>3
    <2>. QED  BY <2>4 DEF now
  <1>5. RowsOf(R) = [i \in 1..n |-> [RowsOf(T)[i] EXCEPT !.dead = IsTombstoned(R, i)]]
    BY <1>3, <1>4
  <1>. QED  BY <1>1, <1>5 DEF n

\* One mark is set or cleared.
LEMMA MarkedOk ==
  ASSUME NEW T, IsTable(T), NEW i \in 1..T.rowCount, NEW d \in BOOLEAN
  PROVE  /\ IsTable(SetFlag(T, i, d)) /\ SetFlag(T, i, d).schema = T.schema
         /\ RowsOf(SetFlag(T, i, d)) = [RowsOf(T) EXCEPT ![i].dead = d]
  <1>. DEFINE n == T.rowCount
              R == SetFlag(T, i, d)
              rows == RowsOf(T)
  <1>1. n \in Nat /\ FlagsOk(T.flags, T.count, n) /\ DOMAIN T = TableFields
    BY DEF IsTable
  <1>2. /\ SameButFlags(R, T) /\ FlagsOk(R.flags, R.count, n)
        /\ i \in Flagged(R.flags) <=> d = TRUE
        /\ \A j \in 1..n : j # i => (j \in Flagged(R.flags) <=> j \in Flagged(T.flags))
    <2>1. CASE d
      <3>1. R = SetFlag(T, i, TRUE)
        <4>1. d = TRUE
          BY <2>1, Zenon
        <4>. QED  BY <4>1, Zenon
      <3>. HIDE DEF R
      <3>2. /\ SameButFlags(R, T) /\ FlagsOk(R.flags, R.count, n)
            /\ Flagged(R.flags) = Flagged(T.flags) \cup {i}
        <4>. DEFINE Q == SetFlag(T, i, TRUE)
        <4>1. /\ SameButFlags(Q, T) /\ FlagsOk(Q.flags, Q.count, n)
              /\ Flagged(Q.flags) = Flagged(T.flags) \cup {i}
          BY <1>1, MarkOk, Zenon
        <4>. HIDE DEF Q
        <4>2. R = Q
          BY <3>1, Zenon DEF Q
        <4>. QED  BY <4>1, <4>2
      <3>. QED  BY <2>1, <3>2
    <2>2. CASE ~d
      <3>1. R = SetFlag(T, i, FALSE)
        <4>1. d = FALSE
          BY <2>2, Zenon
        <4>. QED  BY <4>1, Zenon
      <3>. HIDE DEF R
      <3>2. /\ SameButFlags(R, T) /\ FlagsOk(R.flags, R.count, n)
            /\ Flagged(R.flags) = Flagged(T.flags) \ {i}
        <4>. DEFINE Q == SetFlag(T, i, FALSE)
        <4>1. /\ SameButFlags(Q, T) /\ FlagsOk(Q.flags, Q.count, n)
              /\ Flagged(Q.flags) = Flagged(T.flags) \ {i}
          BY <1>1, UnmarkOk, Zenon
        <4>. HIDE DEF Q
        <4>2. R = Q
          BY <3>1, Zenon DEF Q
        <4>. QED  BY <4>1, <4>2
      <3>. QED  BY <2>2, <3>2
    <2>. QED  BY <2>1, <2>2, Zenon
  <1>. HIDE DEF R
  <1>3. IsTable(R) /\ R.schema = T.schema
    BY <1>2, FlagsChangedOk
  <1>4. RowsOf(R) = [j \in 1..n |-> [rows[j] EXCEPT !.dead = IsTombstoned(R, j)]]
    BY <1>2, FlagsChangedOk
  <1>5. rows = [j \in 1..n |-> RowAt(T, j)]
    BY <1>1, RowsIs
  <1>6. R.flags \in Seq(BOOLEAN) /\ T.flags \in Seq(BOOLEAN) /\ i \in Nat \ {0}
    BY <1>1, <1>2 DEF FlagsOk
  <1>7. IsTombstoned(R, i) = d
    BY <1>2, <1>6, MarkIs, Zenon
  <1>8. ASSUME NEW j \in 1..n, j # i  PROVE [rows[j] EXCEPT !.dead = IsTombstoned(R, j)] = rows[j]
    <2>. DEFINE dead == IsTombstoned(T, j)
                cells == [c \in DOMAIN T.columns |-> Cell(T, j, c)]
                extra == FieldsOf(T.extras, j)
    <2>1. rows[j] = [cells |-> cells, extra |-> extra, dead |-> dead]
      <3>1. rows[j] = RowAt(T, j)
        BY <1>5
      <3>. QED  BY <3>1, Zenon DEF RowAt
    <2>2. j \in Nat \ {0}
      BY <1>1
    <2>3. dead \in BOOLEAN /\ (dead <=> j \in Flagged(T.flags))
      BY <1>6, <2>2, DeadIs
    <2>. HIDE DEF dead, cells, extra
    <2>4. j \in Flagged(R.flags) <=> dead = TRUE
      <3>1. j \in Flagged(R.flags) <=> j \in Flagged(T.flags)
        BY <1>2, <1>8
      <3>. QED  BY <2>3, <3>1, Zenon
    <2>5. IsTombstoned(R, j) = dead
      BY <1>6, <2>2, <2>3, <2>4, MarkIs, Zenon
    <2>. QED  BY <2>1, <2>5
  <1>. HIDE DEF rows, n
  <1>9. RowsOf(R) = [rows EXCEPT ![i].dead = d]
    <2>. DEFINE mark(j) == IsTombstoned(R, j)
    <2>. HIDE DEF mark
    <2>1. /\ RowsOf(R) = [j \in 1..n |-> [rows[j] EXCEPT !.dead = mark(j)]]
          /\ mark(i) = d
          /\ \A j \in 1..n : j # i => [rows[j] EXCEPT !.dead = mark(j)] = rows[j]
      BY <1>4, <1>7, <1>8 DEF mark
    <2>. QED  BY <1>5, <2>1
  <1>. QED  BY <1>3, <1>9 DEF R, rows

\* All marks are cleared.
LEMMA RestoredOk ==
  ASSUME NEW T, IsTable(T)
  PROVE  LET R == WithFlags(T, <<>>, 0) IN
         /\ IsTable(R) /\ R.schema = T.schema
         /\ RowsOf(R) = [i \in DOMAIN RowsOf(T) |-> [RowsOf(T)[i] EXCEPT !.dead = FALSE]]
  <1>. DEFINE R == WithFlags(T, <<>>, 0)
              none == <<>>
              n == T.rowCount
  <1>1. n \in Nat /\ DOMAIN T = TableFields
    BY DEF IsTable
  <1>2. R = WithFlags(T, none, 0) /\ none \in Seq(BOOLEAN) /\ Len(none) \in Nat
    OBVIOUS
  <1>3. Cardinality(Flagged(none)) = 0 /\ Flagged(none) = {}
    BY <1>2, FlaggedIs, Zenon
  <1>. HIDE DEF R
  <1>4. SameButFlags(R, T) /\ R.count = 0 /\ R.flags = none
    BY <1>1, <1>2, WithFlagsIs
  <1>5. FlagsOk(R.flags, R.count, n)
    BY <1>2, <1>3, <1>4, Zenon DEF FlagsOk
  <1>. DEFINE rows == RowsOf(T)
              live == FALSE
              new == RowsOf(R)
  <1>6. IsTable(R) /\ R.schema = T.schema
    BY <1>4, <1>5, FlagsChangedOk
  <1>7. new = [i \in 1..n |-> [rows[i] EXCEPT !.dead = IsTombstoned(R, i)]]
    BY <1>4, <1>5, FlagsChangedOk
  <1>8. DOMAIN rows = 1..n
    BY <1>1, RowsIs
  <1>9. ASSUME NEW i \in 1..n  PROVE IsTombstoned(R, i) = live
    <2>1. i \in Nat \ {0} /\ R.flags \in Seq(BOOLEAN)
      <3>1. i \in Nat \ {0}
        BY ONLY <1>1, i \in 1..n
      <3>2. R.flags = none
        BY <1>4
      <3>3. R.flags \in Seq(BOOLEAN)
        BY <1>2, <3>2, Zenon
      <3>. QED  BY <3>1, <3>3
    <2>2. i \in Flagged(R.flags) <=> live = TRUE
      <3>1. i \notin Flagged(R.flags)
        BY <1>3, <1>4
      <3>. QED  BY <3>1, Zenon
    <2>3. live \in BOOLEAN
      OBVIOUS
    <2>. HIDE DEF live
    <2>. QED  BY ONLY <2>1, <2>2, <2>3, MarkIs, Zenon
  <1>. HIDE DEF rows, live, new, n
  <1>10. new = [i \in DOMAIN rows |-> [rows[i] EXCEPT !.dead = live]]
    <2>. DEFINE mark(j) == IsTombstoned(R, j)
    <2>. HIDE DEF mark
    <2>1. /\ new = [i \in 1..n |-> [rows[i] EXCEPT !.dead = mark(i)]]
          /\ \A i \in 1..n : mark(i) = live
      BY <1>7, <1>9 DEF mark
    <2>. QED  BY <1>8, <2>1
  <1>. QED  BY <1>6, <1>10 DEF R, rows, live, new

-----------------------------------------------------------------------------
(* Rows are pushed and appended.                                           *)

\* A row is pushed to every vector.
LEMMA PushedOk ==
  ASSUME NEW T, IsTable(T), NEW values \in [Positions(T.schema) -> Slots],
         \A c \in Positions(T.schema) : Accepts(T.schema.columns[c], values[c]),
         NEW E, FieldsOk(E), T.extras = NULL => FieldMap(E) = NoExtras,
         \A name \in DOMAIN FieldMap(E) : ColumnIndex(T.schema, name) = NULL
  PROVE  /\ IsTable(Pushed(T, values, E)) /\ Pushed(T, values, E).schema = T.schema
         /\ RowsOf(Pushed(T, values, E)) =
              Append(RowsOf(T), [cells |-> values, extra |-> FieldMap(E), dead |-> FALSE])
  <1>. DEFINE n == T.rowCount
              schema == T.schema
              columns == [c \in DOMAIN T.columns |-> PushCell(T.columns[c], values[c])]
              X == T.extras
              Y == SetExtras(PushEmpty(X), n + 1, E)
              U == [T EXCEPT !.columns = columns, !.extras = SetExtras(PushEmpty(@), T.rowCount + 1, E),
                             !.rowCount = @ + 1]
              R == Pushed(T, values, E)
  <1>1. R = PushLive(U)
    BY DEF Pushed
  <1>. HIDE DEF columns
  <1>2. /\ DOMAIN U = TableFields /\ U.schema = schema /\ U.columns = columns
        /\ U.extras = Y /\ U.rowCount = n + 1 /\ U.flags = T.flags /\ U.count = T.count
    BY DEF IsTable, TableFields
  <1>3. /\ n \in Nat /\ schema \in Schemas /\ FlagsOk(T.flags, T.count, n)
        /\ HasExtras(X, n) /\ (X = NULL <=> ~schema.open) /\ FieldsApart(schema, X, n)
        /\ T.flags \in Seq(BOOLEAN)
    BY DEF IsTable, FlagsOk
  <1>4. /\ DOMAIN T.columns = Positions(schema)
        /\ \A c \in Positions(schema) : HasShape(schema.columns[c], T.columns[c], n)
    BY DEF IsTable, HasColumns
  <1>. HIDE DEF U, R
  <1>5. /\ SameButFlags(R, U) /\ FlagsOk(R.flags, R.count, n + 1)
        /\ Flagged(R.flags) = Flagged(T.flags)
    <2>1. LET Q == PushLive(U) IN
          /\ SameButFlags(Q, U) /\ FlagsOk(Q.flags, Q.count, n + 1)
          /\ Flagged(Q.flags) = Flagged(U.flags)
      BY ONLY <1>2, <1>3, PushLiveOk
    <2>. QED  BY <1>1, <1>2, <2>1
  <1>6. /\ DOMAIN R = TableFields /\ R.schema = schema /\ R.columns = columns
        /\ R.extras = Y /\ R.rowCount = n + 1
    BY <1>2, <1>5 DEF SameButFlags
  <1>. HIDE DEF n, schema, X
  <1>7. ASSUME NEW c \in Positions(schema)
        PROVE  /\ HasShape(schema.columns[c], columns[c], n + 1)
               /\ \A i \in 1..n : GetCell(columns[c], i) = GetCell(T.columns[c], i)
               /\ GetCell(columns[c], n + 1) = values[c]
    <2>1. columns[c] = PushCell(T.columns[c], values[c])
      BY <1>4 DEF columns
    <2>2. IsSpec(schema.columns[c]) /\ values[c] \in Slots /\ Accepts(schema.columns[c], values[c])
      BY <1>3, SchemaIs DEF schema
    <2>3. /\ HasShape(schema.columns[c], PushCell(T.columns[c], values[c]), n + 1)
          /\ \A i \in 1..n : GetCell(PushCell(T.columns[c], values[c]), i) = GetCell(T.columns[c], i)
          /\ GetCell(PushCell(T.columns[c], values[c]), n + 1) = values[c]
      BY <1>3, <1>4, <2>2, PushShape
    <2>. QED  BY <2>1, <2>3
  <1>8. DOMAIN columns = Positions(schema)
    BY <1>4 DEF columns
  <1>9. /\ HasExtras(Y, n + 1) /\ (Y = NULL <=> X = NULL)
        /\ \A i \in 1..n : FieldsOf(Y, i) = FieldsOf(X, i)
        /\ FieldsOf(Y, n + 1) = FieldMap(E)
    BY <1>3, PushExtrasOk DEF X
  <1>. HIDE DEF Y
  <1>10. FieldsApart(schema, Y, n + 1)
    <2>1. ASSUME NEW i \in 1..(n + 1), NEW name \in DOMAIN FieldsOf(Y, i)
          PROVE  ColumnIndex(schema, name) = NULL
      <3>1. CASE i = n + 1
        BY <1>9, <3>1 DEF schema
      <3>2. CASE i # n + 1
        <4>1. i \in 1..n
          BY <1>3, <3>2
        <4>. QED  BY <1>3, <1>9, <4>1 DEF FieldsApart
      <3>. QED  BY <3>1, <3>2
    <2>. QED  BY <2>1 DEF FieldsApart
  <1>11. IsTable(R)
    <2>1. HasColumns(schema, columns, n + 1)
      BY <1>7, <1>8 DEF HasColumns
    <2>2. n + 1 \in Nat
      BY <1>3
    <2>. QED  BY <1>3, <1>5, <1>6, <1>9, <1>10, <2>1, <2>2 DEF IsTable
  <1>12. R.flags \in Seq(BOOLEAN)
    BY <1>5 DEF FlagsOk
  <1>13. ASSUME NEW i \in 1..n  PROVE RowAt(R, i) = RowAt(T, i)
    <2>1. i \in Nat \ {0} /\ DOMAIN R.columns = DOMAIN T.columns
      BY <1>3, <1>4, <1>6, <1>8
    <2>2. SameRow(R, i, T, i)
      BY <1>4, <1>5, <1>6, <1>7, <1>9 DEF SameRow, Cell, X
    <2>. QED  BY ONLY <1>3, <1>12, <2>1, <2>2, SameRowIs, Zenon
  <1>. DEFINE row == [cells |-> values, extra |-> FieldMap(E), dead |-> FALSE]
  <1>14. RowAt(R, n + 1) = row
    <2>. DEFINE live == FALSE
                k == n + 1
    <2>1. CellsAt(R, k) = values
      BY <1>6, <1>7, <1>8 DEF CellsAt, Cell, schema
    <2>2. IsTombstoned(R, k) = live
      <3>1. k \in Nat \ {0}
        BY <1>3
      <3>2. k \notin Flagged(T.flags)
        <4>1. T.flags = <<>> \/ Len(T.flags) = n
          BY <1>3 DEF FlagsOk
        <4>. QED  BY <1>3, <4>1 DEF Flagged
      <3>. HIDE DEF k
      <3>3. k \in Flagged(R.flags) <=> live = TRUE
        BY <1>5, <3>2
      <3>4. live \in BOOLEAN
        OBVIOUS
      <3>. HIDE DEF live
      <3>. QED  BY ONLY <1>12, <3>1, <3>3, <3>4, MarkIs, Zenon
    <2>3. RowAt(R, k) = [cells |-> CellsAt(R, k), extra |-> FieldsOf(R.extras, k),
                         dead |-> IsTombstoned(R, k)]
      BY Zenon DEF RowAt, CellsAt
    <2>. QED  BY <1>6, <1>9, <2>1, <2>2, <2>3, Zenon
  <1>. HIDE DEF row
  <1>15. RowsOf(R) = Append(RowsOf(T), row)
    <2>. DEFINE rows == RowsOf(T)
    <2>1. rows = [i \in 1..n |-> RowAt(T, i)]
      BY <1>3, RowsIs DEF n
    <2>2. RowsOf(R) = [i \in 1..(n + 1) |-> RowAt(R, i)]
      BY <1>3, <1>6, RowsIs
    <2>. HIDE DEF rows
    <2>3. rows = [i \in 1..n |-> rows[i]]
      BY <2>1
    <2>4. Append(rows, row) = [i \in 1..(n + 1) |-> IF i = n + 1 THEN row ELSE rows[i]]
      BY ONLY <1>3, <2>3, AppendedList
    <2>5. \A i \in 1..(n + 1) : RowAt(R, i) = IF i = n + 1 THEN row ELSE rows[i]
      BY <1>3, <1>13, <1>14, <2>1
    <2>. QED  BY <2>2, <2>4, <2>5 DEF rows
  <1>. QED  BY <1>6, <1>11, <1>15 DEF R, row, schema

\* What prepare_cell lets through, the column accepts.
LEMMA PrepareIs ==
  ASSUME NEW spec, IsSpec(spec), NEW v \in Slots
  PROVE  /\ Prepare(spec, v) # ERR => Prepare(spec, v) \in Slots /\ Accepts(spec, Prepare(spec, v))
         /\ Accepts(spec, v) => Prepare(spec, v) = v
  <1>. DEFINE direct == v = NULL \/ TypeOf[v] = spec.type \/ spec.converter = NULL
              stored == IF direct THEN v ELSE spec.converter[v]
  <1>1. Prepare(spec, v) = IF stored # ERR /\ Accepts(spec, stored) THEN stored ELSE ERR
    BY DEF Prepare
  <1>2. stored \in Slots \cup {ERR}
    <2>1. CASE direct
      BY <2>1
    <2>2. CASE ~direct
      <3>1. v \in Values
        BY <2>2 DEF Slots
      <3>2. spec.converter \in [Values -> Values \cup {NULL, ERR}]
        BY <2>2 DEF IsSpec, ColumnSpec
      <3>3. spec.converter[v] \in Values \cup {NULL, ERR}
        BY <3>1, <3>2
      <3>. QED  BY <2>2, <3>3 DEF Slots
    <2>. QED  BY <2>1, <2>2
  <1>3. Accepts(spec, v) => stored = v
    BY DEF Accepts
  <1>4. v # ERR
    BY ValuesAssumption DEF Slots
  <1>. HIDE DEF stored, direct
  <1>. QED  BY <1>1, <1>2, <1>3, <1>4

\* Columns of the same layout have the same shapes.
LEMMA MatchingShapes ==
  ASSUME NEW origin, NEW spec, NEW C, NEW n \in Nat, LayoutsMatch(origin, spec), HasShape(origin, C, n)
  PROVE  HasShape(spec, C, n)
  <1>1. origin.type = spec.type /\ origin.nullable = spec.nullable /\ origin.fits = spec.fits
    BY DEF LayoutsMatch
  <1>2. IsSplit(origin) <=> IsSplit(spec)
    BY <1>1 DEF IsSplit
  <1>3. \A v : Accepts(origin, v) <=> Accepts(spec, v)
    BY <1>1 DEF Accepts
  <1>4. {v \in Slots : Accepts(origin, v)} = {v \in Slots : Accepts(spec, v)}
    BY <1>3
  <1>5. LengthColumn(origin, C, n) => LengthColumn(spec, C, n)
    BY <1>1 DEF LengthColumn
  <1>6. SplitColumn(origin, C, n) => SplitColumn(spec, C, n)
    BY <1>1, <1>2 DEF SplitColumn
  <1>7. CellColumn(origin, C, n) => CellColumn(spec, C, n)
    BY <1>1, <1>2, <1>4 DEF CellColumn
  <1>. QED  BY <1>5, <1>6, <1>7 DEF HasShape

\* What column d gets from row i of S.
GivenCell(S, from, i) == IF from = NULL THEN NULL ELSE Cell(S, i, from)

\* A staged column holds the rows of the origin, prepared.
LEMMA StagedColumnOk ==
  ASSUME NEW T, T.schema \in Schemas, NEW S, IsTable(S), NEW d \in Positions(T.schema),
         NEW from \in Positions(S.schema) \cup {NULL}, CanStage(T, S, d, from)
  PROVE  LET spec == T.schema.columns[d] IN
         /\ HasShape(spec, StagedColumn(T, S, d, from), S.rowCount)
         /\ \A i \in 1..S.rowCount :
              /\ GetCell(StagedColumn(T, S, d, from), i) = Prepare(spec, GivenCell(S, from, i))
              /\ Prepare(spec, GivenCell(S, from, i)) # ERR
  <1>. DEFINE spec == T.schema.columns[d]
              m == S.rowCount
              origin == S.schema.columns[from]
              given(i) == GivenCell(S, from, i)
              empty == [i \in 1..m |-> NULL]
              staged == [i \in 1..m |-> Prepare(spec, given(i))]
              D == StagedColumn(T, S, d, from)
  <1>1. IsSpec(spec) /\ m \in Nat
    BY SchemaIs DEF IsTable
  <1>2. ERR # NULL /\ NULL \in Slots /\ \A v \in Slots : v # ERR
    BY ValuesAssumption DEF Slots
  <1>3. CASE from = NULL
    <2>1. spec.nullable /\ D = Filled(spec, empty)
      BY <1>3 DEF CanStage, StagedColumn
    <2>. HIDE DEF spec, m, D
    <2>2. empty \in Seq(Slots) /\ m = Len(empty) /\ \A i \in 1..m : empty[i] = NULL
      <3>1. empty \in [1..m -> Slots]
        BY <1>2
      <3>. QED  BY <1>1, <3>1
    <2>3. Accepts(spec, NULL)
      BY <2>1 DEF Accepts
    <2>. HIDE DEF empty
    <2>4. HasShape(spec, D, m) /\ \A i \in 1..m : GetCell(D, i) = NULL
      <3>1. \A i \in 1..m : Accepts(spec, empty[i])
        BY <2>2, <2>3
      <3>2. /\ HasShape(spec, Filled(spec, empty), m)
            /\ \A i \in 1..m : GetCell(Filled(spec, empty), i) = empty[i]
        BY <1>1, <2>2, <3>1, FilledShape
      <3>. QED  BY <2>1, <2>2, <3>2
    <2>5. Prepare(spec, NULL) = NULL
      BY <1>1, <1>2, <2>3, PrepareIs
    <2>6. \A i \in 1..m : given(i) = NULL
      BY <1>3 DEF GivenCell
    <2>. QED  BY <1>2, <2>4, <2>5, <2>6 DEF D, spec, m
  <1>4. CASE from # NULL
    <2>1. /\ from \in Positions(S.schema)
          /\ \A i \in 1..m : given(i) = Cell(S, i, from)
      BY <1>4 DEF GivenCell
    <2>2. HasShape(origin, S.columns[from], m)
      BY <2>1 DEF IsTable, HasColumns
    <2>3. \A i \in 1..m : given(i) \in Slots /\ Accepts(origin, given(i))
      BY <2>1, TableHolds
    <2>4. CASE LayoutsMatch(origin, spec)
      <3>1. D = S.columns[from]
        BY <1>4, <2>4 DEF StagedColumn
      <3>. HIDE DEF spec, m, D, origin, given
      <3>2. HasShape(spec, D, m)
        BY <1>1, <2>2, <2>4, <3>1, MatchingShapes
      <3>3. ASSUME NEW i \in 1..m
            PROVE  GetCell(D, i) = Prepare(spec, given(i)) /\ Prepare(spec, given(i)) # ERR
        <4>. DEFINE v == given(i)
        <4>1. v \in Slots /\ GetCell(D, i) = v
          BY <2>1, <2>3, <3>1 DEF Cell
        <4>2. Accepts(spec, v)
          BY <1>1, <3>2, <4>1, ShapeHolds
        <4>. HIDE DEF v
        <4>3. Prepare(spec, v) = v
          BY <1>1, <4>1, <4>2, PrepareIs
        <4>. QED  BY <1>2, <4>1, <4>3 DEF v
      <3>. QED  BY <3>2, <3>3 DEF spec, m, D, given
    <2>5. CASE ~LayoutsMatch(origin, spec)
      <3>. DEFINE cells == [i \in 1..m |-> Prepare(spec, Cell(S, i, from))]
      <3>1. cells = staged
        BY <2>1
      <3>2. (\A i \in 1..m : cells[i] # ERR) /\ D = Filled(spec, cells)
        BY <1>4, <2>5 DEF CanStage, StagedColumn
      <3>. HIDE DEF spec, m, D, origin, given, cells
      <3>3. \A i \in 1..m : staged[i] # ERR
        BY <3>1, <3>2
      <3>4. ASSUME NEW i \in 1..m  PROVE staged[i] \in Slots /\ Accepts(spec, staged[i])
        <4>. DEFINE v == given(i)
        <4>1. v \in Slots /\ staged[i] = Prepare(spec, v) /\ staged[i] # ERR
          BY <2>3, <3>3
        <4>. HIDE DEF v, staged
        <4>. QED  BY <1>1, <4>1, PrepareIs
      <3>5. staged \in Seq(Slots) /\ m = Len(staged)
        <4>1. staged \in [1..m -> Slots]
          BY <3>4
        <4>. QED  BY <1>1, <4>1
      <3>6. \A i \in 1..m : staged[i] = Prepare(spec, given(i))
        OBVIOUS
      <3>. HIDE DEF staged
      <3>7. /\ HasShape(spec, Filled(spec, staged), m)
            /\ \A i \in 1..m : GetCell(Filled(spec, staged), i) = staged[i]
        BY <1>1, <3>4, <3>5, FilledShape
      <3>. QED  BY <3>1, <3>2, <3>3, <3>6, <3>7 DEF spec, m, D, given
    <2>. QED  BY <2>4, <2>5
  <1>. QED  BY <1>3, <1>4

\* A row of another table as it is in a table of a schema (TableRows!Moved).
MovedRow(schema, layout, row) ==
  [cells |-> [c \in Positions(schema) |->
                Prepare(schema.columns[c],
                        IF layout[c] = NULL THEN NULL ELSE row.cells[layout[c]])],
   extra |-> CollectExtras(schema, row.extra),
   dead |-> row.dead]

\* A row that came through MovedRow as a whole.
WholeRow(schema, row) ==
  row.extra # ERR /\ \A c \in Positions(schema) : row.cells[c] # ERR

\* append_mapped: the rows of S pass into T as if each had been prepared and pushed.
LEMMA AppendedOk ==
  ASSUME NEW T, IsTable(T), NEW S, IsTable(S),
         NEW layout \in [Positions(T.schema) -> Positions(S.schema) \cup {NULL}],
         CanAppendRows(T, S, layout)
  PROVE  /\ IsTable(Appended(T, S, layout)) /\ Appended(T, S, layout).schema = T.schema
         /\ RowsOf(Appended(T, S, layout)) =
              RowsOf(T) \o [i \in 1..S.rowCount |-> MovedRow(T.schema, layout, RowsOf(S)[i])]
         /\ \A i \in 1..S.rowCount :
              WholeRow(T.schema, MovedRow(T.schema, layout, RowsOf(S)[i]))
  <1>. DEFINE n == T.rowCount
              m == S.rowCount
              schema == T.schema
              Y == StagedExtras(T, S)
              U == AppendFlags(T, S)
              columns == [d \in DOMAIN U.columns |->
                            AppendCells(U.columns[d], StagedColumn(T, S, d, layout[d]))]
              R == Appended(T, S, layout)
  <1>1. /\ \A d \in Positions(schema) : CanStage(T, S, d, layout[d])
        /\ Y # ERR
        /\ R = [U EXCEPT !.columns = columns, !.extras = AppendExtras(@, Y), !.rowCount = @ + m]
    BY DEF CanAppendRows, Appended
  <1>. HIDE DEF columns
  <1>2. /\ n \in Nat /\ m \in Nat /\ schema \in Schemas /\ DOMAIN T = TableFields
        /\ FlagsOk(T.flags, T.count, n) /\ FlagsOk(S.flags, S.count, m)
        /\ T.flags \in Seq(BOOLEAN) /\ S.flags \in Seq(BOOLEAN)
        /\ HasExtras(T.extras, n) /\ HasExtras(S.extras, m)
        /\ FieldsApart(schema, T.extras, n)
        /\ (T.extras = NULL <=> ~schema.open)
    BY DEF IsTable, FlagsOk
  <1>3. /\ DOMAIN T.columns = Positions(schema)
        /\ \A c \in Positions(schema) :
             IsSpec(schema.columns[c]) /\ HasShape(schema.columns[c], T.columns[c], n)
    BY <1>2, SchemaIs DEF IsTable, HasColumns
  <1>. HIDE DEF U
  <1>4. /\ SameButFlags(U, T) /\ FlagsOk(U.flags, U.count, n + m)
        /\ Flagged(U.flags) = Flagged(T.flags) \cup Shifted(n, Flagged(S.flags))
    <2>1. n = T.rowCount /\ m = S.rowCount
      OBVIOUS
    <2>. HIDE DEF n, m
    <2>2. LET Q == AppendFlags(T, S) IN
          /\ SameButFlags(Q, T) /\ FlagsOk(Q.flags, Q.count, n + m)
          /\ Flagged(Q.flags) = Flagged(T.flags) \cup Shifted(n, Flagged(S.flags))
      BY ONLY <1>2, <2>1, AppendFlagsOk
    <2>. QED  BY <2>2 DEF U
  <1>5. /\ DOMAIN U = TableFields /\ U.schema = schema /\ U.columns = T.columns
        /\ U.extras = T.extras /\ U.rowCount = n
    BY <1>2, <1>4 DEF SameButFlags
  <1>. HIDE DEF R
  <1>6. /\ DOMAIN R = TableFields /\ R.schema = schema /\ R.columns = columns
        /\ R.extras = AppendExtras(T.extras, Y) /\ R.rowCount = n + m
        /\ R.flags = U.flags /\ R.count = U.count
    BY <1>1, <1>5 DEF TableFields
  <1>. HIDE DEF n, m, schema
  <1>7. ASSUME NEW c \in Positions(schema)
        PROVE  /\ HasShape(schema.columns[c], columns[c], n + m)
               /\ \A i \in 1..n : GetCell(columns[c], i) = GetCell(T.columns[c], i)
               /\ \A i \in 1..m :
                    /\ GetCell(columns[c], n + i) = Prepare(schema.columns[c], GivenCell(S, layout[c], i))
                    /\ Prepare(schema.columns[c], GivenCell(S, layout[c], i)) # ERR
    <2>. DEFINE spec == schema.columns[c]
                C == T.columns[c]
                D == StagedColumn(T, S, c, layout[c])
    <2>1. columns[c] = AppendCells(C, D) /\ CanStage(T, S, c, layout[c])
      BY <1>1, <1>3, <1>5 DEF columns
    <2>2. layout[c] \in Positions(S.schema) \cup {NULL}
      BY DEF schema
    <2>. DEFINE from == layout[c]
    <2>. HIDE DEF from
    <2>3. /\ HasShape(spec, StagedColumn(T, S, c, from), m)
          /\ \A i \in 1..m :
               /\ GetCell(StagedColumn(T, S, c, from), i) = Prepare(spec, GivenCell(S, from, i))
               /\ Prepare(spec, GivenCell(S, from, i)) # ERR
      <3>1. from \in Positions(S.schema) \cup {NULL} /\ CanStage(T, S, c, from)
        BY <2>1, <2>2 DEF from
      <3>. QED  BY <1>2, <3>1, StagedColumnOk DEF schema, m
    <2>. USE DEF from
    <2>. HIDE DEF D
    <2>4. /\ HasShape(spec, D, m)
          /\ \A i \in 1..m : /\ GetCell(D, i) = Prepare(spec, GivenCell(S, layout[c], i))
                             /\ Prepare(spec, GivenCell(S, layout[c], i)) # ERR
      BY <2>3 DEF D
    <2>. HIDE DEF spec, C
    <2>5. /\ HasShape(spec, AppendCells(C, D), n + m)
          /\ \A i \in 1..n : GetCell(AppendCells(C, D), i) = GetCell(C, i)
          /\ \A i \in 1..m : GetCell(AppendCells(C, D), n + i) = GetCell(D, i)
      <3>1. IsSpec(spec) /\ HasShape(spec, C, n)
        BY <1>3 DEF spec, C
      <3>. QED  BY ONLY <1>2, <2>4, <3>1, AppendShape
    <2>. QED  BY <2>1, <2>4, <2>5 DEF spec, C
  <1>8. DOMAIN columns = Positions(schema)
    BY <1>3, <1>5 DEF columns
  <1>9. /\ HasExtras(Y, m) /\ (Y = NULL <=> ~schema.open)
        /\ \A i \in 1..m :
             /\ FieldsOf(Y, i) = FieldsOf(S.extras, i)
             /\ CollectExtras(schema, FieldsOf(S.extras, i)) = FieldsOf(S.extras, i)
             /\ CollectExtras(schema, FieldsOf(S.extras, i)) # ERR
             /\ \A name \in DOMAIN FieldsOf(S.extras, i) : ColumnIndex(schema, name) = NULL
    <2>1. T.schema.open \in BOOLEAN
      BY <1>2, SchemasAssumption DEF schema
    <2>2. /\ HasExtras(Y, S.rowCount) /\ (Y = NULL <=> ~T.schema.open)
          /\ \A i \in 1..S.rowCount :
               /\ FieldsOf(Y, i) = FieldsOf(S.extras, i)
               /\ CollectExtras(T.schema, FieldsOf(S.extras, i)) = FieldsOf(S.extras, i)
               /\ CollectExtras(T.schema, FieldsOf(S.extras, i)) # ERR
               /\ \A name \in DOMAIN FieldsOf(S.extras, i) : ColumnIndex(T.schema, name) = NULL
      <3>1. S.rowCount \in Nat /\ HasExtras(S.extras, S.rowCount) /\ Y # ERR
        BY <1>1, <1>2 DEF m
      <3>. QED  BY ONLY <2>1, <3>1, StagedExtrasOk
    <2>. QED  BY <2>2 DEF m, schema
  <1>. DEFINE Z == AppendExtras(T.extras, Y)
  <1>10. /\ HasExtras(Z, n + m) /\ (Z = NULL <=> ~schema.open)
         /\ \A i \in 1..n : FieldsOf(Z, i) = FieldsOf(T.extras, i)
         /\ \A i \in 1..m : FieldsOf(Z, n + i) = FieldsOf(S.extras, i)
    <2>1. T.extras = NULL <=> Y = NULL
      BY <1>2, <1>9
    <2>2. /\ HasExtras(Z, n + m) /\ (Z = NULL <=> T.extras = NULL)
          /\ \A i \in 1..n : FieldsOf(Z, i) = FieldsOf(T.extras, i)
          /\ \A i \in 1..m : FieldsOf(Z, n + i) = FieldsOf(Y, i)
      BY <1>2, <1>9, <2>1, AppendExtrasOk
    <2>. HIDE DEF Z
    <2>. QED  BY <1>2, <1>9, <2>2
  <1>. HIDE DEF Y, Z
  <1>11. ASSUME NEW i \in 1..(n + m), i \notin 1..n  PROVE \E j \in 1..m : i = n + j
    BY <1>2, <1>11, i - n \in 1..m
  <1>12. FieldsApart(schema, Z, n + m)
    <2>1. ASSUME NEW i \in 1..(n + m), NEW name \in DOMAIN FieldsOf(Z, i)
          PROVE  ColumnIndex(schema, name) = NULL
      <3>1. CASE i \in 1..n
        BY <1>2, <1>10, <3>1 DEF FieldsApart
      <3>2. CASE i \notin 1..n
        <4>1. PICK j \in 1..m : i = n + j
          BY <1>11, <3>2
        <4>. QED  BY <1>9, <1>10, <4>1
      <3>. QED  BY <3>1, <3>2
    <2>. QED  BY <2>1 DEF FieldsApart
  <1>13. IsTable(R)
    <2>1. HasColumns(schema, columns, n + m)
      BY <1>7, <1>8 DEF HasColumns
    <2>2. n + m \in Nat
      BY <1>2
    <2>. QED  BY <1>2, <1>4, <1>6, <1>10, <1>12, <2>1, <2>2 DEF IsTable, Z
  <1>14. R.flags \in Seq(BOOLEAN) /\ DOMAIN R.columns = DOMAIN T.columns
    BY <1>3, <1>4, <1>6, <1>8 DEF FlagsOk
  <1>15. Flagged(S.flags) \in SUBSET (1..m) /\ Flagged(T.flags) \in SUBSET (1..n)
    <2>1. /\ S.flags = <<>> \/ Len(S.flags) = m
          /\ T.flags = <<>> \/ Len(T.flags) = n
      BY <1>2 DEF FlagsOk
    <2>. QED  BY <1>2, <2>1 DEF Flagged
  <1>16. ASSUME NEW i \in 1..n  PROVE RowAt(R, i) = RowAt(T, i)
    <2>1. i \in Nat \ {0}
      BY <1>2
    <2>2. i \in Flagged(R.flags) <=> i \in Flagged(T.flags)
      BY <1>2, <1>4, <1>6, <1>15 DEF Shifted
    <2>3. SameRow(R, i, T, i)
      BY <1>3, <1>6, <1>7, <1>10, <2>2 DEF SameRow, Cell, Z
    <2>. QED  BY ONLY <1>2, <1>14, <2>1, <2>3, SameRowIs, Zenon
  <1>17. ASSUME NEW i \in 1..m
         PROVE  /\ RowAt(R, n + i) = MovedRow(schema, layout, RowAt(S, i))
                /\ WholeRow(schema, MovedRow(schema, layout, RowAt(S, i)))
    <2>. DEFINE cells == [c \in Positions(schema) |-> Prepare(schema.columns[c], GivenCell(S, layout[c], i))]
                extra == FieldsOf(S.extras, i)
                dead == IsTombstoned(S, i)
                k == n + i
                row == RowAt(S, i)
    <2>1. CellsAt(R, k) = cells
      BY <1>6, <1>7, <1>8 DEF CellsAt, Cell
    <2>2. FieldsOf(R.extras, k) = extra
      BY <1>6, <1>10 DEF Z
    <2>3. i \in Nat \ {0} /\ k \in Nat \ {0}
      BY <1>2
    <2>4. dead \in BOOLEAN /\ (dead <=> i \in Flagged(S.flags))
      BY <1>2, <2>3, DeadIs
    <2>5. k \in Flagged(R.flags) <=> i \in Flagged(S.flags)
      <3>1. k \notin Flagged(T.flags)
        BY <1>2, <1>15
      <3>2. k \in Shifted(n, Flagged(S.flags)) <=> i \in Flagged(S.flags)
        BY <1>2, <1>15 DEF Shifted
      <3>. QED  BY <1>4, <1>6, <3>1, <3>2
    <2>6. IsTombstoned(R, k) = dead
      <3>. HIDE DEF dead, k
      <3>1. k \in Flagged(R.flags) <=> dead = TRUE
        BY <2>4, <2>5, Zenon
      <3>. QED  BY ONLY <1>14, <2>3, <2>4, <3>1, MarkIs, Zenon
    <2>7. RowAt(R, k) = [cells |-> cells, extra |-> extra, dead |-> dead]
      <3>1. RowAt(R, k) = [cells |-> CellsAt(R, k), extra |-> FieldsOf(R.extras, k),
                           dead |-> IsTombstoned(R, k)]
        BY Zenon DEF RowAt, CellsAt
      <3>. QED  BY <2>1, <2>2, <2>6, <3>1, Zenon
    <2>8. row = [cells |-> CellsAt(S, i), extra |-> extra, dead |-> dead]
      BY Zenon DEF RowAt, CellsAt
    <2>9. ASSUME NEW c \in Positions(schema)
          PROVE  GivenCell(S, layout[c], i) = IF layout[c] = NULL THEN NULL ELSE row.cells[layout[c]]
      <3>1. row.cells = CellsAt(S, i)
        <4>. HIDE DEF row, extra, dead
        <4>. QED  BY <2>8
      <3>2. CASE layout[c] = NULL
        BY <3>2 DEF GivenCell
      <3>3. CASE layout[c] # NULL
        <4>1. layout[c] \in DOMAIN S.columns
          BY <3>3 DEF IsTable, HasColumns, schema
        <4>2. CellsAt(S, i)[layout[c]] = Cell(S, i, layout[c])
          BY <4>1 DEF CellsAt
        <4>. QED  BY <3>1, <3>3, <4>2 DEF GivenCell
      <3>. QED  BY <3>2, <3>3
    <2>10. cells = [c \in Positions(schema) |->
                      Prepare(schema.columns[c],
                              IF layout[c] = NULL THEN NULL ELSE row.cells[layout[c]])]
      BY <2>9
    <2>11. row.extra = extra /\ row.dead = dead
      <3>. HIDE DEF row, extra, dead
      <3>. QED  BY <2>8
    <2>12. extra = CollectExtras(schema, row.extra) /\ extra # ERR
      BY <1>9, <2>11
    <2>13. MovedRow(schema, layout, row) = [cells |-> cells, extra |-> extra, dead |-> dead]
      <3>. HIDE DEF row, extra, dead, cells
      <3>. QED  BY <2>10, <2>11, <2>12 DEF MovedRow
    <2>14. \A c \in Positions(schema) : cells[c] # ERR
      BY <1>7
    <2>15. WholeRow(schema, MovedRow(schema, layout, row))
      <3>. HIDE DEF row, extra, dead, cells
      <3>. QED  BY <2>12, <2>13, <2>14 DEF WholeRow
    <2>. QED  BY <2>7, <2>13, <2>15
  <1>18. RowsOf(R) = RowsOf(T) \o [i \in 1..m |-> MovedRow(schema, layout, RowsOf(S)[i])]
    <2>. DEFINE rows == RowsOf(T)
                new == [i \in 1..m |-> MovedRow(schema, layout, RowsOf(S)[i])]
                all == rows \o new
    <2>1. rows = [i \in 1..n |-> RowAt(T, i)]
      BY <1>2, RowsIs DEF n
    <2>2. RowsOf(R) = [i \in 1..(n + m) |-> RowAt(R, i)]
      <3>1. n + m \in Nat
        BY <1>2
      <3>. QED  BY <1>6, <3>1, RowsIs
    <2>3. \A i \in 1..m : RowsOf(S)[i] = RowAt(S, i)
      BY <1>2, RowsIs DEF m
    <2>4. \A i \in 1..m : new[i] = RowAt(R, n + i)
      BY <1>17, <2>3
    <2>. HIDE DEF rows
    <2>5. rows = [i \in 1..n |-> rows[i]] /\ new = [i \in 1..m |-> new[i]]
      BY <2>1
    <2>. HIDE DEF new
    <2>6. /\ all = [i \in 1..(n + m) |-> all[i]]
          /\ \A i \in 1..n : all[i] = rows[i]
          /\ \A i \in 1..m : all[n + i] = new[i]
      <3>1. n \in Nat /\ m \in Nat
        BY <1>2
      <3>2. all = rows \o new
        OBVIOUS
      <3>. HIDE DEF all
      <3>3. /\ rows \o new = [i \in 1..(n + m) |-> (rows \o new)[i]]
            /\ \A i \in 1..n : (rows \o new)[i] = rows[i]
            /\ \A i \in 1..m : (rows \o new)[n + i] = new[i]
        BY ONLY <2>5, <3>1, JoinedLists
      <3>. QED  BY ONLY <3>2, <3>3, Zenon
    <2>. HIDE DEF all
    <2>7. ASSUME NEW i \in 1..(n + m)  PROVE all[i] = RowAt(R, i)
      <3>1. CASE i \in 1..n
        BY <1>16, <2>1, <2>6, <3>1
      <3>2. CASE i \notin 1..n
        <4>1. PICK j \in 1..m : i = n + j
          BY <1>11, <3>2
        <4>. QED  BY <2>4, <2>6, <4>1
      <3>. QED  BY <3>1, <3>2
    <2>8. RowsOf(R) = all
      BY <2>2, <2>6, <2>7
    <2>. QED  BY <2>8 DEF all, rows, new
  <1>19. ASSUME NEW i \in 1..m  PROVE WholeRow(schema, MovedRow(schema, layout, RowsOf(S)[i]))
    <2>1. RowsOf(S)[i] = RowAt(S, i)
      BY <1>2, RowsIs DEF m
    <2>. QED  BY <1>17, <2>1
  <1>. QED  BY <1>6, <1>13, <1>18, <1>19 DEF R, schema, m

-----------------------------------------------------------------------------
(* One cell is written.                                                    *)

\* T with w in column c of row i.
WithCell(T, c, i, w) == [T EXCEPT !.columns[c] = PutCell(@, i, w)]

\* One cell is set to a value its column accepts, by a call or through a view.
LEMMA CellSetOk ==
  ASSUME NEW T, IsTable(T), NEW c \in Positions(T.schema), NEW i \in 1..T.rowCount, NEW w \in Slots,
         Accepts(T.schema.columns[c], w)
  PROVE  /\ IsTable(WithCell(T, c, i, w)) /\ WithCell(T, c, i, w).schema = T.schema
         /\ RowsOf(WithCell(T, c, i, w)) = [RowsOf(T) EXCEPT ![i].cells[c] = w]
         /\ T.schema.columns[c].type # NullType =>
              PutSlot(T.columns[c], i, w) = PutCell(T.columns[c], i, w)
  <1>. DEFINE spec == T.schema.columns[c]
              C == T.columns[c]
              D == PutCell(C, i, w)
              n == T.rowCount
  <1>1. IsSpec(spec) /\ HasShape(spec, C, n) /\ n \in Nat
    BY SchemaIs DEF IsTable, HasColumns
  <1>2. DOMAIN T = TableFields /\ c \in DOMAIN T.columns
    BY DEF IsTable, HasColumns
  <1>. HIDE DEF spec, C, n, D
  <1>3. /\ HasShape(spec, D, n)
        /\ \A j \in 1..n : GetCell(D, j) = IF j = i THEN w ELSE GetCell(C, j)
        /\ spec.type # NullType => PutSlot(C, i, w) = D
    BY <1>1, PutShape DEF D, n, spec
  <1>4. LET R == [T EXCEPT !.columns[c] = D] IN
        /\ IsTable(R) /\ R.schema = T.schema
        /\ RowsOf(R) = [RowsOf(T) EXCEPT ![i].cells[c] = w]
    <2>1. /\ HasShape(T.schema.columns[c], D, T.rowCount)
          /\ \A j \in 1..T.rowCount : GetCell(D, j) = IF j = i THEN w ELSE GetCell(T.columns[c], j)
      BY <1>3 DEF spec, C, n
    <2>. QED  BY ONLY IsTable(T), c \in Positions(T.schema), i \in 1..T.rowCount, <2>1, CellChangedOk
  <1>5. WithCell(T, c, i, w) = [T EXCEPT !.columns[c] = D]
    BY <1>2 DEF D, C, TableFields, WithCell
  <1>. QED  BY <1>3, <1>4, <1>5 DEF spec, C, D

\* T with another column c.
WithColumn(T, c, D) == [T EXCEPT !.columns[c] = D]

\* The cell of one row becomes another that the column accepts.
LEMMA OverwrittenOk ==
  ASSUME NEW T, IsTable(T), NEW c \in Positions(T.schema), NEW i \in 1..T.rowCount, NEW D,
         HasShape(T.schema.columns[c], D, T.rowCount),
         \A j \in 1..T.rowCount : j # i => GetCell(D, j) = GetCell(T.columns[c], j)
  PROVE  /\ GetCell(D, i) \in Slots /\ Accepts(T.schema.columns[c], GetCell(D, i))
         /\ IsTable(WithColumn(T, c, D)) /\ WithColumn(T, c, D).schema = T.schema
         /\ RowsOf(WithColumn(T, c, D)) = [RowsOf(T) EXCEPT ![i].cells[c] = GetCell(D, i)]
  <1>. DEFINE w == GetCell(D, i)
  <1>1. IsSpec(T.schema.columns[c]) /\ T.rowCount \in Nat
    BY SchemaIs DEF IsTable
  <1>2. w \in Slots /\ Accepts(T.schema.columns[c], w)
    BY <1>1, ShapeHolds
  <1>3. \A j \in 1..T.rowCount : GetCell(D, j) = IF j = i THEN w ELSE GetCell(T.columns[c], j)
    OBVIOUS
  <1>. HIDE DEF w
  <1>4. LET R == [T EXCEPT !.columns[c] = D] IN
        /\ IsTable(R) /\ R.schema = T.schema
        /\ RowsOf(R) = [RowsOf(T) EXCEPT ![i].cells[c] = w]
    BY <1>3, CellChangedOk
  <1>. QED  BY <1>2, <1>4 DEF w, WithColumn

\* A typed slice only takes what its column accepts.
LEMMA SliceAccepts ==
  ASSUME NEW spec, IsSpec(spec), NEW v \in Slots, NEW optional \in BOOLEAN, v = NULL => optional = TRUE,
         SliceFault(spec, IF v = NULL THEN spec.type ELSE TypeOf[v], optional) = "ok"
  PROVE  Accepts(spec, v) /\ spec.type # NullType
  <1>1. CASE v = NULL
    <2>1. SliceFault(spec, spec.type, optional) = "ok" /\ optional = TRUE
      BY <1>1, Zenon
    <2>2. spec.type # NullType /\ optional = spec.nullable
      BY <2>1, Zenon DEF SliceFault
    <2>. QED  BY <1>1, <2>1, <2>2 DEF Accepts
  <1>2. CASE v # NULL
    <2>1. v \in Values /\ SliceFault(spec, TypeOf[v], optional) = "ok"
      BY <1>2 DEF Slots
    <2>2. /\ spec.type = TypeOf[v] /\ spec.type # NullType
          /\ spec.type = "string" => spec.fits = Values
      BY <2>1 DEF SliceFault
    <2>. QED  BY <1>2, <2>1, <2>2 DEF Accepts, IsSpec
  <1>. QED  BY <1>1, <1>2

-----------------------------------------------------------------------------
(* Layouts.                                                                *)

\* A name is that of a column or of none.
LEMMA ColumnIndexType ==
  ASSUME NEW schema, NEW name
  PROVE  ColumnIndex(schema, name) \in Positions(schema) \cup {NULL}
  BY DEF ColumnIndex

\* A mapping that is accepted fills each column from one column or none.
LEMMA LayoutType ==
  ASSUME NEW T, NEW S, NEW mapping, LayoutOf(T, S, mapping) # ERR
  PROVE  LayoutOf(T, S, mapping) \in [Positions(T.schema) -> Positions(S.schema) \cup {NULL}]
  <1>. DEFINE to(d) == {m \in DOMAIN mapping : mapping[m][2] = d}
  <1>1. /\ \A m \in DOMAIN mapping : mapping[m][1] \in Positions(S.schema)
        /\ LayoutOf(T, S, mapping) = [d \in Positions(T.schema) |->
             IF to(d) = {} THEN NULL ELSE mapping[CHOOSE m \in to(d) : TRUE][1]]
    BY Zenon DEF LayoutOf
  <1>2. ASSUME NEW d, to(d) # {}
        PROVE  mapping[CHOOSE m \in to(d) : TRUE][1] \in Positions(S.schema)
    <2>1. (CHOOSE m \in to(d) : TRUE) \in to(d)
      BY <1>2
    <2>. QED  BY <1>1, <2>1
  <1>. HIDE DEF to
  <1>. QED  BY <1>1, <1>2

\* So do the names of two schemas.
LEMMA NamedType ==
  ASSUME NEW T, NEW S, NamedMapping(T, S) # ERR
  PROVE  NamedMapping(T, S) \in [Positions(T.schema) -> Positions(S.schema) \cup {NULL}]
  <1>. DEFINE primary(d) == ColumnIndex(S.schema, T.schema.columns[d].name)
              alias(d) == IF T.schema.columns[d].alias = NULL THEN NULL
                          ELSE ColumnIndex(S.schema, T.schema.columns[d].alias)
  <1>1. NamedMapping(T, S) =
          [d \in Positions(T.schema) |-> IF primary(d) # NULL THEN primary(d) ELSE alias(d)]
    BY DEF NamedMapping
  <1>2. \A d : primary(d) \in Positions(S.schema) \cup {NULL}
    BY ColumnIndexType
  <1>3. \A d : alias(d) \in Positions(S.schema) \cup {NULL}
    BY ColumnIndexType
  <1>. HIDE DEF primary, alias
  <1>. QED  BY <1>1, <1>2, <1>3

-----------------------------------------------------------------------------
(* Table implements TableRows.                                             *)

\* The inductive invariant: every table is what IsTable says.
TableInv ==
  /\ table = [t \in Tables |-> table[t]]
  /\ \A t \in Tables : IsTable(table[t])

\* The specification of rows speaks of schemas as Table does.
LEMMA SameSchemas ==
  /\ \A s : Rows!Width(s) = Width(s) /\ Rows!Positions(s) = Positions(s)
  /\ \A s, n : Rows!ColumnIndex(s, n) = ColumnIndex(s, n)
  /\ \A spec, v : (Rows!Accepts(spec, v) <=> Accepts(spec, v)) /\ Rows!Prepare(spec, v) = Prepare(spec, v)
  /\ \A s, v : Rows!PrepareRow(s, v) = PrepareRow(s, v)
  /\ \A s, x : Rows!CollectExtras(s, x) = CollectExtras(s, x)
  <1>1. ASSUME NEW s  PROVE Rows!Width(s) = Width(s) /\ Rows!Positions(s) = Positions(s)
    BY DEF Rows!Width, Width, Rows!Positions, Positions
  <1>2. ASSUME NEW s, NEW n  PROVE Rows!ColumnIndex(s, n) = ColumnIndex(s, n)
    <2>. DEFINE here == {c \in Positions(s) : n \in NamesOf(s.columns[c])}
                there == {c \in Rows!Positions(s) : n \in Rows!NamesOf(s.columns[c])}
    <2>1. \A spec : Rows!NamesOf(spec) = NamesOf(spec)
      BY DEF Rows!NamesOf, NamesOf
    <2>2. here = there
      BY <1>1, <2>1
    <2>3. ColumnIndex(s, n) = IF here = {} THEN NULL ELSE CHOOSE c \in here : TRUE
      BY Zenon DEF ColumnIndex
    <2>4. Rows!ColumnIndex(s, n) = IF there = {} THEN NULL ELSE CHOOSE c \in there : TRUE
      BY Zenon DEF Rows!ColumnIndex
    <2>. HIDE DEF here, there
    <2>. QED  BY <2>2, <2>3, <2>4
  <1>3. ASSUME NEW spec, NEW v  PROVE Rows!Accepts(spec, v) <=> Accepts(spec, v)
    BY DEF Rows!Accepts, Accepts
  <1>4. ASSUME NEW spec, NEW v  PROVE Rows!Prepare(spec, v) = Prepare(spec, v)
    BY <1>3 DEF Rows!Prepare, Prepare
  <1>5. ASSUME NEW s, NEW v  PROVE Rows!PrepareRow(s, v) = PrepareRow(s, v)
    BY <1>1, <1>4 DEF Rows!PrepareRow, PrepareRow
  <1>6. ASSUME NEW s, NEW x  PROVE Rows!CollectExtras(s, x) = CollectExtras(s, x)
    BY <1>2 DEF Rows!CollectExtras, CollectExtras
  <1>. QED  BY <1>1, <1>2, <1>3, <1>4, <1>5, <1>6

\* The specification of rows speaks of fields and kept rows as Table does.
LEMMA SameFields ==
  /\ \A x : Rows!FieldsIn(x) = FieldsIn(x)
  /\ \A x, n, v : Rows!WithExtra(x, n, v) = WithExtra(x, n, v)
  /\ \A kept, n : Rows!KeptOf(kept, n) = KeptOf(kept, n)
  <1>1. ASSUME NEW x  PROVE Rows!FieldsIn(x) = FieldsIn(x)
    BY DEF Rows!FieldsIn, FieldsIn
  <1>2. ASSUME NEW x, NEW n, NEW v  PROVE Rows!WithExtra(x, n, v) = WithExtra(x, n, v)
    BY DEF Rows!WithExtra, WithExtra
  <1>3. ASSUME NEW kept, NEW n  PROVE Rows!KeptOf(kept, n) = KeptOf(kept, n)
    BY DEF Rows!KeptOf, KeptOf, Rows!KeptUpto, KeptUpto
  <1>. QED  BY <1>1, <1>2, <1>3

\* A call that returns puts a table in the place of another.
LEMMA ReturnOk ==
  ASSUME TableInv, NEW t \in Tables, NEW R, IsTable(R), Return(t, R)
  PROVE  TableInv' /\ outcome' = "ok"
  BY DEF TableInv, Return

-----------------------------------------------------------------------------
(* Calls.                                                                  *)

\* A call that returns gives its table other rows and keeps its schema.
LEMMA BecomeOk ==
  ASSUME TableInv, NEW t \in Tables, NEW R, IsTable(R), R.schema = table[t].schema, Return(t, R)
  PROVE  TableInv' /\ Rows!Become(t, RowsOf(R))
  <1>. DEFINE rows == [u \in Tables |-> RowsOf(table[u])]
              schemas == [u \in Tables |-> table[u].schema]
  <1>1. TableInv'
    BY ReturnOk
  <1>2. /\ outcome' = "ok" /\ table' = [table EXCEPT ![t] = R]
        /\ table = [u \in Tables |-> table[u]]
    BY DEF Return, TableInv
  <1>3. \A u \in Tables : table'[u] = IF u = t THEN R ELSE table[u]
    BY <1>2
  <1>4. rows' = [rows EXCEPT ![t] = RowsOf(R)]
    <2>1. \A u \in Tables : RowsOf(table'[u]) = IF u = t THEN RowsOf(R) ELSE RowsOf(table[u])
      BY <1>3
    <2>. QED  BY <2>1, Zenon
  <1>5. schemas' = schemas
    BY <1>3
  <1>. QED  BY <1>1, <1>2, <1>4, <1>5 DEF Rows!Become

\* A call that is refused changes nothing.
LEMMA RefuseOk ==
  ASSUME TableInv, Refuse
  PROVE  TableInv' /\ Rows!Fail
  BY DEF TableInv, Refuse, Rows!Fail

\* A table of the invariant, and what TableRows sees of it.
LEMMA RowsAre ==
  ASSUME TableInv, NEW t \in Tables
  PROVE  /\ IsTable(table[t])
         /\ [u \in Tables |-> RowsOf(table[u])][t] = RowsOf(table[t])
         /\ [u \in Tables |-> table[u].schema][t] = table[t].schema
         /\ table[t].rowCount \in Nat /\ DOMAIN RowsOf(table[t]) = 1..table[t].rowCount
         /\ Len(RowsOf(table[t])) = table[t].rowCount
         /\ table[t].schema \in Schemas
  <1>1. IsTable(table[t])
    BY DEF TableInv
  <1>. DEFINE T == table[t]
  <1>. HIDE DEF T
  <1>2. T.rowCount \in Nat /\ T.schema \in Schemas
    BY <1>1 DEF IsTable, T
  <1>3. DOMAIN RowsOf(T) = 1..T.rowCount /\ Len(RowsOf(T)) = T.rowCount
    BY <1>2, RowsIs
  <1>. QED  BY <1>1, <1>2, <1>3 DEF T

\* A prepared row has values that its columns accept.
LEMMA PrepareRowOk ==
  ASSUME NEW schema \in Schemas, NEW values \in Seq(Slots), PrepareRow(schema, values) # ERR
  PROVE  /\ PrepareRow(schema, values) \in [Positions(schema) -> Slots]
         /\ \A c \in Positions(schema) : Accepts(schema.columns[c], PrepareRow(schema, values)[c])
  <1>1. /\ Len(values) = Width(schema)
        /\ \A c \in Positions(schema) : Prepare(schema.columns[c], values[c]) # ERR
        /\ PrepareRow(schema, values) =
             [c \in Positions(schema) |-> Prepare(schema.columns[c], values[c])]
    BY DEF PrepareRow
  <1>2. ASSUME NEW c \in Positions(schema)
        PROVE  /\ Prepare(schema.columns[c], values[c]) \in Slots
               /\ Accepts(schema.columns[c], Prepare(schema.columns[c], values[c]))
    <2>. DEFINE spec == schema.columns[c]
                v == values[c]
    <2>1. IsSpec(spec) /\ v \in Slots /\ Prepare(spec, v) # ERR
      <3>1. c \in 1..Len(values)
        BY <1>1, SchemaIs
      <3>. QED  BY <1>1, <3>1, SchemaIs
    <2>. HIDE DEF spec, v
    <2>2. Prepare(spec, v) \in Slots /\ Accepts(spec, Prepare(spec, v))
      BY <2>1, PrepareIs
    <2>. QED  BY <2>2 DEF spec, v
  <1>. QED  BY <1>1, <1>2

\* push_row and its forms.
LEMMA PushRowOk ==
  ASSUME TableInv, NEW t \in Tables, NEW values \in RowInputs, NEW extras \in ExtraInputs,
         PushRow(t, values, extras)
  PROVE  TableInv' /\ (Rows!Fail \/ Rows!PushRow(t, values, extras))
  <1>. DEFINE T == table[t]
              row == PrepareRow(T.schema, values)
              more == Collected(T.schema, extras)
              R == Pushed(T, row, more)
  <1>1. CASE Refuse
    BY <1>1, RefuseOk
  <1>2. CASE ~Refuse
    <2>1. row # ERR /\ more # ERR /\ Return(t, R)
      BY <1>2 DEF PushRow
    <2>2. IsTable(T) /\ T.schema \in Schemas
      BY RowsAre
    <2>3. values \in Seq(Slots) /\ extras \in Seq(Names \X Slots)
      BY InputsAssumption DEF Slots
    <2>. HIDE DEF T, R
    <2>4. /\ row \in [Positions(T.schema) -> Slots]
          /\ \A c \in Positions(T.schema) : Accepts(T.schema.columns[c], row[c])
      BY <2>1, <2>2, <2>3, PrepareRowOk
    <2>5. /\ FieldsOk(more) /\ FieldMap(more) = FieldsIn(extras)
          /\ CollectExtras(T.schema, FieldsIn(extras)) = FieldsIn(extras)
          /\ CollectExtras(T.schema, FieldsIn(extras)) # ERR
          /\ \A n \in DOMAIN FieldsIn(extras) : ColumnIndex(T.schema, n) = NULL /\ T.schema.open
      BY <2>1, <2>3, CollectedOk
    <2>. HIDE DEF row, more
    <2>6. T.extras = NULL => FieldMap(more) = NoExtras
      <3>1. T.extras = NULL => DOMAIN FieldMap(more) = {}
        BY <2>2, <2>5, Zenon DEF IsTable
      <3>2. FieldMap(more) \in [DOMAIN FieldMap(more) -> Slots]
        BY <2>5, MapType
      <3>. QED  BY <3>1, <3>2 DEF NoExtras
    <2>7. \A n \in DOMAIN FieldMap(more) : ColumnIndex(T.schema, n) = NULL
      BY <2>5
    <2>8. /\ IsTable(R) /\ R.schema = T.schema
          /\ RowsOf(R) = Append(RowsOf(T), [cells |-> row, extra |-> FieldMap(more), dead |-> FALSE])
      BY <2>2, <2>4, <2>5, <2>6, <2>7, PushedOk DEF R
    <2>9. TableInv' /\ Rows!Become(t, RowsOf(R))
      BY <2>1, <2>8, BecomeOk, Zenon DEF T
    <2>10. Rows!PushRow(t, values, extras)
      <3>. DEFINE schema == [u \in Tables |-> table[u].schema][t]
      <3>1. schema = T.schema /\ [u \in Tables |-> RowsOf(table[u])][t] = RowsOf(T)
        BY DEF T
      <3>2. Rows!PrepareRow(schema, values) = row
        BY <3>1, SameSchemas DEF row
      <3>3. Rows!CollectExtras(schema, Rows!FieldsIn(extras)) = FieldMap(more)
        BY <2>5, <3>1, SameSchemas, SameFields
      <3>4. FieldMap(more) # ERR
        BY <2>5
      <3>. HIDE DEF schema
      <3>5. Rows!Become(t, Append([u \in Tables |-> RowsOf(table[u])][t],
                                  [cells |-> row, extra |-> FieldMap(more), dead |-> FALSE]))
        BY <2>8, <2>9, <3>1
      <3>. QED  BY <2>1, <3>2, <3>3, <3>4, <3>5, Zenon DEF Rows!PushRow, schema
    <2>. QED  BY <2>9, <2>10
  <1>. QED  BY <1>1, <1>2

\* pop_row.
LEMMA PopRowOk ==
  ASSUME TableInv, NEW t \in Tables, PopRow(t)
  PROVE  TableInv' /\ (Rows!Fail \/ Rows!PopRow(t))
  <1>. DEFINE T == table[t]
              R == Popped(T)
              rows == RowsOf(T)
  <1>1. CASE Refuse
    BY <1>1, RefuseOk
  <1>2. CASE ~Refuse
    <2>1. T.rowCount # 0 /\ Return(t, R)
      BY <1>2 DEF PopRow
    <2>2. IsTable(T) /\ Len(rows) = T.rowCount
      BY RowsAre
    <2>. HIDE DEF T, R
    <2>3. IsTable(R) /\ R.schema = T.schema /\ RowsOf(R) = SubSeq(rows, 1, Len(rows) - 1)
      BY <2>1, <2>2, PoppedOk DEF R
    <2>4. TableInv' /\ Rows!Become(t, RowsOf(R))
      BY <2>1, <2>3, BecomeOk, Zenon DEF T
    <2>5. rows # <<>>
      BY <2>1, <2>2
    <2>. HIDE DEF rows
    <2>6. [u \in Tables |-> RowsOf(table[u])][t] = rows
      BY DEF T, rows
    <2>. QED  BY <2>3, <2>4, <2>5, <2>6, Zenon DEF Rows!PopRow
  <1>. QED  BY <1>1, <1>2

\* set.
LEMMA SetCellOk ==
  ASSUME TableInv, NEW t \in Tables, NEW i \in Nat \ {0}, NEW c \in Nat, NEW v \in CellInputs,
         SetCell(t, i, c, v)
  PROVE  /\ TableInv'
         /\ Rows!Fail \/ (/\ c \in Positions(table[t].schema) /\ i \in 1..table[t].rowCount
                          /\ Rows!SetCell(t, i, c, v))
  <1>. DEFINE T == table[t]
              spec == T.schema.columns[c]
              w == Prepare(spec, v)
              R == [T EXCEPT !.columns[c] = PutCell(@, i, w)]
              rows == RowsOf(T)
  <1>1. CASE Refuse
    BY <1>1, RefuseOk
  <1>2. CASE ~Refuse
    <2>1. ~(i > T.rowCount) /\ c \in Positions(T.schema) /\ w # ERR /\ Return(t, R)
      BY <1>2 DEF SetCell
    <2>2. IsTable(T) /\ DOMAIN rows = 1..T.rowCount /\ T.rowCount \in Nat /\ T.schema \in Schemas
      BY RowsAre
    <2>3. v \in Slots
      BY InputsAssumption DEF Slots
    <2>. HIDE DEF T
    <2>4. IsSpec(spec)
      BY <2>1, <2>2, SchemaIs
    <2>5. w \in Slots /\ Accepts(spec, w)
      <3>. HIDE DEF spec
      <3>. QED  BY <2>1, <2>3, <2>4, PrepareIs
    <2>6. i \in 1..T.rowCount
      BY <2>1, <2>2
    <2>. HIDE DEF w, R
    <2>7. IsTable(R) /\ R.schema = T.schema /\ RowsOf(R) = [rows EXCEPT ![i].cells[c] = w]
      <3>1. c \in Positions(T.schema) /\ Accepts(T.schema.columns[c], w)
        BY <2>1, <2>5
      <3>. HIDE DEF spec, rows
      <3>2. /\ IsTable(WithCell(T, c, i, w)) /\ WithCell(T, c, i, w).schema = T.schema
            /\ RowsOf(WithCell(T, c, i, w)) = [RowsOf(T) EXCEPT ![i].cells[c] = w]
        BY ONLY <2>2, <2>5, <2>6, <3>1, CellSetOk
      <3>. QED  BY <3>2 DEF R, rows, WithCell
    <2>8. TableInv' /\ Rows!Become(t, RowsOf(R))
      BY <2>1, <2>7, BecomeOk DEF T
    <2>9. Rows!SetCell(t, i, c, v)
      <3>. DEFINE schema == [u \in Tables |-> table[u].schema][t]
                  now == [u \in Tables |-> RowsOf(table[u])][t]
      <3>1. schema = T.schema /\ now = rows
        BY DEF T
      <3>2. Rows!Prepare(schema.columns[c], v) = w
        BY <3>1, SameSchemas DEF w
      <3>3. i \in DOMAIN now
        BY <2>2, <2>6, <3>1
      <3>. HIDE DEF schema, now, rows
      <3>4. Rows!Become(t, [now EXCEPT ![i].cells[c] = w])
        BY <2>7, <2>8, <3>1
      <3>. QED  BY <2>1, <3>2, <3>3, <3>4 DEF Rows!SetCell, schema, now
    <2>. QED  BY <2>1, <2>6, <2>8, <2>9 DEF T
  <1>. QED  BY <1>1, <1>2

\* set_named writes a cell or an extra field.
LEMMA SetNamedOk ==
  ASSUME TableInv, NEW t \in Tables, NEW i \in Nat \ {0}, NEW n \in Names, NEW v \in CellInputs,
         SetNamed(t, i, n, v)
  PROVE  /\ TableInv'
         /\ \/ Rows!Fail
            \/ \E c \in Positions(table[t].schema) :
                 i \in 1..table[t].rowCount /\ Rows!SetCell(t, i, c, v)
            \/ i \in 1..table[t].rowCount /\ Rows!SetExtra(t, i, n, v)
  <1>. DEFINE T == table[t]
              index == ColumnIndex(T.schema, n)
              R == [T EXCEPT !.extras = SetField(@, i, n, v)]
              rows == RowsOf(T)
  <1>0. IsTable(T) /\ DOMAIN rows = 1..T.rowCount /\ T.rowCount \in Nat /\ T.schema \in Schemas
    BY RowsAre
  <1>1. CASE Refuse
    BY <1>1, RefuseOk
  <1>2. CASE index # NULL
    <2>1. SetCell(t, i, index, v)
      BY <1>2 DEF SetNamed
    <2>2. index \in Nat
      <3>1. index \in Positions(T.schema)
        BY <1>2, ColumnIndexType
      <3>2. Positions(T.schema) = 1..Width(T.schema) /\ Width(T.schema) \in Nat
        BY <1>0, SchemaIs
      <3>. QED  BY <3>1, <3>2
    <2>. HIDE DEF index
    <2>. QED  BY <2>1, <2>2, SetCellOk
  <1>3. CASE index = NULL /\ ~Refuse
    <2>1. T.schema.open /\ ~(i > T.rowCount) /\ Return(t, R)
      BY <1>3 DEF SetNamed
    <2>2. v \in Slots
      BY InputsAssumption DEF Slots
    <2>3. i \in 1..T.rowCount /\ T.extras # NULL
      BY <1>0, <2>1 DEF IsTable
    <2>4. IsTable(R) /\ R.schema = T.schema /\ RowsOf(R) = [rows EXCEPT ![i].extra = WithExtra(@, n, v)]
      <3>. HIDE DEF T, rows, R
      <3>1. ColumnIndex(T.schema, n) = NULL
        BY <1>3
      <3>2. n \in Names
        OBVIOUS
      <3>3. /\ IsTable(WithField(T, i, n, v)) /\ WithField(T, i, n, v).schema = T.schema
            /\ RowsOf(WithField(T, i, n, v)) = [RowsOf(T) EXCEPT ![i].extra = WithExtra(@, n, v)]
        BY ONLY <1>0, <2>2, <2>3, <3>1, <3>2, ExtraChangedOk
      <3>. QED  BY <3>3 DEF R, rows, WithField
    <2>. HIDE DEF R
    <2>5. TableInv' /\ Rows!Become(t, RowsOf(R))
      BY <2>1, <2>4, BecomeOk
    <2>6. Rows!SetExtra(t, i, n, v)
      <3>. DEFINE schema == [u \in Tables |-> table[u].schema][t]
                  now == [u \in Tables |-> RowsOf(table[u])][t]
      <3>1. schema = T.schema /\ now = rows
        OBVIOUS
      <3>2. schema.open
        BY <2>1, <3>1, Zenon
      <3>3. Rows!ColumnIndex(schema, n) = NULL
        BY <1>3, <3>1, SameSchemas
      <3>4. i \in DOMAIN now
        BY <1>0, <2>3, <3>1
      <3>5. Rows!Become(t, [now EXCEPT ![i].extra = Rows!WithExtra(@, n, v)])
        <4>1. [now EXCEPT ![i].extra = Rows!WithExtra(@, n, v)] = [rows EXCEPT ![i].extra = WithExtra(@, n, v)]
          BY <3>1, SameFields
        <4>. QED  BY <2>4, <2>5, <4>1
      <3>. QED  BY <3>2, <3>3, <3>4, <3>5, Zenon DEF Rows!SetExtra
    <2>. QED  BY <2>3, <2>5, <2>6
  <1>. QED  BY <1>1, <1>2, <1>3

\* An element of a view is assigned to.
LEMMA WriteSlotOk ==
  ASSUME TableInv, NEW t \in Tables, NEW i \in Nat \ {0}, NEW c \in Positions(table[t].schema),
         NEW v \in SlotInputs, NEW optional \in BOOLEAN, v = NULL => optional = TRUE,
         WriteSlot(t, c, i, v, optional)
  PROVE  TableInv' /\ (Rows!Fail \/ (i \in 1..table[t].rowCount /\ Rows!SetSlot(t, i, c, v)))
  <1>. DEFINE T == table[t]
              spec == T.schema.columns[c]
              R == [T EXCEPT !.columns[c] = PutSlot(@, i, v)]
              rows == RowsOf(T)
  <1>1. CASE Refuse
    BY <1>1, RefuseOk
  <1>2. CASE ~Refuse
    <2>1. /\ SliceFault(spec, IF v = NULL THEN spec.type ELSE TypeOf[v], optional) = "ok"
          /\ ~(i > T.rowCount) /\ Return(t, R)
      BY <1>2 DEF WriteSlot
    <2>2. IsTable(T) /\ DOMAIN rows = 1..T.rowCount /\ T.rowCount \in Nat /\ T.schema \in Schemas
      BY RowsAre
    <2>3. v \in Slots /\ i \in 1..T.rowCount /\ c \in Positions(T.schema)
      BY <2>1, <2>2, InputsAssumption DEF Slots
    <2>4. DOMAIN T = TableFields /\ DOMAIN T.columns = Positions(T.schema) /\ IsSpec(spec)
      BY <2>2, SchemaIs DEF IsTable, HasColumns
    <2>. HIDE DEF T, spec, rows, R
    <2>5. Accepts(spec, v) /\ spec.type # NullType
      BY <2>1, <2>3, <2>4, SliceAccepts, Zenon
    <2>6. /\ IsTable(WithCell(T, c, i, v)) /\ WithCell(T, c, i, v).schema = T.schema
          /\ RowsOf(WithCell(T, c, i, v)) = [RowsOf(T) EXCEPT ![i].cells[c] = v]
          /\ T.schema.columns[c].type # NullType =>
               PutSlot(T.columns[c], i, v) = PutCell(T.columns[c], i, v)
      <3>1. Accepts(T.schema.columns[c], v)
        BY <2>5 DEF spec
      <3>. QED  BY ONLY <2>2, <2>3, <3>1, CellSetOk
    <2>7. R = WithCell(T, c, i, v)
      <3>1. PutSlot(T.columns[c], i, v) = PutCell(T.columns[c], i, v)
        BY <2>5, <2>6 DEF spec
      <3>. QED  BY <2>4, <3>1 DEF R, WithCell, TableFields
    <2>8. TableInv' /\ Rows!Become(t, RowsOf(R))
      BY <2>1, <2>6, <2>7, BecomeOk DEF T
    <2>9. Rows!SetSlot(t, i, c, v)
      <3>. DEFINE schema == [u \in Tables |-> table[u].schema][t]
                  now == [u \in Tables |-> RowsOf(table[u])][t]
      <3>1. schema = T.schema /\ now = rows
        BY DEF T, rows
      <3>2. Rows!Accepts(schema.columns[c], v)
        BY <2>5, <3>1, SameSchemas DEF spec
      <3>3. i \in DOMAIN now
        BY <2>2, <2>3, <3>1
      <3>. HIDE DEF schema, now
      <3>4. Rows!Become(t, [now EXCEPT ![i].cells[c] = v])
        BY <2>6, <2>7, <2>8, <3>1, Zenon DEF rows
      <3>. QED  BY <3>2, <3>3, <3>4 DEF Rows!SetSlot, schema, now
    <2>. QED  BY <2>3, <2>8, <2>9 DEF T
  <1>. QED  BY <1>1, <1>2

\* The elements of the vectors of a nullable column are written to.
LEMMA WritePartsOk ==
  ASSUME TableInv, NEW t \in Tables, NEW c \in Positions(table[t].schema), NEW i \in 1..table[t].rowCount,
         NEW D, HasShape(table[t].schema.columns[c], D, table[t].rowCount),
         \A j \in 1..table[t].rowCount : j # i => GetCell(D, j) = GetCell(table[t].columns[c], j),
         WriteParts(t, D, c)
  PROVE  TableInv' /\ \E v \in Values \cup {NULL} : Rows!Overwrite(t, i, c, v)
  <1>. DEFINE T == table[t]
              spec == T.schema.columns[c]
              R == [T EXCEPT !.columns[c] = D]
              w == GetCell(D, i)
              rows == RowsOf(T)
              all == [u \in Tables |-> RowsOf(table[u])]
              schemas == [u \in Tables |-> table[u].schema]
  <1>1. IsTable(T) /\ DOMAIN rows = 1..T.rowCount
    BY RowsAre
  <1>2. /\ w \in Slots /\ Accepts(spec, w) /\ IsTable(R) /\ R.schema = T.schema
        /\ RowsOf(R) = [rows EXCEPT ![i].cells[c] = w]
    <2>1. /\ c \in Positions(T.schema) /\ i \in 1..T.rowCount
          /\ HasShape(T.schema.columns[c], D, T.rowCount)
          /\ \A j \in 1..T.rowCount : j # i => GetCell(D, j) = GetCell(T.columns[c], j)
      OBVIOUS
    <2>2. R = WithColumn(T, c, D)
      BY DEF WithColumn
    <2>. HIDE DEF T, R, rows
    <2>3. /\ w \in Slots /\ Accepts(T.schema.columns[c], w)
          /\ IsTable(WithColumn(T, c, D)) /\ WithColumn(T, c, D).schema = T.schema
          /\ RowsOf(WithColumn(T, c, D)) = [RowsOf(T) EXCEPT ![i].cells[c] = w]
      BY ONLY <1>1, <2>1, OverwrittenOk
    <2>. QED  BY <2>2, <2>3 DEF rows
  <1>3. /\ table' = [table EXCEPT ![t] = R] /\ outcome' = outcome
        /\ table = [u \in Tables |-> table[u]]
    <2>1. table = [u \in Tables |-> table[u]] /\ table' = [table EXCEPT ![t].columns[c] = D]
      BY DEF WriteParts, TableInv
    <2>. QED  BY <2>1 DEF WriteParts
  <1>. HIDE DEF R, w
  <1>4. \A u \in Tables : table'[u] = IF u = t THEN R ELSE table[u]
    BY <1>3
  <1>5. TableInv'
    BY <1>2, <1>3, <1>4 DEF TableInv
  <1>6. schemas' = schemas
    BY <1>2, <1>4
  <1>7. all' = [all EXCEPT ![t] = RowsOf(R)]
    <2>1. \A u \in Tables : RowsOf(table'[u]) = IF u = t THEN RowsOf(R) ELSE RowsOf(table[u])
      BY <1>4
    <2>. QED  BY <2>1, Zenon
  <1>8. Rows!Overwrite(t, i, c, w)
    <2>. DEFINE schema == schemas[t]
                now == all[t]
    <2>1. schema = T.schema /\ now = rows
      OBVIOUS
    <2>2. Rows!Accepts(schema.columns[c], w)
      BY <1>2, <2>1, SameSchemas
    <2>3. i \in DOMAIN now
      BY <1>1, <2>1, Zenon
    <2>4. all' = [all EXCEPT ![t][i].cells[c] = w]
      BY <1>2, <1>7, <2>1
    <2>. QED  BY <1>3, <1>6, <2>2, <2>3, <2>4 DEF Rows!Overwrite
  <1>9. w \in Values \cup {NULL}
    BY <1>2 DEF Slots
  <1>. QED  BY <1>5, <1>8, <1>9

\* An element of the values of into_parts is assigned to.
LEMMA WritePlaceholderOk ==
  ASSUME TableInv, NEW t \in Tables, NEW c \in Positions(table[t].schema), NEW i \in 1..table[t].rowCount,
         IsSplit(table[t].schema.columns[c]), NEW v \in SlotInputs \ {NULL}, WritePlaceholder(t, c, i, v)
  PROVE  TableInv' /\ \E w \in Values \cup {NULL} : Rows!Overwrite(t, i, c, w)
  <1>. DEFINE T == table[t]
              spec == T.schema.columns[c]
              C == T.columns[c]
              n == T.rowCount
              D == PutPlaceholder(C, i, v)
  <1>1. SliceFault(spec, TypeOf[v], TRUE) = "ok" /\ WriteParts(t, D, c)
    BY Zenon DEF WritePlaceholder
  <1>2. TypeOf[v] = spec.type /\ v \in Values
    BY <1>1, InputsAssumption, Zenon DEF SliceFault
  <1>3. IsSpec(spec) /\ HasShape(spec, C, n) /\ n \in Nat
    BY RowsAre, SchemaIs DEF IsTable, HasColumns
  <1>4. i \in 1..n /\ IsSplit(spec)
    OBVIOUS
  <1>. HIDE DEF spec, C, n
  <1>5. /\ HasShape(spec, D, n)
        /\ \A j \in 1..n : GetCell(D, j) = IF j = i /\ GetCell(C, i) # NULL THEN v ELSE GetCell(C, j)
    BY ONLY <1>2, <1>3, <1>4, PartsShape
  <1>. HIDE DEF D
  <1>6. \A j \in 1..n : j # i => GetCell(D, j) = GetCell(C, j)
    BY <1>5
  <1>. QED  BY <1>1, <1>5, <1>6, WritePartsOk DEF spec, C, n

\* An element of the validity of into_parts is assigned to.
LEMMA WriteValidityOk ==
  ASSUME TableInv, NEW t \in Tables, NEW c \in Positions(table[t].schema), NEW i \in 1..table[t].rowCount,
         IsSplit(table[t].schema.columns[c]), NEW valid \in BOOLEAN, WriteValidity(t, c, i, valid)
  PROVE  TableInv' /\ \E w \in Values \cup {NULL} : Rows!Overwrite(t, i, c, w)
  <1>. DEFINE T == table[t]
              spec == T.schema.columns[c]
              C == T.columns[c]
              n == T.rowCount
              D == PutValidity(C, i, valid)
  <1>1. WriteParts(t, D, c)
    BY DEF WriteValidity
  <1>2. IsSpec(spec) /\ HasShape(spec, C, n) /\ n \in Nat
    BY RowsAre, SchemaIs DEF IsTable, HasColumns
  <1>3. i \in 1..n /\ IsSplit(spec) /\ valid \in BOOLEAN
    OBVIOUS
  <1>. HIDE DEF spec, C, n
  <1>4. /\ HasShape(spec, D, n)
        /\ \A j \in 1..n : j # i => GetCell(D, j) = GetCell(C, j)
    BY ONLY <1>2, <1>3, PartsShape
  <1>. HIDE DEF D
  <1>. QED  BY <1>1, <1>4, WritePartsOk DEF spec, C, n

\* Tombstones::set of a row that exists.
LEMMA MarkRowOk ==
  ASSUME TableInv, NEW t \in Tables, NEW i \in Nat \ {0}, NEW d \in BOOLEAN,
         ~(i > table[t].rowCount), Return(t, SetFlag(table[t], i, d))
  PROVE  TableInv' /\ i \in 1..table[t].rowCount /\ Rows!Mark(t, i, d)
  <1>. DEFINE T == table[t]
              R == SetFlag(T, i, d)
              rows == RowsOf(T)
              now == [u \in Tables |-> RowsOf(table[u])][t]
  <1>1. IsTable(T) /\ DOMAIN rows = 1..T.rowCount /\ T.rowCount \in Nat
    BY RowsAre
  <1>2. i \in 1..T.rowCount /\ Return(t, R) /\ now = rows
    BY <1>1
  <1>. HIDE DEF T, rows, now
  <1>3. IsTable(R) /\ R.schema = T.schema /\ RowsOf(R) = [rows EXCEPT ![i].dead = d]
    BY ONLY <1>1, <1>2, d \in BOOLEAN, MarkedOk DEF rows
  <1>. HIDE DEF R
  <1>4. TableInv' /\ Rows!Become(t, RowsOf(R))
    BY <1>2, <1>3, BecomeOk, Zenon DEF T
  <1>5. Rows!Mark(t, i, d)
    <2>1. i \in DOMAIN now
      BY <1>1, <1>2
    <2>2. Rows!Become(t, [now EXCEPT ![i].dead = d])
      BY <1>2, <1>3, <1>4
    <2>. QED  BY <2>1, <2>2 DEF Rows!Mark, now
  <1>. QED  BY <1>2, <1>4, <1>5 DEF T

\* tombstone_row.
LEMMA TombstoneRowOk ==
  ASSUME TableInv, NEW t \in Tables, NEW i \in Nat \ {0}, TombstoneRow(t, i)
  PROVE  /\ TableInv'
         /\ Rows!Fail \/ (i \in 1..table[t].rowCount /\ \E d \in BOOLEAN : Rows!Mark(t, i, d))
  <1>1. CASE Refuse
    BY <1>1, RefuseOk
  <1>2. CASE ~Refuse
    <2>1. ~(i > table[t].rowCount) /\ Return(t, SetFlag(table[t], i, TRUE))
      BY <1>2, Zenon DEF TombstoneRow
    <2>. DEFINE d == TRUE
    <2>2. d \in BOOLEAN /\ Return(t, SetFlag(table[t], i, d))
      BY <2>1, Zenon
    <2>. HIDE DEF d
    <2>3. TableInv' /\ i \in 1..table[t].rowCount /\ Rows!Mark(t, i, d)
      BY <2>1, <2>2, MarkRowOk
    <2>. QED  BY <2>2, <2>3
  <1>. QED  BY <1>1, <1>2

\* restore_row.
LEMMA RestoreRowOk ==
  ASSUME TableInv, NEW t \in Tables, NEW i \in Nat \ {0}, RestoreRow(t, i)
  PROVE  /\ TableInv'
         /\ Rows!Fail \/ (i \in 1..table[t].rowCount /\ \E d \in BOOLEAN : Rows!Mark(t, i, d))
  <1>1. CASE Refuse
    BY <1>1, RefuseOk
  <1>2. CASE ~Refuse
    <2>1. ~(i > table[t].rowCount) /\ Return(t, SetFlag(table[t], i, FALSE))
      BY <1>2, Zenon DEF RestoreRow
    <2>. DEFINE d == FALSE
    <2>2. d \in BOOLEAN /\ Return(t, SetFlag(table[t], i, d))
      BY <2>1, Zenon
    <2>. HIDE DEF d
    <2>3. TableInv' /\ i \in 1..table[t].rowCount /\ Rows!Mark(t, i, d)
      BY <2>1, <2>2, MarkRowOk
    <2>. QED  BY <2>2, <2>3
  <1>. QED  BY <1>1, <1>2

\* restore_all_rows.
LEMMA RestoreAllOk ==
  ASSUME TableInv, NEW t \in Tables, RestoreAllRows(t)
  PROVE  TableInv' /\ Rows!RestoreAll(t)
  <1>. DEFINE T == table[t]
              R == WithFlags(T, <<>>, 0)
              rows == RowsOf(T)
              now == [u \in Tables |-> RowsOf(table[u])][t]
  <1>1. IsTable(T) /\ now = rows
    BY RowsAre
  <1>2. Return(t, R)
    BY DEF RestoreAllRows
  <1>3. /\ IsTable(R) /\ R.schema = T.schema
        /\ RowsOf(R) = [i \in DOMAIN rows |-> [rows[i] EXCEPT !.dead = FALSE]]
    <2>. HIDE DEF T
    <2>. QED  BY <1>1, RestoredOk
  <1>. HIDE DEF R
  <1>4. TableInv' /\ Rows!Become(t, RowsOf(R))
    BY <1>2, <1>3, BecomeOk, Zenon
  <1>. HIDE DEF now
  <1>5. Rows!Become(t, [i \in DOMAIN now |-> [now[i] EXCEPT !.dead = FALSE]])
    BY <1>1, <1>3, <1>4
  <1>. QED  BY <1>4, <1>5, Zenon DEF Rows!RestoreAll, now

\* compact.
LEMMA CompactOk ==
  ASSUME TableInv, NEW t \in Tables, Compact(t)
  PROVE  TableInv' /\ Rows!Compact(t)
  <1>. DEFINE T == table[t]
              R == Compacted(T)
              rows == RowsOf(T)
              now == [u \in Tables |-> RowsOf(table[u])][t]
              kept == KeptOf({i \in DOMAIN rows : ~rows[i].dead}, Len(rows))
              same == Rows!KeptOf({i \in DOMAIN now : ~now[i].dead}, Len(now))
  <1>1. IsTable(T) /\ now = rows
    BY RowsAre
  <1>2. Return(t, R)
    BY DEF Compact
  <1>3. /\ IsTable(R) /\ R.schema = T.schema
        /\ RowsOf(R) = [j \in DOMAIN kept |-> rows[kept[j]]]
    <2>. HIDE DEF T
    <2>. QED  BY <1>1, CompactedOk
  <1>4. same = kept
    BY <1>1, SameFields
  <1>. HIDE DEF R, kept
  <1>5. TableInv' /\ Rows!Become(t, RowsOf(R))
    BY <1>2, <1>3, BecomeOk
  <1>. HIDE DEF now, same
  <1>6. Rows!Become(t, [j \in DOMAIN same |-> now[same[j]]])
    BY <1>1, <1>3, <1>4, <1>5
  <1>. QED  BY <1>5, <1>6, Zenon DEF Rows!Compact, now, same

\* copy_rows and copy_range.
LEMMA CopyRowsOk ==
  ASSUME TableInv, NEW t \in Tables, NEW u \in Tables, NEW p \in Selections, CopyRows(t, u, p)
  PROVE  TableInv' /\ (Rows!Fail \/ Rows!Copy(t, u, p))
  <1>. DEFINE T == table[t]
              R == Copied(T, p)
              rows == RowsOf(T)
              all == [s \in Tables |-> RowsOf(table[s])]
              schemas == [s \in Tables |-> table[s].schema]
  <1>1. CASE Refuse
    BY <1>1, RefuseOk
  <1>2. CASE ~Refuse
    <2>1. (\A j \in DOMAIN p : ~(p[j] > T.rowCount)) /\ Return(u, R)
      BY <1>2 DEF CopyRows
    <2>2. IsTable(T) /\ DOMAIN rows = 1..T.rowCount /\ T.rowCount \in Nat
      BY RowsAre
    <2>3. p \in Seq(1..T.rowCount)
      <3>1. p \in Seq(Nat \ {0})
        BY InputsAssumption
      <3>. HIDE DEF T
      <3>. QED  BY <2>1, <2>2, <3>1, SelectionType
    <2>4. /\ IsTable(R) /\ R.schema = T.schema
          /\ RowsOf(R) = [j \in DOMAIN p |-> rows[p[j]]]
      <3>. HIDE DEF T
      <3>. QED  BY <2>2, <2>3, CopiedOk
    <2>. HIDE DEF R
    <2>5. TableInv'
      BY <2>1, <2>4, ReturnOk
    <2>6. \A s \in Tables : table'[s] = IF s = u THEN R ELSE table[s]
      BY <2>1 DEF Return, TableInv
    <2>7. schemas' = [schemas EXCEPT ![u] = schemas[t]]
      <3>1. \A s \in Tables : table'[s].schema = IF s = u THEN T.schema ELSE table[s].schema
        BY <2>4, <2>6
      <3>. QED  BY <3>1, Zenon
    <2>8. all' = [all EXCEPT ![u] = [j \in DOMAIN p |-> all[t][p[j]]]]
      <3>1. \A s \in Tables : RowsOf(table'[s]) = IF s = u THEN RowsOf(R) ELSE RowsOf(table[s])
        BY <2>6
      <3>2. RowsOf(R) = [j \in DOMAIN p |-> all[t][p[j]]]
        BY <2>4
      <3>. QED  BY <3>1, <3>2, Zenon
    <2>9. \A j \in DOMAIN p : p[j] \in DOMAIN all[t]
      <3>1. DOMAIN all[t] = 1..T.rowCount
        BY <2>2
      <3>2. \A j \in DOMAIN p : p[j] \in 1..T.rowCount
        <4>. HIDE DEF T
        <4>. DEFINE n == T.rowCount
        <4>1. p \in Seq(1..n) /\ n \in Nat
          BY <2>2, <2>3
        <4>. HIDE DEF n
        <4>2. \A j \in DOMAIN p : p[j] \in 1..n
          BY <4>1
        <4>. QED  BY <4>2 DEF n
      <3>. QED  BY <3>1, <3>2, Zenon
    <2>10. outcome' = "ok"
      BY <2>1 DEF Return
    <2>. QED  BY <2>5, <2>7, <2>8, <2>9, <2>10, Zenon DEF Rows!Copy
  <1>. QED  BY <1>1, <1>2

\* Rows of another table are appended, or the call fails.
LEMMA AppendOk ==
  ASSUME TableInv, NEW t \in Tables, NEW u \in Tables,
         NEW layout \in [Positions(table[t].schema) -> Positions(table[u].schema) \cup {NULL}],
         CanAppendRows(table[t], table[u], layout),
         Return(t, Appended(table[t], table[u], layout))
  PROVE  TableInv' /\ \E l \in Rows!Layouts(t, u) : Rows!AppendTable(t, u, l)
  <1>. DEFINE T == table[t]
              S == table[u]
              R == Appended(T, S, layout)
              all == [s \in Tables |-> RowsOf(table[s])]
              schemas == [s \in Tables |-> table[s].schema]
              rows == RowsOf(S)
              moved == [i \in 1..S.rowCount |-> MovedRow(T.schema, layout, rows[i])]
              new == [i \in DOMAIN all[u] |-> Rows!Moved(t, u, layout, all[u][i])]
  <1>1. IsTable(T) /\ IsTable(S) /\ S.rowCount \in Nat /\ DOMAIN rows = 1..S.rowCount
    BY RowsAre
  <1>2. /\ all[t] = RowsOf(T) /\ all[u] = rows
        /\ schemas[t] = T.schema /\ schemas[u] = S.schema
    OBVIOUS
  <1>3. /\ IsTable(R) /\ R.schema = T.schema /\ RowsOf(R) = RowsOf(T) \o moved
        /\ \A i \in 1..S.rowCount : WholeRow(T.schema, MovedRow(T.schema, layout, rows[i]))
    <2>1. layout \in [Positions(T.schema) -> Positions(S.schema) \cup {NULL}]
          /\ CanAppendRows(T, S, layout)
      OBVIOUS
    <2>. HIDE DEF T, S
    <2>. QED  BY ONLY <1>1, <2>1, AppendedOk, Zenon
  <1>4. Return(t, R)
    OBVIOUS
  <1>. HIDE DEF R, rows, T, S
  <1>5. \A row : Rows!Moved(t, u, layout, row) = MovedRow(T.schema, layout, row)
    <2>. DEFINE schema == schemas[t]
    <2>1. schema = T.schema
      BY <1>2
    <2>2. ASSUME NEW row
          PROVE  [c \in Rows!Positions(schema) |->
                    Rows!Prepare(schema.columns[c], IF layout[c] = NULL THEN NULL ELSE row.cells[layout[c]])]
                   = [c \in Positions(T.schema) |->
                        Prepare(T.schema.columns[c], IF layout[c] = NULL THEN NULL ELSE row.cells[layout[c]])]
      BY <2>1, SameSchemas
    <2>3. \A row : Rows!CollectExtras(schema, row.extra) = CollectExtras(T.schema, row.extra)
      BY <2>1, SameSchemas
    <2>. HIDE DEF schema
    <2>4. \A row : Rows!Moved(t, u, layout, row) =
            [cells |-> [c \in Rows!Positions(schema) |->
                    Rows!Prepare(schema.columns[c], IF layout[c] = NULL THEN NULL ELSE row.cells[layout[c]])],
             extra |-> Rows!CollectExtras(schema, row.extra), dead |-> row.dead]
      BY Zenon DEF Rows!Moved, schema
    <2>. QED  BY <2>2, <2>3, <2>4, Zenon DEF MovedRow
  <1>6. new = moved
    BY <1>1, <1>2, <1>5
  <1>7. TableInv' /\ Rows!Become(t, RowsOf(R))
    BY <1>3, <1>4, BecomeOk, Zenon DEF T
  <1>8. \A i \in DOMAIN new : new[i].extra # ERR /\ \A c \in DOMAIN new[i].cells : new[i].cells[c] # ERR
    <2>1. ASSUME NEW i \in 1..S.rowCount
          PROVE  moved[i].extra # ERR /\ \A c \in DOMAIN moved[i].cells : moved[i].cells[c] # ERR
      <3>1. WholeRow(T.schema, moved[i])
        BY <1>3
      <3>2. DOMAIN moved[i].cells = Positions(T.schema)
        BY DEF MovedRow
      <3>. HIDE DEF moved
      <3>. QED  BY <3>1, <3>2 DEF WholeRow
    <2>2. DOMAIN moved = 1..S.rowCount
      OBVIOUS
    <2>. HIDE DEF moved
    <2>. QED  BY <1>6, <2>1, <2>2, Zenon
  <1>9. Rows!Become(t, all[t] \o new)
    BY <1>2, <1>3, <1>6, <1>7, Zenon
  <1>. HIDE DEF moved
  <1>10. Rows!AppendTable(t, u, layout)
    BY <1>8, <1>9, Zenon DEF Rows!AppendTable
  <1>11. layout \in Rows!Layouts(t, u)
    <2>1. Rows!Positions(schemas[t]) = Positions(T.schema) /\ Rows!Positions(schemas[u]) = Positions(S.schema)
      BY <1>2, SameSchemas
    <2>2. layout \in [Rows!Positions(schemas[t]) -> Rows!Positions(schemas[u]) \cup {NULL}]
      BY <2>1 DEF T, S
    <2>. HIDE DEF schemas
    <2>. QED  BY <2>2, Zenon DEF Rows!Layouts, schemas
  <1>. QED  BY <1>7, <1>10, <1>11

\* append_mapped.
LEMMA AppendMappedOk ==
  ASSUME TableInv, NEW t \in Tables, NEW u \in Tables, NEW mapping, AppendMapped(t, u, mapping)
  PROVE  TableInv' /\ (Rows!Fail \/ \E l \in Rows!Layouts(t, u) : Rows!AppendTable(t, u, l))
  <1>. DEFINE layout == LayoutOf(table[t], table[u], mapping)
  <1>1. CASE Refuse
    BY <1>1, RefuseOk
  <1>2. CASE ~Refuse
    <2>1. /\ layout # ERR /\ CanAppendRows(table[t], table[u], layout)
          /\ Return(t, Appended(table[t], table[u], layout))
      BY <1>2 DEF AppendMapped
    <2>2. layout \in [Positions(table[t].schema) -> Positions(table[u].schema) \cup {NULL}]
      BY <2>1, LayoutType
    <2>. HIDE DEF layout
    <2>. QED  BY <2>1, <2>2, AppendOk
  <1>. QED  BY <1>1, <1>2

\* append_named.
LEMMA AppendNamedOk ==
  ASSUME TableInv, NEW t \in Tables, NEW u \in Tables, AppendNamed(t, u)
  PROVE  TableInv' /\ (Rows!Fail \/ \E l \in Rows!Layouts(t, u) : Rows!AppendTable(t, u, l))
  <1>. DEFINE layout == NamedMapping(table[t], table[u])
  <1>1. CASE Refuse
    BY <1>1, RefuseOk
  <1>2. CASE ~Refuse
    <2>1. /\ layout # ERR /\ CanAppendRows(table[t], table[u], layout)
          /\ Return(t, Appended(table[t], table[u], layout))
      BY <1>2 DEF AppendNamed
    <2>2. layout \in [Positions(table[t].schema) -> Positions(table[u].schema) \cup {NULL}]
      BY <2>1, NamedType
    <2>. HIDE DEF layout
    <2>. QED  BY <2>1, <2>2, AppendOk
  <1>. QED  BY <1>1, <1>2

\* append.
LEMMA AppendByPositionOk ==
  ASSUME TableInv, NEW t \in Tables, NEW u \in Tables, AppendByPosition(t, u)
  PROVE  TableInv' /\ (Rows!Fail \/ \E l \in Rows!Layouts(t, u) : Rows!AppendTable(t, u, l))
  <1>1. CASE Refuse
    BY <1>1, RefuseOk
  <1>2. CASE ~Refuse
    <2>. DEFINE mapping == [d \in Positions(table[t].schema) |-> <<d, d>>]
    <2>1. AppendMapped(t, u, mapping)
      BY <1>2 DEF AppendByPosition
    <2>. HIDE DEF mapping
    <2>. QED  BY <2>1, AppendMappedOk
  <1>. QED  BY <1>1, <1>2

-----------------------------------------------------------------------------
(* Every behaviour.                                                        *)

\* Where the rows of a table are: positions as TableRows has them.
LEMMA Places ==
  ASSUME TableInv, NEW t \in Tables
  PROVE  /\ DOMAIN [u \in Tables |-> RowsOf(table[u])][t] = 1..table[t].rowCount
         /\ Rows!Positions([u \in Tables |-> table[u].schema][t]) = Positions(table[t].schema)
         /\ table[t].rowCount \in Nat
         /\ Positions(table[t].schema) = 1..Width(table[t].schema)
         /\ Width(table[t].schema) \in Nat
  BY RowsAre, SameSchemas, SchemaIs

\* Changes of one row are steps of TableRows.
LEMMA EditIsStep ==
  ASSUME TableInv, NEW t \in Tables, NEW i \in 1..table[t].rowCount
  PROVE  /\ \A c \in Positions(table[t].schema), v \in CellInputs : Rows!SetCell(t, i, c, v) => Rows!Next
         /\ \A c \in Positions(table[t].schema), v \in SlotInputs : Rows!SetSlot(t, i, c, v) => Rows!Next
         /\ \A n \in Names, v \in CellInputs : Rows!SetExtra(t, i, n, v) => Rows!Next
         /\ \A d \in BOOLEAN : Rows!Mark(t, i, d) => Rows!Next
         /\ \A c \in Positions(table[t].schema), v \in Values \cup {NULL} :
              Rows!Overwrite(t, i, c, v) => Rows!Next
  <1>1. i \in DOMAIN [u \in Tables |-> RowsOf(table[u])][t]
    BY Places
  <1>2. Positions(table[t].schema) = Rows!Positions([u \in Tables |-> table[u].schema][t])
    BY Places
  <1>. DEFINE places == Rows!Positions([u \in Tables |-> table[u].schema][t])
  <1>3. ASSUME NEW c \in places, NEW v \in CellInputs, Rows!SetCell(t, i, c, v)  PROVE Rows!Next
    BY <1>1, <1>3, Zenon DEF Rows!Next
  <1>4. ASSUME NEW c \in places, NEW v \in SlotInputs, Rows!SetSlot(t, i, c, v)  PROVE Rows!Next
    BY <1>1, <1>4, Zenon DEF Rows!Next
  <1>5. ASSUME NEW n \in Names, NEW v \in CellInputs, Rows!SetExtra(t, i, n, v)  PROVE Rows!Next
    BY <1>1, <1>5, Zenon DEF Rows!Next
  <1>6. ASSUME NEW d \in BOOLEAN, Rows!Mark(t, i, d)  PROVE Rows!Next
    BY <1>1, <1>6, Zenon DEF Rows!Next
  <1>7. ASSUME NEW c \in places, NEW v \in Values \cup {NULL}, Rows!Overwrite(t, i, c, v)  PROVE Rows!Next
    BY <1>1, <1>7, Zenon DEF Rows!Next
  <1>. HIDE DEF places
  <1>8. places = Positions(table[t].schema)
    BY <1>2 DEF places
  <1>. QED  BY <1>3, <1>4, <1>5, <1>6, <1>7, <1>8, Zenon

\* So are the other calls.
LEMMA CallIsStep ==
  ASSUME NEW t \in Tables
  PROVE  /\ Rows!Fail => Rows!Next
         /\ \A values \in RowInputs, extras \in ExtraInputs : Rows!PushRow(t, values, extras) => Rows!Next
         /\ Rows!PopRow(t) => Rows!Next
         /\ Rows!RestoreAll(t) => Rows!Next
         /\ Rows!Compact(t) => Rows!Next
         /\ \A u \in Tables, p \in Selections : Rows!Copy(t, u, p) => Rows!Next
         /\ \A u \in Tables \ {t} : \A l \in Rows!Layouts(t, u) : Rows!AppendTable(t, u, l) => Rows!Next
  <1>1. Rows!Fail => Rows!Next
    BY Zenon DEF Rows!Next
  <1>2. ASSUME NEW values \in RowInputs, NEW extras \in ExtraInputs, Rows!PushRow(t, values, extras)
        PROVE  Rows!Next
    BY <1>2, Zenon DEF Rows!Next
  <1>3. Rows!PopRow(t) => Rows!Next
    BY Zenon DEF Rows!Next
  <1>4. Rows!RestoreAll(t) => Rows!Next
    BY Zenon DEF Rows!Next
  <1>5. Rows!Compact(t) => Rows!Next
    BY Zenon DEF Rows!Next
  <1>6. ASSUME NEW u \in Tables, NEW p \in Selections, Rows!Copy(t, u, p)  PROVE Rows!Next
    BY <1>6, Zenon DEF Rows!Next
  <1>7. ASSUME NEW u \in Tables \ {t}, NEW l \in Rows!Layouts(t, u), Rows!AppendTable(t, u, l)
        PROVE  Rows!Next
    BY <1>7, Zenon DEF Rows!Next
  <1>. QED  BY <1>1, <1>2, <1>3, <1>4, <1>5, <1>6, <1>7, Zenon

\* Tables start empty, with schemas that keep to the invariant.
LEMMA InitOk ==
  ASSUME Init
  PROVE  TableInv /\ Rows!Init
  <1>. PICK schema \in [Tables -> Schemas] : table = [t \in Tables |-> NewTable(schema[t])]
    BY DEF Init
  <1>1. ASSUME NEW t \in Tables
        PROVE  /\ table[t] = NewTable(schema[t]) /\ IsTable(table[t])
               /\ table[t].schema = schema[t] /\ RowsOf(table[t]) = <<>>
    <2>1. schema[t] \in Schemas /\ table[t] = NewTable(schema[t])
      OBVIOUS
    <2>. QED  BY <2>1, NewTableOk
  <1>2. TableInv
    BY <1>1 DEF TableInv
  <1>3. [t \in Tables |-> table[t].schema] = schema
    BY <1>1
  <1>4. [t \in Tables |-> RowsOf(table[t])] = [t \in Tables |-> <<>>]
    BY <1>1
  <1>. QED  BY <1>2, <1>3, <1>4, Zenon DEF Rows!Init, Init

\* Every call keeps the invariant and is one step of TableRows.
LEMMA StepOk ==
  ASSUME TableInv, Next
  PROVE  TableInv' /\ Rows!Next
  <1>. PICK t \in Tables :
         \/ \E values \in RowInputs, extras \in ExtraInputs : PushRow(t, values, extras)
         \/ PopRow(t)
         \/ \E i \in RowPositions(t), v \in CellInputs :
              \/ \E c \in 1..(Width(table[t].schema) + 1) : SetCell(t, i, c, v)
              \/ \E n \in Names : SetNamed(t, i, n, v)
         \/ \E c \in Positions(table[t].schema), i \in RowPositions(t) :
              \E v \in SlotInputs, optional \in BOOLEAN :
                (v = NULL => optional) /\ WriteSlot(t, c, i, v, optional)
         \/ \E c \in Positions(table[t].schema), i \in 1..table[t].rowCount :
              /\ IsSplit(table[t].schema.columns[c])
              /\ \/ \E v \in SlotInputs \ {NULL} : WritePlaceholder(t, c, i, v)
                 \/ \E valid \in BOOLEAN : WriteValidity(t, c, i, valid)
         \/ \E i \in RowPositions(t) : TombstoneRow(t, i) \/ RestoreRow(t, i)
         \/ RestoreAllRows(t)
         \/ Compact(t)
         \/ \E u \in Tables, positions \in Selections : CopyRows(t, u, positions)
         \/ \E u \in Tables \ {t} :
              \/ \E mapping \in Mappings : AppendMapped(t, u, mapping)
              \/ AppendByPosition(t, u)
              \/ AppendNamed(t, u)
    BY Zenon DEF Next
  <1>p. /\ \A i \in RowPositions(t) : i \in Nat \ {0}
        /\ \A c \in 1..(Width(table[t].schema) + 1) : c \in Nat
    BY Places DEF RowPositions
  <1>1. ASSUME NEW values \in RowInputs, NEW extras \in ExtraInputs, PushRow(t, values, extras)
        PROVE  TableInv' /\ Rows!Next
    BY <1>1, PushRowOk, CallIsStep, Zenon
  <1>2. CASE PopRow(t)
    BY <1>2, PopRowOk, CallIsStep, Zenon
  <1>3. ASSUME NEW i \in RowPositions(t), NEW v \in CellInputs,
               NEW c \in 1..(Width(table[t].schema) + 1), SetCell(t, i, c, v)
        PROVE  TableInv' /\ Rows!Next
    <2>1. i \in Nat \ {0} /\ c \in Nat
      BY <1>p
    <2>2. /\ TableInv'
          /\ Rows!Fail \/ (/\ c \in Positions(table[t].schema) /\ i \in 1..table[t].rowCount
                           /\ Rows!SetCell(t, i, c, v))
      BY ONLY TableInv, <1>3, <2>1, SetCellOk
    <2>. QED  BY <2>2, CallIsStep, EditIsStep, Zenon
  <1>4. ASSUME NEW i \in RowPositions(t), NEW v \in CellInputs, NEW n \in Names, SetNamed(t, i, n, v)
        PROVE  TableInv' /\ Rows!Next
    <2>1. i \in Nat \ {0}
      BY <1>p
    <2>2. /\ TableInv'
          /\ \/ Rows!Fail
             \/ \E c \in Positions(table[t].schema) :
                  i \in 1..table[t].rowCount /\ Rows!SetCell(t, i, c, v)
             \/ i \in 1..table[t].rowCount /\ Rows!SetExtra(t, i, n, v)
      BY ONLY TableInv, <1>4, <2>1, SetNamedOk
    <2>. QED  BY <2>2, CallIsStep, EditIsStep, Zenon
  <1>5. ASSUME NEW c \in Positions(table[t].schema), NEW i \in RowPositions(t),
               NEW v \in SlotInputs, NEW optional \in BOOLEAN, v = NULL => optional,
               WriteSlot(t, c, i, v, optional)
        PROVE  TableInv' /\ Rows!Next
    <2>1. i \in Nat \ {0}
      BY <1>p
    <2>2. v = NULL => optional = TRUE
      BY <1>5, Zenon
    <2>3. TableInv' /\ (Rows!Fail \/ (i \in 1..table[t].rowCount /\ Rows!SetSlot(t, i, c, v)))
      BY ONLY TableInv, <1>5, <2>1, <2>2, WriteSlotOk, Zenon
    <2>. QED  BY <2>3, CallIsStep, EditIsStep, Zenon
  <1>6. ASSUME NEW c \in Positions(table[t].schema), NEW i \in 1..table[t].rowCount,
               IsSplit(table[t].schema.columns[c]), NEW v \in SlotInputs \ {NULL}, WritePlaceholder(t, c, i, v)
        PROVE  TableInv' /\ Rows!Next
    BY <1>6, WritePlaceholderOk, EditIsStep, Zenon
  <1>7. ASSUME NEW c \in Positions(table[t].schema), NEW i \in 1..table[t].rowCount,
               IsSplit(table[t].schema.columns[c]), NEW valid \in BOOLEAN, WriteValidity(t, c, i, valid)
        PROVE  TableInv' /\ Rows!Next
    <2>1. TableInv' /\ \E w \in Values \cup {NULL} : Rows!Overwrite(t, i, c, w)
      BY <1>7, WriteValidityOk
    <2>. QED  BY <2>1, EditIsStep, Zenon
  <1>8. ASSUME NEW i \in RowPositions(t), TombstoneRow(t, i) \/ RestoreRow(t, i)
        PROVE  TableInv' /\ Rows!Next
    <2>1. i \in Nat \ {0}
      BY <1>p
    <2>2. /\ TableInv'
          /\ Rows!Fail \/ (i \in 1..table[t].rowCount /\ \E d \in BOOLEAN : Rows!Mark(t, i, d))
      <3>1. CASE TombstoneRow(t, i)
        BY ONLY TableInv, t \in Tables, <2>1, <3>1, TombstoneRowOk
      <3>2. CASE RestoreRow(t, i)
        BY ONLY TableInv, t \in Tables, <2>1, <3>2, RestoreRowOk
      <3>. QED  BY <1>8, <3>1, <3>2, Zenon
    <2>. QED  BY <2>2, CallIsStep, EditIsStep, Zenon
  <1>9. CASE RestoreAllRows(t)
    BY <1>9, RestoreAllOk, CallIsStep, Zenon
  <1>10. CASE Compact(t)
    BY <1>10, CompactOk, CallIsStep, Zenon
  <1>11. ASSUME NEW u \in Tables, NEW positions \in Selections, CopyRows(t, u, positions)
         PROVE  TableInv' /\ Rows!Next
    BY <1>11, CopyRowsOk, CallIsStep, Zenon
  <1>12. ASSUME NEW u \in Tables \ {t},
                \/ \E mapping \in Mappings : AppendMapped(t, u, mapping)
                \/ AppendByPosition(t, u)
                \/ AppendNamed(t, u)
         PROVE  TableInv' /\ Rows!Next
    <2>1. u \in Tables
      OBVIOUS
    <2>2. TableInv' /\ (Rows!Fail \/ \E l \in Rows!Layouts(t, u) : Rows!AppendTable(t, u, l))
      BY <1>12, <2>1, AppendMappedOk, AppendByPositionOk, AppendNamedOk, Zenon
    <2>. QED  BY <2>2, CallIsStep, Zenon
  <1>. QED  BY <1>1, <1>2, <1>3, <1>4, <1>5, <1>6, <1>7, <1>8, <1>9, <1>10, <1>11, <1>12, Zenon

\* A step that changes nothing of the tables changes nothing of their rows.
LEMMA StutterOk ==
  ASSUME TableInv, UNCHANGED vars
  PROVE  TableInv' /\ UNCHANGED Rows!absVars
  BY DEF vars, TableInv, Rows!absVars

\* The vectors of every table have the shape and the values its schema says, after
\* any sequence of calls.
THEOREM TablesKeepShape == Spec => []TableInv
  <1>1. Init => TableInv
    BY InitOk
  <1>2. TableInv /\ [Next]_vars => TableInv'
    BY StepOk, StutterOk
  <1>. QED  BY <1>1, <1>2, PTL DEF Spec

\* Table implements TableRows: every call, on vectors, tombstones and fields, moves,
\* edits or removes rows as a whole, and one that is refused changes nothing.
THEOREM TablesAreRows == Spec => ImplementsRows
  <1>1. Init => Rows!Init
    BY InitOk
  <1>2. TableInv /\ [Next]_vars => [Rows!Next]_(Rows!absVars)
    BY StepOk, StutterOk
  <1>. QED  BY <1>1, <1>2, TablesKeepShape, PTL DEF Spec, ImplementsRows, Rows!Spec

\* The recursion of SetUpto defines a function.
LEMMA SetUptoDef ==
  ASSUME NEW pairs, NEW n \in Nat, n = Len(pairs)
  PROVE  SetUpto(pairs) =
           [k \in 0..n |-> IF k = 0 THEN <<NULL>>
                           ELSE SetField(SetUpto(pairs)[k - 1], 1, pairs[k][1], pairs[k][2])]
  <1>. DEFINE Step(f, k) == SetField(f[k - 1], 1, pairs[k][1], pairs[k][2])
              Def(f, m) == f = [k \in 0..m |-> IF k = 0 THEN <<NULL>> ELSE Step(f, k)]
              T == {m \in Nat : \E f : Def(f, m)}
  <1>1. 0 \in T
    <2>1. Def([k \in 0..0 |-> <<NULL>>], 0)
      OBVIOUS
    <2>. QED  BY <2>1, Zenon
  <1>2. ASSUME NEW m \in T  PROVE m + 1 \in T
    <2>1. PICK f : Def(f, m)
      OBVIOUS
    <2>. DEFINE last == SetField(f[m], 1, pairs[m + 1][1], pairs[m + 1][2])
                g == [k \in 0..(m + 1) |-> IF k <= m THEN f[k] ELSE last]
    <2>2. /\ g = [k \in 0..(m + 1) |-> g[k]] /\ g[m + 1] = last /\ \A k \in 0..m : g[k] = f[k]
      <3>. HIDE DEF last
      <3>. QED  BY OneMoreValue
    <2>. HIDE DEF g
    <2>3. \A k \in 0..(m + 1) : g[k] = IF k = 0 THEN <<NULL>> ELSE Step(g, k)
      <3>1. \A k \in 0..m : f[k] = IF k = 0 THEN <<NULL>> ELSE Step(f, k)
        <4>. HIDE DEF Step
        <4>. QED  BY <2>1
      <3>. TAKE k \in 0..(m + 1)
      <3>2. CASE k \in 0..m
        <4>1. k = 0 \/ (k # 0 /\ k - 1 \in 0..m)
          BY <3>2
        <4>. QED  BY <2>2, <3>1, <3>2, <4>1
      <3>3. CASE k = m + 1
        <4>1. k # 0 /\ k - 1 = m /\ m \in 0..m
          BY <3>3
        <4>. QED  BY <2>2, <3>3, <4>1
      <3>. QED  BY <3>2, <3>3
    <2>4. Def(g, m + 1)
      <3>. HIDE DEF Step
      <3>. QED  BY <2>2, <2>3
    <2>. HIDE DEF Def
    <2>. QED  BY <2>4
  <1>3. T = Nat
    <2>1. T \in SUBSET Nat
      OBVIOUS
    <2>. HIDE DEF T
    <2>. QED  BY <1>1, <1>2, <2>1, SetInduction, Zenon
  <1>4. PICK f : Def(f, n)
    BY <1>3
  <1>. QED  BY <1>4, Zenon DEF SetUpto

\* Fields set one by one are those that were given.
LEMMA SetUptoOk ==
  ASSUME NEW pairs \in Seq(Names \X Slots)
  PROVE  /\ HasExtras(SetUpto(pairs)[Len(pairs)], 1) /\ SetUpto(pairs)[Len(pairs)] # NULL
         /\ FieldsOf(SetUpto(pairs)[Len(pairs)], 1) = FieldsIn(pairs)
  <1>. DEFINE u == SetUpto(pairs)
              n == Len(pairs)
              P(m) == /\ HasExtras(u[m], 1) /\ u[m] # NULL
                      /\ HasLatest(FieldsOf(u[m], 1), pairs, m)
              T == {m \in 0..n : P(m)}
  <1>0. n \in Nat
    OBVIOUS
  <1>1. /\ u[0] = <<NULL>>
        /\ \A k \in 0..n : k < n => u[k + 1] = SetField(u[k], 1, pairs[k + 1][1], pairs[k + 1][2])
    <2>1. u = [k \in 0..n |-> IF k = 0 THEN <<NULL>>
                              ELSE SetField(u[k - 1], 1, pairs[k][1], pairs[k][2])]
      BY <1>0, SetUptoDef
    <2>. HIDE DEF u, n
    <2>2. u[0] = <<NULL>>
      BY <1>0, <2>1
    <2>3. ASSUME NEW k \in 0..n, k < n
          PROVE  u[k + 1] = SetField(u[k], 1, pairs[k + 1][1], pairs[k + 1][2])
      <3>1. k + 1 \in 0..n /\ k + 1 # 0 /\ (k + 1) - 1 = k
        BY <1>0, <2>3
      <3>2. u[k + 1] = SetField(u[(k + 1) - 1], 1, pairs[k + 1][1], pairs[k + 1][2])
        BY <2>1, <3>1
      <3>. QED  BY <3>1, <3>2
    <2>. QED  BY <2>2, <2>3
  <1>. HIDE DEF u
  <1>2. 0 \in T
    <2>1. <<NULL>> \in Seq(RowFields \cup {NULL}) /\ Len(<<NULL>>) = 1 /\ <<NULL>>[1] = NULL
      OBVIOUS
    <2>2. HasExtras(<<NULL>>, 1) /\ <<NULL>> # NULL
      <3>1. <<NULL>> # NULL
        BY <2>1, ValuesAssumption, Zenon
      <3>2. \A i \in 1..1 : <<NULL>>[i] = NULL
        BY <2>1
      <3>. QED  BY ONLY <2>1, <3>1, <3>2 DEF HasExtras
    <2>3. FieldsOf(<<NULL>>, 1) = NoExtras
      BY <2>1, <2>2 DEF FieldsOf
    <2>4. HasLatest(NoExtras, pairs, 0)
      BY DEF HasLatest, NoExtras
    <2>5. 0 \in 0..n
      BY <1>0
    <2>. QED  BY <1>1, <2>2, <2>3, <2>4, <2>5, Zenon
  <1>3. ASSUME NEW m \in 0..n, m < n, m \in T  PROVE m + 1 \in T
    <2>. DEFINE name == pairs[m + 1][1]
                v == pairs[m + 1][2]
    <2>1. m + 1 \in 0..n /\ name \in Names /\ v \in Slots
      BY <1>0, <1>3
    <2>2. HasExtras(u[m], 1) /\ u[m] # NULL /\ HasLatest(FieldsOf(u[m], 1), pairs, m)
      BY <1>3
    <2>3. u[m + 1] = SetField(u[m], 1, name, v)
      BY <1>1, <1>3
    <2>4. HasLatest(WithExtra(FieldsOf(u[m], 1), name, v), pairs, m + 1)
      <3>1. m \in Nat /\ m < Len(pairs)
        BY <1>0, <1>3
      <3>. DEFINE M == FieldsOf(u[m], 1)
      <3>2. HasLatest(M, pairs, m)
        BY <2>2
      <3>. HIDE DEF M
      <3>. QED  BY <3>1, <3>2, LatestGrows DEF M
    <2>. HIDE DEF name, v
    <2>5. 1 \in Nat /\ 1 \in 1..1
      OBVIOUS
    <2>6. /\ HasExtras(SetField(u[m], 1, name, v), 1) /\ SetField(u[m], 1, name, v) # NULL
          /\ FieldsOf(SetField(u[m], 1, name, v), 1) = WithExtra(FieldsOf(u[m], 1), name, v)
      BY ONLY <2>1, <2>2, <2>5, SetFieldOk, Zenon
    <2>. QED  BY <2>1, <2>3, <2>4, <2>6
  <1>. HIDE DEF P
  <1>4. T = 0..n
    <2>1. T \in SUBSET (0..n)
      OBVIOUS
    <2>. HIDE DEF T
    <2>. QED  BY <1>0, <1>2, <1>3, <2>1, BoundedInduction
  <1>5. P(n)
    BY <1>0, <1>4
  <1>. QED  BY <1>5, LatestAll DEF P, u

\* A schema without columns that is open takes any fields at once.
LEMMA OpenTakesAll ==
  ASSUME NEW pairs \in Seq(Names \X Slots)
  PROVE  /\ FieldsOk(Collected(SchemaOf(<<>>, TRUE), pairs))
         /\ FieldMap(Collected(SchemaOf(<<>>, TRUE), pairs)) = FieldsIn(pairs)
  <1>. DEFINE schema == SchemaOf(<<>>, TRUE)
              fields == FieldsIn(pairs)
              E == Collected(schema, pairs)
  <1>1. schema.open = TRUE /\ Positions(schema) = {}
    BY DEF SchemaOf, Positions, Width
  <1>2. \A n : ColumnIndex(schema, n) = NULL
    BY <1>1, Zenon DEF ColumnIndex
  <1>3. fields # ERR
    <2>. DEFINE D == {pairs[k][1] : k \in 1..Len(pairs)}
    <2>1. fields \in [D -> Slots]
      BY FieldsInIs, Zenon
    <2>2. D \in SUBSET Names
      OBVIOUS
    <2>. HIDE DEF D, fields
    <2>. QED  BY <2>1, <2>2, ValuesAssumption DEF Slots
  <1>4. CollectExtras(schema, fields) = fields
    <2>. HIDE DEF schema, fields
    <2>. QED  BY <1>1, <1>2 DEF CollectExtras
  <1>5. E = PutUpto(EmptyExtras(Len(pairs)), pairs)[Len(pairs)]
    BY <1>3, <1>4, Zenon DEF Collected
  <1>6. FieldsOk(E) /\ FieldMap(E) = fields
    BY <1>5, EmptyOk, PutUptoOk, Zenon
  <1>. QED  BY <1>6, Zenon

\* Fields given at once or one by one, of any number, are kept, each once.
LEMMA FieldsKept == ExtrasAreKept
  <1>. DEFINE lists == UNION {[1..k -> Names \X (CellInputs \cup {NULL})] : k \in 0..3}
  <1>1. ASSUME NEW pairs \in lists
        PROVE  pairs \in Seq(Names \X Slots)
    <2>1. CellInputs \cup {NULL} \in SUBSET Slots
      BY InputsAssumption DEF Slots
    <2>2. PICK k \in 0..3 : pairs \in [1..k -> Names \X (CellInputs \cup {NULL})]
      OBVIOUS
    <2>3. pairs \in [1..k -> Names \X Slots] /\ k \in Nat
      BY <2>1, <2>2
    <2>. QED  BY <2>3
  <1>2. ASSUME NEW pairs \in Seq(Names \X Slots), NEW X, X # NULL, HasExtras(X, 1),
               FieldsOf(X, 1) = FieldsIn(pairs)
        PROVE  X[1] # NULL => Len(FieldPairs(X[1])) = Cardinality(DOMAIN FieldsIn(pairs))
    <2>. SUFFICES ASSUME X[1] # NULL
                  PROVE  Len(FieldPairs(X[1])) = Cardinality(DOMAIN FieldsIn(pairs))
      OBVIOUS
    <2>1. FieldsOf(X, 1) = FieldMap(X[1]) /\ FieldsOk(X[1])
      BY <1>2, ExtrasAt
    <2>. QED  BY <1>2, <2>1, PairsOk
  <1>3. ASSUME NEW pairs \in Seq(Names \X Slots), NEW E, FieldsOk(E), FieldMap(E) = FieldsIn(pairs)
        PROVE  <<E>> # NULL /\ HasExtras(<<E>>, 1) /\ FieldsOf(<<E>>, 1) = FieldsIn(pairs)
    <2>1. E \in RowFields
      BY <1>3 DEF FieldsOk
    <2>2. <<E>> \in Seq(RowFields \cup {NULL}) /\ Len(<<E>>) = 1 /\ <<E>>[1] = E
      BY <2>1
    <2>3. <<E>> # NULL /\ E # NULL
      BY <2>1, <2>2, ValuesAssumption, Zenon
    <2>4. HasExtras(<<E>>, 1)
      BY <1>3, <2>2 DEF HasExtras
    <2>5. FieldsOf(<<E>>, 1) = FieldMap(<<E>>[1])
      BY <2>2, <2>3, <2>4, ExtrasAt
    <2>. QED  BY <1>3, <2>2, <2>3, <2>4, <2>5
  <1>4. ASSUME NEW pairs \in lists,
               NEW X \in {<<Collected(SchemaOf(<<>>, TRUE), pairs)>>, SetUpto(pairs)[Len(pairs)]}
        PROVE  /\ FieldsOf(X, 1) = FieldsIn(pairs)
               /\ X[1] # NULL => Len(FieldPairs(X[1])) = Cardinality(DOMAIN FieldsIn(pairs))
    <2>1. pairs \in Seq(Names \X Slots)
      BY <1>1
    <2>2. X # NULL /\ HasExtras(X, 1) /\ FieldsOf(X, 1) = FieldsIn(pairs)
      <3>1. CASE X = <<Collected(SchemaOf(<<>>, TRUE), pairs)>>
        BY <1>3, <2>1, <3>1, OpenTakesAll, Zenon
      <3>2. CASE X = SetUpto(pairs)[Len(pairs)]
        BY <2>1, <3>2, SetUptoOk
      <3>. QED  BY <3>1, <3>2, Zenon
    <2>. QED  BY <1>2, <2>1, <2>2
  <1>. QED  BY <1>4, Zenon DEF ExtrasAreKept

-----------------------------------------------------------------------------
(* Invariants.                                                             *)

\* The invariant says that all vectors have one element per row.
LEMMA ShapeIsAligned ==
  ASSUME TableInv
  PROVE  Aligned
  <1>1. ASSUME NEW T, IsTable(T)
        PROVE  /\ \A c \in DOMAIN T.columns :
                    /\ Length(T.columns[c]) = T.rowCount
                    /\ \A x \in VectorsOf(T.columns[c]) : Len(T.columns[c][x]) = T.rowCount
               /\ T.extras # NULL => Len(T.extras) = T.rowCount
    <2>1. DOMAIN T.columns = Positions(T.schema) /\ HasExtras(T.extras, T.rowCount)
      BY <1>1 DEF IsTable, HasColumns
    <2>2. T.extras # NULL => Len(T.extras) = T.rowCount
      BY <2>1 DEF HasExtras
    <2>. QED  BY <1>1, <2>1, <2>2, TableHolds
  <1>2. ASSUME NEW flags, NEW count, NEW n \in Nat, FlagsOk(flags, count, n)
        PROVE  /\ (flags = <<>>) = (count = 0)
               /\ flags # <<>> => Len(flags) = n
               /\ count = Cardinality({i \in DOMAIN flags : flags[i]})
    <2>1. flags \in Seq(BOOLEAN) /\ count = Cardinality(Flagged(flags))
      BY <1>2 DEF FlagsOk
    <2>2. Flagged(flags) = {i \in DOMAIN flags : flags[i]}
      BY <2>1 DEF Flagged
    <2>3. flags = <<>> => count = 0
      BY <2>1, FS_EmptySet DEF Flagged
    <2>. QED  BY <1>2, <2>1, <2>2, <2>3 DEF FlagsOk
  <1>3. ASSUME NEW T, IsTable(T)
        PROVE  /\ (T.flags = <<>>) = (T.count = 0)
               /\ T.flags # <<>> => Len(T.flags) = T.rowCount
               /\ T.count = Cardinality({i \in DOMAIN T.flags : T.flags[i]})
    <2>1. FlagsOk(T.flags, T.count, T.rowCount) /\ T.rowCount \in Nat
      BY <1>3 DEF IsTable
    <2>. QED  BY <1>2, <2>1, Zenon
  <1>4. \A t \in Tables : IsTable(table[t])
    BY DEF TableInv
  <1>. QED  BY <1>1, <1>3, <1>4, Zenon DEF Aligned

\* It also says that columns accept their cells, and that no extra field has the
\* name of a column.
LEMMA CellsAreValid ==
  ASSUME TableInv
  PROVE  CellsValid /\ ExtrasDisjoint
  <1>1. ASSUME NEW T, IsTable(T)
        PROVE  /\ \A c \in DOMAIN T.columns : \A i \in 1..T.rowCount :
                    Accepts(T.schema.columns[c], Cell(T, i, c))
               /\ \A i \in 1..T.rowCount : \A n \in DOMAIN FieldsOf(T.extras, i) :
                    ColumnIndex(T.schema, n) = NULL
    <2>1. DOMAIN T.columns = Positions(T.schema) /\ FieldsApart(T.schema, T.extras, T.rowCount)
      BY <1>1 DEF IsTable, HasColumns
    <2>2. \A i \in 1..T.rowCount : \A n \in DOMAIN FieldsOf(T.extras, i) : ColumnIndex(T.schema, n) = NULL
      BY <2>1 DEF FieldsApart
    <2>3. \A c \in Positions(T.schema) : \A i \in 1..T.rowCount :
            Accepts(T.schema.columns[c], Cell(T, i, c))
      BY <1>1, TableHolds
    <2>. QED  BY <2>1, <2>2, <2>3, Zenon
  <1>2. \A t \in Tables : IsTable(table[t])
    BY DEF TableInv
  <1>. QED  BY <1>1, <1>2, Zenon DEF CellsValid, ExtrasDisjoint

\* The vectors of a table never drift apart, and the marks are counted.
THEOREM TablesAreAligned == Spec => []Aligned
  <1>1. TableInv => Aligned
    BY ShapeIsAligned
  <1>. QED  BY <1>1, TablesKeepShape, PTL

\* Every row of every table is one its own schema allows, wherever it came from.
THEOREM RowsStayLegal == Spec => []RowsAreLegal
  <1>1. TableInv => RowsAreLegal
    BY CellsAreValid, FieldsKept DEF RowsAreLegal
  <1>. QED  BY <1>1, TablesKeepShape, PTL

-----------------------------------------------------------------------------
(* What compact returns, and what is appended to what.                     *)

\* As many rows are kept up to one that is kept as new_position says.
LEMMA NewPositionIs ==
  ASSUME NEW n \in Nat, NEW removed \in SUBSET (1..n), NEW i \in (1..n) \ removed
  PROVE  NewPosition(i, removed) = Cardinality(((1..n) \ removed) \cap (1..i))
  <1>. DEFINE A == {r \in removed : r < i}
              B == ((1..n) \ removed) \cap (1..i)
  <1>1. A \cup B = 1..i /\ A \cap B = {}
    <2>1. \A r : r \in A <=> r \in removed /\ r < i
      OBVIOUS
    <2>2. \A r : r \in B <=> r \in 1..n /\ r \notin removed /\ r \in 1..i
      OBVIOUS
    <2>3. \A r \in 1..n : r \in 1..i <=> r < i \/ r = i
      OBVIOUS
    <2>4. \A r \in 1..i : r \in 1..n
      OBVIOUS
    <2>5. i \in 1..n /\ i \notin removed /\ \A r \in removed : r \in 1..n
      OBVIOUS
    <2>6. ~(i < i)
      OBVIOUS
    <2>. HIDE DEF A, B
    <2>. QED  BY <2>1, <2>2, <2>3, <2>4, <2>5, <2>6, Zenon
  <1>2. IsFiniteSet(1..i) /\ Cardinality(1..i) = i
    BY FS_Interval
  <1>. HIDE DEF A, B
  <1>3. IsFiniteSet(A) /\ IsFiniteSet(B)
    BY <1>1, <1>2, FS_Subset
  <1>4. Cardinality(A) \in Nat /\ Cardinality(B) \in Nat
    BY <1>3, FS_CardinalityType
  <1>5. Cardinality(A \cup B) = Cardinality(A) + Cardinality(B)
    <2>1. Cardinality(A \cup B) = Cardinality(A) + Cardinality(B) - Cardinality({})
      BY <1>1, <1>3, FS_Union, Zenon
    <2>. QED  BY <1>4, <2>1, FS_EmptySet
  <1>6. i - Cardinality(A) = Cardinality(B)
    <2>1. i = Cardinality(A) + Cardinality(B)
      BY <1>1, <1>2, <1>5, Zenon
    <2>. QED  BY <1>4, <2>1
  <1>. QED  BY <1>6 DEF A, B, NewPosition

\* compact says of each row that stays where it went.
LEMMA CompactedTracks ==
  ASSUME NEW T, IsTable(T)
  PROVE  RowsAreTracked(RowsOf(T), RowsOf(Compacted(T)), RemovalOf(T))
  <1>. DEFINE n == T.rowCount
              F == Flagged(T.flags)
              K == 1..n \ F
              before == RowsOf(T)
              after == RowsOf(Compacted(T))
              p == KeptOf(K, n)
  <1>1. n \in Nat /\ T.flags \in Seq(BOOLEAN) /\ FlagsOk(T.flags, T.count, n)
    BY DEF IsTable, FlagsOk
  <1>2. F \in SUBSET (1..n) /\ RemovalOf(T) = [removed |-> F, previous |-> n]
    <2>1. F = {i \in DOMAIN T.flags : T.flags[i]} /\ F \in SUBSET (1..Len(T.flags))
      BY <1>1, FlaggedIs
    <2>2. F \in SUBSET (1..n)
      <3>1. T.flags = <<>> \/ Len(T.flags) = n
        BY <1>1 DEF FlagsOk
      <3>. QED  BY <2>1, <3>1
    <2>. QED  BY <2>1, <2>2 DEF RemovalOf
  <1>3. DOMAIN before = 1..n /\ Len(before) = n /\ \A i \in 1..n : before[i] = RowAt(T, i)
    BY <1>1, RowsIs
  <1>4. \A i \in 1..n : ~before[i].dead <=> i \notin F
    <2>1. ASSUME NEW i \in 1..n  PROVE ~before[i].dead <=> i \notin F
      <3>1. before[i] = RowAt(T, i) /\ i \in Nat \ {0}
        BY <1>1, <1>3
      <3>2. RowAt(T, i).dead <=> i \in F
        BY <1>1, <3>1, RowAtIs, Zenon
      <3>. QED  BY <3>1, <3>2, Zenon
    <2>. QED  BY <2>1
  <1>. HIDE DEF n, F, before, after
  <1>5. K = {i \in DOMAIN before : ~before[i].dead}
    <2>1. \A i : i \in K <=> i \in 1..n /\ i \notin F
      OBVIOUS
    <2>2. \A i : i \in {j \in DOMAIN before : ~before[j].dead} <=> i \in 1..n /\ ~before[i].dead
      BY <1>3, Zenon
    <2>. HIDE DEF K
    <2>3. \A i : i \in K <=> i \in {j \in DOMAIN before : ~before[j].dead}
      BY <1>4, <2>1, <2>2, Zenon
    <2>. QED  BY <2>3
  <1>6. after = [j \in DOMAIN p |-> before[p[j]]]
    <2>1. after = [j \in DOMAIN KeptOf({i \in DOMAIN before : ~before[i].dead}, Len(before)) |->
                     before[KeptOf({i \in DOMAIN before : ~before[i].dead}, Len(before))[j]]]
      BY CompactedOk DEF before, after
    <2>. HIDE DEF K
    <2>. QED  BY <1>3, <1>5, <2>1, Zenon
  <1>7. K \in SUBSET (1..n)
    OBVIOUS
  <1>8. \A i \in K : NewPosition(i, F) = Cardinality(K \cap (1..i))
    BY <1>1, <1>2, NewPositionIs
  <1>. HIDE DEF K, p
  <1>9. /\ \A i \in K : Cardinality(K \cap (1..i)) \in 1..Len(p) /\ p[Cardinality(K \cap (1..i))] = i
        /\ \A j \in 1..Len(p) : p[j] \in K /\ Cardinality(K \cap (1..p[j])) = j
    BY <1>1, <1>7, KeptPlace, Zenon DEF p
  <1>10. p \in Seq(1..n)
    <2>1. n \in 0..n
      BY <1>1
    <2>. QED  BY <1>1, <2>1, KeptUptoType, Zenon DEF p, KeptOf
  <1>11. DOMAIN p = 1..Len(p) /\ DOMAIN after = 1..Len(p)
    BY <1>6, <1>10
  <1>12. {NewPosition(i, F) : i \in K} = DOMAIN after
    <2>1. \A i \in K : NewPosition(i, F) \in 1..Len(p)
      BY <1>8, <1>9, Zenon
    <2>2. \A j \in 1..Len(p) : p[j] \in K /\ j = NewPosition(p[j], F)
      BY <1>8, <1>9, Zenon
    <2>. QED  BY <1>11, <2>1, <2>2
  <1>13. \A i \in K : after[NewPosition(i, F)] = before[i]
    BY <1>6, <1>8, <1>9, <1>11, Zenon
  <1>. QED  BY <1>2, <1>5, <1>12, <1>13 DEF RowsAreTracked, K, before, after, n

\* The holder of row positions can follow every row through a compaction.
THEOREM CompactionsTrackRows == Spec => CompactionTracksRows
  <1>1. TableInv => \A t \in Tables :
          Compact(t) => RowsAreTracked(RowsOf(table[t]), RowsOf(table'[t]), RemovalOf(table[t]))
    <2>. SUFFICES ASSUME TableInv, NEW t \in Tables, Compact(t)
                  PROVE  RowsAreTracked(RowsOf(table[t]), RowsOf(table'[t]), RemovalOf(table[t]))
      OBVIOUS
    <2>1. IsTable(table[t])
      BY DEF TableInv
    <2>2. table'[t] = Compacted(table[t])
      BY DEF Compact, Return, TableInv
    <2>3. RowsAreTracked(RowsOf(table[t]), RowsOf(Compacted(table[t])), RemovalOf(table[t]))
      BY <2>1, CompactedTracks
    <2>. QED  BY <2>2, <2>3
  <1>. QED  BY <1>1, TablesKeepShape, PTL DEF CompactionTracksRows

\* What a row's fields are collected from is taken, if no column is in its way.
LEMMA FieldsCollect ==
  ASSUME NEW schema, NEW pairs \in Seq(Names \X Slots),
         \A n \in DOMAIN FieldsIn(pairs) : ColumnIndex(schema, n) = NULL /\ schema.open
  PROVE  Collected(schema, pairs) # ERR
  <1>. DEFINE fields == FieldsIn(pairs)
              keys == {pairs[k][1] : k \in 1..Len(pairs)}
              E == PutUpto(EmptyExtras(Len(pairs)), pairs)[Len(pairs)]
  <1>1. fields \in [keys -> Slots] /\ keys \in SUBSET Names
    BY FieldsInIs, Zenon
  <1>2. FieldsOk(E)
    BY EmptyOk, PutUptoOk
  <1>3. CollectExtras(schema, fields) = fields
    BY DEF CollectExtras
  <1>. HIDE DEF fields, keys, E
  <1>4. fields # ERR
    BY <1>1, ValuesAssumption DEF Slots
  <1>5. E # ERR
    BY <1>2, SentinelsAssumption DEF FieldsOk
  <1>. QED  BY <1>3, <1>4, <1>5 DEF Collected, fields, E

\* Fields that one table has are taken by another of the same schema.
LEMMA SameExtrasStage ==
  ASSUME NEW T, IsTable(T), NEW S, IsTable(S), T.schema = S.schema
  PROVE  /\ StagedExtras(T, S) # ERR
         /\ CanAppendExtras(T.extras, StagedExtras(T, S))
  <1>. DEFINE X == S.extras
              m == S.rowCount
              pairs(i) == IF X = NULL \/ X[i] = NULL THEN <<>> ELSE FieldPairs(X[i])
              given == [i \in 1..m |-> Collected(T.schema, pairs(i))]
              Y == StagedExtras(T, S)
              kept == [i \in 1..m |-> IF FieldMap(given[i]) = NoExtras THEN NULL ELSE given[i]]
  <1>0. /\ m \in Nat /\ HasExtras(X, m) /\ FieldsApart(T.schema, X, m) /\ T.schema.open \in BOOLEAN
        /\ (X = NULL <=> ~T.schema.open) /\ (T.extras = NULL <=> ~T.schema.open)
    BY SchemasAssumption DEF IsTable
  <1>1. Y = IF \E i \in 1..m : given[i] = ERR THEN ERR ELSE IF ~T.schema.open THEN NULL ELSE kept
    BY DEF StagedExtras
  <1>. HIDE DEF X, m, Y
  <1>2. ASSUME NEW i \in 1..m
        PROVE  /\ pairs(i) \in Seq(Names \X Slots)
               /\ \A n \in DOMAIN FieldsIn(pairs(i)) : ColumnIndex(T.schema, n) = NULL /\ T.schema.open
    <2>1. CASE X = NULL \/ X[i] = NULL
      <3>1. pairs(i) = <<>>
        BY <2>1
      <3>2. DOMAIN FieldsIn(<<>>) = {}
        BY DEF FieldsIn
      <3>. HIDE DEF pairs
      <3>. QED  BY <3>1, <3>2
    <2>2. CASE X # NULL /\ X[i] # NULL
      <3>1. pairs(i) = FieldPairs(X[i]) /\ FieldsOf(X, i) = FieldMap(X[i]) /\ FieldsOk(X[i])
        BY <1>0, <2>2, ExtrasAt
      <3>2. pairs(i) \in Seq(Names \X Slots) /\ FieldsIn(pairs(i)) = FieldsOf(X, i)
        BY <3>1, PairsOk
      <3>. HIDE DEF pairs
      <3>. QED  BY <1>0, <2>2, <3>2 DEF FieldsApart
    <2>. QED  BY <2>1, <2>2
  <1>. HIDE DEF pairs
  <1>3. \A i \in 1..m : given[i] # ERR
    BY <1>2, FieldsCollect
  <1>4. Y = IF ~T.schema.open THEN NULL ELSE kept
    BY <1>1, <1>3
  <1>5. Y # ERR
    <2>1. \A i \in 1..m : given[i] \in RowFields
      <3>1. ASSUME NEW i \in 1..m  PROVE given[i] \in RowFields
        <4>1. given[i] = Collected(T.schema, pairs(i)) /\ given[i] # ERR
          BY <1>3
        <4>2. FieldsOk(given[i])
          BY <1>2, <4>1, CollectedOk
        <4>. QED  BY <4>2 DEF FieldsOk
      <3>. QED  BY <3>1
    <2>. HIDE DEF given
    <2>2. kept \in Seq(RowFields \cup {NULL})
      <3>1. kept \in [1..m -> RowFields \cup {NULL}]
        BY <2>1
      <3>. QED  BY <1>0, <3>1
    <2>. HIDE DEF kept
    <2>. QED  BY <1>4, <2>2, ValuesAssumption, SentinelsAssumption
  <1>6. Y = NULL <=> ~T.schema.open
    <2>1. S.rowCount \in Nat /\ HasExtras(S.extras, S.rowCount) /\ StagedExtras(T, S) # ERR
      BY <1>0, <1>5 DEF X, m, Y
    <2>. QED  BY ONLY <1>0, <2>1, StagedExtrasOk DEF Y
  <1>. QED  BY <1>0, <1>5, <1>6 DEF Y, CanAppendExtras

\* A table takes the rows of another of the same schema, column by column.
LEMMA SameSchemaFits ==
  ASSUME NEW T, IsTable(T), NEW S, IsTable(S), T.schema = S.schema,
         NEW layout, layout = [d \in Positions(T.schema) |-> d]
  PROVE  CanAppendRows(T, S, layout)
  <1>1. T.schema \in Schemas /\ T.rowCount \in Nat /\ S.rowCount \in Nat
    BY DEF IsTable
  <1>2. ASSUME NEW d \in Positions(T.schema)
        PROVE  /\ CanStage(T, S, d, layout[d])
               /\ CanAppend(T.columns[d], StagedColumn(T, S, d, layout[d]))
    <2>. DEFINE spec == T.schema.columns[d]
    <2>1. layout[d] = d /\ d # NULL
      BY <1>1, SchemaIs, SentinelsAssumption
    <2>2. LayoutsMatch(S.schema.columns[d], spec)
      BY DEF LayoutsMatch
    <2>3. CanStage(T, S, d, layout[d])
      BY <2>1, <2>2 DEF CanStage
    <2>4. StagedColumn(T, S, d, layout[d]) = S.columns[d]
      BY <2>1, <2>2 DEF StagedColumn
    <2>5. IsSpec(spec) /\ HasShape(spec, T.columns[d], T.rowCount) /\ HasShape(spec, S.columns[d], S.rowCount)
      BY <1>1, SchemaIs DEF IsTable, HasColumns
    <2>6. CanAppend(T.columns[d], S.columns[d])
      BY <1>1, <2>5, AppendShape, Zenon
    <2>. QED  BY <2>3, <2>4, <2>6
  <1>3. StagedExtras(T, S) # ERR /\ CanAppendExtras(T.extras, StagedExtras(T, S))
    BY SameExtrasStage
  <1>. QED  BY <1>2, <1>3 DEF CanAppendRows

\* append maps every column to the one at its position.
LEMMA PositionLayout ==
  ASSUME NEW T, T.schema \in Schemas, NEW S, Width(S.schema) = Width(T.schema)
  PROVE  LET layout == LayoutOf(T, S, [d \in Positions(T.schema) |-> <<d, d>>]) IN
         layout = [d \in Positions(T.schema) |-> d] /\ layout # ERR
  <1>. DEFINE P == Positions(T.schema)
              mapping == [d \in P |-> <<d, d>>]
              to(d) == {m \in DOMAIN mapping : mapping[m][2] = d}
              layout == [d \in P |-> IF to(d) = {} THEN NULL ELSE mapping[CHOOSE m \in to(d) : TRUE][1]]
  <1>1. /\ P = Positions(S.schema) /\ P = 1..Width(T.schema) /\ Width(T.schema) \in Nat
        /\ \A m \in P : mapping[m] = <<m, m>>
    BY SchemaIs DEF Positions
  <1>2. \A d \in P : to(d) = {d} /\ Cardinality(to(d)) = 1
    <2>1. \A d \in P : to(d) = {d}
      BY <1>1
    <2>. QED  BY <2>1, FS_Singleton
  <1>3. LayoutOf(T, S, mapping) = layout
    <2>1. \A m \in DOMAIN mapping : mapping[m][1] \in Positions(S.schema) /\ mapping[m][2] \in P
      BY <1>1
    <2>2. \A d \in P : ~(Cardinality(to(d)) > 1)
      <3>1. ~(1 > 1)
        OBVIOUS
      <3>. QED  BY <1>2, <3>1, Zenon
    <2>. QED  BY <2>1, <2>2, Zenon DEF LayoutOf
  <1>4. layout = [d \in P |-> d]
    <2>1. ASSUME NEW d \in P
          PROVE  (IF to(d) = {} THEN NULL ELSE mapping[CHOOSE m \in to(d) : TRUE][1]) = d
      <3>1. to(d) = {d} /\ mapping[d][1] = d
        BY <1>1, <1>2
      <3>. HIDE DEF to, mapping
      <3>2. (CHOOSE m \in to(d) : TRUE) \in to(d)
        BY <3>1
      <3>. QED  BY <3>1, <3>2
    <2>. QED  BY <2>1
  <1>. HIDE DEF P, mapping, layout
  <1>5. [d \in P |-> d] \in Seq(Nat \cup {NULL})
    <2>1. [d \in P |-> d] \in [1..Width(T.schema) -> Nat \cup {NULL}]
      BY <1>1
    <2>. QED  BY <1>1, <2>1
  <1>6. layout # ERR
    BY <1>4, <1>5, SentinelsAssumption
  <1>. QED  BY <1>3, <1>4, <1>6 DEF P, mapping

\* Tables with equal schemas can always be appended to each other.
LEMMA SameSchemaAppended ==
  ASSUME TableInv, NEW t \in Tables, NEW u \in Tables, table[t].schema = table[u].schema,
         AppendByPosition(t, u)
  PROVE  outcome' = "ok"
  <1>. DEFINE T == table[t]
              S == table[u]
              mapping == [d \in Positions(T.schema) |-> <<d, d>>]
              layout == LayoutOf(T, S, mapping)
  <1>1. IsTable(T) /\ IsTable(S) /\ T.schema \in Schemas /\ T.schema = S.schema
    BY DEF TableInv, IsTable
  <1>2. layout = [d \in Positions(T.schema) |-> d] /\ layout # ERR
    BY <1>1, PositionLayout
  <1>3. AppendMapped(t, u, mapping)
    BY <1>1 DEF AppendByPosition
  <1>. HIDE DEF mapping
  <1>4. CanAppendRows(T, S, layout)
    <2>. HIDE DEF T, S, layout
    <2>. QED  BY <1>1, <1>2, SameSchemaFits
  <1>5. Return(t, Appended(T, S, layout))
    BY <1>2, <1>3, <1>4 DEF AppendMapped
  <1>. QED  BY <1>5 DEF Return

\* A name of a column finds that column, for no two columns share one.
LEMMA NameFinds ==
  ASSUME NEW schema \in Schemas, NEW name
  PROVE  /\ \A c \in Positions(schema) : name \in NamesOf(schema.columns[c]) => ColumnIndex(schema, name) = c
         /\ (\A c \in Positions(schema) : name \notin NamesOf(schema.columns[c])) =>
              ColumnIndex(schema, name) = NULL
  <1>. DEFINE P == Positions(schema)
              here == {c \in P : name \in NamesOf(schema.columns[c])}
  <1>1. ColumnIndex(schema, name) = IF here = {} THEN NULL ELSE CHOOSE c \in here : TRUE
    BY DEF ColumnIndex
  <1>2. DistinctNames(schema.columns) /\ P = DOMAIN schema.columns
    BY SchemasAssumption, SchemaIs
  <1>3. \A c, d \in here : c = d
    <2>1. ASSUME NEW c \in P, NEW d \in P,
                 name \in NamesOf(schema.columns[c]), name \in NamesOf(schema.columns[d])
          PROVE  c = d
      <3>1. name \in NamesOf(schema.columns[c]) \cap NamesOf(schema.columns[d])
        BY <2>1
      <3>. QED  BY <1>2, <3>1 DEF DistinctNames
    <2>. QED  BY <2>1
  <1>4. here # {} => (CHOOSE c \in here : TRUE) \in here
    OBVIOUS
  <1>5. \A c : c \in here <=> c \in P /\ name \in NamesOf(schema.columns[c])
    OBVIOUS
  <1>. HIDE DEF P, here
  <1>. QED  BY <1>1, <1>3, <1>4, <1>5, Zenon DEF P

\* append_named maps a column to the one that shares a name with it.
LEMMA NamedLayout ==
  ASSUME NEW T, T.schema \in Schemas, NEW S, S.schema \in Schemas,
         NEW layout, layout = NamedMapping(T, S), layout # ERR, NEW d \in Positions(T.schema)
  PROVE  /\ Sharing(S.schema, T.schema.columns[d]) = {} => layout[d] = NULL
         /\ \A c \in Sharing(S.schema, T.schema.columns[d]) : layout[d] = c
  <1>. DEFINE spec == T.schema.columns[d]
              primary(e) == ColumnIndex(S.schema, T.schema.columns[e].name)
              alias(e) == IF T.schema.columns[e].alias = NULL THEN NULL
                          ELSE ColumnIndex(S.schema, T.schema.columns[e].alias)
              sharing == {c \in Positions(S.schema) :
                            NamesOf(S.schema.columns[c]) \cap NamesOf(spec) # {}}
  <1>1. /\ layout = [e \in Positions(T.schema) |-> IF primary(e) # NULL THEN primary(e) ELSE alias(e)]
        /\ ~(primary(d) # NULL /\ alias(d) # NULL /\ primary(d) # alias(d))
    BY DEF NamedMapping
  <1>2. layout[d] = IF primary(d) # NULL THEN primary(d) ELSE alias(d)
    BY <1>1
  <1>3. spec.name \in Names /\ spec.name # NULL
    <2>1. spec \in ColumnSpec
      BY SchemaIs DEF IsSpec
    <2>. HIDE DEF spec
    <2>. QED  BY <2>1, ValuesAssumption DEF ColumnSpec
  <1>4. NamesOf(spec) = {spec.name, spec.alias} \ {NULL}
    BY DEF NamesOf
  <1>5. primary(d) = ColumnIndex(S.schema, spec.name)
        /\ alias(d) = IF spec.alias = NULL THEN NULL ELSE ColumnIndex(S.schema, spec.alias)
    OBVIOUS
  <1>. HIDE DEF spec, primary, alias
  <1>6. CASE sharing = {}
    <2>1. \A c \in Positions(S.schema) : \A name \in NamesOf(spec) : name \notin NamesOf(S.schema.columns[c])
      BY <1>6
    <2>2. \A name \in NamesOf(spec) : ColumnIndex(S.schema, name) = NULL
      BY <2>1, NameFinds
    <2>3. primary(d) = NULL /\ alias(d) = NULL
      BY <1>3, <1>4, <1>5, <2>2
    <2>. QED  BY <1>2, <1>6, <2>3 DEF Sharing, spec
  <1>7. ASSUME NEW c \in sharing  PROVE layout[d] = c
    <2>1. PICK name : name \in NamesOf(S.schema.columns[c]) /\ name \in NamesOf(spec)
      OBVIOUS
    <2>2. c \in Positions(S.schema) /\ c # NULL
      BY SchemaIs, SentinelsAssumption
    <2>3. ColumnIndex(S.schema, name) = c
      BY <2>1, <2>2, NameFinds
    <2>4. name = spec.name \/ (name = spec.alias /\ spec.alias # NULL)
      BY <1>4, <2>1
    <2>5. primary(d) = c \/ alias(d) = c
      BY <1>5, <2>3, <2>4
    <2>6. ~(primary(d) # NULL /\ alias(d) # NULL /\ primary(d) # alias(d))
      BY <1>1
    <2>. HIDE DEF sharing
    <2>7. CASE primary(d) = c
      BY <1>2, <2>2, <2>7
    <2>8. CASE primary(d) # c /\ alias(d) = c
      BY <1>2, <2>2, <2>6, <2>8
    <2>. QED  BY <2>5, <2>7, <2>8
  <1>. QED  BY <1>6, <1>7 DEF Sharing, spec

\* append_named, when it succeeds.
LEMMA NamedAppended ==
  ASSUME TableInv, NEW t \in Tables, NEW u \in Tables, outcome' = "ok", AppendNamed(t, u)
  PROVE  FilledByNames(table[t], table[u], table'[t])
  <1>. DEFINE T == table[t]
              S == table[u]
              n == T.rowCount
              m == S.rowCount
              layout == NamedMapping(T, S)
              R == Appended(T, S, layout)
              moved == [i \in 1..m |-> MovedRow(T.schema, layout, RowsOf(S)[i])]
  <1>1. IsTable(T) /\ IsTable(S) /\ T.schema \in Schemas /\ S.schema \in Schemas /\ n \in Nat /\ m \in Nat
    BY DEF TableInv, IsTable
  <1>2. layout # ERR /\ CanAppendRows(T, S, layout) /\ table'[t] = R
    <2>1. ~Refuse
      BY DEF Refuse
    <2>. QED  BY <2>1 DEF AppendNamed, Return, TableInv
  <1>3. layout \in [Positions(T.schema) -> Positions(S.schema) \cup {NULL}]
    BY <1>2, NamedType
  <1>4. ASSUME NEW d \in Positions(T.schema)
        PROVE  /\ Sharing(S.schema, T.schema.columns[d]) = {} => layout[d] = NULL
               /\ \A c \in Sharing(S.schema, T.schema.columns[d]) : layout[d] = c
    <2>1. layout # ERR /\ layout = NamedMapping(T, S) /\ T.schema \in Schemas /\ S.schema \in Schemas
      BY <1>1, <1>2
    <2>. HIDE DEF T, S, layout
    <2>. QED  BY <2>1, NamedLayout
  <1>. HIDE DEF T, S, layout
  <1>5. /\ IsTable(R) /\ R.schema = T.schema /\ RowsOf(R) = RowsOf(T) \o moved
        /\ \A i \in 1..m : WholeRow(T.schema, MovedRow(T.schema, layout, RowsOf(S)[i]))
    BY ONLY <1>1, <1>2, <1>3, AppendedOk
  <1>. HIDE DEF R
  <1>6. ASSUME NEW d \in Positions(T.schema), NEW i \in 1..m
        PROVE  LET from == layout[d] IN
               /\ Cell(R, n + i, d) = Prepare(T.schema.columns[d], IF from = NULL THEN NULL ELSE Cell(S, i, from))
               /\ Cell(R, n + i, d) # ERR
    <2>. DEFINE row == RowsOf(S)[i]
                rows == RowsOf(T)
                k == n + i
    <2>1. rows = [j \in 1..n |-> rows[j]] /\ Len(rows) = n
      BY <1>1, RowsIs
    <2>2. moved = [j \in 1..m |-> moved[j]]
      OBVIOUS
    <2>3. moved[i] = MovedRow(T.schema, layout, row)
      OBVIOUS
    <2>. HIDE DEF n, m, rows, moved, row
    <2>4. RowsOf(R) = rows \o moved /\ n \in Nat /\ m \in Nat
      BY <1>1, <1>5 DEF rows
    <2>5. RowsOf(R)[k] = moved[i] /\ k \in DOMAIN RowsOf(R)
      <3>1. /\ DOMAIN (rows \o moved) = 1..(n + m)
            /\ \A j \in 1..m : (rows \o moved)[n + j] = moved[j]
        BY <2>1, <2>2, <2>4, JoinedLists
      <3>. QED  BY <2>4, <3>1
    <2>6. RowsOf(R)[k] = RowAt(R, k) /\ k \in Nat \ {0}
      <3>1. R.rowCount \in Nat
        BY <1>5 DEF IsTable
      <3>2. DOMAIN RowsOf(R) = 1..R.rowCount
        BY <3>1, RowsIs
      <3>. HIDE DEF k
      <3>. QED  BY <2>5, <3>1, <3>2, RowsIs
    <2>7. RowAt(R, k).cells[d] = Cell(R, k, d)
      <3>1. RowAt(R, k).cells = [c \in DOMAIN R.columns |-> Cell(R, k, c)] /\ d \in DOMAIN R.columns
        <4>1. R.flags \in Seq(BOOLEAN)
          BY <1>5 DEF IsTable, FlagsOk
        <4>2. d \in DOMAIN R.columns
          BY <1>5 DEF IsTable, HasColumns
        <4>. HIDE DEF k
        <4>. QED  BY <2>6, <4>1, <4>2, RowAtIs
      <3>. QED  BY <3>1
    <2>8. MovedRow(T.schema, layout, row).cells[d] =
            Prepare(T.schema.columns[d], IF layout[d] = NULL THEN NULL ELSE row.cells[layout[d]])
      BY DEF MovedRow
    <2>9. layout[d] # NULL => row.cells[layout[d]] = Cell(S, i, layout[d])
      <3>1. row = RowAt(S, i) /\ i \in Nat \ {0} /\ S.flags \in Seq(BOOLEAN)
        BY <1>1, RowsIs DEF row, m, IsTable, FlagsOk
      <3>2. row.cells = [c \in DOMAIN S.columns |-> Cell(S, i, c)]
        BY <3>1, RowAtIs
      <3>3. layout[d] # NULL => layout[d] \in DOMAIN S.columns
        BY <1>1, <1>3 DEF IsTable, HasColumns
      <3>. QED  BY <3>2, <3>3
    <2>10. MovedRow(T.schema, layout, row).cells[d] # ERR
      BY <1>5 DEF WholeRow, row
    <2>. HIDE DEF k
    <2>. QED  BY <2>3, <2>5, <2>6, <2>7, <2>8, <2>9, <2>10 DEF k
  <1>7. \A d \in Positions(T.schema) : \A v \in {NULL} :
          Prepare(T.schema.columns[d], v) # ERR => Prepare(T.schema.columns[d], v) = NULL
    BY DEF Prepare
  <1>8. ASSUME NEW d \in Positions(T.schema), NEW i \in 1..m
        PROVE  LET sharing == Sharing(S.schema, T.schema.columns[d]) IN
               /\ sharing = {} => Cell(R, n + i, d) = NULL
               /\ \A c \in sharing : Cell(R, n + i, d) = Prepare(T.schema.columns[d], Cell(S, i, c))
    <2>. DEFINE from == layout[d]
                sharing == Sharing(S.schema, T.schema.columns[d])
    <2>1. /\ Cell(R, n + i, d) = Prepare(T.schema.columns[d], IF from = NULL THEN NULL ELSE Cell(S, i, from))
          /\ Cell(R, n + i, d) # ERR
      BY <1>6
    <2>2. \A c \in sharing : c # NULL
      BY <1>1, SchemaIs, SentinelsAssumption DEF Sharing
    <2>3. (sharing = {} => from = NULL) /\ \A c \in sharing : from = c
      BY <1>4
    <2>. HIDE DEF sharing
    <2>. QED  BY <1>7, <2>1, <2>2, <2>3 DEF sharing
  <1>. QED  BY <1>2, <1>8 DEF FilledByNames, T, S, R, n, m

\* A table refuses no rows of a table like it, and fills its columns from those of
\* another as their names say.
THEOREM AppendsFollow == Spec => AppendsFollowSchemas
  <1>1. TableInv => \A t \in Tables : \A u \in Tables \ {t} :
          table[t].schema = table[u].schema /\ AppendByPosition(t, u)
            => outcome' = "ok"
    BY SameSchemaAppended
  <1>2. TableInv => \A t \in Tables : \A u \in Tables \ {t} :
          outcome' = "ok" /\ AppendNamed(t, u) =>
            FilledByNames(table[t], table[u], table'[t])
    BY NamedAppended
  <1>. QED
    BY <1>1, <1>2, TablesKeepShape, PTL DEF AppendsFollowSchemas, SameSchemaAppends, NamedAppendFollowsNames

-----------------------------------------------------------------------------
(* Columns that are borrowed together.                                     *)

\* Columns can be borrowed if they exist and no output is also something else.
LEMMA GrantedIs ==
  ASSUME NEW n \in Nat, NEW inputs \in Seq(Nat), NEW outputs \in Seq(Nat)
  PROVE  BorrowFault(n, inputs, outputs) = "ok" <=>
           /\ Range(inputs) \cup Range(outputs) \subseteq 1..n
           /\ Range(inputs) \cap Range(outputs) = {}
           /\ IsInjective(outputs)
  <1>. DEFINE fault(k) ==
                IF outputs[k] \notin 1..n THEN "bounds"
                ELSE IF outputs[k] \in Range(inputs) THEN "overlap"
                ELSE IF outputs[k] \in {outputs[l] : l \in 1..(k - 1)} THEN "duplicate"
                ELSE "ok"
              wrong == {k \in DOMAIN outputs : fault(k) # "ok"}
              first == CHOOSE k \in wrong : \A l \in wrong : k <= l
  <1>1. BorrowFault(n, inputs, outputs) =
          IF ~(Range(inputs) \subseteq 1..n) THEN "bounds"
          ELSE IF wrong = {} THEN "ok" ELSE fault(first)
    BY DEF BorrowFault
  <1>2. \A k \in DOMAIN outputs : fault(k) = "ok" <=>
          /\ outputs[k] \in 1..n /\ outputs[k] \notin Range(inputs)
          /\ \A l \in 1..(k - 1) : outputs[l] # outputs[k]
    BY Zenon
  <1>3. wrong # {} => first \in wrong
    <2>. HIDE DEF fault
    <2>. SUFFICES ASSUME wrong # {}  PROVE first \in wrong
      OBVIOUS
    <2>1. wrong \in SUBSET Nat
      OBVIOUS
    <2>2. \E k \in wrong : \A l \in wrong : k <= l
      <3>. HIDE DEF wrong
      <3>. QED  BY <2>1, LeastNatural, Zenon
    <2>. HIDE DEF wrong
    <2>. QED  BY <2>2
  <1>4. wrong # {} => fault(first) # "ok"
    <2>. HIDE DEF fault, first
    <2>. QED  BY <1>3
  <1>5. BorrowFault(n, inputs, outputs) = "ok" <=> Range(inputs) \subseteq 1..n /\ wrong = {}
    <2>. HIDE DEF fault, first, wrong
    <2>. QED  BY <1>1, <1>4
  <1>6. wrong = {} <=> \A k \in DOMAIN outputs : fault(k) = "ok"
    <2>. HIDE DEF fault
    <2>. QED  OBVIOUS
  <1>7. wrong = {} <=>
          \A k \in DOMAIN outputs :
            /\ outputs[k] \in 1..n /\ outputs[k] \notin Range(inputs)
            /\ \A l \in 1..(k - 1) : outputs[l] # outputs[k]
    <2>. HIDE DEF fault, wrong
    <2>. QED  BY <1>2, <1>6, Zenon
  <1>. HIDE DEF fault, first, wrong
  <1>8. Range(outputs) = {outputs[k] : k \in DOMAIN outputs} /\ DOMAIN outputs = 1..Len(outputs)
        /\ Len(outputs) \in Nat
    BY DEF Range
  <1>9. (\A k \in DOMAIN outputs : \A l \in 1..(k - 1) : outputs[l] # outputs[k]) <=> IsInjective(outputs)
    <2>1. ASSUME \A k \in DOMAIN outputs : \A l \in 1..(k - 1) : outputs[l] # outputs[k],
                 NEW a \in DOMAIN outputs, NEW b \in DOMAIN outputs, outputs[a] = outputs[b]
          PROVE  a = b
      <3>1. a \in Nat /\ b \in Nat /\ a >= 1 /\ b >= 1
        BY <1>8
      <3>2. ~(a < b) /\ ~(b < a)
        BY <2>1, <3>1
      <3>. QED  BY <3>1, <3>2
    <2>2. ASSUME IsInjective(outputs), NEW k \in DOMAIN outputs, NEW l \in 1..(k - 1)
          PROVE  outputs[l] # outputs[k]
      <3>1. l \in DOMAIN outputs /\ l # k
        BY <1>8
      <3>. QED  BY <2>2, <3>1 DEF IsInjective
    <2>. QED  BY <2>1, <2>2, Zenon DEF IsInjective
  <1>. QED  BY <1>5, <1>7, <1>8, <1>9

\* The recursion of TakenUpto defines a function.
LEMMA TakenUptoDef ==
  ASSUME NEW n, NEW positions, NEW m \in Nat, m = Len(positions)
  PROVE  TakenUpto(n, positions) =
           [k \in 0..m |->
              IF k = 0 THEN [at |-> <<>>, rest |-> [c \in 1..n |-> c], start |-> 0]
              ELSE TakenColumn(TakenUpto(n, positions)[k - 1], positions[k])]
  <1>. DEFINE first == [at |-> <<>>, rest |-> [c \in 1..n |-> c], start |-> 0]
              Step(f, k) == TakenColumn(f[k - 1], positions[k])
              Def(f, l) == f = [k \in 0..l |-> IF k = 0 THEN first ELSE Step(f, k)]
              T == {l \in Nat : \E f : Def(f, l)}
  <1>. HIDE DEF first
  <1>1. 0 \in T
    <2>1. Def([k \in 0..0 |-> first], 0)
      OBVIOUS
    <2>. QED  BY <2>1, Zenon
  <1>2. ASSUME NEW l \in T  PROVE l + 1 \in T
    <2>1. PICK f : Def(f, l)
      OBVIOUS
    <2>. DEFINE last == TakenColumn(f[l], positions[l + 1])
                g == [k \in 0..(l + 1) |-> IF k <= l THEN f[k] ELSE last]
    <2>2. /\ g = [k \in 0..(l + 1) |-> g[k]] /\ g[l + 1] = last /\ \A k \in 0..l : g[k] = f[k]
      <3>. HIDE DEF last
      <3>. QED  BY OneMoreValue
    <2>. HIDE DEF g
    <2>3. \A k \in 0..(l + 1) : g[k] = IF k = 0 THEN first ELSE Step(g, k)
      <3>1. \A k \in 0..l : f[k] = IF k = 0 THEN first ELSE Step(f, k)
        <4>. HIDE DEF Step
        <4>. QED  BY <2>1
      <3>. TAKE k \in 0..(l + 1)
      <3>2. CASE k \in 0..l
        <4>1. k = 0 \/ (k # 0 /\ k - 1 \in 0..l)
          BY <3>2
        <4>. QED  BY <2>2, <3>1, <3>2, <4>1
      <3>3. CASE k = l + 1
        <4>1. k # 0 /\ k - 1 = l /\ l \in 0..l
          BY <3>3
        <4>. QED  BY <2>2, <3>3, <4>1
      <3>. QED  BY <3>2, <3>3
    <2>4. Def(g, l + 1)
      <3>. HIDE DEF Step
      <3>. QED  BY <2>2, <2>3
    <2>. HIDE DEF Def
    <2>. QED  BY <2>4
  <1>3. T = Nat
    <2>1. T \in SUBSET Nat
      OBVIOUS
    <2>. HIDE DEF T
    <2>. QED  BY <1>1, <1>2, <2>1, SetInduction, Zenon
  <1>4. PICK f : Def(f, m)
    BY <1>3
  <1>. QED  BY <1>4, Zenon DEF TakenUpto, first

\* The walk over the sorted requests leaves, at each column that is asked for, that
\* column: no request is served from what an earlier one cut off.
LEMMA WalkServes ==
  ASSUME NEW n \in Nat, NEW kept \in SUBSET (1..n)
  PROVE  LET p == KeptOf(kept, n)
             at == TakenUpto(n, p)[Len(p)].at
         IN \A q \in kept : at[q] = q
  <1>. DEFINE p == KeptOf(kept, n)
              m == Len(p)
              t == TakenUpto(n, p)
              start(k) == IF k = 0 THEN 0 ELSE p[k]
              P(k) == /\ t[k].start = start(k)
                      /\ t[k].rest \in Seq(Nat) /\ Len(t[k].rest) = n - start(k)
                      /\ \A j \in 1..(n - start(k)) : t[k].rest[j] = start(k) + j
                      /\ DOMAIN t[k].at = {p[j] : j \in 1..k}
                      /\ \A q \in DOMAIN t[k].at : t[k].at[q] = q
              T == {k \in 0..m : P(k)}
  <1>1. /\ p \in Seq(1..n) /\ m \in Nat
        /\ \A j \in 1..m : j + 1 <= m => p[j] < p[j + 1]
        /\ kept = {p[j] : j \in 1..m}
    BY KeptSorted
  <1>2. t = [k \in 0..m |->
               IF k = 0 THEN [at |-> <<>>, rest |-> [c \in 1..n |-> c], start |-> 0]
               ELSE TakenColumn(t[k - 1], p[k])]
    BY <1>1, TakenUptoDef
  <1>. HIDE DEF p, t, m
  <1>3. 0 \in T
    <2>1. t[0] = [at |-> <<>>, rest |-> [c \in 1..n |-> c], start |-> 0]
      BY <1>1, <1>2
    <2>2. t[0].at = <<>> /\ t[0].rest = [c \in 1..n |-> c] /\ t[0].start = 0
      BY <2>1
    <2>3. t[0].rest \in Seq(Nat) /\ Len(t[0].rest) = n /\ \A j \in 1..n : t[0].rest[j] = j
      BY <2>2
    <2>4. DOMAIN t[0].at = {} /\ {p[j] : j \in 1..0} = {}
      BY <2>2
    <2>. QED  BY <1>1, <2>2, <2>3, <2>4
  <1>4. ASSUME NEW k \in 0..m, k < m, k \in T  PROVE k + 1 \in T
    <2>. DEFINE q == p[k + 1]
                s == start(k)
                rest == t[k].rest
                later == SubSeq(rest, q - s + 1, Len(rest))
    <2>1. k + 1 \in 0..m /\ k + 1 \in 1..m /\ k + 1 # 0 /\ (k + 1) - 1 = k
      BY <1>1, <1>4
    <2>2. P(k)
      BY <1>4
    <2>3. q \in 1..n /\ s \in 0..n /\ s < q
      <3>1. q \in 1..n
        BY <1>1, <2>1, Zenon
      <3>2. k # 0 => k \in 1..m /\ p[k] \in 1..n /\ p[k] < p[k + 1]
        <4>1. k # 0 => k \in 1..m /\ k + 1 <= m
          BY <1>1, <1>4
        <4>. QED  BY <1>1, <4>1, Zenon
      <3>. QED  BY <3>1, <3>2
    <2>4. t[k + 1] = TakenColumn(t[k], q)
      BY <1>2, <2>1
    <2>5. /\ t[k + 1].start = q /\ t[k + 1].rest = later
          /\ t[k + 1].at = [r \in DOMAIN t[k].at \cup {q} |-> IF r = q THEN rest[q - s] ELSE t[k].at[r]]
      <3>1. t[k].start = s
        BY <2>2
      <3>. HIDE DEF q, s
      <3>. DEFINE at == [r \in DOMAIN t[k].at \cup {q} |-> IF r = q THEN rest[q - s] ELSE t[k].at[r]]
      <3>2. TakenColumn(t[k], q) = [at |-> at, rest |-> later, start |-> q]
        BY <3>1 DEF TakenColumn
      <3>. HIDE DEF at, later
      <3>3. t[k + 1].start = q /\ t[k + 1].rest = later /\ t[k + 1].at = at
        BY <2>4, <3>2
      <3>. QED  BY <3>3 DEF at
    <2>6. rest \in Seq(Nat) /\ Len(rest) = n - s /\ \A j \in 1..(n - s) : rest[j] = s + j
      BY <2>2, Zenon
    <2>7. start(k + 1) = q
      BY <2>1
    <2>8. DOMAIN t[k].at = {p[j] : j \in 1..k} /\ \A r \in DOMAIN t[k].at : t[k].at[r] = r
      BY <2>2
    <2>9. {p[j] : j \in 1..(k + 1)} = {p[j] : j \in 1..k} \cup {q}
      <3>1. 1..(k + 1) = 1..k \cup {k + 1}
        BY <1>1
      <3>. QED  BY <3>1
    <2>. HIDE DEF q, s, rest
    <2>10. /\ later \in Seq(Nat) /\ Len(later) = n - q
           /\ \A j \in 1..(n - q) : later[j] = q + j
      <3>. DEFINE d == q - s
      <3>1. d \in Nat /\ d >= 1 /\ d <= n - s /\ q = s + d /\ Len(rest) \in Nat
        BY <2>3, <2>6
      <3>2. later \in Seq(Nat) /\ Len(later) = Len(rest) - d
            /\ \A j \in 1..(Len(rest) - d) : later[j] = rest[d + j]
        <4>. HIDE DEF d
        <4>1. later = SubSeq(rest, d + 1, Len(rest))
          BY DEF d
        <4>. HIDE DEF later
        <4>2. /\ Len(rest) \in Nat /\ d + 1 \in 1..(Len(rest) + 1)
              /\ Len(rest) - (d + 1) + 1 = Len(rest) - d /\ Len(rest) - d \in Nat
          BY <2>3, <2>6, <3>1
        <4>3. later \in Seq(Nat) /\ Len(later) = Len(rest) - d
          BY <2>6, <4>1, <4>2, SMTT(20)
        <4>4. \A j \in 1..(Len(rest) - d) : later[j] = rest[d + j]
          <5>. TAKE j \in 1..(Len(rest) - d)
          <5>1. (d + 1) + j - 1 = d + j
            BY <3>1
          <5>2. later[j] = rest[(d + 1) + j - 1]
            BY <2>6, <4>1, <4>2, SMTT(20)
          <5>. QED  BY <5>1, <5>2
        <4>. QED  BY <4>3, <4>4
      <3>3. \A j \in 1..(n - q) : d + j \in 1..(n - s) /\ s + (d + j) = q + j /\ j \in 1..(Len(rest) - d)
        BY <2>3, <2>6, <3>1
      <3>4. Len(rest) - d = n - q
        BY <2>3, <2>6
      <3>. HIDE DEF later, d
      <3>. QED  BY <2>6, <3>2, <3>3, <3>4
    <2>11. rest[q - s] = q
      BY <2>3, <2>6
    <2>. HIDE DEF later, start
    <2>12. DOMAIN t[k + 1].at = {p[j] : j \in 1..(k + 1)} /\ \A r \in DOMAIN t[k + 1].at : t[k + 1].at[r] = r
      BY <2>5, <2>8, <2>9, <2>11
    <2>13. P(k + 1)
      BY <2>5, <2>7, <2>10, <2>12, Zenon
    <2>. HIDE DEF P
    <2>. QED  BY <2>1, <2>13
  <1>. HIDE DEF P
  <1>5. T = 0..m
    <2>1. T \in SUBSET (0..m)
      OBVIOUS
    <2>. HIDE DEF T
    <2>. QED  BY <1>1, <1>3, <1>4, <2>1, BoundedInduction
  <1>6. P(m)
    BY <1>1, <1>5
  <1>7. DOMAIN t[m].at = kept /\ \A q \in DOMAIN t[m].at : t[m].at[q] = q
    BY <1>1, <1>6 DEF P
  <1>. QED  BY <1>7 DEF p, t, m

\* column_pair_mut finds the two columns that columns_io would grant.
LEMMA PairIs ==
  ASSUME NEW n \in Nat, NEW i \in Nat \ {0}, NEW o \in Nat \ {0}
  PROVE  BorrowedPair(n, i, o) = IF i \in 1..n /\ o \in 1..n /\ i # o THEN <<i, o>> ELSE NULL
  <1>1. CASE i \in 1..n /\ o \in 1..n /\ i < o
    <2>1. /\ 1 \in 1..(n - o + 1) /\ i \in 1..(o - 1) /\ 1 + o - 1 = o /\ i # o
      BY <1>1
    <2>2. [c \in 1..(o - 1) |-> c][i] = i /\ [c \in 1..(n - o + 1) |-> c + o - 1][1] = o
      BY <2>1
    <2>. QED  BY <1>1, <2>1, <2>2 DEF BorrowedPair
  <1>2. CASE i \in 1..n /\ o \in 1..n /\ o < i
    <2>1. /\ 1 \in 1..(n - i + 1) /\ o \in 1..(i - 1) /\ 1 + i - 1 = i /\ i # o /\ ~(i < o)
      BY <1>2
    <2>2. [c \in 1..(i - 1) |-> c][o] = o /\ [c \in 1..(n - i + 1) |-> c + i - 1][1] = i
      BY <2>1
    <2>. QED  BY <1>2, <2>1, <2>2 DEF BorrowedPair
  <1>3. CASE ~(i \in 1..n /\ o \in 1..n) \/ i = o
    BY <1>3 DEF BorrowedPair
  <1>. QED  BY <1>1, <1>2, <1>3

\* The columns that are granted are those that were asked for.
LEMMA BorrowedIs ==
  ASSUME NEW n \in Nat, NEW inputs \in Seq(Nat), NEW outputs \in Seq(Nat),
         Range(inputs) \cup Range(outputs) \subseteq 1..n
  PROVE  BorrowedColumns(n, inputs, outputs) = [inputs |-> inputs, outputs |-> outputs]
  <1>. DEFINE kept == Range(inputs) \cup Range(outputs)
              p == KeptOf(kept, n)
              at == TakenUpto(n, p)[Len(p)].at
  <1>1. BorrowedColumns(n, inputs, outputs) =
          [inputs |-> [k \in DOMAIN inputs |-> at[inputs[k]]],
           outputs |-> [k \in DOMAIN outputs |-> at[outputs[k]]]]
    BY DEF BorrowedColumns
  <1>2. \A q \in kept : at[q] = q
    BY WalkServes, Zenon
  <1>3. /\ \A k \in DOMAIN inputs : inputs[k] \in kept
        /\ \A k \in DOMAIN outputs : outputs[k] \in kept
    BY DEF Range
  <1>4. inputs = [k \in DOMAIN inputs |-> inputs[k]] /\ outputs = [k \in DOMAIN outputs |-> outputs[k]]
    OBVIOUS
  <1>. HIDE DEF kept, p, at
  <1>5. [k \in DOMAIN inputs |-> at[inputs[k]]] = inputs
    BY <1>2, <1>3, <1>4
  <1>6. [k \in DOMAIN outputs |-> at[outputs[k]]] = outputs
    BY <1>2, <1>3, <1>4
  <1>. QED  BY <1>1, <1>5, <1>6, Zenon

\* Columns are granted as they were asked for, exclusively, and one at a time alike.
LEMMA BorrowsHold == BorrowsAreExclusive
  <1>. DEFINE n == Cardinality(Names)
              asked == UNION {[1..k -> 1..(n + 1)] : k \in 0..2}
  <1>1. n \in Nat
    BY ViewsAssumption, FS_CardinalityType
  <1>. HIDE DEF n
  <1>2. asked \subseteq Seq(Nat \ {0})
    <2>1. ASSUME NEW k \in 0..2, NEW s \in [1..k -> 1..(n + 1)]  PROVE s \in Seq(Nat \ {0})
      <3>1. s \in [1..k -> Nat \ {0}] /\ k \in Nat
        BY <1>1
      <3>. QED  BY <3>1
    <2>. QED  BY <2>1
  <1>3. ASSUME NEW inputs \in asked, NEW outputs \in asked
        PROVE  LET granted == BorrowFault(n, inputs, outputs) = "ok" IN
               /\ granted = /\ Range(inputs) \cup Range(outputs) \subseteq 1..n
                            /\ Range(inputs) \cap Range(outputs) = {}
                            /\ IsInjective(outputs)
               /\ granted => BorrowedColumns(n, inputs, outputs) = [inputs |-> inputs, outputs |-> outputs]
               /\ Len(inputs) = 1 /\ Len(outputs) = 1 =>
                    BorrowedPair(n, inputs[1], outputs[1])
                      = IF granted THEN inputs \o outputs ELSE NULL
    <2>1. inputs \in Seq(Nat \ {0}) /\ outputs \in Seq(Nat \ {0})
      BY <1>2
    <2>2. inputs \in Seq(Nat) /\ outputs \in Seq(Nat)
      BY <2>1
    <2>. DEFINE granted == BorrowFault(n, inputs, outputs) = "ok"
                inside == Range(inputs) \cup Range(outputs) \subseteq 1..n
                apart == Range(inputs) \cap Range(outputs) = {}
    <2>3. granted <=> inside /\ apart /\ IsInjective(outputs)
      BY <1>1, <2>2, GrantedIs, Zenon
    <2>4. inside => BorrowedColumns(n, inputs, outputs) = [inputs |-> inputs, outputs |-> outputs]
      BY <1>1, <2>2, BorrowedIs, Zenon
    <2>5. ASSUME Len(inputs) = 1, Len(outputs) = 1
          PROVE  BorrowedPair(n, inputs[1], outputs[1]) = IF granted THEN inputs \o outputs ELSE NULL
      <3>. DEFINE i == inputs[1]
                  o == outputs[1]
      <3>1. i \in Nat \ {0} /\ o \in Nat \ {0}
        BY <2>1, <2>5
      <3>2. DOMAIN inputs = {1} /\ DOMAIN outputs = {1}
        BY <2>1, <2>5
      <3>3. Range(inputs) = {i} /\ Range(outputs) = {o} /\ IsInjective(outputs)
        BY <3>2 DEF Range, IsInjective
      <3>4. inputs \o outputs = <<i, o>>
        BY <2>1, <2>5, PairOf
      <3>5. BorrowedPair(n, i, o) = IF i \in 1..n /\ o \in 1..n /\ i # o THEN <<i, o>> ELSE NULL
        BY <1>1, <3>1, PairIs, Zenon
      <3>6. granted <=> i \in 1..n /\ o \in 1..n /\ i # o
        <4>. HIDE DEF i, o, granted
        <4>. QED  BY <2>3, <3>3, Zenon
      <3>. HIDE DEF i, o, granted
      <3>7. BorrowedPair(n, i, o) = IF granted THEN inputs \o outputs ELSE NULL
        BY <3>4, <3>5, <3>6
      <3>. QED  BY <3>7 DEF i, o, granted
    <2>. HIDE DEF granted, inside, apart
    <2>6. granted = (inside /\ apart /\ IsInjective(outputs))
      <3>1. granted \in BOOLEAN /\ inside \in BOOLEAN /\ apart \in BOOLEAN /\ IsInjective(outputs) \in BOOLEAN
        BY DEF granted, inside, apart, IsInjective
      <3>. QED  BY <2>3, <3>1
    <2>. QED  BY <2>3, <2>4, <2>5, <2>6, Zenon DEF granted, inside, apart
  <1>. HIDE DEF asked
  <1>. QED  BY <1>3, Zenon DEF BorrowsAreExclusive, n, asked

-----------------------------------------------------------------------------
(* Sums.                                                                   *)

\* The chains of a sum: the lanes, then the rows of the tail, one by one.
LEMMA CombinedIs ==
  ASSUME NEW S, NEW lanes \in Seq(S), NEW L \in Nat, L = Len(lanes),
         NEW r \in Nat, NEW tail, DOMAIN tail = 1..r,
         NEW sum, sum = Combined(lanes, tail)
  PROVE  /\ DOMAIN sum = 1..(L + r)
         /\ \A l \in 1..L : sum[l] = lanes[l]
         /\ \A j \in 1..r : DOMAIN sum[L + j] = {1} /\ sum[L + j][1] = tail[j]
  <1>. DEFINE single == [j \in 1..r |-> <<tail[j]>>]
              R == S \cup {single[j] : j \in 1..r}
  <1>1. sum = lanes \o single
    BY DEF Combined
  <1>2. \A j \in 1..r : single[j] = <<tail[j]>>
    OBVIOUS
  <1>3. DOMAIN single = 1..r /\ single = [j \in 1..r |-> single[j]]
    OBVIOUS
  <1>. HIDE DEF single
  <1>4. lanes \in Seq(R) /\ L = Len(lanes)
    <2>1. S \subseteq R
      OBVIOUS
    <2>. HIDE DEF R
    <2>. QED  BY <2>1
  <1>5. single \in Seq(R) /\ r = Len(single)
    <2>1. single \in [1..r -> R]
      BY <1>3
    <2>. HIDE DEF R
    <2>. QED  BY <2>1
  <1>. HIDE DEF R
  <1>6. /\ sum \in Seq(R) /\ Len(sum) = L + r
        /\ \A l \in 1..L : sum[l] = lanes[l]
        /\ \A j \in 1..r : sum[L + j] = single[j]
    BY ONLY <1>1, <1>4, <1>5, ConcatSeq
  <1>7. DOMAIN sum = 1..(L + r)
    BY <1>6
  <1>8. ASSUME NEW j \in 1..r  PROVE DOMAIN sum[L + j] = {1} /\ sum[L + j][1] = tail[j]
    <2>1. sum[L + j] = <<tail[j]>>
      BY <1>2, <1>6, Zenon
    <2>. QED  BY <2>1
  <1>. QED  BY <1>6, <1>7, <1>8, Zenon

\* What is said of the sum of a column with the given rows that are not null.
SumHolds(sum, rows) ==
  /\ (UNION {Range(sum[k]) : k \in DOMAIN sum}) \ {NULL} = rows
  /\ \A k, l \in DOMAIN sum : k # l => Range(sum[k]) \cap Range(sum[l]) \subseteq {NULL}
  /\ \A k \in DOMAIN sum : \A a, b \in DOMAIN sum[k] :
       a < b /\ {sum[k][a], sum[k][b]} \subseteq rows => sum[k][a] < sum[k][b]

\* The lanes and the tail of a sum, in terms of the rows that count.
ChainsOf(n, rows, sum) ==
  LET counted(i) == IF i \in rows THEN i ELSE NULL IN
  /\ DOMAIN sum = 1..(Lanes + (n % Lanes))
  /\ \A l \in 1..Lanes :
       /\ DOMAIN sum[l] = 1..(n \div Lanes)
       /\ \A k \in 1..(n \div Lanes) : sum[l][k] = counted((k - 1) * Lanes + l)
  /\ \A j \in 1..(n % Lanes) :
       /\ DOMAIN sum[Lanes + j] = {1}
       /\ sum[Lanes + j][1] = counted(n - (n % Lanes) + j)

\* A sum of these chains has the rows that count, each once, in order within a chain.
LEMMA ChainsHold ==
  ASSUME NEW n \in Nat, NEW rows \in SUBSET (1..n), NEW sum, ChainsOf(n, rows, sum)
  PROVE  SumHolds(sum, rows)
  <1>. DEFINE L == Lanes
              d == n \div L
              r == n % L
              at(l, k) == (k - 1) * L + l
              pos(k, a) == IF k <= L THEN at(k, a) ELSE n - r + (k - L)
              ok(i) == IF i \in rows THEN i ELSE NULL
  <1>1. L \in Nat \ {0} /\ NULL \notin Nat
    BY ViewsAssumption, SentinelsAssumption
  <1>2. /\ DOMAIN sum = 1..(L + r)
        /\ \A l \in 1..L : DOMAIN sum[l] = 1..d /\ \A k \in 1..d : sum[l][k] = ok(at(l, k))
        /\ \A j \in 1..r : DOMAIN sum[L + j] = {1} /\ sum[L + j][1] = ok(n - r + j)
    BY DEF ChainsOf
  <1>3. /\ d \in Nat /\ r \in Nat /\ n - r \in Nat
        /\ \A l \in 1..L : \A k \in 1..d : at(l, k) \in 1..(n - r)
        /\ \A l \in 1..L : \A a, b \in 1..d : a < b => at(l, a) < at(l, b)
        /\ \A l, m \in 1..L : \A a, b \in 1..d : at(l, a) = at(m, b) => l = m
        /\ \A i \in 1..(n - r) : \E l \in 1..L : \E k \in 1..d : at(l, k) = i
        /\ \A j \in 1..r : n - r + j \in (n - r + 1)..n
        /\ \A i \in (n - r + 1)..n : \E j \in 1..r : n - r + j = i
    BY <1>1, LaneRows, Zenon
  <1>. HIDE DEF L, d, r, at, ok
  <1>4. \A k \in 1..(L + r) : \/ k \in 1..L /\ k <= L
                              \/ k - L \in 1..r /\ ~(k <= L) /\ k = L + (k - L)
    BY <1>1, <1>3
  <1>5. ASSUME NEW k \in 1..(L + r)
        PROVE  /\ \A a \in DOMAIN sum[k] : pos(k, a) \in 1..n /\ sum[k][a] = ok(pos(k, a))
               /\ \A a, b \in DOMAIN sum[k] : a < b => pos(k, a) < pos(k, b)
    <2>1. CASE k \in 1..L /\ k <= L
      <3>1. \A i \in 1..(n - r) : i \in 1..n
        BY <1>3
      <3>. QED  BY <1>2, <1>3, <2>1, <3>1, Zenon
    <2>2. CASE k - L \in 1..r /\ ~(k <= L) /\ k = L + (k - L)
      <3>. DEFINE j == k - L
      <3>1. j \in 1..r /\ k = L + j
        BY <2>2
      <3>2. DOMAIN sum[k] = {1} /\ sum[k][1] = ok(n - r + j)
        <4>. HIDE DEF j
        <4>. QED  BY <1>2, <3>1
      <3>3. pos(k, 1) = n - r + j /\ n - r + j \in 1..n
        <4>1. pos(k, 1) = n - r + j
          BY <2>2
        <4>2. n - r + j \in (n - r + 1)..n
          <5>. HIDE DEF j
          <5>. QED  BY <1>3, <3>1
        <4>. QED  BY <1>3, <4>1, <4>2
      <3>4. ~(1 < 1)
        OBVIOUS
      <3>. HIDE DEF pos, j
      <3>. QED  BY <3>2, <3>3, <3>4
    <2>. QED  BY <1>4, <2>1, <2>2
  <1>6. ASSUME NEW i \in 1..n
        PROVE  \E k \in 1..(L + r) : \E a \in DOMAIN sum[k] : pos(k, a) = i
    <2>1. CASE i \in 1..(n - r)
      <3>1. PICK l \in 1..L, k \in 1..d : at(l, k) = i
        BY <1>3, <2>1
      <3>2. l \in 1..(L + r) /\ l <= L
        BY <1>1, <1>3
      <3>3. k \in DOMAIN sum[l] /\ pos(l, k) = i
        BY <1>2, <3>1, <3>2, Zenon
      <3>. HIDE DEF pos
      <3>. QED  BY <3>2, <3>3
    <2>2. CASE i \in (n - r + 1)..n
      <3>1. PICK j \in 1..r : n - r + j = i
        BY <1>3, <2>2
      <3>2. L + j \in 1..(L + r) /\ ~(L + j <= L) /\ (L + j) - L = j
        BY <1>1, <1>3
      <3>3. 1 \in DOMAIN sum[L + j] /\ pos(L + j, 1) = i
        BY <1>2, <3>1, <3>2
      <3>. HIDE DEF pos
      <3>. QED  BY <3>2, <3>3
    <2>. QED  BY <1>3, <2>1, <2>2
  <1>7. ASSUME NEW k \in 1..(L + r), NEW l \in 1..(L + r),
               NEW a \in DOMAIN sum[k], NEW b \in DOMAIN sum[l], pos(k, a) = pos(l, b)
        PROVE  k = l
    <2>1. CASE k \in 1..L /\ k <= L /\ l \in 1..L /\ l <= L
      <3>1. a \in 1..d /\ b \in 1..d /\ pos(k, a) = at(k, a) /\ pos(l, b) = at(l, b)
        BY <1>2, <2>1, Zenon
      <3>2. at(k, a) = at(l, b)
        <4>. HIDE DEF pos
        <4>. QED  BY <1>7, <3>1, Zenon
      <3>. QED  BY <1>3, <2>1, <3>1, <3>2
    <2>2. CASE k - L \in 1..r /\ ~(k <= L) /\ l - L \in 1..r /\ ~(l <= L)
      <3>1. pos(k, a) = n - r + (k - L) /\ pos(l, b) = n - r + (l - L)
        BY <2>2
      <3>2. n - r + (k - L) = n - r + (l - L)
        <4>. HIDE DEF pos
        <4>. QED  BY <1>7, <3>1, Zenon
      <3>3. k \in Nat /\ l \in Nat /\ L \in Nat /\ n - r \in Nat
        BY <1>1, <1>3
      <3>. HIDE DEF pos
      <3>. QED  BY <3>2, <3>3
    <2>3. CASE k \in 1..L /\ k <= L /\ l - L \in 1..r /\ ~(l <= L)
      <3>1. pos(k, a) \in 1..(n - r)
        BY <1>2, <1>3, <2>3
      <3>2. pos(l, b) \in (n - r + 1)..n
        BY <1>3, <2>3
      <3>. HIDE DEF pos
      <3>. QED  BY <1>3, <1>7, <3>1, <3>2
    <2>4. CASE l \in 1..L /\ l <= L /\ k - L \in 1..r /\ ~(k <= L)
      <3>1. pos(l, b) \in 1..(n - r)
        BY <1>2, <1>3, <2>4
      <3>2. pos(k, a) \in (n - r + 1)..n
        BY <1>3, <2>4
      <3>. HIDE DEF pos
      <3>. QED  BY <1>3, <1>7, <3>1, <3>2
    <2>. QED  BY <1>4, <2>1, <2>2, <2>3, <2>4
  <1>. HIDE DEF pos
  <1>8. \A i \in 1..n : (i \in rows => ok(i) = i) /\ (i \notin rows => ok(i) = NULL)
    BY DEF ok
  <1>9. /\ \A k \in 1..(L + r) : \A a \in DOMAIN sum[k] :
             /\ pos(k, a) \in rows => sum[k][a] = pos(k, a)
             /\ pos(k, a) \notin rows => sum[k][a] = NULL
        /\ NULL \notin rows
    <2>1. ASSUME NEW k \in 1..(L + r), NEW a \in DOMAIN sum[k]
          PROVE  /\ pos(k, a) \in rows => sum[k][a] = pos(k, a)
                 /\ pos(k, a) \notin rows => sum[k][a] = NULL
      <3>1. pos(k, a) \in 1..n /\ sum[k][a] = ok(pos(k, a))
        BY <1>5
      <3>. QED  BY <1>8, <3>1
    <2>2. NULL \notin rows
      <3>1. 1..n \subseteq Nat
        OBVIOUS
      <3>. QED  BY <1>1, <3>1, Zenon
    <2>. QED  BY <2>1, <2>2
  <1>10. \A k \in 1..(L + r) : Range(sum[k]) = {sum[k][a] : a \in DOMAIN sum[k]}
    BY DEF Range
  <1>11. (UNION {Range(sum[k]) : k \in DOMAIN sum}) \ {NULL} = rows
    <2>1. ASSUME NEW v, v \in UNION {Range(sum[k]) : k \in DOMAIN sum}, v # NULL  PROVE v \in rows
      <3>1. PICK k \in 1..(L + r) : v \in Range(sum[k])
        BY <1>2, <2>1
      <3>2. PICK a \in DOMAIN sum[k] : v = sum[k][a]
        BY <1>10, <3>1
      <3>. QED  BY <1>9, <2>1, <3>2
    <2>2. ASSUME NEW i \in rows  PROVE i \in UNION {Range(sum[k]) : k \in DOMAIN sum} /\ i # NULL
      <3>0. PICK k \in 1..(L + r) : \E a \in DOMAIN sum[k] : pos(k, a) = i
        BY <1>6
      <3>1. PICK a \in DOMAIN sum[k] : pos(k, a) = i
        BY <3>0
      <3>2. sum[k][a] = i
        BY <1>9, <3>1
      <3>3. i \in Range(sum[k])
        BY <1>10, <3>2, Zenon
      <3>. QED  BY <1>2, <1>9, <3>3
    <2>. QED  BY <2>1, <2>2, Zenon
  <1>12. ASSUME NEW k \in DOMAIN sum, NEW l \in DOMAIN sum, k # l
         PROVE  Range(sum[k]) \cap Range(sum[l]) \subseteq {NULL}
    <2>0. SUFFICES ASSUME NEW v, v \in Range(sum[k]), v \in Range(sum[l]), v # NULL  PROVE FALSE
      OBVIOUS
    <2>1. k \in 1..(L + r) /\ l \in 1..(L + r)
      BY <1>2
    <2>2. PICK a \in DOMAIN sum[k] : v = sum[k][a]
      <3>1. v \in {sum[k][a] : a \in DOMAIN sum[k]}
        BY ONLY <1>10, <2>0, <2>1
      <3>. QED  BY ONLY <3>1
    <2>3. PICK b \in DOMAIN sum[l] : v = sum[l][b]
      <3>1. v \in {sum[l][b] : b \in DOMAIN sum[l]}
        BY ONLY <1>10, <2>0, <2>1
      <3>. QED  BY ONLY <3>1
    <2>4. v = pos(k, a) /\ v = pos(l, b)
      BY <1>9, <2>0, <2>1, <2>2, <2>3, Zenon
    <2>. QED  BY <1>7, <1>12, <2>1, <2>4, Zenon
  <1>13. ASSUME NEW k \in DOMAIN sum, NEW a \in DOMAIN sum[k], NEW b \in DOMAIN sum[k],
                a < b, {sum[k][a], sum[k][b]} \subseteq rows
         PROVE  sum[k][a] < sum[k][b]
    <2>1. k \in 1..(L + r)
      BY <1>2
    <2>2. sum[k][a] = pos(k, a) /\ sum[k][b] = pos(k, b)
      BY <1>9, <1>13, <2>1
    <2>. QED  BY <1>5, <1>13, <2>1, <2>2
  <1>. QED  BY <1>11, <1>12, <1>13 DEF SumHolds

\* The lanes and the tail of n rows, with what is at each place of theirs.
LEMMA LanesAre ==
  ASSUME NEW n \in Nat
  PROVE  /\ n \div Lanes \in Nat /\ n % Lanes \in Nat
         /\ \A l \in 1..Lanes :
              /\ DOMAIN Lane(n, l) = 1..(n \div Lanes)
              /\ \A k \in 1..(n \div Lanes) : /\ Lane(n, l)[k] = (k - 1) * Lanes + l
                                              /\ (k - 1) * Lanes + l \in 1..n
         /\ DOMAIN Remainder(n) = 1..(n % Lanes)
         /\ \A j \in 1..(n % Lanes) : /\ Remainder(n)[j] = n - (n % Lanes) + j
                                     /\ n - (n % Lanes) + j \in 1..n
  <1>. DEFINE L == Lanes
              d == n \div L
              r == n % L
              at(l, k) == (k - 1) * L + l
  <1>1. L \in Nat \ {0}
    BY ViewsAssumption
  <1>2. /\ d \in Nat /\ r \in Nat /\ n - r \in Nat
        /\ \A l \in 1..L : \A k \in 1..d : at(l, k) \in 1..(n - r)
        /\ \A j \in 1..r : n - r + j \in (n - r + 1)..n
    <2>. HIDE DEF L
    <2>. QED  BY <1>1, LaneRows
  <1>3. /\ \A l : DOMAIN Lane(n, l) = 1..d /\ \A k \in 1..d : Lane(n, l)[k] = at(l, k)
        /\ DOMAIN Remainder(n) = 1..r /\ \A j \in 1..r : Remainder(n)[j] = n - r + j
    BY DEF Lane, Remainder
  <1>. HIDE DEF d, r, at
  <1>4. /\ \A i \in 1..(n - r) : i \in 1..n
        /\ \A i \in (n - r + 1)..n : i \in 1..n
    BY <1>2
  <1>5. /\ \A l \in 1..L : /\ DOMAIN Lane(n, l) = 1..d
                           /\ \A k \in 1..d : Lane(n, l)[k] = at(l, k) /\ at(l, k) \in 1..n
        /\ \A j \in 1..r : Remainder(n)[j] = n - r + j /\ n - r + j \in 1..n
    BY <1>2, <1>3, <1>4
  <1>. QED  BY <1>2, <1>3, <1>5, Zenon DEF d, r, at

\* What the lanes and the tail of n rows have of the rows that count.
LanesServe(n, rows, S, lanes) ==
  /\ lanes \in Seq(S) /\ Len(lanes) = Lanes
  /\ \A l \in 1..Lanes :
       /\ DOMAIN lanes[l] = 1..(n \div Lanes)
       /\ \A k \in 1..(n \div Lanes) :
            lanes[l][k] = IF (k - 1) * Lanes + l \in rows THEN (k - 1) * Lanes + l ELSE NULL

TailServes(n, rows, tail) ==
  /\ DOMAIN tail = 1..(n % Lanes)
  /\ \A j \in 1..(n % Lanes) :
       tail[j] = IF n - (n % Lanes) + j \in rows THEN n - (n % Lanes) + j ELSE NULL

\* Together they have them as a sum should.
LEMMA ChainsSum ==
  ASSUME NEW n \in Nat, NEW rows \in SUBSET (1..n), NEW S, NEW lanes, NEW tail,
         LanesServe(n, rows, S, lanes), TailServes(n, rows, tail)
  PROVE  SumHolds(Combined(lanes, tail), rows)
  <1>. DEFINE sum == Combined(lanes, tail)
              r == n % Lanes
              d == n \div Lanes
              ok(i) == IF i \in rows THEN i ELSE NULL
              at(l, k) == (k - 1) * Lanes + l
  <1>1. sum = Combined(lanes, tail) /\ Lanes \in Nat /\ r \in Nat /\ DOMAIN tail = 1..r
        /\ lanes \in Seq(S) /\ Len(lanes) = Lanes
    BY ViewsAssumption, LanesAre DEF LanesServe, TailServes
  <1>2. \A l \in 1..Lanes : DOMAIN lanes[l] = 1..d /\ \A k \in 1..d : lanes[l][k] = ok(at(l, k))
    BY DEF LanesServe
  <1>3. \A j \in 1..r : tail[j] = ok(n - r + j)
    BY DEF TailServes
  <1>. HIDE DEF sum, r, d, ok, at
  <1>4. /\ DOMAIN sum = 1..(Lanes + r)
        /\ \A l \in 1..Lanes : sum[l] = lanes[l]
        /\ \A j \in 1..r : DOMAIN sum[Lanes + j] = {1} /\ sum[Lanes + j][1] = tail[j]
    BY ONLY <1>1, CombinedIs
  <1>5. /\ DOMAIN sum = 1..(Lanes + r)
        /\ \A l \in 1..Lanes : DOMAIN sum[l] = 1..d /\ \A k \in 1..d : sum[l][k] = ok(at(l, k))
        /\ \A j \in 1..r : DOMAIN sum[Lanes + j] = {1} /\ sum[Lanes + j][1] = ok(n - r + j)
    BY ONLY <1>2, <1>3, <1>4
  <1>. USE DEF r, d, ok, at
  <1>6. SumHolds(sum, rows)
    <2>1. ChainsOf(n, rows, sum)
      BY <1>5 DEF ChainsOf
    <2>. QED  BY <2>1, ChainsHold, Zenon
  <1>. QED  BY <1>6 DEF sum

\* sum_required: all rows.
LEMMA RequiredSum ==
  ASSUME NEW values, NEW n \in Nat, Len(values) = n
  PROVE  SumHolds(SumRequired(values), 1..n)
  <1>. DEFINE lanes == [l \in 1..Lanes |-> Lane(n, l)]
              S == {Lane(n, l) : l \in 1..Lanes}
              tail == Remainder(n)
  <1>1. SumRequired(values) = Combined(lanes, tail)
    BY DEF SumRequired
  <1>2. /\ \A l \in 1..Lanes :
             /\ DOMAIN Lane(n, l) = 1..(n \div Lanes)
             /\ \A k \in 1..(n \div Lanes) :
                  Lane(n, l)[k] = IF (k - 1) * Lanes + l \in 1..n THEN (k - 1) * Lanes + l ELSE NULL
        /\ DOMAIN tail = 1..(n % Lanes)
        /\ \A j \in 1..(n % Lanes) :
             tail[j] = IF n - (n % Lanes) + j \in 1..n THEN n - (n % Lanes) + j ELSE NULL
    BY LanesAre, Zenon
  <1>3. /\ lanes \in Seq(S) /\ Len(lanes) = Lanes
        /\ \A l \in 1..Lanes : lanes[l] = Lane(n, l)
    <2>1. Lanes \in Nat
      BY ViewsAssumption
    <2>. QED  BY <2>1
  <1>4. 1..n \in SUBSET (1..n)
    OBVIOUS
  <1>. HIDE DEF lanes, tail, S
  <1>5. ASSUME NEW l \in 1..Lanes
        PROVE  /\ DOMAIN lanes[l] = 1..(n \div Lanes)
               /\ \A k \in 1..(n \div Lanes) :
                    lanes[l][k] = IF (k - 1) * Lanes + l \in 1..n THEN (k - 1) * Lanes + l ELSE NULL
    <2>1. lanes[l] = Lane(n, l)
      BY <1>3
    <2>. QED  BY <1>2, <2>1, Zenon
  <1>6. LanesServe(n, 1..n, S, lanes) /\ TailServes(n, 1..n, tail)
    BY <1>2, <1>3, <1>5, Zenon DEF LanesServe, TailServes
  <1>7. SumHolds(Combined(lanes, tail), 1..n)
    BY <1>4, <1>6, ChainsSum, Zenon
  <1>. QED  BY <1>1, <1>7

\* sum_nullable: the valid rows.
LEMMA NullableSum ==
  ASSUME NEW values, NEW valid, NEW n \in Nat, Len(values) = n
  PROVE  SumHolds(SumNullable(values, valid), {i \in 1..n : valid[i]})
  <1>. DEFINE lanes == [l \in 1..Lanes |-> Masked(Lane(n, l), valid)]
              S == {Masked(Lane(n, l), valid) : l \in 1..Lanes}
              tail == Masked(Remainder(n), valid)
              rows == {i \in 1..n : valid[i]}
  <1>1. SumNullable(values, valid) = Combined(lanes, tail)
    BY DEF SumNullable
  <1>2. /\ \A l \in 1..Lanes :
              /\ DOMAIN Lane(n, l) = 1..(n \div Lanes)
              /\ \A k \in 1..(n \div Lanes) : /\ Lane(n, l)[k] = (k - 1) * Lanes + l
                                              /\ (k - 1) * Lanes + l \in 1..n
        /\ DOMAIN Remainder(n) = 1..(n % Lanes)
        /\ \A j \in 1..(n % Lanes) : /\ Remainder(n)[j] = n - (n % Lanes) + j
                                    /\ n - (n % Lanes) + j \in 1..n
    BY LanesAre, Zenon
  <1>3. rows \in SUBSET (1..n) /\ \A i \in 1..n : i \in rows <=> valid[i]
    OBVIOUS
  <1>4. \A s : /\ DOMAIN Masked(s, valid) = DOMAIN s
               /\ \A k \in DOMAIN s : Masked(s, valid)[k] = IF valid[s[k]] THEN s[k] ELSE NULL
    BY DEF Masked
  <1>5. /\ lanes \in Seq(S) /\ Len(lanes) = Lanes
        /\ \A l \in 1..Lanes : lanes[l] = Masked(Lane(n, l), valid)
    <2>1. Lanes \in Nat
      BY ViewsAssumption
    <2>. QED  BY <2>1
  <1>. HIDE DEF lanes, rows, S
  <1>6. ASSUME NEW l \in 1..Lanes
        PROVE  /\ DOMAIN lanes[l] = 1..(n \div Lanes)
               /\ \A k \in 1..(n \div Lanes) :
                    lanes[l][k] = IF (k - 1) * Lanes + l \in rows THEN (k - 1) * Lanes + l ELSE NULL
    <2>1. lanes[l] = Masked(Lane(n, l), valid) /\ DOMAIN Lane(n, l) = 1..(n \div Lanes)
      BY <1>2, <1>5
    <2>2. ASSUME NEW k \in 1..(n \div Lanes)
          PROVE  lanes[l][k] = IF (k - 1) * Lanes + l \in rows THEN (k - 1) * Lanes + l ELSE NULL
      <3>. DEFINE i == (k - 1) * Lanes + l
      <3>1. Lane(n, l)[k] = i /\ i \in 1..n
        BY <1>2
      <3>2. lanes[l][k] = IF valid[Lane(n, l)[k]] THEN Lane(n, l)[k] ELSE NULL
        <4>. HIDE DEF i
        <4>1. k \in DOMAIN Lane(n, l)
          BY <2>1
        <4>2. Masked(Lane(n, l), valid)[k] = IF valid[Lane(n, l)[k]] THEN Lane(n, l)[k] ELSE NULL
          BY <1>4, <4>1, Zenon
        <4>. QED  BY <2>1, <4>2
      <3>. HIDE DEF i
      <3>3. lanes[l][k] = IF i \in rows THEN i ELSE NULL
        BY <1>3, <3>1, <3>2
      <3>. QED  BY <3>3 DEF i
    <2>. QED  BY <1>4, <2>1, <2>2
  <1>7. /\ DOMAIN tail = 1..(n % Lanes)
        /\ \A j \in 1..(n % Lanes) :
             tail[j] = IF n - (n % Lanes) + j \in rows THEN n - (n % Lanes) + j ELSE NULL
    <2>1. DOMAIN tail = 1..(n % Lanes)
      BY <1>2, <1>4
    <2>2. ASSUME NEW j \in 1..(n % Lanes)
          PROVE  tail[j] = IF n - (n % Lanes) + j \in rows THEN n - (n % Lanes) + j ELSE NULL
      <3>. DEFINE i == n - (n % Lanes) + j
      <3>1. Remainder(n)[j] = i /\ i \in 1..n
        BY <1>2
      <3>2. tail[j] = IF valid[Remainder(n)[j]] THEN Remainder(n)[j] ELSE NULL
        BY <1>2, <1>4, Zenon
      <3>. HIDE DEF i, tail
      <3>3. tail[j] = IF i \in rows THEN i ELSE NULL
        BY <1>3, <3>1, <3>2
      <3>. QED  BY <3>3 DEF i
    <2>. QED  BY <2>1, <2>2
  <1>. HIDE DEF tail
  <1>8. LanesServe(n, rows, S, lanes) /\ TailServes(n, rows, tail)
    BY <1>5, <1>6, <1>7, Zenon DEF LanesServe, TailServes
  <1>9. SumHolds(Combined(lanes, tail), rows)
    BY <1>3, <1>8, ChainsSum, Zenon
  <1>. QED  BY <1>1, <1>9 DEF rows

-----------------------------------------------------------------------------
(* Bulk reads of one column.                                               *)

\* What is said of the readers of a column of n rows with the given cells.
ReadersHold(spec, C, n, cells) ==
  LET rows == {i \in DOMAIN cells : cells[i] # NULL}
      slice == SliceOfColumn(C)
  IN /\ IterValues(C) = cells
     /\ ForEachValue(C) = cells
     /\ SliceFault(spec, spec.type, FALSE) = "ok" => slice = cells /\ rows = DOMAIN cells
     /\ SliceFault(spec, spec.type, TRUE) = "ok" =>
          IF IsSplit(spec)
          THEN /\ Zipped(slice) = cells
               /\ \A i \in 1..(n + 1) :
                    NullableAt(slice, i) = IF i \in DOMAIN cells THEN cells[i] ELSE ERR
          ELSE slice = cells
     /\ spec.type \in SumTypes => SumHolds(SumOf(C), rows)

\* The type is right for a slice of a column that is not of nulls.
LEMMA SliceTypes ==
  ASSUME NEW spec, NEW optional, SliceFault(spec, spec.type, optional) = "ok"
  PROVE  spec.type # NullType /\ optional = spec.nullable
  BY DEF SliceFault

\* iter, whatever the shape.
LEMMA IterIs ==
  ASSUME NEW spec, NEW C, NEW n \in Nat, IsSpec(spec), HasShape(spec, C, n),
         NEW cells, cells = [i \in 1..n |-> GetCell(C, i)]
  PROVE  IterValues(C) = cells
  <1>1. Length(C) = n /\ \A i \in 1..n : GetCell(C, i) \in Slots
    BY ShapeHolds
  <1>2. ERR \notin Slots
    BY ValuesAssumption DEF Slots
  <1>3. \A i \in 1..n : GetCell(C, i) # ERR
    BY <1>1, <1>2
  <1>. QED  BY <1>1, <1>3 DEF IterValues

\* A column of nulls has no slices and no sum.
LEMMA LengthReaders ==
  ASSUME NEW spec, NEW C, NEW n \in Nat, IsSpec(spec), LengthColumn(spec, C, n),
         NEW cells, cells = [i \in 1..n |-> GetCell(C, i)]
  PROVE  ReadersHold(spec, C, n, cells)
  <1>1. spec.type = NullType /\ C.kind = "length" /\ C.len = n
    BY DEF LengthColumn
  <1>2. IterValues(C) = cells
    BY IterIs DEF HasShape
  <1>3. cells = [i \in 1..n |-> NULL]
    BY LengthAt
  <1>4. ForEachValue(C) = cells
    BY <1>1, <1>3 DEF ForEachValue
  <1>5. spec.type \notin SumTypes
    BY <1>1, ViewsAssumption, ValuesAssumption
  <1>6. /\ SliceFault(spec, spec.type, FALSE) # "ok"
        /\ SliceFault(spec, spec.type, TRUE) # "ok"
    BY <1>1, SliceTypes, Zenon
  <1>. QED  BY <1>2, <1>4, <1>5, <1>6, Zenon DEF ReadersHold

\* Both vectors of a split column are read in step.
LEMMA SplitReaders ==
  ASSUME NEW spec, NEW C, NEW n \in Nat, IsSpec(spec), SplitColumn(spec, C, n),
         NEW cells, cells = [i \in 1..n |-> GetCell(C, i)]
  PROVE  ReadersHold(spec, C, n, cells)
  <1>. DEFINE rows == {i \in DOMAIN cells : cells[i] # NULL}
              slice == SliceOfColumn(C)
              Fitting == {v \in Values : TypeOf[v] = spec.type}
  <1>1. /\ IsSplit(spec) /\ spec.nullable /\ C.kind = "split"
        /\ C.values \in Seq(Fitting) /\ Len(C.values) = n
        /\ C.valid \in Seq(BOOLEAN) /\ Len(C.valid) = n
    BY DEF SplitColumn, IsSplit
  <1>2. IterValues(C) = cells
    BY IterIs DEF HasShape
  <1>3. \A i \in 1..n : GetCell(C, i) = IF C.valid[i] THEN C.values[i] ELSE NULL
    BY SplitAt
  <1>4. cells = [i \in 1..n |-> IF C.valid[i] THEN C.values[i] ELSE NULL] /\ DOMAIN cells = 1..n
    BY <1>3
  <1>5. slice = [values |-> C.values, valid |-> C.valid]
    BY <1>1 DEF SliceOfColumn
  <1>6. Zipped(C) = cells /\ Zipped(slice) = cells
    BY <1>1, <1>4, <1>5 DEF Zipped
  <1>7. ForEachValue(C) = cells
    BY <1>1, <1>6 DEF ForEachValue
  <1>8. ASSUME NEW i \in 1..(n + 1)
        PROVE  NullableAt(slice, i) = IF i \in DOMAIN cells THEN cells[i] ELSE ERR
    <2>1. slice.values = C.values /\ slice.valid = C.valid
      BY <1>5
    <2>2. i \in 1..n <=> ~(i > n)
      OBVIOUS
    <2>. QED  BY <1>1, <1>4, <2>1, <2>2 DEF NullableAt
  <1>9. \A i \in 1..n : C.values[i] # NULL
    <2>1. NULL \notin Values /\ Fitting \subseteq Values
      BY ValuesAssumption
    <2>2. \A i \in 1..n : C.values[i] \in Fitting
      <3>. HIDE DEF Fitting
      <3>. QED  BY <1>1
    <2>. QED  BY <2>1, <2>2
  <1>10. rows = {i \in 1..n : C.valid[i]}
    BY <1>4, <1>9
  <1>11. SumHolds(SumOf(C), rows)
    <2>1. SumOf(C) = SumNullable(C.values, C.valid)
      BY <1>1 DEF SumOf
    <2>2. SumHolds(SumNullable(C.values, C.valid), {i \in 1..n : C.valid[i]})
      BY <1>1, NullableSum
    <2>. QED  BY <1>10, <2>1, <2>2, Zenon
  <1>12. SliceFault(spec, spec.type, FALSE) # "ok"
    BY <1>1, SliceTypes, Zenon
  <1>. QED  BY <1>1, <1>2, <1>6, <1>7, <1>8, <1>11, <1>12, Zenon DEF ReadersHold

\* A vector of cells is the slice; the sums are of numbers that are never null.
LEMMA CellReaders ==
  ASSUME NEW spec, NEW C, NEW n \in Nat, IsSpec(spec), CellColumn(spec, C, n),
         NEW cells, cells = [i \in 1..n |-> GetCell(C, i)]
  PROVE  ReadersHold(spec, C, n, cells)
  <1>. DEFINE rows == {i \in DOMAIN cells : cells[i] # NULL}
              Fitting == {v \in Slots : Accepts(spec, v)}
  <1>1. /\ ~IsSplit(spec) /\ C.kind \notin {"length", "split"}
        /\ C.cells \in Seq(Fitting) /\ Len(C.cells) = n
        /\ spec.nullable \in BOOLEAN
    BY DEF CellColumn, IsSpec, ColumnSpec
  <1>2. IterValues(C) = cells
    BY IterIs DEF HasShape
  <1>3. C.cells = cells /\ DOMAIN cells = 1..n
    <2>1. \A i \in 1..n : GetCell(C, i) = C.cells[i]
      BY CellAt
    <2>2. C.cells = [i \in 1..n |-> C.cells[i]]
      <3>. DEFINE s == C.cells
      <3>1. s \in Seq(Fitting) /\ Len(s) = n
        BY <1>1
      <3>. HIDE DEF s, Fitting
      <3>2. s = [i \in 1..n |-> s[i]]
        BY <3>1
      <3>. QED  BY <3>2 DEF s
    <2>. QED  BY <2>1, <2>2
  <1>4. ForEachValue(C) = cells /\ SliceOfColumn(C) = cells
    BY <1>1, <1>3 DEF ForEachValue, SliceOfColumn
  <1>5. ~spec.nullable => rows = 1..n
    <2>. SUFFICES ASSUME ~spec.nullable, NEW i \in 1..n  PROVE cells[i] # NULL
      BY <1>3
    <2>1. cells[i] \in Fitting
      <3>. HIDE DEF Fitting
      <3>. QED  BY <1>1, <1>3
    <2>. QED  BY <2>1 DEF Accepts
  <1>6. SliceFault(spec, spec.type, FALSE) = "ok" => rows = DOMAIN cells
    BY <1>1, <1>3, <1>5, SliceTypes, Zenon
  <1>7. spec.type \in SumTypes => SumHolds(SumOf(C), rows)
    <2>1. SUFFICES ASSUME spec.type \in SumTypes  PROVE SumHolds(SumOf(C), rows)
      OBVIOUS
    <2>2. ~spec.nullable
      BY <1>1, <2>1, ViewsAssumption DEF IsSplit
    <2>3. SumOf(C) = SumRequired(C.cells)
      BY <1>1 DEF SumOf
    <2>4. SumHolds(SumRequired(C.cells), 1..n)
      BY <1>1, RequiredSum
    <2>. QED  BY <1>5, <2>2, <2>3, <2>4, Zenon
  <1>. QED  BY <1>1, <1>2, <1>4, <1>6, <1>7, Zenon DEF ReadersHold

\* All columns of all tables.
LEMMA ReadersOfTables == TableInv => ReadersAgree
  <1>. SUFFICES ASSUME TableInv, NEW t \in Tables, NEW c \in DOMAIN table[t].columns
                PROVE  LET T == table[t]
                       IN ReadersHold(T.schema.columns[c], T.columns[c], T.rowCount,
                                      [i \in 1..T.rowCount |-> Cell(T, i, c)])
    BY Zenon DEF ReadersAgree, ReadersHold, SumHolds
  <1>. DEFINE T == table[t]
              spec == T.schema.columns[c]
              C == T.columns[c]
              n == T.rowCount
  <1>1. IsTable(T)
    BY DEF TableInv
  <1>2. n \in Nat /\ c \in Positions(T.schema) /\ HasShape(spec, C, n)
    BY <1>1 DEF IsTable, HasColumns
  <1>3. IsSpec(spec)
    <2>1. T.schema \in Schemas
      BY <1>1 DEF IsTable
    <2>. QED  BY <1>2, <2>1, SchemaIs
  <1>4. [i \in 1..n |-> Cell(T, i, c)] = [i \in 1..n |-> GetCell(C, i)]
    BY DEF Cell
  <1>. DEFINE cells == [i \in 1..n |-> GetCell(C, i)]
  <1>5. cells = [i \in 1..n |-> GetCell(C, i)]
    OBVIOUS
  <1>. HIDE DEF spec, C, n, cells
  <1>6. ReadersHold(spec, C, n, cells)
    BY <1>2, <1>3, <1>5, LengthReaders, SplitReaders, CellReaders DEF HasShape
  <1>. QED  BY <1>4, <1>6, Zenon DEF spec, C, n, cells

\* Columns are borrowed as they are asked for, and every way to read one in bulk
\* agrees with reading it cell by cell.
THEOREM ViewsStayTrue == Spec => []ViewsAgree
  <1>1. TableInv => ViewsAgree
    BY BorrowsHold, ReadersOfTables DEF ViewsAgree
  <1>. QED  BY <1>1, TablesKeepShape, PTL

-----------------------------------------------------------------------------
(* Queries: what an index files.                                           *)

\* A cell of a column is null or a value of the column's type.
LEMMA CellsAreTyped ==
  ASSUME NEW T, IsTable(T), NEW c \in Positions(T.schema), NEW i \in 1..T.rowCount,
         Cell(T, i, c) # NULL
  PROVE  /\ Cell(T, i, c) \in Values /\ TypeOf[Cell(T, i, c)] = T.schema.columns[c].type
         /\ T.schema.columns[c].type # NullType
  <1>1. Cell(T, i, c) \in Slots /\ Accepts(T.schema.columns[c], Cell(T, i, c))
    BY TableHolds
  <1>2. Cell(T, i, c) \in Values /\ TypeOf[Cell(T, i, c)] = T.schema.columns[c].type
    BY <1>1 DEF Slots, Accepts
  <1>3. TypeOf[Cell(T, i, c)] \in Types \ {NullType}
    BY <1>2, ValuesAssumption
  <1>. QED  BY <1>2, <1>3

\* The live rows of column c with a value, those of one key, and the keys of the
\* first i rows.
Keyed(T, c) == {r \in 1..T.rowCount : ~IsTombstoned(T, r) /\ Cell(T, r, c) # NULL}
Under(T, c, key) == {r \in Keyed(T, c) : KeyOf[Cell(T, r, c)] = key}
KeysUpto(T, c, i) == {KeyOf[Cell(T, r, c)] : r \in Keyed(T, c) \cap (1..i)}
Nulls(T, c) == {r \in 1..T.rowCount : ~IsTombstoned(T, r) /\ Cell(T, r, c) = NULL}
Dead(T) == {r \in 1..T.rowCount : IsTombstoned(T, r)}

\* What has been filed of the first i rows.
FiledUpto(T, c, i) ==
  [by_key |-> [key \in KeysUpto(T, c, i) |-> KeptUpto(Under(T, c, key), T.rowCount)[i]],
   null_rows |-> KeptUpto(Nulls(T, c), T.rowCount)[i],
   tombstoned_rows |-> KeptUpto(Dead(T), T.rowCount)[i]]

\* One more row.
LEMMA FiledNext ==
  ASSUME NEW T, T.rowCount \in Nat, NEW c, NEW i \in 1..T.rowCount
  PROVE  FiledRow(T, c, FiledUpto(T, c, i - 1), i) = FiledUpto(T, c, i)
  <1>. DEFINE n == T.rowCount
              before == FiledUpto(T, c, i - 1)
              v == Cell(T, i, c)
              key == KeyOf[v]
  <1>0. n \in Nat /\ i \in 1..n /\ 1..i = (1..(i - 1)) \cup {i} /\ i \notin 1..(i - 1)
    OBVIOUS
  <1>1. /\ DOMAIN before = {"by_key", "null_rows", "tombstoned_rows"}
        /\ before.by_key = [k \in KeysUpto(T, c, i - 1) |-> KeptUpto(Under(T, c, k), n)[i - 1]]
        /\ before.null_rows = KeptUpto(Nulls(T, c), n)[i - 1]
        /\ before.tombstoned_rows = KeptUpto(Dead(T), n)[i - 1]
    BY DEF FiledUpto
  <1>2. \A kept : /\ i \in kept => KeptUpto(kept, n)[i] = Append(KeptUpto(kept, n)[i - 1], i)
                  /\ i \notin kept => KeptUpto(kept, n)[i] = KeptUpto(kept, n)[i - 1]
    BY <1>0, KeptNext
  <1>3. ASSUME i \notin Keyed(T, c)
        PROVE  /\ KeysUpto(T, c, i) = KeysUpto(T, c, i - 1)
               /\ \A k : KeptUpto(Under(T, c, k), n)[i] = KeptUpto(Under(T, c, k), n)[i - 1]
    <2>1. Keyed(T, c) \cap (1..i) = Keyed(T, c) \cap (1..(i - 1))
      BY <1>0, <1>3
    <2>2. \A k : i \notin Under(T, c, k)
      BY <1>3 DEF Under
    <2>. QED  BY <1>2, <2>1, <2>2, Zenon DEF KeysUpto
  <1>4. CASE IsTombstoned(T, i)
    <2>1. FiledRow(T, c, before, i) = [before EXCEPT !.tombstoned_rows = Append(@, i)]
      BY <1>4 DEF FiledRow
    <2>2. i \in Dead(T) /\ i \notin Nulls(T, c) /\ i \notin Keyed(T, c)
      BY <1>4 DEF Dead, Nulls, Keyed
    <2>3. KeptUpto(Nulls(T, c), n)[i] = before.null_rows
          /\ KeptUpto(Dead(T), n)[i] = Append(before.tombstoned_rows, i)
          /\ [k \in KeysUpto(T, c, i) |-> KeptUpto(Under(T, c, k), n)[i]] = before.by_key
      BY <1>1, <1>2, <1>3, <2>2, Zenon
    <2>4. FiledRow(T, c, before, i)
            = [by_key |-> before.by_key, null_rows |-> before.null_rows, tombstoned_rows |-> Append(before.tombstoned_rows, i)]
      <3>. HIDE DEF before
      <3>. QED  BY <1>1, <2>1
    <2>. QED  BY <2>3, <2>4, Zenon DEF FiledUpto
  <1>5. CASE ~IsTombstoned(T, i) /\ v = NULL
    <2>1. FiledRow(T, c, before, i) = [before EXCEPT !.null_rows = Append(@, i)]
      BY <1>5 DEF FiledRow
    <2>2. i \notin Dead(T) /\ i \in Nulls(T, c) /\ i \notin Keyed(T, c)
      BY <1>5 DEF Dead, Nulls, Keyed
    <2>3. KeptUpto(Nulls(T, c), n)[i] = Append(before.null_rows, i)
          /\ KeptUpto(Dead(T), n)[i] = before.tombstoned_rows
          /\ [k \in KeysUpto(T, c, i) |-> KeptUpto(Under(T, c, k), n)[i]] = before.by_key
      BY <1>1, <1>2, <1>3, <2>2, Zenon
    <2>4. FiledRow(T, c, before, i)
            = [by_key |-> before.by_key, null_rows |-> Append(before.null_rows, i), tombstoned_rows |-> before.tombstoned_rows]
      <3>. HIDE DEF before
      <3>. QED  BY <1>1, <2>1
    <2>. QED  BY <2>3, <2>4, Zenon DEF FiledUpto
  <1>6. CASE ~IsTombstoned(T, i) /\ v # NULL
    <2>1. FiledRow(T, c, before, i) = [before EXCEPT !.by_key = Filed(@, key, i)]
      BY <1>6 DEF FiledRow
    <2>2. i \notin Dead(T) /\ i \notin Nulls(T, c) /\ i \in Keyed(T, c)
      BY <1>6 DEF Dead, Nulls, Keyed
    <2>3. KeysUpto(T, c, i) = KeysUpto(T, c, i - 1) \cup {key}
      <3>1. Keyed(T, c) \cap (1..i) = (Keyed(T, c) \cap (1..(i - 1))) \cup {i}
        BY <1>0, <2>2
      <3>. QED  BY <3>1 DEF KeysUpto
    <2>4. i \in Under(T, c, key) /\ \A k : k # key => i \notin Under(T, c, k)
      BY <2>2 DEF Under
    <2>5. key \notin KeysUpto(T, c, i - 1) => KeptUpto(Under(T, c, key), n)[i - 1] = <<>>
      <3>1. SUFFICES ASSUME key \notin KeysUpto(T, c, i - 1)
                     PROVE  KeptUpto(Under(T, c, key), n)[i - 1] = <<>>
        OBVIOUS
      <3>2. \A r \in 1..(i - 1) : r \notin Under(T, c, key)
        BY <3>1 DEF Under, KeysUpto
      <3>3. i - 1 \in 0..n
        BY <1>0
      <3>. QED  BY <1>0, <3>2, <3>3, KeptNone
    <2>6. Filed(before.by_key, key, i)
            = [k \in KeysUpto(T, c, i) |-> KeptUpto(Under(T, c, k), n)[i]]
      <3>1. DOMAIN before.by_key = KeysUpto(T, c, i - 1)
        BY <1>1
      <3>2. \A k \in KeysUpto(T, c, i - 1) : before.by_key[k] = KeptUpto(Under(T, c, k), n)[i - 1]
        BY <1>1
      <3>3. Append(<<>>, i) = <<i>>
        OBVIOUS
      <3>. HIDE DEF before, key
      <3>4. ASSUME NEW k \in KeysUpto(T, c, i)
            PROVE  (IF k # key THEN before.by_key[k]
                    ELSE IF k \in DOMAIN before.by_key THEN Append(before.by_key[k], i) ELSE <<i>>)
                     = KeptUpto(Under(T, c, k), n)[i]
        <4>1. CASE k # key
          BY <1>2, <2>3, <2>4, <3>2, <4>1
        <4>2. CASE k = key /\ k \in DOMAIN before.by_key
          BY <1>2, <2>4, <3>1, <3>2, <4>2
        <4>3. CASE k = key /\ k \notin DOMAIN before.by_key
          BY <1>2, <2>4, <2>5, <3>1, <3>3, <4>3
        <4>. QED  BY <4>1, <4>2, <4>3
      <3>. QED  BY <2>3, <3>1, <3>4 DEF Filed
    <2>. QED  BY <1>1, <1>2, <2>1, <2>2, <2>6 DEF FiledUpto
  <1>. QED  BY <1>4, <1>5, <1>6

\* Nothing yet.
LEMMA FiledFirst ==
  ASSUME NEW T, T.rowCount \in Nat, NEW c
  PROVE  FiledUpto(T, c, 0) = [by_key |-> EmptyMap, null_rows |-> <<>>, tombstoned_rows |-> <<>>]
  <1>1. KeysUpto(T, c, 0) = {}
    BY DEF KeysUpto
  <1>2. \A kept : KeptUpto(kept, T.rowCount)[0] = <<>>
    BY KeptUptoAt
  <1>3. [k \in {} |-> KeptUpto(Under(T, c, k), T.rowCount)[0]] = EmptyMap
    BY DEF EmptyMap
  <1>. QED  BY <1>1, <1>2, <1>3 DEF FiledUpto

\* The equation of IndexUpto has a solution: what has been filed.
LEMMA IndexUptoDef ==
  ASSUME NEW T, T.rowCount \in Nat, NEW c
  PROVE  IndexUpto(T, c) =
           [i \in 0..T.rowCount |->
              IF i = 0 THEN [by_key |-> EmptyMap, null_rows |-> <<>>, tombstoned_rows |-> <<>>]
              ELSE FiledRow(T, c, IndexUpto(T, c)[i - 1], i)]
  <1>. DEFINE n == T.rowCount
              first == [by_key |-> EmptyMap, null_rows |-> <<>>, tombstoned_rows |-> <<>>]
              f == [i \in 0..n |-> FiledUpto(T, c, i)]
  <1>1. FiledUpto(T, c, 0) = first
    BY FiledFirst
  <1>2. ASSUME NEW i \in 0..n
        PROVE  f[i] = IF i = 0 THEN first ELSE FiledRow(T, c, f[i - 1], i)
    <2>1. CASE i = 0
      BY <1>1, <2>1
    <2>2. CASE i # 0
      <3>1. i \in 1..n /\ i - 1 \in 0..n
        BY <2>2
      <3>2. f[i] = FiledUpto(T, c, i) /\ f[i - 1] = FiledUpto(T, c, i - 1)
        BY <3>1
      <3>. HIDE DEF f
      <3>. QED  BY <2>2, <3>1, <3>2, FiledNext
    <2>. QED  BY <2>1, <2>2
  <1>3. f = [i \in 0..n |-> IF i = 0 THEN first ELSE FiledRow(T, c, f[i - 1], i)]
    <2>1. f = [i \in 0..n |-> f[i]]
      OBVIOUS
    <2>. HIDE DEF f, first
    <2>. QED  BY <1>2, <2>1
  <1>. HIDE DEF f
  <1>. QED  BY <1>3, Zenon DEF IndexUpto

\* There is no other.
LEMMA IndexIs ==
  ASSUME NEW T, T.rowCount \in Nat, NEW c
  PROVE  \A i \in 0..T.rowCount : IndexUpto(T, c)[i] = FiledUpto(T, c, i)
  <1>. DEFINE n == T.rowCount
              u == IndexUpto(T, c)
              R == [i \in 0..n |-> {FiledUpto(T, c, i)}]
  <1>1. u = [i \in 0..n |-> IF i = 0
                             THEN [by_key |-> EmptyMap, null_rows |-> <<>>, tombstoned_rows |-> <<>>]
                             ELSE FiledRow(T, c, u[i - 1], i)]
    BY IndexUptoDef
  <1>. HIDE DEF u
  <1>2. u[0] \in R[0]
    <2>1. u[0] = [by_key |-> EmptyMap, null_rows |-> <<>>, tombstoned_rows |-> <<>>]
      BY <1>1
    <2>. QED  BY <2>1, FiledFirst
  <1>3. ASSUME NEW k \in 1..n, u[k - 1] \in R[k - 1]  PROVE u[k] \in R[k]
    <2>1. k - 1 \in 0..n /\ k \in 0..n /\ k # 0
      OBVIOUS
    <2>2. u[k] = FiledRow(T, c, u[k - 1], k)
      BY <1>1, <2>1
    <2>3. u[k - 1] = FiledUpto(T, c, k - 1)
      BY <1>3, <2>1
    <2>. QED  BY <2>1, <2>2, <2>3, FiledNext
  <1>. HIDE DEF R
  <1>4. \A k \in 0..n : u[k] \in R[k]
    BY <1>2, <1>3, StagedInduction
  <1>. QED  BY <1>4 DEF u, R

\* The rows that are kept, as a set.
LEMMA KeptSet ==
  ASSUME NEW n \in Nat, NEW kept \in SUBSET (1..n)
  PROVE  /\ KeptOf(kept, n) \in Seq(1..n) /\ SetOf(KeptOf(kept, n)) = kept
         /\ Increasing(KeptOf(kept, n))
  <1>. DEFINE p == KeptOf(kept, n)
  <1>1. /\ p \in Seq(1..n) /\ kept = {p[j] : j \in 1..Len(p)}
        /\ \A j \in 1..Len(p) : j + 1 <= Len(p) => p[j] < p[j + 1]
    BY KeptSorted
  <1>. HIDE DEF p
  <1>2. SetOf(p) = kept
    <2>1. DOMAIN p = 1..Len(p)
      BY <1>1
    <2>. QED  BY <1>1, <2>1 DEF SetOf
  <1>3. Increasing(p)
    <2>1. \A j \in 1..(Len(p) - 1) : j \in 1..Len(p) /\ j + 1 <= Len(p)
      BY <1>1
    <2>. QED  BY <1>1, <2>1 DEF Increasing
  <1>. QED  BY <1>1, <1>2, <1>3 DEF p

\* The finished index: each list is the rows it is for, and so is what is found
\* under a key, filed or not.
LEMMA IndexHolds ==
  ASSUME NEW T, T.rowCount \in Nat, NEW c
  PROVE  LET index == IndexUpto(T, c)[T.rowCount] IN
         /\ index.tombstoned_rows = KeptOf(Dead(T), T.rowCount)
         /\ index.null_rows = KeptOf(Nulls(T, c), T.rowCount)
         /\ DOMAIN index.by_key = {KeyOf[Cell(T, r, c)] : r \in Keyed(T, c)}
         /\ \A key \in DOMAIN index.by_key :
              index.by_key[key] = KeptOf(Under(T, c, key), T.rowCount)
         /\ \A key : KeyMatches(index, key) = KeptOf(Under(T, c, key), T.rowCount)
  <1>. DEFINE n == T.rowCount
              index == IndexUpto(T, c)[n]
  <1>1. index = FiledUpto(T, c, n) /\ n \in 0..n
    <2>1. n \in 0..n
      OBVIOUS
    <2>. QED  BY <2>1, IndexIs
  <1>. HIDE DEF index
  <1>2. KeysUpto(T, c, n) = {KeyOf[Cell(T, r, c)] : r \in Keyed(T, c)}
    <2>1. Keyed(T, c) \cap (1..n) = Keyed(T, c)
      BY DEF Keyed
    <2>. QED  BY <2>1 DEF KeysUpto
  <1>3. /\ index.tombstoned_rows = KeptOf(Dead(T), n)
        /\ index.null_rows = KeptOf(Nulls(T, c), n)
        /\ index.by_key = [key \in KeysUpto(T, c, n) |-> KeptOf(Under(T, c, key), n)]
    BY <1>1 DEF FiledUpto, KeptOf
  <1>4. ASSUME NEW key  PROVE KeyMatches(index, key) = KeptOf(Under(T, c, key), n)
    <2>1. CASE key \in KeysUpto(T, c, n)
      BY <1>3, <2>1 DEF KeyMatches
    <2>2. CASE key \notin KeysUpto(T, c, n)
      <3>1. KeyMatches(index, key) = <<>>
        BY <1>3, <2>2 DEF KeyMatches
      <3>2. \A r \in 1..n : r \notin Under(T, c, key)
        BY <1>2, <2>2 DEF Under
      <3>. QED  BY <1>1, <3>1, <3>2, KeptNone DEF KeptOf
    <2>. QED  BY <2>1, <2>2
  <1>. QED  BY <1>2, <1>3, <1>4 DEF index

\* Every row has one place.
LEMMA IndexesHold == TableInv => IndexesPartitionRows
  <1>. SUFFICES ASSUME TableInv, NEW t \in Tables, NEW c \in Positions(table[t].schema),
                       IndexOf(table[t], c) # ERR
                PROVE  LET T == table[t]
                           index == IndexOf(T, c)
                           dead == {i \in 1..T.rowCount : IsTombstoned(T, i)}
                           under(key) == {i \in LiveOf(T) : Cell(T, i, c) # NULL
                                                            /\ KeyOf[Cell(T, i, c)] = key}
                       IN /\ SetOf(index.tombstoned_rows) = dead
                          /\ SetOf(index.null_rows) = {i \in LiveOf(T) : Cell(T, i, c) = NULL}
                          /\ \A key \in DOMAIN index.by_key :
                               /\ SetOf(index.by_key[key]) = under(key)
                               /\ Increasing(index.by_key[key])
                          /\ UNION {SetOf(index.by_key[key]) : key \in DOMAIN index.by_key}
                               = LiveOf(T) \ SetOf(index.null_rows)
    BY Zenon DEF IndexesPartitionRows
  <1>. DEFINE T == table[t]
              n == T.rowCount
              index == IndexOf(T, c)
              under(key) == {i \in LiveOf(T) : Cell(T, i, c) # NULL /\ KeyOf[Cell(T, i, c)] = key}
  <1>1. n \in Nat
    BY DEF TableInv, IsTable
  <1>2. index = IndexUpto(T, c)[n]
    BY DEF IndexOf
  <1>. HIDE DEF T, index
  <1>3. /\ index.tombstoned_rows = KeptOf(Dead(T), n)
        /\ index.null_rows = KeptOf(Nulls(T, c), n)
        /\ DOMAIN index.by_key = {KeyOf[Cell(T, r, c)] : r \in Keyed(T, c)}
        /\ \A key \in DOMAIN index.by_key : index.by_key[key] = KeptOf(Under(T, c, key), n)
    BY <1>1, <1>2, IndexHolds
  <1>4. /\ Dead(T) \in SUBSET (1..n) /\ Nulls(T, c) \in SUBSET (1..n)
        /\ \A key : Under(T, c, key) \in SUBSET (1..n)
    BY DEF Dead, Nulls, Under, Keyed
  <1>5. /\ Nulls(T, c) = {i \in LiveOf(T) : Cell(T, i, c) = NULL}
        /\ Keyed(T, c) = LiveOf(T) \ Nulls(T, c)
        /\ \A key : Under(T, c, key) = under(key)
    BY DEF Nulls, Under, Keyed, LiveOf
  <1>6. SetOf(index.tombstoned_rows) = Dead(T) /\ SetOf(index.null_rows) = Nulls(T, c)
    BY <1>1, <1>3, <1>4, KeptSet
  <1>7. \A key \in DOMAIN index.by_key :
          SetOf(index.by_key[key]) = Under(T, c, key) /\ Increasing(index.by_key[key])
    BY <1>1, <1>3, <1>4, KeptSet
  <1>8. UNION {SetOf(index.by_key[key]) : key \in DOMAIN index.by_key} = Keyed(T, c)
    <2>1. \A r : r \in Keyed(T, c) <=> \E key \in DOMAIN index.by_key : r \in Under(T, c, key)
      BY <1>3 DEF Under
    <2>2. \A r : r \in UNION {SetOf(index.by_key[key]) : key \in DOMAIN index.by_key}
                 <=> \E key \in DOMAIN index.by_key : r \in Under(T, c, key)
      BY <1>7
    <2>. QED  BY <2>1, <2>2
  <1>. QED  BY <1>5, <1>6, <1>7, <1>8 DEF Dead, T, index

\* In every state after a call that succeeded, ColumnIndex::new files each row
\* of each column in one place: the marked rows among the marked, the live nulls
\* among the nulls, the others in their order under their key and no other.
THEOREM IndexesAreExact == Spec => []IndexesPartitionRows
  BY IndexesHold, TablesKeepShape, PTL

-----------------------------------------------------------------------------
(* Queries: what an index of several columns files.                        *)

\* The live rows with a key, those of one key, and the keys of the first i rows.
KeyedTuple(T, cs) == {r \in 1..T.rowCount : ~IsTombstoned(T, r) /\ RowKey(T, cs, r) # NULL}
UnderTuple(T, cs, key) == {r \in KeyedTuple(T, cs) : RowKey(T, cs, r) = key}
TuplesUpto(T, cs, i) == {RowKey(T, cs, r) : r \in KeyedTuple(T, cs) \cap (1..i)}

\* Buckets are in a vector, and each key has its own.
TupleStage(T, cs, i) ==
  {index \in [by_key : [TuplesUpto(T, cs, i) -> Nat], matches : Seq(Seq(Nat)),
              null_rows : Seq(Nat), tombstoned_rows : Seq(Nat)] :
     /\ \A key \in TuplesUpto(T, cs, i) :
          /\ index.by_key[key] \in 1..Len(index.matches)
          /\ index.matches[index.by_key[key]] = KeptUpto(UnderTuple(T, cs, key), T.rowCount)[i]
     /\ \A key, other \in TuplesUpto(T, cs, i) :
          index.by_key[key] = index.by_key[other] => key = other}

\* One more row.
LEMMA TupleNext ==
  ASSUME NEW T, T.rowCount \in Nat, NEW cs, NEW i \in 1..T.rowCount,
         NEW before \in TupleStage(T, cs, i - 1)
  PROVE  FiledTuple(T, cs, before, i) \in TupleStage(T, cs, i)
  <1>. DEFINE n == T.rowCount
              key == RowKey(T, cs, i)
              K == TuplesUpto(T, cs, i - 1)
              L == TuplesUpto(T, cs, i)
              kept(k) == KeptUpto(UnderTuple(T, cs, k), n)[i]
              after == FiledTuple(T, cs, before, i)
              b == before.by_key
              m == before.matches
  <1>0. n \in Nat /\ i \in Nat /\ i \in 1..n /\ 1..i = (1..(i - 1)) \cup {i} /\ i \notin 1..(i - 1)
    OBVIOUS
  <1>1. /\ DOMAIN before = {"by_key", "matches", "null_rows", "tombstoned_rows"}
        /\ before = [f \in DOMAIN before |-> before[f]]
        /\ before.by_key = b /\ before.matches = m
        /\ b \in [K -> Nat] /\ m \in Seq(Seq(Nat))
        /\ before.null_rows \in Seq(Nat) /\ before.tombstoned_rows \in Seq(Nat)
        /\ \A k \in K : b[k] \in 1..Len(m) /\ m[b[k]] = KeptUpto(UnderTuple(T, cs, k), n)[i - 1]
        /\ \A k, l \in K : b[k] = b[l] => k = l
    BY DEF TupleStage
  <1>2. \A k : /\ i \in UnderTuple(T, cs, k) =>
                    kept(k) = Append(KeptUpto(UnderTuple(T, cs, k), n)[i - 1], i)
               /\ i \notin UnderTuple(T, cs, k) =>
                    kept(k) = KeptUpto(UnderTuple(T, cs, k), n)[i - 1]
    BY <1>0, KeptNext
  <1>3. \A k : kept(k) \in Seq(Nat)
    <2>1. i \in 0..n /\ 1..n \subseteq Nat
      OBVIOUS
    <2>2. \A k : kept(k) \in Seq(1..n)
      BY <2>1, KeptUptoType
    <2>. QED  BY <2>1, <2>2
  <1>. HIDE DEF n, K, L, b, m, kept, key
  <1>4. ASSUME NEW bb \in [L -> Nat], NEW mm \in Seq(Seq(Nat)),
               NEW nulls \in Seq(Nat), NEW dead \in Seq(Nat),
               \A k \in L : bb[k] \in 1..Len(mm) /\ mm[bb[k]] = kept(k),
               \A k, l \in L : bb[k] = bb[l] => k = l
        PROVE  [by_key |-> bb, matches |-> mm, null_rows |-> nulls, tombstoned_rows |-> dead]
                 \in TupleStage(T, cs, i)
    BY <1>4 DEF TupleStage, L, kept, n
  <1>5. ASSUME i \notin KeyedTuple(T, cs)
        PROVE  /\ b \in [L -> Nat]
               /\ \A k \in L : b[k] \in 1..Len(m) /\ m[b[k]] = kept(k)
               /\ \A k, l \in L : b[k] = b[l] => k = l
    <2>1. KeyedTuple(T, cs) \cap (1..i) = KeyedTuple(T, cs) \cap (1..(i - 1))
      BY <1>0, <1>5
    <2>2. L = K
      BY <2>1 DEF TuplesUpto, L, K
    <2>3. \A k : i \notin UnderTuple(T, cs, k)
      BY <1>5 DEF UnderTuple
    <2>. QED  BY <1>1, <1>2, <2>2, <2>3
  <1>6. CASE IsTombstoned(T, i)
    <2>1. after = [before EXCEPT !.tombstoned_rows = Append(@, i)]
      BY <1>6 DEF FiledTuple
    <2>2. after = [by_key |-> b, matches |-> m, null_rows |-> before.null_rows,
                   tombstoned_rows |-> Append(before.tombstoned_rows, i)]
      <3>. HIDE DEF after
      <3>. QED  BY <1>1, <2>1
    <2>3. i \notin KeyedTuple(T, cs)
      BY <1>6 DEF KeyedTuple
    <2>4. Append(before.tombstoned_rows, i) \in Seq(Nat)
      BY <1>0, <1>1
    <2>5. [by_key |-> b, matches |-> m, null_rows |-> before.null_rows,
           tombstoned_rows |-> Append(before.tombstoned_rows, i)] \in TupleStage(T, cs, i)
      BY <1>1, <1>4, <1>5, <2>3, <2>4, Zenon
    <2>. QED  BY <2>2, <2>5
  <1>7. CASE ~IsTombstoned(T, i) /\ key = NULL
    <2>1. after = [before EXCEPT !.null_rows = Append(@, i)]
      BY <1>7 DEF FiledTuple, key
    <2>2. after = [by_key |-> b, matches |-> m, null_rows |-> Append(before.null_rows, i),
                   tombstoned_rows |-> before.tombstoned_rows]
      <3>. HIDE DEF after
      <3>. QED  BY <1>1, <2>1
    <2>3. i \notin KeyedTuple(T, cs)
      BY <1>7 DEF KeyedTuple, key
    <2>4. Append(before.null_rows, i) \in Seq(Nat)
      BY <1>0, <1>1
    <2>5. [by_key |-> b, matches |-> m, null_rows |-> Append(before.null_rows, i),
           tombstoned_rows |-> before.tombstoned_rows] \in TupleStage(T, cs, i)
      BY <1>1, <1>4, <1>5, <2>3, <2>4, Zenon
    <2>. QED  BY <2>2, <2>5
  <1>8. CASE ~IsTombstoned(T, i) /\ key # NULL
    <2>1. i \in KeyedTuple(T, cs)
      BY <1>0, <1>8 DEF KeyedTuple, key, n
    <2>2. L = K \cup {key}
      <3>1. KeyedTuple(T, cs) \cap (1..i) = (KeyedTuple(T, cs) \cap (1..(i - 1))) \cup {i}
        BY <1>0, <2>1
      <3>. QED  BY <3>1 DEF TuplesUpto, L, K, key
    <2>3. i \in UnderTuple(T, cs, key) /\ \A k : k # key => i \notin UnderTuple(T, cs, k)
      BY <2>1 DEF UnderTuple, key
    <2>4. CASE key \in K
      <3>. DEFINE mm == [m EXCEPT ![b[key]] = Append(@, i)]
      <3>1. after = [before EXCEPT !.matches[b[key]] = Append(@, i)]
        <4>1. key \in DOMAIN before.by_key
          BY <1>1, <2>4 DEF b
        <4>. QED  BY <1>8, <4>1 DEF FiledTuple, key, b
      <3>2. after = [by_key |-> b, matches |-> mm, null_rows |-> before.null_rows,
                     tombstoned_rows |-> before.tombstoned_rows]
        <4>. HIDE DEF after
        <4>. QED  BY <1>1, <3>1
      <3>3. L = K
        BY <2>2, <2>4
      <3>4. /\ mm \in Seq(Seq(Nat)) /\ Len(mm) = Len(m)
            /\ mm[b[key]] = Append(m[b[key]], i)
            /\ \A j \in 1..Len(m) : j # b[key] => mm[j] = m[j]
        <4>1. b[key] \in 1..Len(m) /\ Append(m[b[key]], i) \in Seq(Nat)
          <5>1. b[key] \in 1..Len(m)
            BY <1>1, <2>4
          <5>2. m[b[key]] \in Seq(Nat)
            BY <1>1, <5>1
          <5>. QED  BY <1>0, <5>1, <5>2
        <4>. QED  BY <1>1, <4>1
      <3>. HIDE DEF mm
      <3>5. ASSUME NEW k \in L  PROVE b[k] \in 1..Len(mm) /\ mm[b[k]] = kept(k)
        <4>1. k \in K /\ b[k] \in 1..Len(m) /\ m[b[k]] = KeptUpto(UnderTuple(T, cs, k), n)[i - 1]
          BY <1>1, <3>3
        <4>2. CASE k = key
          BY <1>2, <2>3, <3>4, <4>1, <4>2
        <4>3. CASE k # key
          <5>1. b[k] # b[key]
            BY <1>1, <2>4, <4>1, <4>3
          <5>. QED  BY <1>2, <2>3, <3>4, <4>1, <4>3, <5>1
        <4>. QED  BY <4>2, <4>3
      <3>6. b \in [L -> Nat] /\ \A k, l \in L : b[k] = b[l] => k = l
        BY <1>1, <3>3
      <3>7. [by_key |-> b, matches |-> mm, null_rows |-> before.null_rows,
             tombstoned_rows |-> before.tombstoned_rows] \in TupleStage(T, cs, i)
        BY <1>1, <1>4, <3>4, <3>5, <3>6, Zenon
      <3>. QED  BY <3>2, <3>7
    <2>5. CASE key \notin K
      <3>. DEFINE mm == Append(m, <<i>>)
                  bb == [k \in K \cup {key} |-> IF k = key THEN Len(m) + 1 ELSE b[k]]
      <3>1. after = [before EXCEPT !.matches = mm, !.by_key = bb]
        <4>1. DOMAIN before.by_key = K
          BY <1>1 DEF b
        <4>. QED  BY <1>8, <2>5, <4>1 DEF FiledTuple, key, b, m
      <3>2. after = [by_key |-> bb, matches |-> mm, null_rows |-> before.null_rows,
                     tombstoned_rows |-> before.tombstoned_rows]
        <4>. HIDE DEF after, mm, bb
        <4>. QED  BY <1>1, <3>1
      <3>3. <<i>> \in Seq(Nat) /\ Len(m) \in Nat
        BY <1>0, <1>1
      <3>4. /\ mm \in Seq(Seq(Nat)) /\ Len(mm) = Len(m) + 1 /\ mm[Len(m) + 1] = <<i>>
            /\ \A j \in 1..Len(m) : mm[j] = m[j]
        BY <1>1, <3>3
      <3>5. bb \in [L -> Nat] /\ bb[key] = Len(m) + 1 /\ \A k \in K : bb[k] = b[k]
        BY <1>1, <2>2, <2>5, <3>3
      <3>6. kept(key) = <<i>>
        <4>1. \A r \in 1..(i - 1) : r \notin UnderTuple(T, cs, key)
          BY <2>5 DEF UnderTuple, TuplesUpto, K
        <4>2. i - 1 \in 0..n
          BY <1>0
        <4>3. KeptUpto(UnderTuple(T, cs, key), n)[i - 1] = <<>>
          BY <1>0, <4>1, <4>2, KeptNone
        <4>4. Append(<<>>, i) = <<i>>
          OBVIOUS
        <4>. QED  BY <1>2, <2>3, <4>3, <4>4
      <3>. HIDE DEF mm, bb
      <3>7. ASSUME NEW k \in L  PROVE bb[k] \in 1..Len(mm) /\ mm[bb[k]] = kept(k)
        <4>1. CASE k = key
          BY <3>3, <3>4, <3>5, <3>6, <4>1
        <4>2. CASE k # key
          <5>1. k \in K /\ b[k] \in 1..Len(m) /\ m[b[k]] = KeptUpto(UnderTuple(T, cs, k), n)[i - 1]
            BY <1>1, <2>2, <4>2
          <5>2. b[k] \in 1..Len(mm)
            BY <3>3, <3>4, <5>1
          <5>. QED  BY <1>2, <2>3, <3>4, <3>5, <4>2, <5>1, <5>2
        <4>. QED  BY <4>1, <4>2
      <3>8. ASSUME NEW k \in L, NEW l \in L, bb[k] = bb[l]  PROVE k = l
        <4>1. \A j \in K : bb[j] \in 1..Len(m) /\ bb[j] # Len(m) + 1
          BY <1>1, <3>3, <3>5
        <4>. QED  BY <1>1, <2>2, <3>5, <3>8, <4>1
      <3>9. [by_key |-> bb, matches |-> mm, null_rows |-> before.null_rows,
             tombstoned_rows |-> before.tombstoned_rows] \in TupleStage(T, cs, i)
        BY <1>1, <1>4, <3>4, <3>5, <3>7, <3>8, Zenon
      <3>. QED  BY <3>2, <3>9
    <2>. QED  BY <2>4, <2>5
  <1>. QED  BY <1>6, <1>7, <1>8

\* Nothing yet.
LEMMA TupleFirst ==
  ASSUME NEW T, NEW cs
  PROVE  [by_key |-> EmptyMap, matches |-> <<>>, null_rows |-> <<>>, tombstoned_rows |-> <<>>]
           \in TupleStage(T, cs, 0)
  <1>1. TuplesUpto(T, cs, 0) = {}
    BY DEF TuplesUpto
  <1>2. EmptyMap \in [{} -> Nat] /\ <<>> \in Seq(Nat) /\ <<>> \in Seq(Seq(Nat))
    BY DEF EmptyMap
  <1>. QED  BY <1>1, <1>2 DEF TupleStage

\* The rounds of CompositeIndex::new make one index after the other.
LEMMA CompositeStages ==
  ASSUME NEW T, T.rowCount \in Nat, NEW cs
  PROVE  \A i \in 0..T.rowCount : CompositeUpto(T, cs)[i] \in TupleStage(T, cs, i)
  <1>. DEFINE n == T.rowCount
              first == [by_key |-> EmptyMap, matches |-> <<>>,
                        null_rows |-> <<>>, tombstoned_rows |-> <<>>]
              R == [i \in 0..n |-> TupleStage(T, cs, i)]
              step == [k \in 1..n |-> [x \in R[k - 1] |-> FiledTuple(T, cs, x, k)]]
              Def(f) == f = [i \in 0..n |-> IF i = 0 THEN first ELSE FiledTuple(T, cs, f[i - 1], i)]
              u == CompositeUpto(T, cs)
  <1>1. \A i \in 0..n : R[i] = TupleStage(T, cs, i)
    OBVIOUS
  <1>2. \A k \in 1..n : k \in 0..n /\ k - 1 \in 0..n /\ k # 0
    OBVIOUS
  <1>3. \A k \in 1..n : \A x \in R[k - 1] : step[k][x] = FiledTuple(T, cs, x, k)
    OBVIOUS
  <1>4. first \in R[0]
    BY TupleFirst
  <1>. HIDE DEF R, step, first
  <1>5. \A k \in 1..n : \A x \in R[k - 1] : FiledTuple(T, cs, x, k) \in R[k]
    BY <1>1, <1>2, TupleNext
  <1>6. PICK f : Staged(f, n, R, first, step)
    <2>1. StepsLead(n, R, step)
      BY <1>3, <1>5 DEF StepsLead
    <2>. QED  BY <1>4, <2>1, StagedRecursion
  <1>7. Def(f)
    <2>1. \A i \in 0..n : (IF i = 0 THEN first ELSE step[i][f[i - 1]])
                            = (IF i = 0 THEN first ELSE FiledTuple(T, cs, f[i - 1], i))
      <3>. TAKE i \in 0..n
      <3>1. CASE i = 0
        BY <3>1
      <3>2. CASE i # 0
        <4>1. i \in 1..n
          BY <3>2
        <4>. QED  BY <1>2, <1>3, <1>6, <4>1 DEF Staged
      <3>. QED  BY <3>1, <3>2
    <2>. QED  BY <1>6, <2>1 DEF Staged
  <1>8. Def(u)
    <2>. HIDE DEF u
    <2>1. u = CHOOSE g : Def(g)
      BY DEF u, CompositeUpto, first
    <2>. HIDE DEF Def
    <2>. QED  BY <1>7, <2>1
  <1>. HIDE DEF u
  <1>9. u[0] \in R[0]
    BY <1>4, <1>8
  <1>10. ASSUME NEW k \in 1..n, u[k - 1] \in R[k - 1]  PROVE u[k] \in R[k]
    <2>1. u[k] = FiledTuple(T, cs, u[k - 1], k)
      BY <1>2, <1>8
    <2>. QED  BY <1>5, <1>10, <2>1
  <1>11. \A k \in 0..n : u[k] \in R[k]
    BY <1>9, <1>10, StagedInduction
  <1>. QED  BY <1>1, <1>11 DEF u

\* What is found under a tuple of keys, filed or not.
LEMMA CompositeHolds ==
  ASSUME NEW T, T.rowCount \in Nat, NEW cs, NEW key
  PROVE  TupleMatches(CompositeUpto(T, cs)[T.rowCount], key) = KeptOf(UnderTuple(T, cs, key), T.rowCount)
  <1>. DEFINE n == T.rowCount
              index == CompositeUpto(T, cs)[n]
  <1>1. index \in TupleStage(T, cs, n) /\ n \in 0..n
    BY CompositeStages
  <1>. HIDE DEF index
  <1>2. CASE key \in TuplesUpto(T, cs, n)
    BY <1>1, <1>2 DEF TupleStage, TupleMatches, KeptOf, index
  <1>3. CASE key \notin TuplesUpto(T, cs, n)
    <2>1. TupleMatches(index, key) = <<>>
      BY <1>1, <1>3 DEF TupleStage, TupleMatches
    <2>2. \A r \in 1..n : r \notin UnderTuple(T, cs, key)
      BY <1>3 DEF UnderTuple, TuplesUpto
    <2>. QED  BY <1>1, <2>1, <2>2, KeptNone DEF KeptOf, index
  <1>. QED  BY <1>2, <1>3

-----------------------------------------------------------------------------
(* Queries: left joins.                                                    *)

Pairs == Seq(Nat \X (Nat \cup {NULL}))

\* The pairs of one row, as a set.
PairSet(r, partners) == IF partners = {} THEN {<<r, NULL>>} ELSE {r} \X partners

\* PairsOf lists them.
LEMMA PairsOfIs ==
  ASSUME NEW i \in Nat, NEW m \in Seq(Nat), Increasing(m)
  PROVE  /\ PairsOf(i, m) \in Pairs /\ SetOf(PairsOf(i, m)) = PairSet(i, SetOf(m))
         /\ InSourceOrder(PairsOf(i, m))
         /\ \A k \in 1..Len(PairsOf(i, m)) : PairsOf(i, m)[k][1] = i
  <1>. DEFINE q == PairsOf(i, m)
  <1>1. CASE m = <<>>
    <2>1. q = <<<<i, NULL>>>> /\ SetOf(m) = {}
      BY <1>1 DEF PairsOf, SetOf
    <2>. HIDE DEF q
    <2>2. q \in Pairs /\ Len(q) = 1 /\ DOMAIN q = {1} /\ q[1] = <<i, NULL>>
      BY <2>1 DEF Pairs
    <2>3. SetOf(q) = {<<i, NULL>>}
      <3>1. SetOf(q) = {q[k] : k \in {1}}
        BY <2>2, Zenon DEF SetOf
      <3>2. {q[k] : k \in {1}} = {q[1]}
        OBVIOUS
      <3>. QED  BY <2>2, <3>1, <3>2, Zenon
    <2>4. InSourceOrder(q)
      BY <2>2 DEF InSourceOrder
    <2>5. SetOf(q) = PairSet(i, SetOf(m))
      BY <2>1, <2>3, Zenon DEF PairSet
    <2>6. \A k \in 1..Len(q) : q[k][1] = i
      BY <2>2
    <2>. QED  BY <2>2, <2>4, <2>5, <2>6, Zenon DEF q
  <1>2. CASE m # <<>>
    <2>1. q = [k \in 1..Len(m) |-> <<i, m[k]>>] /\ DOMAIN m = 1..Len(m) /\ Len(m) \in Nat
      BY <1>2 DEF PairsOf
    <2>. HIDE DEF q
    <2>2. \A k \in 1..Len(m) : m[k] \in Nat
      OBVIOUS
    <2>3. q \in Pairs /\ Len(q) = Len(m) /\ DOMAIN q = 1..Len(m)
      BY <2>1, <2>2 DEF Pairs
    <2>4. \A k \in 1..Len(m) : q[k] = <<i, m[k]>> /\ q[k][1] = i /\ q[k][2] = m[k]
      BY <2>1
    <2>5. SetOf(m) # {}
      <3>1. 1 \in 1..Len(m)
        BY <1>2
      <3>. QED  BY <2>1, <3>1 DEF SetOf
    <2>6. SetOf(q) = {i} \X SetOf(m)
      <3>1. SetOf(q) = {q[k] : k \in 1..Len(m)}
        BY <2>3, Zenon DEF SetOf
      <3>2. SetOf(m) = {m[k] : k \in 1..Len(m)}
        BY <2>1 DEF SetOf
      <3>3. {q[k] : k \in 1..Len(m)} = {i} \X {m[k] : k \in 1..Len(m)}
        <4>. DEFINE A == {q[k] : k \in 1..Len(m)}
                    B == {m[k] : k \in 1..Len(m)}
        <4>1. ASSUME NEW v \in A  PROVE v \in {i} \X B
          <5>1. PICK k \in 1..Len(m) : v = q[k]
            BY <4>1
          <5>2. v = <<i, m[k]>> /\ m[k] \in B
            BY <2>4, <5>1
          <5>. HIDE DEF A, B
          <5>. QED  BY <5>2
        <4>2. ASSUME NEW v \in {i} \X B  PROVE v \in A
          <5>1. PICK w \in B : v = <<i, w>>
            <6>. HIDE DEF A, B
            <6>. QED  BY <4>2
          <5>2. PICK k \in 1..Len(m) : w = m[k]
            BY <5>1
          <5>3. v = q[k]
            BY <2>4, <5>1, <5>2, Zenon
          <5>. QED  BY <5>3, Zenon
        <4>. QED  BY <4>1, <4>2, Zenon
      <3>. QED  BY <3>1, <3>2, <3>3, Zenon
    <2>7. InSourceOrder(q)
      <3>1. \A k \in 1..(Len(m) - 1) : k \in 1..Len(m) /\ k + 1 \in 1..Len(m) /\ m[k] < m[k + 1]
        BY DEF Increasing
      <3>. QED  BY <2>3, <2>4, <3>1 DEF InSourceOrder
    <2>. QED  BY <2>3, <2>4, <2>5, <2>6, <2>7 DEF PairSet, q
  <1>. QED  BY <1>1, <1>2

\* The pairs of the first i rows.
PairStage(T, matches, i) ==
  {s \in Pairs : /\ SetOf(s) = UNION {PairSet(r, SetOf(matches[r])) : r \in LiveOf(T) \cap (1..i)}
                 /\ InSourceOrder(s)
                 /\ \A k \in 1..Len(s) : s[k][1] <= i}

\* The lists of matching rows are in order.
MatchesInOrder(T, matches) ==
  \A r \in 1..T.rowCount : matches[r] \in Seq(Nat) /\ Increasing(matches[r])

JoinedNext(T, matches, s, i) == IF IsTombstoned(T, i) THEN s ELSE s \o PairsOf(i, matches[i])

\* One more row.
LEMMA PairsNext ==
  ASSUME NEW T, T.rowCount \in Nat, NEW matches, MatchesInOrder(T, matches),
         NEW i \in 1..T.rowCount, NEW s \in PairStage(T, matches, i - 1)
  PROVE  JoinedNext(T, matches, s, i) \in PairStage(T, matches, i)
  <1>. DEFINE q == PairsOf(i, matches[i])
              before == UNION {PairSet(r, SetOf(matches[r])) : r \in LiveOf(T) \cap (1..(i - 1))}
  <1>0. i \in Nat /\ 1..i = (1..(i - 1)) \cup {i} /\ i \in 1..T.rowCount
    OBVIOUS
  <1>1. /\ s \in Pairs /\ SetOf(s) = before /\ InSourceOrder(s)
        /\ \A k \in 1..Len(s) : s[k][1] <= i - 1
    BY DEF PairStage
  <1>2. CASE IsTombstoned(T, i)
    <2>1. JoinedNext(T, matches, s, i) = s
      BY <1>2 DEF JoinedNext
    <2>2. LiveOf(T) \cap (1..i) = LiveOf(T) \cap (1..(i - 1))
      BY <1>0, <1>2 DEF LiveOf
    <2>3. \A k \in 1..Len(s) : s[k][1] <= i
      <3>1. \A k \in 1..Len(s) : s[k][1] \in Nat
        BY <1>1 DEF Pairs
      <3>. QED  BY <1>0, <1>1, <3>1
    <2>. QED  BY <1>1, <2>1, <2>2, <2>3 DEF PairStage
  <1>3. CASE ~IsTombstoned(T, i)
    <2>. DEFINE z == s \o q
    <2>1. JoinedNext(T, matches, s, i) = z
      BY <1>3 DEF JoinedNext
    <2>2. /\ q \in Pairs /\ SetOf(q) = PairSet(i, SetOf(matches[i])) /\ InSourceOrder(q)
          /\ \A k \in 1..Len(q) : q[k][1] = i
      BY <1>0, PairsOfIs DEF MatchesInOrder
    <2>3. LiveOf(T) \cap (1..i) = (LiveOf(T) \cap (1..(i - 1))) \cup {i}
      BY <1>0, <1>3 DEF LiveOf
    <2>. HIDE DEF q
    <2>4. /\ z \in Pairs /\ Len(z) = Len(s) + Len(q) /\ Len(s) \in Nat /\ Len(q) \in Nat
          /\ \A k \in 1..Len(s) : z[k] = s[k]
          /\ \A k \in 1..Len(q) : z[Len(s) + k] = q[k]
          /\ DOMAIN z = 1..Len(z) /\ DOMAIN s = 1..Len(s) /\ DOMAIN q = 1..Len(q)
      BY <1>1, <2>2 DEF Pairs
    <2>5. \A k \in 1..Len(z) : k \in 1..Len(s) \/ (k - Len(s) \in 1..Len(q) /\ k = Len(s) + (k - Len(s)))
      BY <2>4
    <2>6. /\ \A k \in 1..Len(s) : k \in 1..Len(z)
          /\ \A k \in 1..Len(q) : Len(s) + k \in 1..Len(z)
      BY <2>4
    <2>. HIDE DEF z
    <2>7. SetOf(z) = SetOf(s) \cup SetOf(q)
      <3>1. ASSUME NEW v \in SetOf(z)  PROVE v \in SetOf(s) \cup SetOf(q)
        <4>1. PICK k \in 1..Len(z) : v = z[k]
          BY <2>4, <3>1 DEF SetOf
        <4>2. CASE k \in 1..Len(s)
          BY <2>4, <4>1, <4>2 DEF SetOf
        <4>3. CASE k - Len(s) \in 1..Len(q) /\ k = Len(s) + (k - Len(s))
          <5>1. z[k] = q[k - Len(s)]
            BY <2>4, <4>3
          <5>. QED  BY <2>4, <4>1, <4>3, <5>1 DEF SetOf
        <4>. QED  BY <2>5, <4>2, <4>3
      <3>2. ASSUME NEW v \in SetOf(s)  PROVE v \in SetOf(z)
        BY <2>4, <2>6, <3>2 DEF SetOf
      <3>3. ASSUME NEW v \in SetOf(q)  PROVE v \in SetOf(z)
        <4>1. PICK k \in 1..Len(q) : v = q[k]
          BY <2>4, <3>3 DEF SetOf
        <4>2. v = z[Len(s) + k] /\ Len(s) + k \in 1..Len(z)
          BY <2>4, <2>6, <4>1
        <4>. QED  BY <2>4, <4>2 DEF SetOf
      <3>. QED  BY <3>1, <3>2, <3>3, Zenon
    <2>8. SetOf(z) = UNION {PairSet(r, SetOf(matches[r])) : r \in LiveOf(T) \cap (1..i)}
      <3>1. UNION {PairSet(r, SetOf(matches[r])) : r \in LiveOf(T) \cap (1..i)}
              = before \cup PairSet(i, SetOf(matches[i]))
        BY <2>3
      <3>. QED  BY <1>1, <2>2, <2>7, <3>1
    <2>9. \A k \in 1..Len(s) : s[k][1] \in Nat
      BY <1>1 DEF Pairs
    <2>10. \A k \in 1..Len(z) : z[k][1] <= i
      <3>. TAKE k \in 1..Len(z)
      <3>1. CASE k \in 1..Len(s)
        <4>1. s[k][1] \in Nat /\ s[k][1] <= i - 1
          BY <1>1, <2>9, <3>1
        <4>2. z[k] = s[k]
          BY <2>4, <3>1
        <4>3. s[k][1] <= i
          BY <1>0, <4>1
        <4>. QED  BY <4>2, <4>3, Zenon
      <3>2. CASE k - Len(s) \in 1..Len(q) /\ k = Len(s) + (k - Len(s))
        <4>1. z[k] = q[k - Len(s)] /\ q[k - Len(s)][1] = i
          BY <2>2, <2>4, <3>2
        <4>. QED  BY <1>0, <4>1
      <3>. QED  BY <2>5, <3>1, <3>2
    <2>11. InSourceOrder(z)
      <3>. SUFFICES ASSUME NEW k \in 1..(Len(z) - 1)
                    PROVE  \/ z[k][1] < z[k + 1][1]
                           \/ z[k][1] = z[k + 1][1] /\ z[k][2] < z[k + 1][2]
        BY DEF InSourceOrder
      <3>1. CASE k \in 1..(Len(s) - 1)
        <4>1. k \in 1..Len(s) /\ k + 1 \in 1..Len(s)
          BY <2>4, <3>1
        <4>2. z[k] = s[k] /\ z[k + 1] = s[k + 1]
          BY <2>4, <4>1
        <4>. QED  BY <1>1, <3>1, <4>2 DEF InSourceOrder
      <3>2. CASE k = Len(s)
        <4>1. k \in 1..Len(s) /\ 1 \in 1..Len(q)
          BY <2>4, <3>2
        <4>2. z[k] = s[k] /\ z[k + 1] = q[1]
          BY <2>4, <3>2, <4>1
        <4>3. s[k][1] \in Nat /\ s[k][1] <= i - 1 /\ q[1][1] = i
          BY <1>1, <2>2, <2>9, <4>1
        <4>. QED  BY <1>0, <4>2, <4>3
      <3>3. CASE k > Len(s)
        <4>. DEFINE j == k - Len(s)
        <4>1. /\ j \in 1..(Len(q) - 1) /\ j \in 1..Len(q) /\ j + 1 \in 1..Len(q)
              /\ k = Len(s) + j /\ k + 1 = Len(s) + (j + 1)
          BY <2>4, <3>3
        <4>. HIDE DEF j
        <4>2. z[k] = q[j] /\ z[k + 1] = q[j + 1]
          BY <2>4, <4>1
        <4>. QED  BY <2>2, <4>1, <4>2 DEF InSourceOrder
      <3>4. k \in 1..(Len(s) - 1) \/ k = Len(s) \/ k > Len(s)
        <4>1. Len(s) \in Nat /\ Len(q) \in Nat /\ Len(z) = Len(s) + Len(q)
          BY <2>4, Zenon
        <4>. QED  BY <4>1
      <3>. QED  BY <3>1, <3>2, <3>3, <3>4, Zenon
    <2>. QED  BY <2>1, <2>4, <2>8, <2>10, <2>11 DEF PairStage
  <1>. QED  BY <1>2, <1>3

\* The rounds of a join make the pairs of one row after the other.
LEMMA PairsStages ==
  ASSUME NEW T, T.rowCount \in Nat, NEW matches, MatchesInOrder(T, matches)
  PROVE  \A i \in 0..T.rowCount : PairsUpto(T, matches)[i] \in PairStage(T, matches, i)
  <1>. DEFINE n == T.rowCount
              R == [i \in 0..n |-> PairStage(T, matches, i)]
              step == [k \in 1..n |-> [x \in R[k - 1] |-> JoinedNext(T, matches, x, k)]]
              Def(f) == f = [i \in 0..n |-> IF i = 0 THEN <<>> ELSE JoinedNext(T, matches, f[i - 1], i)]
              u == PairsUpto(T, matches)
  <1>1. \A i \in 0..n : R[i] = PairStage(T, matches, i)
    OBVIOUS
  <1>2. \A k \in 1..n : k \in 0..n /\ k - 1 \in 0..n /\ k # 0
    OBVIOUS
  <1>3. \A k \in 1..n : \A x \in R[k - 1] : step[k][x] = JoinedNext(T, matches, x, k)
    OBVIOUS
  <1>4. <<>> \in R[0]
    <2>1. LiveOf(T) \cap (1..0) = {}
      OBVIOUS
    <2>2. UNION {PairSet(r, SetOf(matches[r])) : r \in LiveOf(T) \cap (1..0)} = {}
      BY <2>1
    <2>3. <<>> \in Pairs /\ SetOf(<<>>) = {} /\ InSourceOrder(<<>>)
      BY DEF Pairs, SetOf, InSourceOrder
    <2>. QED  BY <1>1, <2>2, <2>3 DEF PairStage
  <1>. HIDE DEF R, step
  <1>5. \A k \in 1..n : \A x \in R[k - 1] : JoinedNext(T, matches, x, k) \in R[k]
    BY <1>1, <1>2, PairsNext
  <1>6. PICK f : Staged(f, n, R, <<>>, step)
    <2>1. StepsLead(n, R, step)
      BY <1>3, <1>5 DEF StepsLead
    <2>. QED  BY <1>4, <2>1, StagedRecursion
  <1>7. Def(f)
    <2>1. \A i \in 0..n : (IF i = 0 THEN <<>> ELSE step[i][f[i - 1]])
                            = (IF i = 0 THEN <<>> ELSE JoinedNext(T, matches, f[i - 1], i))
      <3>. TAKE i \in 0..n
      <3>1. CASE i = 0
        BY <3>1
      <3>2. CASE i # 0
        <4>1. i \in 1..n
          BY <3>2
        <4>. QED  BY <1>2, <1>3, <1>6, <4>1 DEF Staged
      <3>. QED  BY <3>1, <3>2
    <2>. QED  BY <1>6, <2>1 DEF Staged
  <1>8. Def(u)
    <2>. HIDE DEF u
    <2>1. u = CHOOSE g : Def(g)
      BY DEF u, PairsUpto, JoinedNext
    <2>. HIDE DEF Def
    <2>. QED  BY <1>7, <2>1
  <1>. HIDE DEF u
  <1>9. u[0] \in R[0]
    BY <1>4, <1>8
  <1>10. ASSUME NEW k \in 1..n, u[k - 1] \in R[k - 1]  PROVE u[k] \in R[k]
    <2>1. u[k] = JoinedNext(T, matches, u[k - 1], k)
      BY <1>2, <1>8
    <2>. QED  BY <1>5, <1>10, <2>1
  <1>11. \A k \in 0..n : u[k] \in R[k]
    BY <1>9, <1>10, StagedInduction
  <1>. QED  BY <1>1, <1>11 DEF u

\* The pairs of a join are the pairs of its live left rows.
LEMMA PairsAre ==
  ASSUME NEW T, T.rowCount \in Nat, NEW matches, MatchesInOrder(T, matches)
  PROVE  LET pairs == PairsUpto(T, matches)[T.rowCount] IN
         /\ pairs \in Pairs /\ InSourceOrder(pairs)
         /\ SetOf(pairs) = UNION {PairSet(r, SetOf(matches[r])) : r \in LiveOf(T)}
  <1>1. T.rowCount \in 0..T.rowCount /\ LiveOf(T) \cap (1..T.rowCount) = LiveOf(T)
    BY DEF LiveOf
  <1>2. PairsUpto(T, matches)[T.rowCount] \in PairStage(T, matches, T.rowCount)
    BY <1>1, PairsStages
  <1>. QED  BY <1>1, <1>2 DEF PairStage

\* Two cells of one type have one key only if they are equal.
LEMMA KeysAgree ==
  ASSUME NEW T, NEW S, IsTable(T), IsTable(S),
         NEW c \in Positions(T.schema), NEW d \in Positions(S.schema),
         T.schema.columns[c].type = S.schema.columns[d].type, S.schema.columns[d].type \in KeyTypes,
         NEW i \in 1..T.rowCount, NEW j \in 1..S.rowCount,
         Cell(T, i, c) # NULL, Cell(S, j, d) # NULL
  PROVE  KeyOf[Cell(T, i, c)] = KeyOf[Cell(S, j, d)] <=> Cell(T, i, c) = Cell(S, j, d)
  <1>1. /\ Cell(T, i, c) \in Values /\ TypeOf[Cell(T, i, c)] = T.schema.columns[c].type
        /\ Cell(S, j, d) \in Values /\ TypeOf[Cell(S, j, d)] = S.schema.columns[d].type
    BY CellsAreTyped
  <1>. QED  BY <1>1, QueriesAssumption

\* A row has no key exactly if one of the cells is null.
LEMMA RowKeyIs ==
  ASSUME NEW T, IsTable(T), NEW l \in Nat, NEW cs \in [1..l -> Positions(T.schema)],
         NEW i \in 1..T.rowCount
  PROVE  /\ RowKey(T, cs, i) = NULL <=> \E k \in 1..l : Cell(T, i, cs[k]) = NULL
         /\ RowKey(T, cs, i) # NULL => RowKey(T, cs, i) = [k \in 1..l |-> KeyOf[Cell(T, i, cs[k])]]
  <1>. DEFINE keys == [k \in 1..l |-> KeyOf[Cell(T, i, cs[k])]]
  <1>1. CASE \E k \in 1..l : Cell(T, i, cs[k]) = NULL
    BY <1>1 DEF RowKey
  <1>2. CASE \A k \in 1..l : Cell(T, i, cs[k]) # NULL
    <2>1. RowKey(T, cs, i) = keys
      BY <1>2 DEF RowKey
    <2>2. \A k \in 1..l : Cell(T, i, cs[k]) \in Values
      BY <1>2, CellsAreTyped
    <2>3. keys \in Seq({KeyOf[v] : v \in Values})
      BY <2>2
    <2>4. keys # NULL
      BY <2>3, QueriesAssumption
    <2>. QED  BY <1>2, <2>1, <2>4
  <1>. QED  BY <1>1, <1>2

\* The live rows of S that equal row i of T in every column.
Partners(T, cs, S, ds, i) ==
  {j \in LiveOf(S) : \A k \in DOMAIN cs : /\ Cell(T, i, cs[k]) # NULL
                                          /\ Cell(T, i, cs[k]) = Cell(S, j, ds[k])}

\* The columns of a join that is not refused.
Joinable(T, cs, S, ds, l) ==
  /\ cs \in [1..l -> Positions(T.schema)] /\ ds \in [1..l -> Positions(S.schema)]
  /\ \A k \in 1..l : /\ T.schema.columns[cs[k]].type = S.schema.columns[ds[k]].type
                     /\ S.schema.columns[ds[k]].type \in KeyTypes

\* A row's partners are what is found under its tuple of keys.
LEMMA TuplesFind ==
  ASSUME NEW T, NEW S, IsTable(T), IsTable(S), NEW l \in Nat, NEW cs, NEW ds,
         Joinable(T, cs, S, ds, l), NEW i \in 1..T.rowCount
  PROVE  LET key == RowKey(T, cs, i)
             none == \E k \in 1..l : Cell(T, i, cs[k]) = NULL
         IN /\ key = NULL <=> none
            /\ none => Partners(T, cs, S, ds, i) = {}
            /\ ~none => Partners(T, cs, S, ds, i) = UnderTuple(S, ds, key)
  <1>. DEFINE key == RowKey(T, cs, i)
              none == \E k \in 1..l : Cell(T, i, cs[k]) = NULL
              P == Partners(T, cs, S, ds, i)
              equal(j) == \A k \in 1..l : Cell(T, i, cs[k]) = Cell(S, j, ds[k])
  <1>1. /\ cs \in [1..l -> Positions(T.schema)] /\ DOMAIN cs = 1..l
        /\ ds \in [1..l -> Positions(S.schema)] /\ DOMAIN ds = 1..l
        /\ \A k \in 1..l : /\ T.schema.columns[cs[k]].type = S.schema.columns[ds[k]].type
                           /\ S.schema.columns[ds[k]].type \in KeyTypes
                           /\ cs[k] \in Positions(T.schema) /\ ds[k] \in Positions(S.schema)
    BY DEF Joinable
  <1>2. /\ key = NULL <=> none
        /\ key # NULL => key = [k \in 1..l |-> KeyOf[Cell(T, i, cs[k])]]
    BY <1>1, RowKeyIs
  <1>3. none => P = {}
    BY <1>1, Zenon DEF Partners
  <1>. HIDE DEF key
  <1>4. ASSUME ~none  PROVE P = UnderTuple(S, ds, key)
    <2>1. ASSUME NEW j \in LiveOf(S)
          PROVE  j \in P <=> j \in UnderTuple(S, ds, key)
      <3>. DEFINE other == RowKey(S, ds, j)
                  hole == \E k \in 1..l : Cell(S, j, ds[k]) = NULL
      <3>1. j \in 1..S.rowCount /\ ~IsTombstoned(S, j)
        BY DEF LiveOf
      <3>2. /\ other = NULL <=> hole
            /\ other # NULL => other = [k \in 1..l |-> KeyOf[Cell(S, j, ds[k])]]
        BY <1>1, <3>1, RowKeyIs
      <3>3. j \in UnderTuple(S, ds, key) <=> ~hole /\ other = key
        BY <3>1, <3>2, Zenon DEF UnderTuple, KeyedTuple
      <3>4. j \in P <=> equal(j)
        BY <1>1, <1>4, Zenon DEF Partners
      <3>5. equal(j) => ~hole
        BY <1>4, Zenon
      <3>6. ASSUME ~hole  PROVE other = key <=> equal(j)
        <4>. HIDE DEF other
        <4>1. \A k \in 1..l : KeyOf[Cell(T, i, cs[k])] = KeyOf[Cell(S, j, ds[k])]
                              <=> Cell(T, i, cs[k]) = Cell(S, j, ds[k])
          BY <1>1, <1>4, <3>1, <3>6, KeysAgree
        <4>2. /\ key = [k \in 1..l |-> KeyOf[Cell(T, i, cs[k])]]
              /\ other = [k \in 1..l |-> KeyOf[Cell(S, j, ds[k])]]
          BY <1>2, <1>4, <3>2, <3>6
        <4>3. other = key <=> \A k \in 1..l : KeyOf[Cell(T, i, cs[k])] = KeyOf[Cell(S, j, ds[k])]
          BY <4>2
        <4>. QED  BY <4>1, <4>3, Zenon
      <3>. QED  BY <3>3, <3>4, <3>5, <3>6, Zenon
    <2>2. P \subseteq LiveOf(S) /\ UnderTuple(S, ds, key) \subseteq LiveOf(S)
      BY DEF Partners, UnderTuple, KeyedTuple, LiveOf
    <2>. QED  BY <2>1, <2>2, Zenon
  <1>. QED  BY <1>2, <1>3, <1>4 DEF key

\* What both joins look up: for each left row, its partners in order.
PartnerLists(T, cs, S, ds) ==
  [i \in 1..T.rowCount |-> KeptOf(Partners(T, cs, S, ds, i), S.rowCount)]

\* A join of several columns lists the partners.
LEMMA CompositeJoins ==
  ASSUME NEW T, NEW S, IsTable(T), IsTable(S), NEW l \in Nat \ {0}, NEW cs, NEW ds,
         Joinable(T, cs, S, ds, l)
  PROVE  LeftJoinComposite(T, cs, S, ds) = PairsUpto(T, PartnerLists(T, cs, S, ds))[T.rowCount]
  <1>. DEFINE index == CompositeOf(S, ds)
              found(i) == LET key == RowKey(T, cs, i) IN
                          IF key = NULL THEN <<>> ELSE TupleMatches(index, key)
              matches == [i \in 1..T.rowCount |-> found(i)]
  <1>1. /\ cs \in [1..l -> Positions(T.schema)] /\ DOMAIN cs = 1..l
        /\ ds \in [1..l -> Positions(S.schema)] /\ DOMAIN ds = 1..l
        /\ \A k \in 1..l : /\ T.schema.columns[cs[k]].type = S.schema.columns[ds[k]].type
                           /\ S.schema.columns[ds[k]].type \in KeyTypes
                           /\ cs[k] \in Positions(T.schema) /\ ds[k] \in Positions(S.schema)
    BY DEF Joinable
  <1>2. TupleIndexable(S, ds)
    <2>1. ds # <<>>
      BY <1>1
    <2>. QED  BY <1>1, <2>1, Zenon DEF TupleIndexable, Indexable
  <1>3. index = CompositeUpto(S, ds)[S.rowCount]
    BY <1>2 DEF CompositeOf
  <1>4. \A key : TupleMatches(index, key) = KeptOf(UnderTuple(S, ds, key), S.rowCount)
    BY <1>3, CompositeHolds DEF IsTable
  <1>. HIDE DEF index
  <1>5. ASSUME NEW i \in 1..T.rowCount
        PROVE  found(i) = KeptOf(Partners(T, cs, S, ds, i), S.rowCount)
    <2>. DEFINE key == RowKey(T, cs, i)
    <2>1. /\ key = NULL => Partners(T, cs, S, ds, i) = {}
          /\ key # NULL => Partners(T, cs, S, ds, i) = UnderTuple(S, ds, key)
      BY TuplesFind
    <2>. HIDE DEF key
    <2>2. found(i) = IF key = NULL THEN <<>> ELSE TupleMatches(index, key)
      BY DEF key
    <2>3. KeptOf({}, S.rowCount) = <<>>
      BY KeptEmpty DEF IsTable
    <2>. QED  BY <1>4, <2>1, <2>2, <2>3
  <1>6. matches = PartnerLists(T, cs, S, ds)
    BY <1>5, Zenon DEF PartnerLists
  <1>7. LeftJoinComposite(T, cs, S, ds) = PairsUpto(T, matches)[T.rowCount]
    BY <1>1, <1>2, Zenon DEF LeftJoinComposite, index
  <1>. QED  BY <1>6, <1>7

\* So does a join of one column.
LEMMA ColumnJoins ==
  ASSUME NEW T, NEW S, IsTable(T), IsTable(S), NEW cs, NEW ds, Joinable(T, cs, S, ds, 1)
  PROVE  LeftJoin(T, cs[1], S, ds[1]) = PairsUpto(T, PartnerLists(T, cs, S, ds))[T.rowCount]
  <1>. DEFINE c == cs[1]
              d == ds[1]
              index == IndexOf(S, d)
              found(i) == LET v == Cell(T, i, c) IN
                          IF v = NULL THEN <<>> ELSE KeyMatches(index, KeyOf[v])
              matches == [i \in 1..T.rowCount |-> found(i)]
  <1>1. /\ c \in Positions(T.schema) /\ d \in Positions(S.schema) /\ DOMAIN cs = {1}
        /\ T.schema.columns[c].type = S.schema.columns[d].type /\ S.schema.columns[d].type \in KeyTypes
    <2>1. 1..1 = {1}
      OBVIOUS
    <2>. QED  BY <2>1 DEF Joinable
  <1>2. Indexable(S, d)
    BY <1>1 DEF Indexable
  <1>3. index = IndexUpto(S, d)[S.rowCount]
    BY <1>2 DEF IndexOf
  <1>4. \A key : KeyMatches(index, key) = KeptOf(Under(S, d, key), S.rowCount)
    BY <1>3, IndexHolds DEF IsTable
  <1>. HIDE DEF index, c, d
  <1>5. ASSUME NEW i \in 1..T.rowCount
        PROVE  found(i) = KeptOf(Partners(T, cs, S, ds, i), S.rowCount)
    <2>. DEFINE v == Cell(T, i, c)
                P == Partners(T, cs, S, ds, i)
    <2>1. P = {j \in LiveOf(S) : v # NULL /\ v = Cell(S, j, d)}
      BY <1>1, Zenon DEF Partners, c, d
    <2>. HIDE DEF v, P
    <2>2. CASE v = NULL
      <3>1. KeptOf({}, S.rowCount) = <<>>
        BY KeptEmpty DEF IsTable
      <3>. QED  BY <2>1, <2>2, <3>1 DEF v, P
    <2>3. CASE v # NULL
      <3>1. P = Under(S, d, KeyOf[v])
        <4>1. \A j \in 1..S.rowCount : Cell(S, j, d) # NULL =>
                                         (KeyOf[v] = KeyOf[Cell(S, j, d)] <=> v = Cell(S, j, d))
          BY <1>1, <2>3, KeysAgree DEF v
        <4>. QED  BY <2>1, <2>3, <4>1 DEF Under, Keyed, LiveOf
      <3>. QED  BY <1>4, <2>3, <3>1 DEF v, P
    <2>. QED  BY <2>2, <2>3
  <1>6. matches = PartnerLists(T, cs, S, ds)
    BY <1>5, Zenon DEF PartnerLists
  <1>7. LeftJoin(T, c, S, d) = PairsUpto(T, matches)[T.rowCount]
    BY <1>1, <1>2, Zenon DEF LeftJoin, index
  <1>. QED  BY <1>6, <1>7 DEF c, d

\* The pairs of the partners are those of the relational join.
LEMMA PartnersRelate ==
  ASSUME NEW T, NEW S, T.rowCount \in Nat, S.rowCount \in Nat, NEW cs, NEW ds
  PROVE  LET pairs == PairsUpto(T, PartnerLists(T, cs, S, ds))[T.rowCount] IN
         /\ pairs \in Pairs /\ InSourceOrder(pairs)
         /\ SetOf(pairs) = Related(T, cs, S, ds)
  <1>. DEFINE m == PartnerLists(T, cs, S, ds)
              partners(i) == Partners(T, cs, S, ds, i)
  <1>1. ASSUME NEW i \in 1..T.rowCount
        PROVE  m[i] \in Seq(Nat) /\ Increasing(m[i]) /\ SetOf(m[i]) = partners(i)
    <2>1. partners(i) \in SUBSET (1..S.rowCount)
      BY DEF Partners, LiveOf
    <2>2. m[i] = KeptOf(partners(i), S.rowCount)
      BY DEF PartnerLists
    <2>3. m[i] \in Seq(1..S.rowCount) /\ Increasing(m[i]) /\ SetOf(m[i]) = partners(i)
      BY <2>1, <2>2, KeptSet
    <2>. QED  BY <2>3
  <1>2. MatchesInOrder(T, m)
    BY <1>1, Zenon DEF MatchesInOrder
  <1>3. LET pairs == PairsUpto(T, m)[T.rowCount] IN
        /\ pairs \in Pairs /\ InSourceOrder(pairs)
        /\ SetOf(pairs) = UNION {PairSet(r, SetOf(m[r])) : r \in LiveOf(T)}
    BY <1>2, PairsAre
  <1>4. UNION {PairSet(r, SetOf(m[r])) : r \in LiveOf(T)} = UNION {PairSet(r, partners(r)) : r \in LiveOf(T)}
    BY <1>1 DEF LiveOf
  <1>5. Related(T, cs, S, ds) = UNION {PairSet(r, partners(r)) : r \in LiveOf(T)}
    BY Zenon DEF Related, PairSet, Partners
  <1>. QED  BY <1>3, <1>4, <1>5, Zenon

\* A join is refused exactly if a column has no keys or another type.
LEMMA JoinsRefused ==
  ASSUME NEW T, NEW S, NEW l \in Nat \ {0},
         NEW cs \in [1..l -> Positions(T.schema)], NEW ds \in [1..l -> Positions(S.schema)],
         ~Joinable(T, cs, S, ds, l)
  PROVE  /\ LeftJoinComposite(T, cs, S, ds) = ERR
         /\ l = 1 => LeftJoin(T, cs[1], S, ds[1]) = ERR
  <1>1. PICK k \in 1..l : \/ S.schema.columns[ds[k]].type \notin KeyTypes
                          \/ T.schema.columns[cs[k]].type # S.schema.columns[ds[k]].type
    BY DEF Joinable
  <1>2. DOMAIN cs = 1..l /\ DOMAIN ds = 1..l
    OBVIOUS
  <1>3. LeftJoinComposite(T, cs, S, ds) = ERR
    <2>1. \/ ~TupleIndexable(S, ds)
          \/ T.schema.columns[cs[k]].type # S.schema.columns[ds[k]].type
      BY <1>1, <1>2, Zenon DEF TupleIndexable, Indexable
    <2>. QED  BY <1>2, <2>1, Zenon DEF LeftJoinComposite
  <1>4. ASSUME l = 1  PROVE LeftJoin(T, cs[1], S, ds[1]) = ERR
    <2>1. k = 1
      BY <1>4
    <2>. QED  BY <1>1, <2>1, Zenon DEF LeftJoin, Indexable
  <1>. QED  BY <1>3, <1>4

\* Both joins are the relational one.
LEMMA JoinsHold == TableInv => JoinsAreRelational
  <1>. SUFFICES ASSUME TableInv, NEW t \in Tables, NEW u \in Tables,
                       NEW cs \in Tuples(table[t]), NEW ds \in Tuples(table[u]), Len(cs) = Len(ds)
                PROVE  LET T == table[t]
                           S == table[u]
                           pairs == LeftJoinComposite(T, cs, S, ds)
                       IN /\ (pairs = ERR) = \E k \in DOMAIN cs :
                               \/ S.schema.columns[ds[k]].type \notin KeyTypes
                               \/ T.schema.columns[cs[k]].type # S.schema.columns[ds[k]].type
                          /\ pairs # ERR => SetOf(pairs) = Related(T, cs, S, ds) /\ InSourceOrder(pairs)
                          /\ Len(cs) = 1 => LeftJoin(T, cs[1], S, ds[1]) = pairs
    BY Zenon DEF JoinsAreRelational
  <1>. DEFINE T == table[t]
              S == table[u]
              pairs == LeftJoinComposite(T, cs, S, ds)
              refused == \E k \in DOMAIN cs :
                           \/ S.schema.columns[ds[k]].type \notin KeyTypes
                           \/ T.schema.columns[cs[k]].type # S.schema.columns[ds[k]].type
  <1>1. IsTable(T) /\ IsTable(S) /\ T.rowCount \in Nat /\ S.rowCount \in Nat
    BY DEF TableInv, IsTable
  <1>2. PICK l \in 1..2 : cs \in [1..l -> Positions(T.schema)]
    BY DEF Tuples
  <1>3. PICK k \in 1..2 : ds \in [1..k -> Positions(S.schema)]
    BY DEF Tuples
  <1>. HIDE DEF T, S
  <1>4. /\ l \in Nat \ {0} /\ Len(cs) = l /\ DOMAIN cs = 1..l
        /\ ds \in [1..l -> Positions(S.schema)]
    <2>1. Len(cs) = l
      BY <1>2
    <2>2. Len(ds) = k
      BY <1>3
    <2>3. k = l
      BY <2>1, <2>2
    <2>4. DOMAIN cs = 1..l
      BY <1>2
    <2>5. l \in Nat \ {0}
      BY <1>2
    <2>. QED  BY <1>3, <2>1, <2>3, <2>4, <2>5, Zenon
  <1>5. refused <=> ~Joinable(T, cs, S, ds, l)
    BY <1>2, <1>4, Zenon DEF Joinable
  <1>6. CASE refused
    <2>1. pairs = ERR /\ (l = 1 => LeftJoin(T, cs[1], S, ds[1]) = ERR)
      BY <1>2, <1>4, <1>5, <1>6, JoinsRefused
    <2>. QED  BY <1>4, <1>6, <2>1, Zenon DEF T, S
  <1>7. CASE ~refused
    <2>. DEFINE listed == PairsUpto(T, PartnerLists(T, cs, S, ds))[T.rowCount]
    <2>1. Joinable(T, cs, S, ds, l)
      BY <1>5, <1>7
    <2>2. pairs = listed
      BY <1>1, <1>4, <2>1, CompositeJoins
    <2>3. listed \in Pairs /\ InSourceOrder(listed) /\ SetOf(listed) = Related(T, cs, S, ds)
      BY <1>1, PartnersRelate
    <2>4. listed # ERR
      BY <2>3, QueriesAssumption DEF Pairs
    <2>5. l = 1 => LeftJoin(T, cs[1], S, ds[1]) = listed
      BY <1>1, <2>1, ColumnJoins
    <2>. HIDE DEF listed, pairs
    <2>. QED  BY <1>4, <1>7, <2>2, <2>3, <2>4, <2>5, Zenon DEF T, S, pairs
  <1>. QED  BY <1>6, <1>7

\* Every join of the tables, in every state after a call that succeeded, is the
\* relational left join in source order; the join of several columns agrees with
\* the join of one, and both are refused exactly if a column has no keys or
\* another type: left_join_rows and left_join_rows_composite.
THEOREM JoinsStayRelational == Spec => []JoinsAreRelational
  BY JoinsHold, TablesKeepShape, PTL

-----------------------------------------------------------------------------
(* Queries: orders.                                                        *)

Orderings == {"less", "equal", "greater"}

LEMMA ReversedIs ==
  Reversed("less") = "greater" /\ Reversed("greater") = "less" /\ Reversed("equal") = "equal"
  BY DEF Reversed

\* What sort_by demands of a comparison of the rows 1 to n.
IsPreorder(n, compared) ==
  /\ compared \in [1..n -> [1..n -> Orderings]]
  /\ \A i, j \in 1..n : compared[i][j] = Reversed(compared[j][i])
  /\ \A i, j, k \in 1..n : compared[i][j] # "greater" /\ compared[j][k] # "greater"
                             => compared[i][k] # "greater"

\* Two rows of an order, the first before the second.
InOrder(compared, i, j) == compared[i][j] # "greater" /\ (compared[i][j] = "equal" => i < j)

\* The first i rows in a stable order.
SortStage(n, compared, i) ==
  {s \in Seq(1..n) : /\ Len(s) = i /\ SetOf(s) = 1..i
                     /\ \A a, b \in 1..i : a < b => InOrder(compared, s[a], s[b])}

\* There is a place for one more row.
LEMMA PlaceExists ==
  ASSUME NEW n \in Nat, NEW compared, NEW s \in Seq(1..n), NEW i
  PROVE  LET p == PlaceOf(s, compared, i) IN
         /\ p \in 0..Len(s)
         /\ p > 0 => compared[s[p]][i] # "greater"
         /\ \A k \in (p + 1)..Len(s) : compared[s[k]][i] = "greater"
  <1>. DEFINE behind(p) == \A k \in (p + 1)..Len(s) : compared[s[k]][i] = "greater"
              T == {p \in 0..Len(s) : behind(p)}
              fits(p) == (p > 0 => compared[s[p]][i] # "greater") /\ behind(p)
  <1>1. Len(s) \in T
    <2>1. Len(s) \in Nat /\ (Len(s) + 1)..Len(s) = {}
      OBVIOUS
    <2>. QED  BY <2>1
  <1>2. PICK p \in T : \A m \in T : p <= m
    <2>1. T \in SUBSET Nat /\ T # {}
      BY <1>1
    <2>. HIDE DEF T
    <2>. QED  BY <2>1, LeastNatural
  <1>3. p \in 0..Len(s) /\ behind(p)
    BY <1>2
  <1>4. ASSUME p > 0  PROVE compared[s[p]][i] # "greater"
    <2>1. SUFFICES ASSUME compared[s[p]][i] = "greater"  PROVE FALSE
      OBVIOUS
    <2>2. p - 1 \in 0..Len(s) /\ (p - 1) + 1 = p
      BY <1>3, <1>4
    <2>3. \A k \in p..Len(s) : compared[s[k]][i] = "greater"
      <3>1. \A k \in p..Len(s) : k = p \/ k \in (p + 1)..Len(s)
        BY <1>3
      <3>. QED  BY <1>3, <2>1, <3>1
    <2>4. p - 1 \in T
      BY <2>2, <2>3
    <2>5. p <= p - 1
      <3>. HIDE DEF T
      <3>. QED  BY <1>2, <2>4
    <2>. QED  BY <1>3, <2>5
  <1>5. \E x \in 0..Len(s) : fits(x)
    BY <1>3, <1>4
  <1>6. PlaceOf(s, compared, i) = CHOOSE x \in 0..Len(s) : fits(x)
    BY DEF PlaceOf
  <1>. HIDE DEF fits
  <1>7. PlaceOf(s, compared, i) \in 0..Len(s) /\ fits(PlaceOf(s, compared, i))
    BY <1>5, <1>6
  <1>. QED  BY <1>7 DEF fits

SortedNext(compared, s, i) == InsertedAt(s, PlaceOf(s, compared, i), i)

\* One more row in its place.
LEMMA SortNext ==
  ASSUME NEW n \in Nat, NEW compared, IsPreorder(n, compared),
         NEW i \in 1..n, NEW s \in SortStage(n, compared, i - 1)
  PROVE  SortedNext(compared, s, i) \in SortStage(n, compared, i)
  <1>. DEFINE p == PlaceOf(s, compared, i)
              z == SortedNext(compared, s, i)
  <1>1. /\ s \in Seq(1..n) /\ Len(s) = i - 1 /\ SetOf(s) = 1..(i - 1)
        /\ \A a, b \in 1..(i - 1) : a < b => InOrder(compared, s[a], s[b])
    BY DEF SortStage
  <1>2. /\ p \in 0..(i - 1)
        /\ p > 0 => compared[s[p]][i] # "greater"
        /\ \A k \in (p + 1)..(i - 1) : compared[s[k]][i] = "greater"
    <2>1. /\ p \in 0..Len(s)
          /\ p > 0 => compared[s[p]][i] # "greater"
          /\ \A k \in (p + 1)..Len(s) : compared[s[k]][i] = "greater"
      <3>. HIDE DEF p
      <3>1. s \in Seq(1..n) /\ p = PlaceOf(s, compared, i)
        BY <1>1, Zenon DEF p
      <3>. QED  BY <3>1, PlaceExists
    <2>. HIDE DEF p
    <2>. QED  BY <1>1, <2>1
  <1>3. \A k \in 1..(i - 1) : s[k] \in 1..n /\ s[k] \in 1..(i - 1) /\ s[k] < i
    <2>1. \A k \in 1..(i - 1) : s[k] \in 1..(i - 1)
      BY <1>1 DEF SetOf
    <2>. QED  BY <2>1
  <1>. HIDE DEF p
  <1>4. z = [k \in 1..i |-> IF k <= p THEN s[k] ELSE IF k = p + 1 THEN i ELSE s[k - 1]]
    <2>1. Len(s) + 1 = i
      BY <1>1
    <2>. QED  BY <2>1 DEF SortedNext, InsertedAt, p
  <1>. HIDE DEF z
  <1>5. /\ \A k \in 1..p : z[k] = s[k] /\ k \in 1..(i - 1)
        /\ z[p + 1] = i /\ p + 1 \in 1..i
        /\ \A k \in (p + 2)..i : z[k] = s[k - 1] /\ k - 1 \in (p + 1)..(i - 1) /\ k - 1 \in 1..(i - 1)
        /\ \A k \in 1..i : k \in 1..p \/ k = p + 1 \/ k \in (p + 2)..i
    BY <1>2, <1>4
  <1>6. \A k \in 1..i : z[k] \in 1..n
    BY <1>3, <1>5
  <1>7. z \in Seq(1..n) /\ Len(z) = i /\ DOMAIN z = 1..i
    BY <1>4, <1>6
  <1>8. SetOf(z) = 1..i
    <2>1. ASSUME NEW v \in SetOf(z)  PROVE v \in 1..i
      <3>1. PICK k \in 1..i : v = z[k]
        BY <1>7, <2>1 DEF SetOf
      <3>. QED  BY <1>3, <1>5, <3>1
    <2>2. ASSUME NEW v \in 1..i  PROVE v \in SetOf(z)
      <3>1. CASE v = i
        BY <1>5, <1>7, <3>1 DEF SetOf
      <3>2. CASE v \in 1..(i - 1)
        <4>1. PICK k \in 1..(i - 1) : v = s[k]
          BY <1>1, <3>2 DEF SetOf
        <4>2. CASE k <= p
          <5>1. k \in 1..p /\ k \in 1..i
            BY <1>2, <4>2
          <5>. QED  BY <1>5, <1>7, <4>1, <5>1 DEF SetOf
        <4>3. CASE k > p
          <5>1. k + 1 \in (p + 2)..i /\ k + 1 \in 1..i /\ (k + 1) - 1 = k
            BY <1>2, <4>3
          <5>2. z[k + 1] = s[k]
            BY <1>5, <5>1
          <5>. QED  BY <1>7, <4>1, <5>1, <5>2 DEF SetOf
        <4>. QED  BY <1>2, <4>2, <4>3
      <3>. QED  BY <3>1, <3>2
    <2>. QED  BY <2>1, <2>2, Zenon
  <1>9. ASSUME NEW a \in 1..i, NEW b \in 1..i, a < b  PROVE InOrder(compared, z[a], z[b])
    <2>1. CASE b \in 1..p
      <3>1. a \in 1..p
        BY <1>2, <1>9, <2>1
      <3>. QED  BY <1>1, <1>5, <1>9, <2>1, <3>1
    <2>2. CASE b = p + 1
      <3>1. a \in 1..p /\ p > 0 /\ p \in 1..p /\ p \in 1..(i - 1)
        BY <1>2, <1>9, <2>2
      <3>2. z[a] = s[a] /\ z[b] = i /\ s[a] \in 1..n /\ s[a] < i /\ s[p] \in 1..n
        BY <1>3, <1>5, <2>2, <3>1
      <3>3. compared[s[a]][s[p]] # "greater" \/ a = p
        BY <1>1, <1>5, <3>1 DEF InOrder
      <3>4. compared[s[a]][i] # "greater"
        BY <1>2, <3>1, <3>2, <3>3 DEF IsPreorder
      <3>. QED  BY <3>2, <3>4 DEF InOrder
    <2>3. CASE b \in (p + 2)..i
      <3>1. z[b] = s[b - 1] /\ b - 1 \in 1..(i - 1) /\ b - 1 \in (p + 1)..(i - 1) /\ s[b - 1] \in 1..n
        BY <1>3, <1>5, <2>3
      <3>2. CASE a \in 1..p
        <4>1. z[a] = s[a] /\ a \in 1..(i - 1) /\ a < b - 1
          BY <1>2, <1>5, <2>3, <3>2
        <4>. QED  BY <1>1, <3>1, <4>1
      <3>3. CASE a = p + 1
        <4>1. z[a] = i /\ compared[s[b - 1]][i] = "greater"
          BY <1>2, <1>5, <3>1, <3>3
        <4>2. compared[i][s[b - 1]] = "less"
          BY <3>1, <4>1, ReversedIs DEF IsPreorder
        <4>. QED  BY <3>1, <4>1, <4>2 DEF InOrder
      <3>4. CASE a \in (p + 2)..i
        <4>1. z[a] = s[a - 1] /\ a - 1 \in 1..(i - 1) /\ a - 1 < b - 1
          BY <1>2, <1>5, <1>9, <3>4
        <4>. QED  BY <1>1, <3>1, <4>1
      <3>. QED  BY <1>5, <3>2, <3>3, <3>4
    <2>. QED  BY <1>5, <2>1, <2>2, <2>3
  <1>. QED  BY <1>7, <1>8, <1>9 DEF SortStage, z

\* The sort makes a stable order.
LEMMA SortStages ==
  ASSUME NEW n \in Nat, NEW compared, IsPreorder(n, compared)
  PROVE  \A i \in 0..n : SortedUpto(n, compared)[i] \in SortStage(n, compared, i)
  <1>. DEFINE R == [i \in 0..n |-> SortStage(n, compared, i)]
              step == [k \in 1..n |-> [x \in R[k - 1] |-> SortedNext(compared, x, k)]]
              Def(f) == f = [i \in 0..n |-> IF i = 0 THEN <<>> ELSE SortedNext(compared, f[i - 1], i)]
              u == SortedUpto(n, compared)
  <1>1. \A i \in 0..n : R[i] = SortStage(n, compared, i)
    OBVIOUS
  <1>2. \A k \in 1..n : k \in 0..n /\ k - 1 \in 0..n /\ k # 0
    OBVIOUS
  <1>3. \A k \in 1..n : \A x \in R[k - 1] : step[k][x] = SortedNext(compared, x, k)
    OBVIOUS
  <1>4. <<>> \in R[0]
    <2>1. 1..0 = {} /\ 0 \in 0..n /\ <<>> \in Seq(1..n) /\ Len(<<>>) = 0 /\ SetOf(<<>>) = {}
      BY DEF SetOf
    <2>. QED  BY <1>1, <2>1 DEF SortStage
  <1>. HIDE DEF R, step
  <1>5. \A k \in 1..n : \A x \in R[k - 1] : SortedNext(compared, x, k) \in R[k]
    BY <1>1, <1>2, SortNext
  <1>6. PICK f : Staged(f, n, R, <<>>, step)
    <2>1. StepsLead(n, R, step)
      BY <1>3, <1>5 DEF StepsLead
    <2>. QED  BY <1>4, <2>1, StagedRecursion
  <1>7. Def(f)
    <2>1. \A i \in 0..n : (IF i = 0 THEN <<>> ELSE step[i][f[i - 1]])
                            = (IF i = 0 THEN <<>> ELSE SortedNext(compared, f[i - 1], i))
      <3>. TAKE i \in 0..n
      <3>1. CASE i = 0
        BY <3>1
      <3>2. CASE i # 0
        <4>1. i \in 1..n
          BY <3>2
        <4>. QED  BY <1>2, <1>3, <1>6, <4>1 DEF Staged
      <3>. QED  BY <3>1, <3>2
    <2>. QED  BY <1>6, <2>1 DEF Staged
  <1>8. Def(u)
    <2>. HIDE DEF u
    <2>1. u = CHOOSE g : Def(g)
      BY DEF u, SortedUpto, SortedNext
    <2>. HIDE DEF Def
    <2>. QED  BY <1>7, <2>1
  <1>. HIDE DEF u
  <1>9. u[0] \in R[0]
    BY <1>4, <1>8
  <1>10. ASSUME NEW k \in 1..n, u[k - 1] \in R[k - 1]  PROVE u[k] \in R[k]
    <2>1. u[k] = SortedNext(compared, u[k - 1], k)
      BY <1>2, <1>8
    <2>. QED  BY <1>5, <1>10, <2>1
  <1>11. \A k \in 0..n : u[k] \in R[k]
    BY <1>9, <1>10, StagedInduction
  <1>. QED  BY <1>1, <1>11 DEF u

Directions == {"ascending", "descending"}
NullPlaces == {"first", "last"}

\* The slots of a type.
SlotsOf(type) == {v \in Values : TypeOf[v] = type} \cup {NULL}

\* Two slots compare one way, and the other way about.
LEMMA ComparedIs ==
  ASSUME NEW type, NEW v \in SlotsOf(type), NEW w \in SlotsOf(type), NEW direction \in Directions, NEW nulls \in NullPlaces
  PROVE  /\ Compared(v, w, direction, nulls) \in Orderings
         /\ Compared(v, w, direction, nulls) = Reversed(Compared(w, v, direction, nulls))
  <1>1. CASE v = NULL \/ w = NULL
    BY <1>1, ReversedIs DEF Compared, Orderings
  <1>2. CASE v # NULL /\ w # NULL
    <2>1. ~(<<v, w>> \in Less /\ <<w, v>> \in Less)
      BY <1>2, QueriesAssumption DEF SlotsOf
    <2>. DEFINE order(x, y) == IF <<x, y>> \in Less THEN "less"
                               ELSE IF <<y, x>> \in Less THEN "greater" ELSE "equal"
    <2>2. order(v, w) \in Orderings /\ order(v, w) = Reversed(order(w, v))
      BY <2>1, ReversedIs DEF Orderings
    <2>3. /\ Compared(v, w, direction, nulls)
               = IF direction = "ascending" THEN order(v, w) ELSE Reversed(order(v, w))
          /\ Compared(w, v, direction, nulls)
               = IF direction = "ascending" THEN order(w, v) ELSE Reversed(order(w, v))
      BY <1>2, Zenon DEF Compared
    <2>4. order(w, v) \in Orderings
      BY <2>1 DEF Orderings
    <2>. HIDE DEF order
    <2>. QED  BY <2>2, <2>3, <2>4, ReversedIs DEF Orderings
  <1>. QED  BY <1>1, <1>2

\* The comparison of slots is transitive.
LEMMA ComparedLeads ==
  ASSUME NEW type, NEW u \in SlotsOf(type), NEW v \in SlotsOf(type), NEW w \in SlotsOf(type),
         NEW direction \in Directions, NEW nulls \in NullPlaces,
         Compared(u, v, direction, nulls) # "greater", Compared(v, w, direction, nulls) # "greater"
  PROVE  Compared(u, w, direction, nulls) # "greater"
  <1>1. CASE u = NULL \/ v = NULL \/ w = NULL
    BY <1>1 DEF Compared, NullPlaces
  <1>2. CASE u # NULL /\ v # NULL /\ w # NULL
    <2>1. \A x, y, z \in {u, v, w} : /\ ~(<<x, y>> \in Less /\ <<y, x>> \in Less)
                                     /\ <<x, z>> \in Less => <<x, y>> \in Less \/ <<y, z>> \in Less
      BY <1>2, QueriesAssumption DEF SlotsOf
    <2>2. CASE direction = "ascending"
      BY <1>2, <2>1, <2>2 DEF Compared
    <2>3. CASE direction # "ascending"
      <3>1. \A x, y \in {u, v, w} : Compared(x, y, direction, nulls) # "greater" <=> <<x, y>> \notin Less
        <4>. TAKE x, y \in {u, v, w}
        <4>1. x # NULL /\ y # NULL
          BY <1>2
        <4>2. CASE <<x, y>> \in Less
          BY <2>3, <4>1, <4>2, ReversedIs DEF Compared
        <4>3. CASE <<x, y>> \notin Less
          BY <2>3, <4>1, <4>3, ReversedIs DEF Compared
        <4>. QED  BY <4>2, <4>3
      <3>. QED  BY <2>1, <3>1
    <2>. QED  BY <2>2, <2>3
  <1>. QED  BY <1>1, <1>2

\* The comparison of the rows of a column.
ComparedTo(T, c, direction, nulls) ==
  [i \in 1..T.rowCount |-> [j \in 1..T.rowCount |-> ComparedRows(T, c, direction, nulls, i, j)]]

LEMMA ColumnsArePreordered ==
  ASSUME NEW T, IsTable(T), NEW c \in Positions(T.schema),
         NEW direction \in Directions, NEW nulls \in NullPlaces
  PROVE  IsPreorder(T.rowCount, ComparedTo(T, c, direction, nulls))
  <1>. DEFINE n == T.rowCount
              compare(i, j) == ComparedRows(T, c, direction, nulls, i, j)
              compared == ComparedTo(T, c, direction, nulls)
  <1>1. \A i, j \in 1..n : compared[i][j] = compare(i, j)
    BY DEF ComparedTo
  <1>2. \A i \in 1..n : Cell(T, i, c) \in SlotsOf(T.schema.columns[c].type)
    BY CellsAreTyped DEF SlotsOf
  <1>3. ASSUME NEW i \in 1..n, NEW j \in 1..n
        PROVE  compare(i, j) \in Orderings /\ compare(i, j) = Reversed(compare(j, i))
    <2>1. CASE T.schema.columns[c].type = NullType
      BY <2>1, ReversedIs DEF ComparedRows, Orderings
    <2>2. CASE T.schema.columns[c].type # NullType
      BY <1>2, <2>2, ComparedIs DEF ComparedRows
    <2>. QED  BY <2>1, <2>2
  <1>4. ASSUME NEW i \in 1..n, NEW j \in 1..n, NEW k \in 1..n,
               compare(i, j) # "greater", compare(j, k) # "greater"
        PROVE  compare(i, k) # "greater"
    <2>1. CASE T.schema.columns[c].type = NullType
      BY <2>1 DEF ComparedRows
    <2>2. CASE T.schema.columns[c].type # NullType
      BY <1>2, <1>4, <2>2, ComparedLeads DEF ComparedRows
    <2>. QED  BY <2>1, <2>2
  <1>5. compared \in [1..n -> [1..n -> Orderings]]
    BY <1>3 DEF ComparedTo
  <1>. HIDE DEF compare, compared
  <1>. QED  BY <1>1, <1>3, <1>4, <1>5 DEF IsPreorder, compared

\* A null row is before one with a value only if nulls are first.
LEMMA NullsAreAsked ==
  ASSUME NEW T, IsTable(T), NEW c \in Positions(T.schema),
         NEW direction \in Directions, NEW nulls \in NullPlaces,
         NEW i \in 1..T.rowCount, NEW j \in 1..T.rowCount,
         ComparedRows(T, c, direction, nulls, i, j) # "greater"
  PROVE  /\ Cell(T, i, c) = NULL /\ Cell(T, j, c) # NULL => nulls = "first"
         /\ Cell(T, i, c) # NULL /\ Cell(T, j, c) = NULL => nulls = "last"
  <1>1. ASSUME Cell(T, i, c) # NULL \/ Cell(T, j, c) # NULL
        PROVE  ComparedRows(T, c, direction, nulls, i, j)
                 = Compared(Cell(T, i, c), Cell(T, j, c), direction, nulls)
    <2>1. T.schema.columns[c].type # NullType
      BY <1>1, CellsAreTyped
    <2>. QED  BY <2>1 DEF ComparedRows
  <1>. QED  BY <1>1 DEF Compared, NullPlaces

\* The live rows of an order, in it.
LEMMA LiveRowsAre ==
  ASSUME NEW T, NEW n \in Nat, T.rowCount = n, NEW order \in Seq(1..n), Len(order) = n,
         SetOf(order) = 1..n
  PROVE  LET live == LiveRows(T, order) IN
         /\ SetOf(live) = LiveOf(T)
         /\ \A a, b \in DOMAIN live : a < b =>
              \E k, l \in 1..n : k < l /\ live[a] = order[k] /\ live[b] = order[l]
  <1>. DEFINE kept == {k \in DOMAIN order : ~IsTombstoned(T, order[k])}
              p == KeptOf(kept, n)
              live == LiveRows(T, order)
  <1>1. kept \in SUBSET (1..n) /\ DOMAIN order = 1..n
    OBVIOUS
  <1>2. p \in Seq(1..n) /\ SetOf(p) = kept /\ Increasing(p)
    BY <1>1, KeptSet
  <1>. HIDE DEF p
  <1>3. live = [k \in DOMAIN p |-> order[p[k]]] /\ DOMAIN p = 1..Len(p)
    BY <1>2 DEF LiveRows, p
  <1>. HIDE DEF live
  <1>4. SetOf(live) = LiveOf(T)
    <2>1. SetOf(live) = {order[k] : k \in SetOf(p)}
      <3>1. DOMAIN live = DOMAIN p /\ \A k \in DOMAIN p : live[k] = order[p[k]]
        BY <1>3
      <3>2. SetOf(p) = {p[k] : k \in DOMAIN p}
        BY DEF SetOf
      <3>3. \A k \in DOMAIN p : p[k] \in SetOf(p)
        BY <3>2
      <3>4. \A j \in SetOf(p) : \E k \in DOMAIN p : j = p[k]
        BY <3>2
      <3>5. SetOf(live) = {live[k] : k \in DOMAIN p}
        BY <3>1, Zenon DEF SetOf
      <3>6. ASSUME NEW v \in {live[k] : k \in DOMAIN p}  PROVE v \in {order[k] : k \in SetOf(p)}
        <4>1. PICK k \in DOMAIN p : v = live[k]
          BY <3>6
        <4>. QED  BY <3>1, <3>3, <4>1
      <3>7. ASSUME NEW v \in {order[k] : k \in SetOf(p)}  PROVE v \in {live[k] : k \in DOMAIN p}
        <4>1. PICK j \in SetOf(p) : v = order[j]
          BY <3>7
        <4>2. PICK k \in DOMAIN p : j = p[k]
          BY <3>4, <4>1
        <4>. QED  BY <3>1, <4>1, <4>2
      <3>. QED  BY <3>5, <3>6, <3>7, Zenon
    <2>2. {order[k] : k \in kept} = {i \in SetOf(order) : ~IsTombstoned(T, i)}
      BY Zenon DEF SetOf
    <2>. QED  BY <1>2, <2>1, <2>2, Zenon DEF LiveOf
  <1>5. ASSUME NEW a \in DOMAIN live, NEW b \in DOMAIN live, a < b
        PROVE  \E k, l \in 1..n : k < l /\ live[a] = order[k] /\ live[b] = order[l]
    <2>1. a \in 1..Len(p) /\ b \in 1..Len(p) /\ live[a] = order[p[a]] /\ live[b] = order[p[b]]
      BY <1>3
    <2>2. p[a] \in 1..n /\ p[b] \in 1..n
      BY <1>2, <2>1
    <2>3. p[a] < p[b]
      <3>1. p \in Seq(Nat)
        BY <1>2
      <3>. QED  BY <1>2, <1>5, <2>1, <3>1, IncreasingLeads DEF Increasing
    <2>. QED  BY <2>1, <2>2, <2>3
  <1>. QED  BY <1>4, <1>5 DEF live

\* Every order is a stable one.
LEMMA OrdersHold == TableInv => OrdersAreStable
  <1>. SUFFICES ASSUME TableInv, NEW t \in Tables, NEW c \in Positions(table[t].schema),
                       NEW direction \in Directions, NEW nulls \in NullPlaces
                PROVE  LET T == table[t]
                           rows == 1..T.rowCount
                           order == RowOrder(T, c, direction, nulls)
                           live == LiveRows(T, order)
                           compare(i, j) == ComparedRows(T, c, direction, nulls, i, j)
                           null(i) == Cell(T, i, c) = NULL
                       IN /\ \A i, j \in rows : compare(i, j) = Reversed(compare(j, i))
                          /\ \A i, j, k \in rows : compare(i, j) # "greater" /\ compare(j, k) # "greater"
                                                     => compare(i, k) # "greater"
                          /\ SetOf(order) = rows /\ Len(order) = T.rowCount
                          /\ \A a, b \in rows : a < b =>
                               LET i == order[a]
                                   j == order[b]
                               IN /\ compare(i, j) # "greater"
                                  /\ compare(i, j) = "equal" => i < j
                                  /\ null(i) /\ ~null(j) => nulls = "first"
                                  /\ ~null(i) /\ null(j) => nulls = "last"
                          /\ SetOf(live) = LiveOf(T)
                          /\ \A a, b \in DOMAIN live : a < b =>
                               LET i == live[a]
                                   j == live[b]
                               IN compare(i, j) # "greater" /\ (compare(i, j) = "equal" => i < j)
    BY Zenon DEF OrdersAreStable, Directions, NullPlaces
  <1>. DEFINE T == table[t]
              n == T.rowCount
              order == RowOrder(T, c, direction, nulls)
              live == LiveRows(T, order)
              compared == ComparedTo(T, c, direction, nulls)
              compare(i, j) == ComparedRows(T, c, direction, nulls, i, j)
              null(i) == Cell(T, i, c) = NULL
  <1>1. IsTable(T) /\ n \in Nat
    BY DEF TableInv, IsTable
  <1>2. c \in Positions(T.schema)
    OBVIOUS
  <1>. HIDE DEF T
  <1>3. IsPreorder(n, compared)
    BY <1>1, <1>2, ColumnsArePreordered
  <1>4. \A i, j \in 1..n : compared[i][j] = compare(i, j)
    BY DEF ComparedTo
  <1>5. order = SortedUpto(n, compared)[n]
    BY <1>2, Zenon DEF RowOrder, ComparedTo
  <1>6. /\ order \in Seq(1..n) /\ Len(order) = n /\ SetOf(order) = 1..n
        /\ \A a, b \in 1..n : a < b => InOrder(compared, order[a], order[b])
    <2>1. n \in 0..n
      BY <1>1
    <2>2. order \in SortStage(n, compared, n)
      BY <1>1, <1>3, <1>5, <2>1, SortStages
    <2>. QED  BY <2>2 DEF SortStage
  <1>. HIDE DEF order, compared
  <1>7. ASSUME NEW a \in 1..n, NEW b \in 1..n, a < b
        PROVE  /\ order[a] \in 1..n /\ order[b] \in 1..n
               /\ compare(order[a], order[b]) # "greater"
               /\ compare(order[a], order[b]) = "equal" => order[a] < order[b]
    <2>0. \A k \in DOMAIN order : order[k] \in SetOf(order)
      BY Zenon DEF SetOf
    <2>1. order[a] \in 1..n /\ order[b] \in 1..n
      <3>1. DOMAIN order = 1..n
        BY <1>6
      <3>. QED  BY <1>6, <2>0, <3>1, Zenon
    <2>2. InOrder(compared, order[a], order[b])
      BY <1>6, <1>7
    <2>. HIDE DEF compare
    <2>. QED  BY <1>4, <2>1, <2>2 DEF InOrder
  <1>8. ASSUME NEW a \in 1..n, NEW b \in 1..n, a < b
        PROVE  /\ null(order[a]) /\ ~null(order[b]) => nulls = "first"
               /\ ~null(order[a]) /\ null(order[b]) => nulls = "last"
    <2>1. order[a] \in 1..n /\ order[b] \in 1..n /\ compare(order[a], order[b]) # "greater"
      BY <1>7, <1>8
    <2>. QED  BY <1>1, <1>2, <2>1, NullsAreAsked
  <1>9. /\ SetOf(live) = LiveOf(T)
        /\ \A a, b \in DOMAIN live : a < b =>
             \E k, l \in 1..n : k < l /\ live[a] = order[k] /\ live[b] = order[l]
    BY <1>1, <1>6, LiveRowsAre
  <1>. HIDE DEF live
  <1>10. ASSUME NEW a \in DOMAIN live, NEW b \in DOMAIN live, a < b
         PROVE  /\ compare(live[a], live[b]) # "greater"
                /\ compare(live[a], live[b]) = "equal" => live[a] < live[b]
    <2>1. PICK k \in 1..n, l \in 1..n : k < l /\ live[a] = order[k] /\ live[b] = order[l]
      BY <1>9, <1>10
    <2>. HIDE DEF compare
    <2>. QED  BY <1>7, <2>1
  <1>11. /\ \A i, j \in 1..n : compare(i, j) = Reversed(compare(j, i))
         /\ \A i, j, k \in 1..n : compare(i, j) # "greater" /\ compare(j, k) # "greater"
                                    => compare(i, k) # "greater"
    <2>. HIDE DEF compare
    <2>. QED  BY <1>3, <1>4, Zenon DEF IsPreorder
  <1>. QED  BY <1>6, <1>7, <1>8, <1>9, <1>10, <1>11, Zenon DEF T, order, live

\* In every state after a call that succeeded, compare_rows is a total preorder
\* of the rows of each column, and Table::row_order makes the stable order of it:
\* every row once, nulls where they were asked for in either direction, equal
\* rows as they were; its live_rows are the live rows in that order.
THEOREM OrdersStayStable == Spec => []OrdersAreStable
  BY OrdersHold, TablesKeepShape, PTL

-----------------------------------------------------------------------------
(* SharedProjection: its lock, its plans and what is written through them.  *)

\* A table has all its fields, whatever is in them.
Shape == table = [t \in Tables |-> [f \in TableFields |-> table[t][f]]]

Guards == {"none", "read", "write", "raw"}

GuardType == guard \in [Threads -> Guards] /\ plan = [t \in Threads |-> plan[t]]

\* The lock keeps everyone away from a writer.
Exclusive == \A t, u \in Threads : guard[t] \in {"write", "raw"} /\ guard[u] # "none" => t = u

\* The inductive invariant.
Guarded == Shape /\ GuardType /\ Exclusive /\ GuardMatchesSchema /\ PoisonedIsUnused

-----------------------------------------------------------------------------
(* What operations on a table leave alone.                                 *)

\* A record of a table's fields.
HasFields(T) == T = [f \in TableFields |-> T[f]]

\* The tables that calls work on are records of a table's fields.
LEMMA SourceShape == Shape => HasFields(source)
  BY SourceAssumption DEF Shape, HasFields, source

\* Marks and releases of marks only concern the flags and their count.
LEMMA SetFlagKeeps ==
  ASSUME NEW T, HasFields(T), NEW i, NEW dead
  PROVE  HasFields(SetFlag(T, i, dead)) /\ SetFlag(T, i, dead).schema = T.schema
  BY Zenon DEF HasFields, TableFields, SetFlag, WithFlags

\* A call that returns a table puts it in place of the old one.
LEMMA ReturnKeeps ==
  ASSUME Shape, NEW T, HasFields(T), Return(Source, T)
  PROVE  Shape' /\ source' = T
  BY SourceAssumption DEF Shape, HasFields, Return, source

\* A refused call leaves the tables alone.
LEMMA RefuseKeeps ==
  ASSUME Shape, Refuse
  PROVE  Shape' /\ source' = source
  BY DEF Shape, Refuse, source

\* Updating a cell does not change the schema.
LEMMA SetCellKeeps ==
  ASSUME Shape, NEW i, NEW c, NEW v, SetCell(Source, i, c, v)
  PROVE  Shape' /\ source'.schema = source.schema
  <1>1. CASE Refuse
    BY <1>1, RefuseKeeps
  <1>2. CASE \E w : Return(Source, [source EXCEPT !.columns[c] = w])
    <2>1. PICK w : Return(Source, [source EXCEPT !.columns[c] = w])
      BY <1>2, Zenon
    <2> DEFINE T == [source EXCEPT !.columns[c] = w]
    <2>2. HasFields(T) /\ T.schema = source.schema
      BY SourceShape DEF HasFields, TableFields
    <2>. HIDE DEF T
    <2>. QED  BY <2>1, <2>2, ReturnKeeps, Zenon DEF T
  <1>. QED  BY <1>1, <1>2, Zenon DEF SetCell, source

\* Neither does updating by name.
LEMMA SetNamedKeeps ==
  ASSUME Shape, NEW i, NEW n, NEW v, SetNamed(Source, i, n, v)
  PROVE  Shape' /\ source'.schema = source.schema
  <1>1. CASE Refuse
    BY <1>1, RefuseKeeps
  <1>2. CASE \E c : SetCell(Source, i, c, v)
    BY <1>2, SetCellKeeps
  <1>3. CASE \E w : Return(Source, [source EXCEPT !.extras = w])
    <2>1. PICK w : Return(Source, [source EXCEPT !.extras = w])
      BY <1>3
    <2> DEFINE T == [source EXCEPT !.extras = w]
    <2>2. HasFields(T) /\ T.schema = source.schema
      BY SourceShape DEF HasFields, TableFields
    <2>. HIDE DEF T
    <2>. QED  BY <2>1, <2>2, ReturnKeeps, Zenon DEF T
  <1>. QED  BY <1>1, <1>2, <1>3, Zenon DEF SetNamed, source

\* A mark is put on or taken off without a change of anything else.
LEMMA MarkKeeps ==
  ASSUME Shape, NEW i, TombstoneRow(Source, i) \/ RestoreRow(Source, i)
  PROVE  Shape' /\ source'.schema = source.schema
  <1>1. CASE Refuse
    BY <1>1, RefuseKeeps
  <1>2. CASE \E dead \in BOOLEAN : Return(Source, SetFlag(source, i, dead))
    <2>1. PICK dead \in BOOLEAN : Return(Source, SetFlag(source, i, dead))
      BY <1>2
    <2>2. /\ HasFields(SetFlag(source, i, dead))
          /\ SetFlag(source, i, dead).schema = source.schema
      BY SourceShape, SetFlagKeeps
    <2>. QED  BY <2>1, <2>2, ReturnKeeps
  <1>. QED  BY <1>1, <1>2, Zenon DEF TombstoneRow, RestoreRow, source

\* A table made anew, or with a row more or less, has all its fields.
LEMMA NewTableShape ==
  ASSUME NEW schema
  PROVE  HasFields(NewTable(schema))
  BY DEF HasFields, TableFields, NewTable

LEMMA PushedShape ==
  ASSUME NEW T, HasFields(T), NEW values, NEW extras
  PROVE  HasFields(Pushed(T, values, extras))
  BY Zenon DEF HasFields, TableFields, Pushed, PushLive

LEMMA PoppedShape ==
  ASSUME NEW T, HasFields(T)
  PROVE  HasFields(Popped(T))
  BY DEF HasFields, TableFields, Popped, PopFlag, WithFlags

LEMMA CompactedShape ==
  ASSUME NEW T, HasFields(T)
  PROVE  HasFields(Compacted(T))
  BY Zenon DEF HasFields, TableFields, Compacted

\* The owner's edits leave a table in the source's place.
LEMMA EditKeepsShape ==
  ASSUME Shape, NEW t, EditSource(t)
  PROVE  Shape'
  <1>1. CASE Refuse
    BY <1>1, RefuseKeeps
  <1>2. CASE \E values, extras : Return(Source, Pushed(source, values, extras))
    BY <1>2, SourceShape, PushedShape, ReturnKeeps
  <1>3. CASE Return(Source, Popped(source))
    BY <1>3, SourceShape, PoppedShape, ReturnKeeps
  <1>4. CASE Return(Source, Compacted(source))
    BY <1>4, SourceShape, CompactedShape, ReturnKeeps
  <1>5. CASE \E schema \in Schemas : Return(Source, NewTable(schema))
    BY <1>5, NewTableShape, ReturnKeeps
  <1>. QED  BY <1>1, <1>2, <1>3, <1>4, <1>5 DEF EditSource, PushRow, PopRow, Compact, source

-----------------------------------------------------------------------------
(* What writes through a projection leave alone.                           *)

\* The source with at most the cells of the columns in S, and extra fields or
\* marks, changed.
OnlyColumns(S) ==
  /\ source'.schema = source.schema
  /\ source'.rowCount = source.rowCount
  /\ \A c \in DOMAIN source.columns : c \notin S => source'.columns[c] = source.columns[c]

\* A call that changes no table changes no column.
LEMMA SameTable ==
  ASSUME table' = table
  PROVE  OnlyColumns({})
  BY DEF OnlyColumns, source

\* Updating a cell changes its column only.
LEMMA SetCellTouchesOne ==
  ASSUME Shape, NEW i, NEW c, NEW v, SetCell(Source, i, c, v)
  PROVE  OnlyColumns({c})
  <1>1. CASE Refuse
    BY <1>1, SameTable DEF Refuse, OnlyColumns
  <1>2. CASE \E w : Return(Source, [source EXCEPT !.columns[c] = w])
    <2>1. PICK w : Return(Source, [source EXCEPT !.columns[c] = w])
      BY <1>2, Zenon
    <2> DEFINE T == [source EXCEPT !.columns[c] = w]
    <2>2. HasFields(T) /\ T.schema = source.schema /\ T.rowCount = source.rowCount
      BY SourceShape DEF HasFields, TableFields
    <2>3. T.columns = [source.columns EXCEPT ![c] = w]
      BY SourceShape DEF HasFields, TableFields
    <2>. HIDE DEF T
    <2>4. source' = T
      BY <2>1, <2>2, ReturnKeeps DEF T
    <2>. QED  BY <2>2, <2>3, <2>4 DEF OnlyColumns
  <1>. QED  BY <1>1, <1>2, Zenon DEF SetCell, source

\* Updating by a name that is not a column's only changes extra fields.
LEMMA SetExtraTouchesNone ==
  ASSUME Shape, NEW i, NEW n, NEW v, ColumnIndex(source.schema, n) = NULL,
         SetNamed(Source, i, n, v)
  PROVE  OnlyColumns({})
  <1>1. CASE Refuse
    BY <1>1, SameTable DEF Refuse
  <1>2. CASE \E w : Return(Source, [source EXCEPT !.extras = w])
    <2>1. PICK w : Return(Source, [source EXCEPT !.extras = w])
      BY <1>2
    <2> DEFINE T == [source EXCEPT !.extras = w]
    <2>2. /\ HasFields(T) /\ T.schema = source.schema
          /\ T.rowCount = source.rowCount /\ T.columns = source.columns
      BY SourceShape DEF HasFields, TableFields
    <2>. HIDE DEF T
    <2>3. source' = T
      BY <2>1, <2>2, ReturnKeeps DEF T
    <2>. QED  BY <2>2, <2>3 DEF OnlyColumns
  <1>. QED  BY <1>1, <1>2, Zenon DEF SetNamed, source

\* Marking a row changes no column.
LEMMA MarkTouchesNone ==
  ASSUME Shape, NEW i, TombstoneRow(Source, i) \/ RestoreRow(Source, i)
  PROVE  OnlyColumns({})
  <1>1. CASE Refuse
    BY <1>1, SameTable DEF Refuse
  <1>2. CASE \E dead \in BOOLEAN : Return(Source, SetFlag(source, i, dead))
    <2>1. PICK dead \in BOOLEAN : Return(Source, SetFlag(source, i, dead))
      BY <1>2
    <2> DEFINE T == SetFlag(source, i, dead)
    <2>2. /\ HasFields(T) /\ T.schema = source.schema
          /\ T.rowCount = source.rowCount /\ T.columns = source.columns
      BY SourceShape, Zenon DEF HasFields, TableFields, SetFlag, WithFlags
    <2>. HIDE DEF T
    <2>3. source' = T
      BY <2>1, <2>2, ReturnKeeps DEF T
    <2>. QED  BY <2>2, <2>3 DEF OnlyColumns
  <1>. QED  BY <1>1, <1>2, Zenon DEF TombstoneRow, RestoreRow, source

-----------------------------------------------------------------------------
(* Writes through a projection.                                            *)

\* A thread writes through its projection.
ProjectedWrite(t) ==
  \E i :
    \/ \E j, v : SetProjected(t, i, j, v)
    \/ \E name, v : SetProjectedNamed(t, i, name, v)
    \/ MarkProjected(t, i)

Projection(t) == {plan[t].columns[j] : j \in DOMAIN plan[t].columns}

\* A name that is found in a projection is the name of one of its columns.
LEMMA ProjectedIndexInside ==
  ASSUME NEW t, NEW name, ProjectedIndex(t, name) # NULL
  PROVE  ProjectedIndex(t, name) \in DOMAIN plan[t].columns
  BY DEF ProjectedIndex

\* Updating a column of the projection changes no other one.
LEMMA InsideTouchesProjection ==
  ASSUME Shape, NEW t, NEW i, NEW v, NEW j \in DOMAIN plan[t].columns,
         SetCell(Source, i, plan[t].columns[j], v)
  PROVE  Shape' /\ OnlyColumns(Projection(t))
  <1>1. Shape' /\ OnlyColumns({plan[t].columns[j]})
    BY SetCellKeeps, SetCellTouchesOne
  <1>2. plan[t].columns[j] \in Projection(t)
    BY DEF Projection
  <1>. QED  BY <1>1, <1>2 DEF OnlyColumns

\* A write through a projection changes the projection's columns only, because
\* the plan names columns of the schema that the source still has.
LEMMA ProjectedWriteTouches ==
  ASSUME Guarded, NEW t \in Threads, ProjectedWrite(t)
  PROVE  Shape' /\ OnlyColumns(Projection(t)) /\ UNCHANGED <<plan, guard, poisoned>>
  <1>1. Shape /\ (guard[t] = "write" => plan[t].schema = source.schema)
    BY DEF Guarded, GuardMatchesSchema, Matches
  <1>2. ASSUME NEW i, NEW j, NEW v, SetProjected(t, i, j, v)
        PROVE  Shape' /\ OnlyColumns(Projection(t)) /\ UNCHANGED <<plan, guard, poisoned>>
    <2>1. CASE j \in DOMAIN plan[t].columns
      BY <1>1, <1>2, <2>1, InsideTouchesProjection DEF SetProjected
    <2>2. CASE j \notin DOMAIN plan[t].columns
      BY <1>1, <1>2, <2>2, RefuseKeeps, SameTable DEF SetProjected, OnlyColumns, Refuse
    <2>. QED  BY <2>1, <2>2
  <1>3. ASSUME NEW i, NEW name, NEW v, SetProjectedNamed(t, i, name, v)
        PROVE  Shape' /\ OnlyColumns(Projection(t)) /\ UNCHANGED <<plan, guard, poisoned>>
    <2>1. CASE ProjectedIndex(t, name) # NULL
      <3>1. SetCell(Source, i, plan[t].columns[ProjectedIndex(t, name)], v)
        BY <1>3, <2>1 DEF SetProjectedNamed
      <3>2. Shape' /\ OnlyColumns(Projection(t))
        BY <1>1, <2>1, <3>1, ProjectedIndexInside, InsideTouchesProjection
      <3>. QED  BY <1>3, <3>2 DEF SetProjectedNamed
    <2>2. CASE ProjectedIndex(t, name) = NULL /\ ColumnIndex(plan[t].schema, name) # NULL
      BY <1>1, <1>3, <2>2, RefuseKeeps, SameTable DEF SetProjectedNamed, OnlyColumns, Refuse
    <2>3. CASE ProjectedIndex(t, name) = NULL /\ ColumnIndex(plan[t].schema, name) = NULL
      <3>1. guard[t] = "write" /\ SetNamed(Source, i, name, v)
        BY <1>3, <2>3 DEF SetProjectedNamed
      <3>2. ColumnIndex(source.schema, name) = NULL
        BY <1>1, <2>3, <3>1
      <3>3. Shape' /\ OnlyColumns({})
        BY <1>1, <3>1, <3>2, SetNamedKeeps, SetExtraTouchesNone
      <3>. QED  BY <1>3, <3>3 DEF SetProjectedNamed, OnlyColumns
    <2>. QED  BY <2>1, <2>2, <2>3
  <1>4. ASSUME NEW i, MarkProjected(t, i)
        PROVE  Shape' /\ OnlyColumns(Projection(t)) /\ UNCHANGED <<plan, guard, poisoned>>
    <2>1. TombstoneRow(Source, i) \/ RestoreRow(Source, i)
      BY <1>4 DEF MarkProjected
    <2>2. Shape' /\ OnlyColumns({})
      BY <1>1, <2>1, MarkKeeps, MarkTouchesNone
    <2>. QED  BY <1>4, <2>2 DEF MarkProjected, OnlyColumns
  <1>. QED  BY <1>2, <1>3, <1>4 DEF ProjectedWrite

-----------------------------------------------------------------------------
(* The invariant.                                                          *)

\* At first nobody holds the lock.
LEMMA GuardedInit == SharedInit => Guarded
  <1>. SUFFICES ASSUME SharedInit PROVE Guarded
    OBVIOUS
  <1>1. PICK schema \in [Tables -> Schemas] : table = [t \in Tables |-> NewTable(schema[t])]
    BY DEF SharedInit, Init
  <1>2. Shape
    BY <1>1, NewTableShape DEF Shape, HasFields
  <1>. QED
    BY <1>2 DEF SharedInit, Guarded, GuardType, Guards, Exclusive, GuardMatchesSchema,
                PoisonedIsUnused, Free

\* Plans change while their owner holds no guard.
LEMMA PlanStep ==
  ASSUME Guarded, NEW t \in Threads,
         FromShared(t) \/ \E positions \in Selections : Project(t, positions)
  PROVE  Guarded' /\ table' = table
  <1>1. guard[t] = "none" /\ UNCHANGED <<table, guard, poisoned>>
    BY Zenon DEF FromShared, Project, Free
  <1>2. PICK p : plan' = [plan EXCEPT ![t] = p]
    <2>1. CASE FromShared(t)
      BY <2>1, Zenon DEF FromShared
    <2>2. CASE \E positions \in Selections : Project(t, positions)
      <3>1. PICK columns : plan' = [plan EXCEPT ![t].columns = columns]
        BY <2>2, Zenon DEF Project
      <3>. QED  BY <3>1, Zenon
    <2>. QED  BY <2>1, <2>2
  <1>3. /\ plan' = [u \in Threads |-> plan'[u]]
        /\ \A u \in Threads : u # t => plan'[u] = plan[u]
    BY <1>2 DEF Guarded, GuardType
  <1>4. source' = source
    BY <1>1 DEF source
  <1>. QED
    BY <1>1, <1>3, <1>4 DEF Guarded, Shape, GuardType, Exclusive, GuardMatchesSchema, Matches,
                            PoisonedIsUnused, Free

\* Guards are taken when no writer, and for a writer nobody, holds one.
LEMMA LockStep ==
  ASSUME Guarded, NEW t \in Threads, Read(t) \/ Write(t) \/ LockSource(t)
  PROVE  Guarded' /\ table' = table
  <1>1. UNCHANGED <<table, plan, poisoned>> /\ ~poisoned /\ Writers = {}
    BY DEF Read, Write, LockSource
  <1>2. PICK g \in Guards : /\ guard' = [guard EXCEPT ![t] = g]
                            /\ g # "raw" => Matches(t)
                            /\ g # "read" => Readers = {}
    BY DEF Read, Write, LockSource, Guards
  <1>3. source' = source
    BY <1>1 DEF source
  <1>4. GuardType'
    BY <1>1, <1>2 DEF Guarded, GuardType
  <1>5. GuardMatchesSchema'
    BY <1>1, <1>2, <1>3 DEF Guarded, GuardType, GuardMatchesSchema, Matches
  <1>6. Exclusive'
    BY <1>1, <1>2 DEF Guarded, GuardType, Guards, Exclusive, Writers, Readers
  <1>. QED
    BY <1>1, <1>4, <1>5, <1>6 DEF Guarded, Shape, PoisonedIsUnused

\* Guards are given up, by a panic too, which poisons the lock when it was the
\* only one.
LEMMA UnlockStep ==
  ASSUME Guarded, NEW t \in Threads, Unlock(t) \/ Panic(t)
  PROVE  Guarded' /\ table' = table
  <1>1. UNCHANGED <<table, plan>> /\ guard' = [guard EXCEPT ![t] = "none"]
    BY DEF Unlock, Panic
  <1>2. source' = source
    BY <1>1 DEF source
  <1>3. GuardType' /\ Exclusive' /\ GuardMatchesSchema'
    BY <1>1, <1>2 DEF Guarded, GuardType, Guards, Exclusive, GuardMatchesSchema, Matches
  <1>4. poisoned' => poisoned \/ t \in Writers
    BY Zenon DEF Unlock, Panic
  <1>5. PoisonedIsUnused'
    BY <1>1, <1>4 DEF Guarded, GuardType, Guards, Exclusive, PoisonedIsUnused, Writers, Free
  <1>. QED
    BY <1>1, <1>3, <1>5 DEF Guarded, Shape

\* A write through a projection keeps the schema for the one who writes, and
\* there is no one else.
LEMMA WriteStep ==
  ASSUME Guarded, NEW t \in Threads, ProjectedWrite(t)
  PROVE  Guarded'
  <1>1. Shape' /\ source'.schema = source.schema /\ UNCHANGED <<plan, guard, poisoned>>
    BY ProjectedWriteTouches DEF OnlyColumns
  <1>. QED
    BY <1>1 DEF Guarded, GuardType, Exclusive, GuardMatchesSchema, Matches,
                PoisonedIsUnused, Free

\* The owner may replace the schema: no projection's guard is held then.
LEMMA EditStep ==
  ASSUME Guarded, NEW t \in Threads, EditSource(t)
  PROVE  Guarded'
  <1>1. Shape' /\ guard[t] = "raw" /\ UNCHANGED <<plan, guard, poisoned>>
    BY EditKeepsShape DEF EditSource, Guarded
  <1>2. \A u \in Threads : guard[u] \notin {"read", "write"}
    BY <1>1 DEF Guarded, Exclusive
  <1>. QED
    BY <1>1, <1>2 DEF Guarded, GuardType, Exclusive, GuardMatchesSchema,
                      PoisonedIsUnused, Free

\* What a step of the system is, from the prover's point of view.
LEMMA StepOfThread ==
  ASSUME SharedNext
  PROVE  \E t \in Threads :
           \/ FromShared(t) \/ \E positions \in Selections : Project(t, positions)
           \/ Read(t) \/ Write(t) \/ LockSource(t)
           \/ Unlock(t) \/ Panic(t)
           \/ ProjectedWrite(t)
           \/ EditSource(t)
  BY DEF SharedNext, ProjectedWrite

\* Every step keeps the invariant.
LEMMA GuardedNext == Guarded /\ [SharedNext]_sharedVars => Guarded'
  <1>. SUFFICES ASSUME Guarded, [SharedNext]_sharedVars PROVE Guarded'
    OBVIOUS
  <1>1. CASE SharedNext
    BY <1>1, StepOfThread, PlanStep, LockStep, UnlockStep, WriteStep, EditStep
  <1>2. CASE UNCHANGED sharedVars
    BY <1>2 DEF sharedVars, Guarded, Shape, GuardType, Exclusive, GuardMatchesSchema, Matches,
                source, PoisonedIsUnused, Free
  <1>. QED  BY <1>1, <1>2

\* The invariant holds in every reachable state.
THEOREM GuardedAlways == SharedSpec => []Guarded
  BY GuardedInit, GuardedNext, PTL DEF SharedSpec

-----------------------------------------------------------------------------
(* The theorems.                                                           *)

\* While a projection's guard is held, the source has the schema the plan was
\* made for, whoever replaces the table between guards
\* (SharedTableProjection::read and write).
THEOREM GuardSeesItsSchema == SharedSpec => []GuardMatchesSchema
  <1>1. Guarded => GuardMatchesSchema
    BY DEF Guarded
  <1>. QED  BY <1>1, GuardedAlways, PTL

\* After a writer's panic nobody holds a guard (PoisonError).
THEOREM PoisonedTableIsNotUsed == SharedSpec => []PoisonedIsUnused
  <1>1. Guarded => PoisonedIsUnused
    BY DEF Guarded
  <1>. QED  BY <1>1, GuardedAlways, PTL

\* A guard that was handed out can be used without another look at the schema or
\* the lock (SharedTableProjection::read and write).
THEOREM GuardsStayUsable == SharedSpec => []GuardsAreUsable
  BY GuardSeesItsSchema, PoisonedTableIsNotUsed, PTL DEF GuardsAreUsable

\* No step changes the tables while a projection's read guard is held.
THEOREM ReadersSeeOneTable == SharedSpec => ReadersAreStable
  <1>1. Guarded /\ [SharedNext]_sharedVars => [Readers # {} => table' = table]_sharedVars
    <2>. SUFFICES ASSUME Guarded, SharedNext, Readers # {} PROVE table' = table
      OBVIOUS
    <2>1. \A t \in Threads : guard[t] \notin {"write", "raw"}
      BY DEF Guarded, Exclusive, Readers
    <2>2. \A t \in Threads : ~ProjectedWrite(t) /\ ~EditSource(t)
      BY <2>1 DEF ProjectedWrite, SetProjected, SetProjectedNamed, MarkProjected, EditSource
    <2>. QED  BY <2>2, StepOfThread, PlanStep, LockStep, UnlockStep
  <1>. QED  BY <1>1, GuardedAlways, PTL DEF SharedSpec, ReadersAreStable

\* What happens while a projection's write guard is held leaves the columns
\* outside the projection, the number of rows and the schema alone
\* (SharedTableWriteGuard::set, set_named, tombstone_row, restore_row).
THEOREM ProjectionsConfineWrites == SharedSpec => OmittedColumnsUntouched
  <1>. DEFINE Confined(t) ==
         LET after == table'[Source] IN
         /\ after.schema = source.schema
         /\ after.rowCount = source.rowCount
         /\ \A c \in DOMAIN source.columns :
              (\A j \in DOMAIN plan[t].columns : plan[t].columns[j] # c)
                => after.columns[c] = source.columns[c]
  <1>1. ASSUME NEW t, OnlyColumns(Projection(t)) PROVE Confined(t)
    BY <1>1 DEF OnlyColumns, Projection, source
  <1>2. ASSUME NEW t, table' = table PROVE Confined(t)
    BY <1>2 DEF source
  <1>3. Guarded /\ [SharedNext]_sharedVars
        => [\A t \in Threads : guard[t] = "write" => Confined(t)]_sharedVars
    <2>. SUFFICES ASSUME Guarded, SharedNext, NEW t \in Threads, guard[t] = "write"
                  PROVE  Confined(t)
      BY Zenon
    <2>1. PICK u \in Threads :
            \/ FromShared(u) \/ \E positions \in Selections : Project(u, positions)
            \/ Read(u) \/ Write(u) \/ LockSource(u)
            \/ Unlock(u) \/ Panic(u)
            \/ ProjectedWrite(u)
            \/ EditSource(u)
      BY StepOfThread
    <2>. HIDE DEF Confined
    <2>2. CASE table' = table
      BY <2>2, <1>2
    <2>3. CASE ProjectedWrite(u)
      <3>1. u = t
        BY <2>3 DEF Guarded, Exclusive, ProjectedWrite, SetProjected, SetProjectedNamed,
                    MarkProjected
      <3>. QED  BY <2>3, <3>1, <1>1, ProjectedWriteTouches
    <2>4. CASE EditSource(u)
      BY <2>4 DEF Guarded, Exclusive, EditSource
    <2>. QED  BY <2>1, <2>2, <2>3, <2>4, PlanStep, LockStep, UnlockStep
  <1>. QED  BY <1>3, GuardedAlways, PTL DEF SharedSpec, OmittedColumnsUntouched

-----------------------------------------------------------------------------
(* The tables of a shared projection.                                      *)

\* A plan names columns of the schema that it was made for.
PlanOk(p) ==
  p # NULL =>
    /\ p = [schema |-> p.schema, columns |-> p.columns]
    /\ \A j \in DOMAIN p.columns : p.columns[j] \in Positions(p.schema)

PlansOk == \A t \in Threads : PlanOk(plan[t])

\* The tables are whole under the lock too.
SharedInv == Guarded /\ TableInv /\ PlansOk

\* At first they are, and there are no plans.
LEMMA SharedInitOk == SharedInit => SharedInv
  BY GuardedInit, InitOk DEF SharedInit, SharedInv, PlansOk, PlanOk

\* A plan is made of all columns, or of some of those of another.
LEMMA PlansStayOk ==
  ASSUME SharedInv, NEW t \in Threads,
         FromShared(t) \/ \E positions \in Selections : Project(t, positions)
  PROVE  PlansOk'
  <1>. SUFFICES ASSUME NEW p, PlanOk(p), plan' = [plan EXCEPT ![t] = p]
                PROVE  PlansOk'
    <2>1. CASE FromShared(t)
      <3>1. PlanOk(FullPlan(source.schema))
        BY DEF PlanOk, FullPlan
      <3>. QED  BY <2>1, <3>1, Zenon DEF FromShared
    <2>2. ASSUME NEW positions \in Selections, Project(t, positions)
          PROVE  \E p : PlanOk(p) /\ plan' = [plan EXCEPT ![t] = p]
      <3>. DEFINE old == plan[t]
                  columns == [j \in DOMAIN positions |-> old.columns[positions[j]]]
                  p == [schema |-> old.schema, columns |-> columns]
      <3>1. /\ old # NULL /\ plan' = [plan EXCEPT ![t].columns = columns]
            /\ \A j \in DOMAIN positions : positions[j] \in DOMAIN old.columns
        <4>1. plan' = [plan EXCEPT ![t].columns = columns]
          BY <2>2, Zenon DEF Project
        <4>2. old # NULL /\ \A j \in DOMAIN positions : positions[j] \in DOMAIN old.columns
          BY <2>2, Zenon DEF Project
        <4>. QED  BY <4>1, <4>2
      <3>2. /\ old = [schema |-> old.schema, columns |-> old.columns]
            /\ \A j \in DOMAIN old.columns : old.columns[j] \in Positions(old.schema)
        BY <3>1 DEF SharedInv, PlansOk, PlanOk
      <3>3. [old EXCEPT !.columns = columns] = p
        <4>. HIDE DEF columns, old
        <4>. QED  BY <3>2
      <3>4. PlanOk(p)
        BY <3>1, <3>2 DEF PlanOk
      <3>. QED  BY <3>1, <3>3, <3>4
    <2>. QED  BY <2>1, <2>2
  <1>1. \A u \in Threads : plan'[u] = IF u = t THEN p ELSE plan[u]
    BY DEF SharedInv, Guarded, GuardType
  <1>. QED  BY <1>1 DEF SharedInv, PlansOk

\* Under a guard the columns of the plan are those of the table.
LEMMA PlanReaches ==
  ASSUME SharedInv, NEW t \in Threads, guard[t] \in {"read", "write"}
  PROVE  \A j \in DOMAIN plan[t].columns : plan[t].columns[j] \in Positions(source.schema)
  BY Zenon DEF SharedInv, Guarded, GuardMatchesSchema, Matches, PlansOk, PlanOk

\* A step of the rows of all tables, or none.
RowStep == [Rows!Next]_Rows!absVars

\* A write through a projection edits a row of the table.
LEMMA ProjectedEdit ==
  ASSUME SharedInv, NEW t \in Threads, NEW i \in RowPositions(Source),
         \/ \E v \in CellInputs :
              \/ \E j \in 1..(Width(source.schema) + 1) : SetProjected(t, i, j, v)
              \/ \E name \in Names : SetProjectedNamed(t, i, name, v)
         \/ MarkProjected(t, i)
  PROVE  TableInv' /\ Rows!Next
  <1>1. TableInv /\ Source \in Tables /\ i \in Nat \ {0}
    BY SourceAssumption, Places DEF SharedInv, RowPositions
  <1>2. guard[t] = "write"
    BY DEF SetProjected, SetProjectedNamed, MarkProjected
  <1>3. \A j \in DOMAIN plan[t].columns : plan[t].columns[j] \in Nat
    <2>1. \A c \in Positions(source.schema) : c \in Nat
      BY <1>1, Places DEF source
    <2>. QED  BY <1>2, <2>1, PlanReaches
  <1>4. ASSUME NEW c \in Nat, NEW v \in CellInputs, SetCell(Source, i, c, v)
        PROVE  TableInv' /\ Rows!Next
    <2>1. /\ TableInv'
          /\ Rows!Fail \/ (/\ c \in Positions(table[Source].schema) /\ i \in 1..table[Source].rowCount
                           /\ Rows!SetCell(Source, i, c, v))
      BY ONLY <1>1, <1>4, SetCellOk
    <2>. QED  BY <1>1, <2>1, CallIsStep, EditIsStep, Zenon
  <1>5. ASSUME Refuse  PROVE TableInv' /\ Rows!Next
    BY <1>1, <1>5, RefuseOk, CallIsStep, Zenon
  <1>6. ASSUME NEW v \in CellInputs, NEW j, SetProjected(t, i, j, v)
        PROVE  TableInv' /\ Rows!Next
    BY <1>3, <1>4, <1>5, <1>6 DEF SetProjected
  <1>7. ASSUME NEW v \in CellInputs, NEW name \in Names, SetProjectedNamed(t, i, name, v)
        PROVE  TableInv' /\ Rows!Next
    <2>. DEFINE j == ProjectedIndex(t, name)
    <2>1. CASE j # NULL
      <3>1. plan[t].columns[j] \in Nat
        BY <1>3, <2>1, ProjectedIndexInside
      <3>2. SetCell(Source, i, plan[t].columns[j], v)
        BY <1>7, <2>1 DEF SetProjectedNamed
      <3>. QED  BY <1>4, <3>1, <3>2
    <2>2. CASE j = NULL /\ ColumnIndex(plan[t].schema, name) # NULL
      <3>1. Refuse
        BY <1>7, <2>2 DEF SetProjectedNamed
      <3>. QED  BY <1>5, <3>1
    <2>3. CASE j = NULL /\ ColumnIndex(plan[t].schema, name) = NULL
      <3>1. SetNamed(Source, i, name, v)
        BY <1>7, <2>3 DEF SetProjectedNamed
      <3>2. /\ TableInv'
            /\ \/ Rows!Fail
               \/ \E c \in Positions(table[Source].schema) :
                    i \in 1..table[Source].rowCount /\ Rows!SetCell(Source, i, c, v)
               \/ i \in 1..table[Source].rowCount /\ Rows!SetExtra(Source, i, name, v)
        BY ONLY <1>1, <1>7, <3>1, SetNamedOk
      <3>. QED  BY <1>1, <3>2, CallIsStep, EditIsStep, Zenon
    <2>. QED  BY <2>1, <2>2, <2>3
  <1>8. ASSUME MarkProjected(t, i)  PROVE TableInv' /\ Rows!Next
    <2>1. TombstoneRow(Source, i) \/ RestoreRow(Source, i)
      BY <1>8 DEF MarkProjected
    <2>2. /\ TableInv'
          /\ Rows!Fail \/ (i \in 1..table[Source].rowCount /\ \E d \in BOOLEAN : Rows!Mark(Source, i, d))
      <3>1. CASE TombstoneRow(Source, i)
        BY ONLY <1>1, <3>1, TombstoneRowOk
      <3>2. CASE RestoreRow(Source, i)
        BY ONLY <1>1, <3>2, RestoreRowOk
      <3>. QED  BY <2>1, <3>1, <3>2, Zenon
    <2>. QED  BY <1>1, <2>2, CallIsStep, EditIsStep, Zenon
  <1>. QED  BY <1>6, <1>7, <1>8, Zenon

\* What the owner of the table does leaves it whole.
LEMMA SourceStaysWhole ==
  ASSUME SharedInv, NEW t \in Threads, EditSource(t)
  PROVE  TableInv'
  <1>1. TableInv /\ Source \in Tables
    BY SourceAssumption DEF SharedInv
  <1>2. ASSUME NEW values \in RowInputs, NEW extras \in ExtraInputs, PushRow(Source, values, extras)
        PROVE  TableInv'
    BY ONLY <1>1, <1>2, PushRowOk
  <1>3. ASSUME PopRow(Source)  PROVE TableInv'
    BY ONLY <1>1, <1>3, PopRowOk
  <1>4. ASSUME Compact(Source)  PROVE TableInv'
    BY ONLY <1>1, <1>4, CompactOk
  <1>5. ASSUME NEW schema \in Schemas, Return(Source, NewTable(schema))  PROVE TableInv'
    <2>1. IsTable(NewTable(schema))
      BY NewTableOk
    <2>. QED  BY ONLY <1>1, <1>5, <2>1, ReturnOk
  <1>. QED  BY <1>2, <1>3, <1>4, <1>5, Zenon DEF EditSource

\* Every step leaves the tables whole, and is a step of their rows for as long as
\* someone holds the write guard of a projection.
LEMMA SharedStepOk ==
  ASSUME SharedInv, [SharedNext]_sharedVars
  PROVE  /\ SharedInv'
         /\ (\E t \in Threads : guard[t] = "write") => RowStep
  <1>0. Guarded'
    BY GuardedNext DEF SharedInv
  <1>1. ASSUME UNCHANGED <<table, outcome>>  PROVE TableInv' /\ RowStep
    <2>1. UNCHANGED vars
      BY <1>1 DEF vars
    <2>. QED  BY <2>1, StutterOk DEF SharedInv, RowStep
  <1>2. ASSUME UNCHANGED plan  PROVE PlansOk'
    BY <1>2 DEF SharedInv, PlansOk
  <1>3. CASE UNCHANGED sharedVars
    BY <1>0, <1>1, <1>2, <1>3 DEF SharedInv, sharedVars
  <1>4. ASSUME NEW t \in Threads,
               FromShared(t) \/ \E positions \in Selections : Project(t, positions)
        PROVE  SharedInv' /\ RowStep
    <2>1. UNCHANGED <<table, outcome>>
      BY <1>4, Zenon DEF FromShared, Project
    <2>. QED  BY <1>0, <1>1, <1>4, <2>1, PlansStayOk DEF SharedInv
  <1>5. ASSUME NEW t \in Threads, Read(t) \/ Write(t) \/ LockSource(t) \/ Unlock(t) \/ Panic(t)
        PROVE  SharedInv' /\ RowStep
    <2>1. UNCHANGED <<table, outcome, plan>>
      BY <1>5 DEF Read, Write, LockSource, Unlock, Panic
    <2>. QED  BY <1>0, <1>1, <1>2, <2>1 DEF SharedInv
  <1>6. ASSUME NEW t \in Threads, NEW i \in RowPositions(Source),
               \/ \E v \in CellInputs :
                    \/ \E j \in 1..(Width(source.schema) + 1) : SetProjected(t, i, j, v)
                    \/ \E name \in Names : SetProjectedNamed(t, i, name, v)
               \/ MarkProjected(t, i)
        PROVE  SharedInv' /\ RowStep
    <2>1. TableInv' /\ Rows!Next
      BY <1>6, ProjectedEdit, Zenon
    <2>2. UNCHANGED plan
      BY <1>6 DEF SetProjected, SetProjectedNamed, MarkProjected
    <2>. QED  BY <1>0, <1>2, <2>1, <2>2 DEF SharedInv, RowStep
  <1>7. ASSUME NEW t \in Threads, EditSource(t)
        PROVE  SharedInv' /\ \A u \in Threads : guard[u] # "write"
    <2>1. TableInv' /\ UNCHANGED plan /\ guard[t] = "raw"
      BY <1>7, SourceStaysWhole DEF EditSource
    <2>2. \A u \in Threads : guard[u] # "write"
      BY <2>1 DEF SharedInv, Guarded, Exclusive
    <2>. QED  BY <1>0, <1>2, <2>1, <2>2 DEF SharedInv
  <1>. QED  BY <1>3, <1>4, <1>5, <1>6, <1>7, Zenon DEF SharedNext

\* The invariant holds in every reachable state.
THEOREM SharedTablesKeepShape == SharedSpec => []SharedInv
  <1>1. SharedInv /\ [SharedNext]_sharedVars => SharedInv'
    BY SharedStepOk
  <1>. QED  BY <1>1, SharedInitOk, PTL DEF SharedSpec

\* The vectors of a table that is shared never drift apart, whoever writes it,
\* through whatever plan.
THEOREM SharedTablesAreAligned == SharedSpec => []Aligned
  <1>1. SharedInv => Aligned
    BY ShapeIsAligned DEF SharedInv
  <1>. QED  BY <1>1, SharedTablesKeepShape, PTL

\* Every row of it is one its schema allows.
THEOREM SharedRowsStayLegal == SharedSpec => []RowsAreLegal
  <1>1. SharedInv => RowsAreLegal
    BY CellsAreValid, FieldsKept DEF RowsAreLegal, SharedInv
  <1>. QED  BY <1>1, SharedTablesKeepShape, PTL

\* What happens while the write guard of a projection is held.
WritesAreEdits == [][(\E t \in Threads : guard[t] = "write") => RowStep]_sharedVars

\* A write through a projection changes the rows of the table as a call of the
\* table does, or it is refused and changes nothing.
THEOREM ProjectionsEditRows == SharedSpec => WritesAreEdits
  <1>1. SharedInv /\ [SharedNext]_sharedVars
          => [(\E t \in Threads : guard[t] = "write") => RowStep]_sharedVars
    BY SharedStepOk
  <1>. QED  BY <1>1, SharedTablesKeepShape, PTL DEF SharedSpec, WritesAreEdits
=============================================================================
