------------------------------ MODULE RowRanges ------------------------------
(***************************************************************************)
(* Mutable rows (table/row_mut.rs): a table lends all its rows as a range, *)
(* a range is split at a row boundary by its holder or, recursively, by    *)
(* par_for_each, and threads change the rows of their own ranges without a *)
(* lock.  That this is sound rests on one thing: a split divides every     *)
(* vector of the table, the validity of nullable numbers, the extra fields *)
(* and the deletion flags included, at the same place.                     *)
(*                                                                         *)
(* Positions count from 0, as in the code; sequences from 1.               *)
(***************************************************************************)
EXTENDS TableSchema

CONSTANTS
  Operations,   \* what callers do to a row: [live : BOOLEAN, edits : Seq(Edits)]
  InitialRows,  \* pairs of a schema and the rows that a table has under it
  Numbers,      \* data types that nullable columns keep apart from validity
  Zero,         \* the value in the slot of a pushed null
  Grains,       \* values of min_rows
  Callers,      \* threads of the callers, to which they lend ranges
  Pool          \* threads of rayon's pool

\* par_for_each panics when min_rows is zero.
ASSUME GrainsAssumption == Grains \subseteq Nat \ {0}

ASSUME NullAssumption ==
  NULL \notin Operations \cup [operation : Operations, min_rows : Grains]

ASSUME OperationsAssumption ==
  \A operation \in Operations :
    /\ Len(operation.edits) \in Nat
    /\ operation.edits # <<>> => Len(operation.edits) > 0

\* Rows are a sequence of what rows of a table with that schema are.
IsRow(s, row) ==
  /\ row = [cells |-> row.cells, extra |-> row.extra, dead |-> row.dead]
  /\ row.cells = [c \in 1..Width(s) |-> row.cells[c]]
  /\ ~s.open => row.extra = NoExtras
  /\ row.dead \in BOOLEAN

ASSUME InitialRowsAssumption ==
  \A table \in InitialRows :
    /\ Len(table[2]) \in Nat /\ table[2] = [i \in 1..Len(table[2]) |-> table[2][i]]
    /\ \A i \in DOMAIN table[2] : IsRow(table[1], table[2][i])

ASSUME ThreadsAssumption == Callers \cap Pool = {}

VARIABLES
  schema,  \* the table's schema
  count,   \* its row_count
  store,   \* store[v]: vector v of the table
  ranges,  \* the ranges (RowsMut) that no thread is working on
  job      \* job[t]: what thread t does with the range it took; busy threads have one

vars == <<schema, count, store, ranges, job>>

Threads == Callers \cup Pool

Busy == DOMAIN job

-----------------------------------------------------------------------------
(* The vectors of a table.                                                 *)

IsSplit(spec) == spec.nullable /\ spec.type \in Numbers

\* Column c is vector <<"values", c>>, and <<"valid", c>> in NullableNumbers.
VectorsOf(s, flagged) ==
  {<<"values", c>> : c \in Positions(s)}
    \cup {<<"valid", c>> : c \in {d \in Positions(s) : IsSplit(s.columns[d])}}
    \cup (IF s.open THEN {<<"extras", 0>>} ELSE {})
    \cup (IF flagged THEN {<<"flags", 0>>} ELSE {})

\* The table that the rows were pushed to; flags exist while a row is marked.
Element(s, v, row) ==
  CASE v[1] = "values" ->
         LET cell == row.cells[v[2]] IN
         IF IsSplit(s.columns[v[2]]) /\ cell = NULL THEN Zero ELSE cell
    [] v[1] = "valid" -> row.cells[v[2]] # NULL
    [] v[1] = "extras" -> row.extra
    [] v[1] = "flags" -> row.dead

StoreOf(s, new) ==
  [v \in VectorsOf(s, \E i \in DOMAIN new : new[i].dead) |->
     [i \in DOMAIN new |-> Element(s, v, new[i])]]

-----------------------------------------------------------------------------
(* Ranges.                                                                 *)

\* A range holds a slice of every vector.  Its work is the par_for_each that
\* consumes it; while that is NULL, the range belongs to a caller.
RowRange(start, len, slices, work) ==
  [start |-> start, len |-> len, slices |-> slices, work |-> work]

RowsMut ==
  RowRange(0, count, [v \in DOMAIN store |-> [base |-> 0, len |-> Len(store[v])]], NULL)

\* Mutant: the validity is not divided.
RightValidFromStart(r, mid) ==
  RowRange(r.start + mid, r.len - mid,
        [v \in DOMAIN r.slices |->
           [base |-> r.slices[v].base + IF v[1] = "valid" THEN 0 ELSE mid,
            len |-> r.slices[v].len - mid]],
        r.work)

\* RowsMut::split_at.
LeftOf(r, mid) ==
  RowRange(r.start, mid,
        [v \in DOMAIN r.slices |-> [base |-> r.slices[v].base, len |-> mid]],
        r.work)

RightOf(r, mid) ==
  RowRange(r.start + mid, r.len - mid,
        [v \in DOMAIN r.slices |->
           [base |-> r.slices[v].base + mid, len |-> r.slices[v].len - mid]],
        r.work)

\* The element of vector v that row i of range r has: get and get_mut.
Has(r, v, i) == v \in DOMAIN r.slices /\ i < r.slices[v].len

Index(r, v, i) == r.slices[v].base + i + 1

At(r, v, i) == store[v][Index(r, v, i)]

-----------------------------------------------------------------------------
(* One row of a range.                                                     *)

\* ColumnRangeMut::get.
Cell(r, c, i) ==
  IF IsSplit(schema.columns[c]) /\ ~At(r, <<"valid", c>>, i)
  THEN NULL
  ELSE At(r, <<"values", c>>, i)

\* RowMut::get_named.
Named(r, i, name) ==
  LET c == ColumnIndex(schema, name) IN
  IF c # NULL THEN Cell(r, c, i)
  ELSE IF schema.open /\ name \in DOMAIN At(r, <<"extras", 0>>, i)
       THEN At(r, <<"extras", 0>>, i)[name]
       ELSE NULL

\* RowMut::is_tombstoned.
IsTombstoned(r, i) == Has(r, <<"flags", 0>>, i) /\ At(r, <<"flags", 0>>, i)

Put(v, k, x) == [store EXCEPT ![v][k] = x]

\* Mutant: a null is not recorded.
PutCellKeepingNull(r, c, i, w) ==
  IF w = NULL THEN store ELSE Put(<<"values", c>>, Index(r, <<"values", c>>, i), w)

\* CellSlotMut::set: a null leaves the number in its slot.
PutCell(r, c, i, w) ==
  LET values == <<"values", c>>
      valid == <<"valid", c>>
  IN IF ~IsSplit(schema.columns[c]) THEN Put(values, Index(r, values, i), w)
     ELSE IF w = NULL THEN Put(valid, Index(r, valid, i), FALSE)
     ELSE [Put(valid, Index(r, valid, i), TRUE)
             EXCEPT ![values][Index(r, values, i)] = w]

\* RowMut::set_named; a value that is refused changes nothing.
PutNamed(r, i, name, v) ==
  LET c == ColumnIndex(schema, name)
      w == IF c = NULL THEN v ELSE Prepare(schema.columns[c], v)
      extras == <<"extras", 0>>
  IN IF w = ERR \/ (c = NULL /\ ~schema.open) THEN store
     ELSE IF c # NULL THEN PutCell(r, c, i, w)
     ELSE Put(extras, Index(r, extras, i), WithExtra(At(r, extras, i), name, w))

-----------------------------------------------------------------------------
(* The table lends its rows.                                               *)

Init ==
  /\ \E table \in InitialRows :
       /\ schema = table[1]
       /\ count = Len(table[2])
       /\ store = StoreOf(table[1], table[2])
  /\ ranges = {}
  /\ job = [t \in {} |-> NULL]

\* Nothing can be done with an empty range: it is let go of at once.
NonEmpty(new) == {r \in new : r.len > 0}

\* Table::rows_mut: the table is not borrowed.
Borrow ==
  /\ ranges = {} /\ Busy = {}
  /\ ranges' = NonEmpty({RowsMut})
  /\ UNCHANGED <<schema, count, store, job>>

\* The holder of a range lets go of it.
Drop(r) ==
  /\ r.work = NULL
  /\ ranges' = ranges \ {r}
  /\ UNCHANGED <<schema, count, store, job>>

Divide(r, mid) ==
  /\ ranges' = (ranges \ {r}) \cup NonEmpty({LeftOf(r, mid), RightOf(r, mid)})
  /\ UNCHANGED <<schema, count, store, job>>

\* RowsMut::split_at, by a caller: a position behind the range panics.
SplitAt(r, mid) == r.work = NULL /\ mid <= r.len /\ Divide(r, mid)

\* par_for_each consumes the range.
ParForEach(r, operation, min_rows) ==
  LET work == [operation |-> operation, min_rows |-> min_rows] IN
  /\ r.work = NULL
  /\ ranges' = (ranges \ {r}) \cup
       {RowRange(r.start, r.len, r.slices, work)}
  /\ UNCHANGED <<schema, count, store, job>>

\* Mutant: the first half is never smaller than the grain, nor than the range.
SplitRoundedUp(r) == r.work # NULL /\ r.len > r.work.min_rows /\ Divide(r, r.len)

\* par_for_each_inner on a range that is longer than the grain.
ParSplit(r) == r.work # NULL /\ r.len > r.work.min_rows /\ Divide(r, r.len \div 2)

-----------------------------------------------------------------------------
(* A thread works on the rows first..last of its range.                    *)

\* step: the edit that comes next, 0 before the row is entered.  value: what
\* was read for it, once got.  old: the row when it was entered (history).
\* owed: whether the range was consumed by for_each or par_for_each.
Job(r, first, last, operation, owed) ==
  [range |-> r, row |-> first, last |-> last, operation |-> operation, owed |-> owed,
   step |-> 0, got |-> FALSE, value |-> NULL, old |-> NULL]

\* Job j when it has come as far as this in its row.
Progress(j, step, got, value, old) ==
  [range |-> j.range, row |-> j.row, last |-> j.last, operation |-> j.operation,
   owed |-> j.owed, step |-> step, got |-> got, value |-> value, old |-> old]

Take(t, r, new) ==
  /\ t \notin Busy
  /\ ranges' = ranges \ {r}
  /\ job' = [u \in Busy \cup {t} |-> IF u = t THEN new ELSE job[u]]
  /\ UNCHANGED <<schema, count, store>>

\* RowsMut::for_each.
ForEach(t, r, operation) ==
  /\ r.work = NULL
  /\ Take(t, r, Job(r, 0, r.len - 1, operation, TRUE))

\* par_for_each_inner on a range within the grain.
ParStart(t, r) ==
  /\ r.work # NULL /\ r.len <= r.work.min_rows
  /\ Take(t, r, Job(r, 0, r.len - 1, r.work.operation, TRUE))

\* RowsMut::row_mut and Table::row_mut: one row, and the range is free again.
RowMut(t, r, i, operation) ==
  /\ r.work = NULL /\ i < r.len
  /\ Take(t, r, Job(r, i, i, operation, FALSE))

\* The view of the row is given up.
Leave(t) ==
  LET j == job[t] IN
  IF j.row < j.last
  THEN /\ job' = [job EXCEPT ![t] = Job(j.range, j.row + 1, j.last, j.operation, j.owed)]
       /\ UNCHANGED ranges
  ELSE /\ job' = [u \in Busy \ {t} |-> job[u]]
       /\ ranges' = IF j.owed THEN ranges ELSE ranges \cup {j.range}

\* The row as the table has it.
RowAt(i) ==
  LET r == RowsMut IN
  [cells |-> [c \in Positions(schema) |-> Cell(r, c, i)],
   extra |-> IF schema.open THEN At(r, <<"extras", 0>>, i) ELSE NoExtras,
   dead |-> IsTombstoned(r, i)]

Skips(j) ==
  \/ j.operation.edits = <<>>
  \/ j.operation.live /\ IsTombstoned(j.range, j.row)

Enter(t) ==
  LET j == job[t] IN
  /\ t \in Busy /\ j.step = 0
  /\ IF Skips(j) THEN Leave(t)
     ELSE /\ job' = [job EXCEPT
                       ![t] = Progress(j, 1, FALSE, NULL, RowAt(j.range.start + j.row))]
          /\ UNCHANGED ranges
  /\ UNCHANGED <<schema, count, store>>

Read(t) ==
  LET j == job[t]
      v == Named(j.range, j.row, j.operation.edits[j.step].from)
  IN /\ t \in Busy /\ j.step > 0 /\ ~j.got
     /\ job' = [job EXCEPT ![t] = Progress(j, j.step, TRUE, v, j.old)]
     /\ UNCHANGED <<schema, count, store, ranges>>

Write(t) ==
  LET j == job[t]
      edit == j.operation.edits[j.step]
  IN /\ t \in Busy /\ j.step > 0 /\ j.got
     /\ store' = PutNamed(j.range, j.row, edit.to, edit.by[j.value])
     /\ IF j.step < Len(j.operation.edits)
        THEN /\ job' = [job EXCEPT ![t] = Progress(j, j.step + 1, FALSE, NULL, j.old)]
             /\ UNCHANGED ranges
        ELSE Leave(t)
     /\ UNCHANGED <<schema, count>>

Work(t) == Enter(t) \/ Read(t) \/ Write(t)

Serve(t) == Work(t) \/ \E r \in ranges : ParStart(t, r)

Next ==
  \/ Borrow
  \/ \E r \in ranges :
       \/ Drop(r)
       \/ \E mid \in 0..r.len : SplitAt(r, mid)
       \/ \E operation \in Operations :
            \/ \E min_rows \in Grains : ParForEach(r, operation, min_rows)
            \/ \E t \in Callers :
                 \/ ForEach(t, r, operation)
                 \/ \E i \in 0..(r.len - 1) : RowMut(t, r, i, operation)
       \/ ParSplit(r)
  \/ \E t \in Callers : Work(t)
  \/ \E t \in Pool : Serve(t)

Spec == Init /\ [][Next]_vars

\* A thread that works on rows goes on, and rayon's pool starts what was
\* given to it.  Callers need not do anything with their ranges.
FairSpec ==
  /\ Spec
  /\ WF_vars(\E r \in ranges : ParSplit(r))
  /\ \A t \in Callers : WF_vars(Work(t))
  /\ \A t \in Pool : WF_vars(Serve(t))

-----------------------------------------------------------------------------
(* Properties.                                                             *)

Held == ranges \cup {job[t].range : t \in Busy}

\* Every slice of a range lies in its vector, whose length is the table's
\* row_count, and a thread works on a row of its range.
TypeOK ==
  /\ \A v \in DOMAIN store : Len(store[v]) = count
  /\ \A r \in Held :
       /\ DOMAIN r.slices = DOMAIN store
       /\ \A v \in DOMAIN store : r.slices[v].base + r.slices[v].len <= count
  /\ \A t \in Busy :
       /\ job[t].row <= job[t].last /\ job[t].last < job[t].range.len
       /\ job[t].step <= Len(job[t].operation.edits)

\* All vectors are divided at the same row: row i of a range is row start + i
\* in every column, in the validity of every nullable column of numbers, in the
\* extra fields and in the flags (RowsMut::split_at, row_mut.rs:735).
SlicesAgree ==
  \A r \in Held : \A v \in DOMAIN store :
    r.slices[v].base = r.start /\ r.slices[v].len = r.len

\* The elements <<v, k>> of the table's vectors that range r can reach.
Reach(r) ==
  {e \in (DOMAIN store) \X (1..count) :
     /\ r.slices[e[1]].base < e[2]
     /\ e[2] <= r.slices[e[1]].base + r.slices[e[1]].len}

\* No element of any vector is reached through two ranges, whoever holds them:
\* "The two returned ranges therefore contain no overlapping mutable references"
\* (RowsMut, row_mut.rs:666).
RangesDisjoint ==
  /\ \A r, s \in ranges : r # s => Reach(r) \cap Reach(s) = {}
  /\ \A t \in Busy, r \in ranges : Reach(job[t].range) \cap Reach(r) = {}
  /\ \A t, u \in Busy : t # u => Reach(job[t].range) \cap Reach(job[u].range) = {}

\* What a thread does through its range touches the rows of that range, in every
\* column, and no row another thread can reach at the same time.
RangesAreExclusive == SlicesAgree /\ RangesDisjoint

\* "scheduled ranges never exceed that size" (par_for_each, row_mut.rs:787).
GrainIsKept ==
  \A t \in Pool \cap Busy : job[t].range.len <= job[t].range.work.min_rows

\* A row is the one that its thread entered until the thread leaves it.
RowsSeen ==
  [i \in 1..count |->
     LET here == {t \in Busy : job[t].step > 0 /\ job[t].range.start + job[t].row + 1 = i} IN
     IF here = {} THEN RowAt(i - 1) ELSE job[CHOOSE t \in here : TRUE].old]

\* Rows of ranges that par_for_each has, and rows that a thread has yet to do.
OperationsOwed ==
  [i \in 1..count |->
     LET waiting == {r \in ranges : r.work # NULL /\ r.start < i /\ i <= r.start + r.len}
         coming == {t \in Busy : /\ job[t].owed
                                 /\ job[t].range.start + job[t].row < i
                                 /\ i <= job[t].range.start + job[t].last + 1}
     IN IF waiting # {} THEN (CHOOSE r \in waiting : TRUE).work.operation
        ELSE IF coming # {} THEN job[CHOOSE t \in coming : TRUE].operation
        ELSE NULL]

Edits == INSTANCE RowEdits WITH rows <- RowsSeen, todo <- OperationsOwed

\* However ranges are split and threads interleave, every row that for_each or
\* par_for_each owes an operation gets it exactly once, as if all of it happened
\* at once, and no other row changes; the values, nulls, extra fields and marks
\* that it sees are those of its own row (par_for_each_inner, row_mut.rs:804).
ImplementsRowEdits == Edits!Spec

\* for_each and par_for_each return: no row waits for its operation for ever
\* (par_for_each_inner, row_mut.rs:804).
OperationsFinish ==
  (\E i \in 1..count : OperationsOwed[i] # NULL)
    ~> (\A i \in 1..count : OperationsOwed[i] = NULL)
=============================================================================
