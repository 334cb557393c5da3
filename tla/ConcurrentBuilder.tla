-------------------------- MODULE ConcurrentBuilder --------------------------
(***************************************************************************)
(* ConcurrentTableBuilder (table/concurrent.rs): producers validate rows   *)
(* and push them into a ConcurrentVec; in the end its owner turns the rows *)
(* into a table.                                                           *)
(*                                                                         *)
(* The ConcurrentVec is a library (orx_concurrent_vec): a push or an       *)
(* extend reserves its positions in one step and then writes the elements  *)
(* one by one, so that a later reservation can be written before an        *)
(* earlier one; its len is the length of the prefix without gaps.          *)
(***************************************************************************)
EXTENDS TableSchema

CONSTANTS
  Producers,  \* threads that share the builder
  Schema,     \* the builder's schema
  Targets,    \* schemas of tables that append_to appends to
  Existing,   \* the rows that such a table has
  Inputs,     \* calls: sequences of [values, extras]
  MaxCalls    \* bound: calls that pass validation

VARIABLES
  slots,     \* slots[i]: the row at a reserved position, NULL until written
  call,      \* call[p]: the call p is in, [rows, begin, done], or NULL
  returned,  \* results of finished calls, [rows, begin]
  started,   \* number of calls that passed validation
  table      \* the table the builder was turned into, NULL before

vars == <<slots, call, returned, started, table>>

\* A row is stored as prepare_row and collect_extras leave it.
PendingRow(input) ==
  [values |-> PrepareRow(Schema, input.values),
   extras |-> CollectExtras(Schema, input.extras)]

Valid(input) == PendingRow(input).values # ERR /\ PendingRow(input).extras # ERR

RangeOf(batch) == {batch[i] : i \in DOMAIN batch}

Prepared(batch) == [i \in DOMAIN batch |-> PendingRow(batch[i])]

\* What calls that pass validation add.
Batches == {Prepared(b) : b \in {b \in Inputs : \A i \in DOMAIN b : Valid(b[i])}}

BatchRows == UNION {RangeOf(batch) : batch \in Batches}

ASSUME SchemaAssumption == Width(Schema) \in Nat

ASSUME RowsAssumption == \A rows \in Inputs \cup {Existing} : rows \in Seq(RangeOf(rows))

ASSUME NullAssumption ==
  /\ NULL \notin BatchRows
  /\ NULL \notin [rows : Batches, begin : Nat, done : Nat]
  /\ NULL \notin [kept : Nat, rows : Seq(BatchRows \cup RangeOf(Existing))]

\* row_count.
RowCount ==
  CHOOSE n \in 0..Len(slots) :
    /\ \A i \in 1..n : slots[i] # NULL
    /\ n < Len(slots) => slots[n + 1] = NULL

AllReturned == \A p \in Producers : call[p] = NULL

Init ==
  /\ slots = <<>>
  /\ call = [p \in Producers |-> NULL]
  /\ returned = {}
  /\ started = 0
  /\ table = NULL

-----------------------------------------------------------------------------
(* Producers.                                                              *)

\* Mutant: extend_rows validates a row when it comes to it.
ValidateFirst(p, batch) ==
  /\ call[p] = NULL /\ table = NULL
  /\ started < MaxCalls
  /\ \A i \in DOMAIN batch : i = 1 => Valid(batch[i])
  /\ call' = [call EXCEPT ![p] = [rows |-> Prepared(batch), begin |-> 0, done |-> 0]]
  /\ started' = started + 1
  /\ UNCHANGED <<slots, returned, table>>

\* push_row, push_row_vec, push_row_with_extras (one row) and extend_rows: a
\* call with an invalid row fails here and leaves no trace.
Validate(p, batch) ==
  /\ call[p] = NULL /\ table = NULL
  /\ started < MaxCalls
  /\ \A i \in DOMAIN batch : Valid(batch[i])
  /\ call' = [call EXCEPT ![p] = [rows |-> Prepared(batch), begin |-> 0, done |-> 0]]
  /\ started' = started + 1
  /\ UNCHANGED <<slots, returned, table>>

\* Mutant: a call starts after the rows that are counted.
ReserveAtCount(p) ==
  /\ call[p] # NULL
  /\ call[p].begin = 0
  /\ call' = [call EXCEPT ![p].begin = RowCount + 1]
  /\ slots' = slots \o [i \in DOMAIN call[p].rows |-> NULL]
  /\ UNCHANGED <<returned, started, table>>

\* One consecutive range of positions for the whole call.
Reserve(p) ==
  /\ call[p] # NULL
  /\ call[p].begin = 0
  /\ call' = [call EXCEPT ![p].begin = Len(slots) + 1]
  /\ slots' = slots \o [i \in DOMAIN call[p].rows |-> NULL]
  /\ UNCHANGED <<returned, started, table>>

Write(p) ==
  /\ call[p] # NULL
  /\ call[p].begin # 0
  /\ call[p].done < Len(call[p].rows)
  /\ slots' = [i \in DOMAIN slots |->
                 IF i = call[p].begin + call[p].done
                 THEN call[p].rows[call[p].done + 1]
                 ELSE slots[i]]
  /\ call' = [call EXCEPT ![p].done = @ + 1]
  /\ UNCHANGED <<returned, started, table>>

\* Mutant: the call returns before its last row is written.
ReturnEarly(p) ==
  /\ call[p] # NULL
  /\ call[p].begin # 0
  /\ call[p].done + 1 >= Len(call[p].rows)
  /\ returned' = returned \cup {[rows |-> call[p].rows, begin |-> call[p].begin]}
  /\ call' = [call EXCEPT ![p] = NULL]
  /\ UNCHANGED <<slots, started, table>>

\* The position, or the range of positions, of the rows is returned.
Return(p) ==
  /\ call[p] # NULL
  /\ call[p].begin # 0
  /\ call[p].done = Len(call[p].rows)
  /\ returned' = returned \cup {[rows |-> call[p].rows, begin |-> call[p].begin]}
  /\ call' = [call EXCEPT ![p] = NULL]
  /\ UNCHANGED <<slots, started, table>>

-----------------------------------------------------------------------------
(* The owner: consuming the builder means that no producer holds it.       *)

\* push_validated_row, which checks a row only as far as its columns do.
Fits(row) ==
  /\ row # NULL
  /\ Len(row.values) = Width(Schema)
  /\ \A c \in Positions(Schema) : Accepts(Schema.columns[c], row.values[c])

\* append_rows gives up at a row that does not fit, and into_table ignores it.
Take(before) ==
  /\ AllReturned /\ table = NULL
  /\ \E n \in 0..Len(slots) :
       /\ \A i \in 1..n : Fits(slots[i])
       /\ n < Len(slots) => ~Fits(slots[n + 1])
       /\ table' = [kept |-> Len(before), rows |-> before \o SubSeq(slots, 1, n)]
  /\ UNCHANGED <<slots, call, returned, started>>

IntoTable == Take(<<>>)

\* append_to: another schema is refused, and the builder's rows are dropped.
AppendTo(target) ==
  IF target = Schema THEN Take(Existing)
  ELSE /\ AllReturned /\ table = NULL
       /\ table' = [kept |-> Len(Existing), rows |-> Existing]
       /\ slots' = <<>> /\ returned' = {}
       /\ UNCHANGED <<call, started>>

Produce(p) == Reserve(p) \/ Write(p) \/ Return(p)

Next ==
  \/ \E p \in Producers :
       \/ \E batch \in Inputs : Validate(p, batch)
       \/ Produce(p)
  \/ IntoTable
  \/ \E target \in Targets : AppendTo(target)

Spec == Init /\ [][Next]_vars

\* A producer inside a call keeps running; no one has to call or to consume.
FairSpec == Spec /\ \A p \in Producers : WF_vars(Produce(p))
-----------------------------------------------------------------------------
(* Properties.                                                             *)

\* The position a call returned is where its rows are in the final table, next
\* to each other and in order, whatever other producers did meanwhile; the
\* rows that the table had before stay where they were.
PositionsAreFinal ==
  table # NULL =>
    /\ \A r \in returned : \A k \in DOMAIN r.rows :
         LET i == table.kept + r.begin + k - 1 IN
         i \in DOMAIN table.rows /\ table.rows[i] = r.rows[k]
    /\ \A i \in 1..table.kept : table.rows[i] = Existing[i]

\* The log: a position belongs to the call that reserved it.
RowAt(i) ==
  IF slots[i] # NULL THEN slots[i]
  ELSE LET p == CHOOSE p \in Producers :
                  /\ call[p] # NULL /\ call[p].begin # 0
                  /\ i \in call[p].begin..(call[p].begin + Len(call[p].rows) - 1)
       IN call[p].rows[i - call[p].begin + 1]

Logged == [i \in DOMAIN slots |-> RowAt(i)]

Result == IF table = NULL THEN NULL ELSE table.rows

Log == INSTANCE RowLog WITH log <- Logged, visible <- RowCount, result <- Result

\* Calls are atomic: each adds all its rows to one log in one step, or none,
\* and the row count only ever uncovers more of that log.
ImplementsLog == Log!Spec

\* A row that has a position is eventually counted.
ReservedIsCounted == \A n \in 1..(2 * MaxCalls) : Len(slots) >= n ~> RowCount >= n
=============================================================================
