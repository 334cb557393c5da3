# gd-rs: specifications, model checking and proofs

This directory holds a TLA+ development of gd-rs, a Rust library of in-memory
tables with dynamic values, and of the pieces around them (arguments, binary
cursors, text, CSV and JSON, SQLite, expressions). It says what the library's
stateful parts do, which properties make them correct, checks those properties
on small instances with TLC, and proves some of them with TLAPS.

Conventions: a definition keeps the name of the function or field it models
where TLA+ allows. `NULL` is the null value and "no such thing", `ERR` is an
error. Positions count from 1. A definition whose comment starts with *Mutant*
is a plausible wrong version of the definition below it; it belongs to no
specification and documents what the property would catch.

## 1. The system

| Component | Source | State | Operations |
|---|---|---|---|
| String interning | `table/interned_string.rs` | a pool (mutex around a map from text to a weak handle), values (text and weak pool), columns (vectors of strong handles and the pool) | push, set, pop, copy, append, compact, drop; lookup and insertion in the pool; the destructor of a value |
| Table core | `table.rs`, `table/storage.rs`, `table/tombstones.rs` | schema, one vector per column, extra fields per row, lazy deletion flags with a count, number of rows | push (five forms), pop, set by position and by name, mark, restore, copy (sequential and parallel), compact |
| Schema | `table/schema.rs` | columns with name, alias, type, nullability, layout, converter; policy for unknown fields | construction, lookup by name |
| Compaction | `table/compaction.rs` | removed positions, previous number of rows | translation of positions |
| Append | `table/append.rs` | - | append by position, by mapping, by name, all staged |
| Concurrent builder | `table/concurrent.rs` | a concurrent vector of validated rows | push, extend, count; into a new or an existing table |
| Shared projection | `table/shared_projection.rs` | a table behind an `RwLock`; per handle a plan (schema and columns) | project, read and write guards, writes through a guard, access to the lock itself |
| Fixed-capacity strings | `table/fixed_string.rs` | descriptors (offset, length) and one byte buffer | push, pop, set, copy, append, compact, split |
| German strings | `table/german_string.rs` | third-party strings | as above |
| Numeric storage | `table/storage.rs` | a vector of values and, if nullable, one of validity | push, set, pop, copy, append, retain |
| Extra fields | `table/storage.rs` | per row nothing, a short list of pairs, or a map | collect, set, copy, append |
| Mutable rows | `table/row_mut.rs` | slices of all columns, extra fields and flags | split at a row, sequential and parallel iteration, staged updates |
| Views, sums | `table/views.rs`, `table/float_sum.rs` | - | borrowing of several columns, slices over columns, sums |
| Selections | `table/selection*.rs`, `table/shared_selection.rs` | lists of rows and columns over a borrowed or shared table | filter, project, compose, materialize |
| Shared records | `table/shared_record.rs` | a vector of reference-counted records | push, copy handles, filter, edit with copy on write, drop in parallel |
| Indexes, joins, order | `table/index.rs`, `table/composite.rs`, `table/ordering.rs` | maps from keys to live rows; sorted positions | build, look up, join, sort |
| Arguments | `arguments.rs` | list of named and positional values; a name index | push, change, remove, look up |
| Values | `value.rs`, `value/` | - | conversions |
| Binary cursors | `binary.rs` | a buffer and a position | reads, writes, seeks |
| String transport | `string_transport.rs` | borrowed or owned buffer, length | assign, append |
| Text, export, import | `text.rs`, `format.rs`, `format_import.rs` | buffers of the row that is being read | conversions; import resolves fields to columns |
| SQLite | `sqlite.rs` | a connection | binding of arguments, typed and inferred queries, loading of tables |
| Expressions | `expression.rs` | variables | compile and evaluate (third-party engine) |

How they interact:

- A table owns one storage per column; interned columns of different tables
  can share one pool, which is the only state that tables share implicitly.
- The concurrent builder and the SQLite and import paths end in the table's row
  validation (`prepare_row`, `collect_extras`) and `push_validated_row`.
- Projections, selections, indexes and joins refer to rows of a table by
  position. Borrowing keeps the table unchanged for all of them but the shared
  projection, which uses a lock and re-validates the schema instead.

What is hard here: threads inside the pool, where a value's destructor races
with lookups of its text; tables of records that share them by counted handles
while other threads copy and drop; producers of the builder whose rows get
positions in another order than they are written; a lock that is released
between the making of a plan and its use, or poisoned; operations that touch many
vectors and must move all of them or none; positions that go stale, or are
translated once too often; values and extra fields that travel between tables
with different schemas; a load from SQLite that is several statements, while
other connections alter the table; buffers that are used again for the next row.
Nothing is persisted by the library and nothing is sent over a network, so there
is no crash recovery and no message loss. `PROJECT.json` lists the hazards, each
at its line and with the properties that are about it.

## 2. The modules

| Module | Models | Role |
|---|---|---|
| `InternedCells` | a nullable string column, as its users see it | abstract specification |
| `Interner` | `table/interned_string.rs` | detailed specification, implements `InternedCells` |
| `InternerProof` | - | inductive invariant and refinement of `Interner`, and their proofs |
| `TableSchema` | `table/schema.rs`, `validate_cell` to `collect_extras` of `table.rs`, `layouts_match` | operators |
| `ColumnStorage` | `table/storage.rs`: `NumericData`, `ColumnStorage`, `RowExtras`, `ExtrasStorage` | operators on one column and on the extra fields |
| `TableData` | tombstones, and what copies, compaction and append do to a table | operators on a table's vectors |
| `ColumnViews` | `columns_io` and `column_pair_mut` of `table.rs`, `table/views.rs`, `table/float_sum.rs` | operators |
| `TableRows` | tables as sequences of rows | abstract specification |
| `Table` | `table.rs`, `table/append.rs`, one call a step | detailed specification, implements `TableRows` |
| `TableProof` | - | inductive invariants of `Table` and `SharedProjection`, the refinement of `Table`, and their proofs |
| `TableQueries` | `table/index.rs`, `table/composite.rs`, `table/ordering.rs`, the joins of `table/selection.rs` | what is computed from a `Table` in each of its states |
| `RowLog` | a log to which batches are added atomically | abstract specification |
| `ConcurrentBuilder` | `table/concurrent.rs` on top of a concurrent vector | detailed specification, implements `RowLog`; uses `TableSchema` |
| `ConcurrentBuilderProof` | - | inductive invariant and refinement of `ConcurrentBuilder`, and their proofs |
| `SharedProjection` | `table/shared_projection.rs` | composes locks and plans with all of `Table` |
| `TextColumns` | columns as sequences of texts | abstract specification |
| `FixedStrings` | `table/fixed_string.rs` | detailed specification, implements `TextColumns` |
| `FixedStringsProof` | - | inductive invariant of `FixedStrings`, the refinement, and their proofs |
| `Subsequences` | the positions that a compaction keeps | recursive function; used by `TextColumns`, `FixedStrings`, `ColumnStorage` and `TableRows` |
| `RowEdits` | updates of rows, each as a whole | abstract specification |
| `RowRanges` | `table/row_mut.rs`, nullable numbers of `table/storage.rs` | detailed specification, implements `RowEdits`; uses `TableSchema` |
| `RowRangesProof` | - | inductive invariant of `RowRanges`, the refinement, and their proofs |
| `RowPicks` | selections as tables of copied rows | abstract specification |
| `Selections` | `table/selection_view.rs`, `table/shared_selection.rs`, `table/selection.rs` without its joins | detailed specification, implements `RowPicks` call by call; uses `TableData` |
| `RecordRows` | tables of records of their own | abstract specification |
| `SharedRecords` | `table/shared_record.rs` | detailed specification, implements `RecordRows`; with its constants for TLC |
| `SharedRecordsProof` | - | inductive invariant and refinement of `SharedRecords`, and their proofs |
| `NaturalLemmas` | - | induction over numbers, in a form that the provers can use, and lemmas about sequences, flags and `Subsequences` |
| `Interchange` | `format_import.rs`, tables and selections in `format.rs` | a reader of documents, and what is written from its tables; uses `TableData` |
| `TextFunctions` | percent encoding and `split_escaped` of `text.rs` | operators |
| `ArgumentDocuments` | arguments in `format.rs` | operators; composes `Interchange`, `Arguments` and `TextFunctions` |
| `BinaryCursor` | `binary.rs` | a reader and a writer over a buffer |
| `StringTransport` | `string_transport.rs` | a text builder |
| `TextBuffers` | a caller of the last two | their composition, with its constants for TLC |
| `TextBuffersProof` | - | inductive invariant of `TextBuffers` and its proof |
| `Arguments` | `arguments.rs`, `set_property` of `table.rs` | operators on lists |
| `SqliteTables` | `bind_arguments`, schemas and cells in `sqlite.rs` | operators; uses `Arguments` and `TableData` |
| `SqliteDatabase` | `arguments.rs`, `sqlite.rs` and an engine with other connections | state machine |
| `MC...` | - | constants for TLC |

### Interner

A thread's operation is cut where another thread can see the difference: at the
mutex and at the drop of a handle. Setting a cell is `BeginSet`, `LockEntries`,
`AcquireHit` or `AcquireMiss` and `Publish`, `Install`. If `Install` (or
`BeginClear`, `CloseCell`) drops the last handle of the old value, the thread
goes on with the value's destructor: `UpgradePool`, `LockForDrop`,
`RemoveEntry`, `Release`. `AcquireHit` and `Publish` release the mutex in their
last step because nothing happens between the change and the release. Reference
counts are not counters: a value is alive while a cell or a pending operation
holds a handle on it, which is what a strong count above zero means; addresses
can be reused as soon as no handle, weak or strong, is left. Rust's borrowing is
a guard: a cell is written by one thread at a time, and a column is copied,
appended to or dropped only while no one borrows a part of it.

### Table

The table is the record of its vectors. Every operation is one action, because
`&mut self` excludes everything else; a refused call leaves the table as it was
and is the action `Refuse`. The order of the work inside an operation matters
where it can be refused half way, and there the model keeps it: validation
before the first push (`PrepareRow`), staging of all columns and all extra
fields before the first extension (`CanAppendRows`, then `Appended`). A converter is a function from
values to values or an error; it has no side effects here. The rollback in
`push_validated_row` cannot be reached once `prepare_row` has accepted the row,
and is not an action.

`ColumnStorage` keeps what the code keeps: a column of `DataType::Null` is a
length, a nullable column of numbers a vector of values and one of validity, and
all others one vector. A null leaves in its slot the number that was there, or
the type's default, so every operation has to move two vectors alike for it not to
come back. A row's extra fields are nothing, a list, or, when the
list has `HashThreshold` fields, a map; in the code that is 4, here 2 or 1.

`WriteSlot`, `WritePlaceholder` and `WriteValidity` are writes through a borrowed
column (`ColumnViews`). A caller that takes a nullable column apart can set the
validity of a row whose value it never wrote, and gets whatever number is in the
slot; `TableRows!Overwrite` therefore allows any number that the column accepts. A sum
is the list of the chains of rows that it adds up, which is what two sums can
differ in before any rounding.

`TableQueries` has no actions: indexes, joins and orders borrow the table, so they
are functions of one of its states, and its properties look at all of them in each.

### ConcurrentBuilder

`ConcurrentVec` is a library. What the code relies on is modelled: a push or an
extend reserves consecutive positions in one step (`Reserve`), its elements are
written one by one (`Write`), and the length is that of the prefix without gaps
(`RowCount`). `Validate` precedes the reservation. The owner's `into_table` and
`append_to` consume the builder, for which Rust requires that no producer is
inside a call.

### SharedProjection

The module extends `Table`: each write through a guard is the table's own
action with the projection's translation of columns and names in front of it. A
thread's guard is nothing, a reader's, a writer's, or direct access to the lock
(`source_arc`), under which the table can be edited in any way or replaced. The
lock is the standard library's: writers exclude everyone, and a panic under
write access poisons it. Acquisition and validation are one action: a failed
validation drops the lock before anything can be observed.

### FixedStrings

A column is its descriptors and its buffer; a byte is a model value and a text
a sequence of bytes. A mutable view of a column is the range of rows and of
bytes it has and the byte its buffer starts with; `SplitAt` replaces a view by
two, and a cell is written through any of them, at the place its descriptor
says (`SlotOf`, for `cell_mut`) or at its chunk (`ChunkOf`, for `iter_mut`).
The loops of `copy_rows` and `retain_live` take one action per row, because
`retain_live` reads and writes the same buffer. What the table validates before
it calls (`Fits`) is a guard of `Push`; a cell validates for itself.

### RowRanges

The table is its vectors: one per column, a second one with the validity of a
nullable column of numbers (`NullableNumbers`), the extra fields of an open
schema, and the flags while a row is marked. `Borrow` is `rows_mut`; a range has
its first row, its length and one slice of every vector (`base` and `len`), and
only the slices are used to reach anything, as in the code. `SplitAt` is a
caller's split, `ParForEach` hands a range to the pool, `ParSplit` is one
step of the recursion and `ParStart` its end; `ForEach` and `RowMut` are a
caller's. A thread goes through the rows of what it took with `Enter`, and an
operation on a row is a list of edits, each a `Read` of one field and a `Write`
of another, so other threads act between any two of them. An error in an edit
leaves the row as it was and the operation goes on. Empty ranges reach nothing
and are let go of at once (`NonEmpty`). Operations that panic are not
modelled.

### Selections

One handle over one table: its kind (`shared` or `borrowed`), the rows of its plan
(a range, or a range within a list of positions), its source columns and the
projected schema. Everything about a selection is a value, so one handle shows
what any number of them do. A call replaces the handle by the one it returns; a
call that ends in a table (`Materialize`, `FilterRows`, `SelectTable`,
`ProjectTable`) shares that table, so that selections of copies of selections
occur.

### SharedRecords

Threads work on tables of their own or read one together, which Rust's borrowing
guards (`MayRead`, `MayChange`). Memory is explicit: `heap` has the value and the
strong count of each record, because `Arc::make_mut` looks at that count and another
thread can change it between the look and the write. A step is one handle that is
cloned (`Visit`) or dropped (`DropHandle`), or one of the three steps of an
edit: `GetMut` looks at the count, `CopyRecord` copies and lets go of the old handle,
which may be the last by now, and `Write` writes. Parallel copies and filters visit
the rows of a part in order and the parts in any order; `FinishGather` puts them
together. A table of more than `ParDropRows` rows, 4096 in the code and 2 here,
may be dropped in parallel, handle by handle in any order.

### Interchange, TextFunctions and ArgumentDocuments

A reader takes a document into a table of its own, through one buffer of values
and one of extra fields that it clears for each row. A JSON document is a sequence
of objects, of which any may come next (`ReadObject`); a CSV document is a header
(`ReadHeader`) and records (`ReadRecord`); either may turn out to be malformed
(`Malformed`), and a table is returned by `Finish` only. After that its rows can be
marked, and what its writers make of it is a function of the table. How a token or a
field is spelled is serde_json's and csv's business: a token here is a kind and a text.
Percent encoding is the library's own and is modelled character by character, with
characters of one byte; the decoding of whole escapes is the percent_encoding
crate's. The library has no reader of queries and no writer of separated texts, so
`QueryPairs` and `Joined` are those of its peers.

### BinaryCursor, StringTransport and TextBuffers

The buffer is lent to one writer, or read by a reader of all of it, or by one of the
part written so far, as borrowing allows. `items` remembers what was written and not
overwritten; it is not state of the code. Numbers are of base `Base` (256 in the code,
2 here), prefixes of `PrefixWidth` bytes (4 in the code), and which byte strings are
UTF-8 is a constant. The bytes of a number are what repeated division leaves (`Shifted`), and
reading them adds them up again (`Prefixes`); a number fits a width when nothing is
left (`HasWidth`). A failed read in several steps is undone (`Undone`). The builder
of texts starts in a borrowed buffer and moves to one of its own when a text and
its terminator no longer fit. `TextBuffers` composes both: a caller builds texts and
writes them, with or without terminator.

### SqliteDatabase

Three modules: lists of arguments (`Arguments`), how they are bound to the parameters
of a statement and what is read from a table in a database (`SqliteTables`), and the
state machine. One connection runs the library's calls;
other connections drop, create and alter the table between any two of its statements
(`Alter`), unless a transaction that has read something keeps them out (`Access`): a
statement takes the transaction's lock when it is first stepped, not when it is prepared. `load_table`
is `LoadTable`, which looks for the key's index, `DiscoverSchema`, `PrepareLoad` and
`StreamRows`; a query is prepared in one step and read in another, and the engine
prepares it again by itself when the table was altered in between. That is why the
names that `query_table` took when it prepared the statement can be those of the table
before, while rows and their number of columns are checked. A column of the declared type
`STRING` has numeric affinity in the engine: a text that reads as a number comes back as
one, and is an error in a column of strings. `Execute` is an `INSERT` of one row; what the
engine stores for it (`Inserted`, affinities in `Coerced`) is external.

## 3. Runs

| Run | Question | Instance | States |
|---|---|---|---|
| `interner` | Are caches right in every interleaving, is sharing invisible, and does every operation end? | 2 threads, 2 columns of one cell, 2 texts, 2 pools, 4 addresses, with fairness | 431865 |
| `table_move` | Does a table behave as a sequence of rows, however it is written and read? | 2 tables of one schema, up to 3 rows and 1 | 10530 |
| `table_mix` | Do values and fields cross schemas safely; are queries what they should be? | 2 tables with any of 3 schemas, up to 2 rows and 1 | 25514 |
| `builder` | Is a call atomic, its position final, every row counted? | 3 producers, 3 calls of up to 2 rows, with fairness | 13664 |
| `projection` | What can a guard see and change? | 2 threads, 2 schemas, 1 row | 6855 |
| `fixed` | Do slots and split views stay where descriptors say? | 2 columns of capacity 3, of up to 2 rows and 1 | 67740 |
| `row_ranges` | Do splits agree, and is each row operated on once? | 3 rows, 1 caller, 2 pool threads, grains 1 and 2, with fairness | 174168 |
| `selections` | Do positions survive every composition of calls? | a table of 3 rows and 2 columns, and one of 2 rows and 1 column | 6596 |
| `records` | Is copy on write invisible and memory exact? | 2 threads, 2 tables of up to 2 rows, 3 addresses, 2 values | 233019 |
| `interchange` | Is what was written read back, row by row? | 5 schemas, up to 2 rows | 15879 |
| `buffers` | Are failed calls without effect, and texts and numbers read back? | 4 bytes of base 2, widths 1 and 2 | 214455 |
| `sqlite` | Is what a query returns one state of a table, and what was bound what was supplied? | 7 tables, 7 statements, lists of up to 2 arguments | 402954 |

The bounds are small because the interesting cases are: a race for an entry
needs one value that dies, one that replaces it and one more address to tell
them apart, and a text that replaces another in a cell. Tables of three rows have a
first, a middle and a last one, so every position of a marked row relative to the
kept ones occurs; `MaxRows` bounds only how far tables grow. Two tables are all that an
append involves; a source of two rows has one behind the first that can be refused. Three rows are a whole chunk of a sum (`Lanes` is 2, 16 in the
code) and a remainder. A row's list of extra fields becomes a map in the run of
`Interchange` after one field; for every sequence of up to three fields,
`ExtrasAreKept` looks at both representations. Three producers are needed for a gap with
a written row on both sides. `MaxCalls` bounds the builder's history. Callers of a
selection pick rows out of order and twice, slice at both ends, inside and in
reverse, and choose columns in another order, twice or not at all; what a
shorter selection lacks is out of its bounds. Three rows of a range are halved unevenly and then
again, which gives the pool two ranges to work on while the caller keeps a third. Three
addresses let two threads hold a shared record while one of them copies it. Two rows are
enough for a buffer to be used again, and four bytes for an item to be overwritten in
part. One text of `fixed` is longer than a slot, and is refused wherever it is written.
The tables of `sqlite` have each of the things that discovery asks about, and values
at the edge of each type. Percent texts have up to three characters, the escape and one
too few among them; separated texts up to six.

Symmetry is used in safety runs whose properties treat the permuted values
alike, never in runs with liveness properties.

`CHECK_DEADLOCK FALSE` is set where the system really stops: a builder that was
consumed, a projection whose lock is poisoned, a reader that has returned its
table; and where the bounds stop it: a caller with full buffers or tables. The
interner, the tables, selections, records and rows in place are checked for deadlock, and
have none.

Each property is tied to a mutant of one modelled definition that violates it;
`PROJECT.json` pairs them.

## 4. Fairness

`Interner!FairSpec` asks weak fairness of each thread's continuation of what it
started, never of starting. Weak fairness is all an operating system's scheduler
gives to a runnable thread. `std::sync::Mutex` is not fair, so a thread can lose
the mutex for ever to others that keep taking it; this is why
`OperationsFinish` says that operations end if threads stop starting new ones,
and no more. `ConcurrentBuilder!FairSpec` asks the same of producers inside a
call; neither calls nor the consumption of the builder are fair.
`RowRanges!FairSpec` asks weak fairness of each thread's work, of the recursion
and of each pool thread taking some range: rayon's workers take what was
joined until nothing is left. Callers need not do anything with their ranges.
The other modules describe what callers may do, in any order, and state no
fairness.

## 5. What the checks show

*Interner.* `CacheNamesLive`: a live value is what its text's entry names, so no
text is interned twice in a pool, and an entry of a dead value exists only while its
destructor is on the way to it. `DestroyedOnce`: no value has two destructors, and none
while a handle exists. `CellsInPool`: a column holds handles of its own pool only.
`PoolOutlivesEntries`: the pool of every value that is held or being destroyed, and of every
cache that is locked, is alive, so a destructor finds its pool.
`CellsReadAsWritten`: the module implements `InternedCells`, where a column is plain text
and nothing is shared. `OperationsFinish`: see section 4.

*Table.* `Aligned`: all vectors, the flags and the counters agree. `ImplementsRows`:
the module implements `TableRows`, in which a row is one thing with cells, extra
fields and a mark, and a refused operation does nothing. `CompactionTracksRows`: the
record that `compact` returns takes every kept row to where it is. `ViewsAgree`: columns
are borrowed together exactly when none is written and also something else, the right
ones are handed out, and a column read cell by cell, value by value, as slices or by a sum
is the same column, whatever a null keeps in its slot. `RowsAreLegal`: whatever way a
value came in, its column accepts it; no extra field shares a name with a column; and a row
has the fields that it was given, each once, in a list or in a map. `AppendsFollowSchemas`:
what one table holds, another of the same schema takes, and appending by name never
guesses. `AppendsTakeWholeSources`: an append, which prepares column by column and passes
over the cells of columns that are alike, is refused exactly if a row of its source, the
last as well as the first, would be refused alone, or a type cannot be converted.

*TableQueries.* `IndexesPartitionRows`: a row is in one place of an index, under its
key. `JoinsAreRelational`: a left join over one or two columns, by either kind of index,
is the relational one, in source order. `OrdersAreStable`: comparison is a total preorder,
nulls are on the side that was asked for whatever the direction, and equal rows keep
their order.

*ConcurrentBuilder.* `PositionsAreFinal`: a returned position is the row's position
in the table, and no row is lost. `ImplementsLog`: calls are atomic with respect to one
log; `ReservedIsCounted`: a gap is always closed.

*SharedProjection.* `GuardsAreUsable`: under a guard the plan is that of the table's
schema, and no one gets at the table after a writer's panic. `ReadersAreStable`: nothing
changes under a reader. `OmittedColumnsUntouched`: a write through a projection stays
inside it.

*FixedStrings.* `SlotsFollow`: row i has the i-th slot, which is what lets `iter_mut`
and `cell_mut` agree, between calls (`SlotsInOrder`) and while compaction in place moves rows,
which never writes what it has still to read (`CompactionStaysBehind`). `ViewsOwnSlots`: a split view reaches its own rows, in its own part of
the buffer, and nobody else's. `ReadsAreTexts`: bytes that are decoded without validation
are a text. `ImplementsTexts`: slots are invisible.

*RowRanges.* `RangesAreExclusive`: a split divides every vector at the same row, so row i
of a range is one row in all of them, and two ranges reach no element in common.
`ImplementsRowEdits`: however ranges are split and threads interleave, an owed row
gets its operation once, as a whole. `OperationsFinish`: and in the end it does.

*Selections.* `PositionsExist`: every position that a handle keeps is one of its source's,
which `rows` takes for granted. `CallsFollowPicks`: each call does to what can be
read what the call of the same name in `RowPicks` does to copied rows, and fails
when that one does, with the same error; so filters skip deleted rows and nothing
else does, duplicates and order are kept, and columns that are left out are
not found by name.

*SharedRecords.* `StrongCountsExact`: a record lives as long as there is a handle to it
anywhere, also inside unfinished copies and drops, and its count is their number.
`ImplementsRecordRows`: every table is what it would be if its records were its own.

*Interchange.* `ObjectsAreRows`: an object becomes a row of what it says itself, whatever
came before it, and one that says something twice, or something that cannot be stored, ends
the import. `WrittenIsReadBack`: tables come back exactly from JSON and up to empty
texts from CSV; a selection writes what the table of its rows would write; percent
encoding is reversed, and a list of arguments survives as an object or as a query or is
refused; splitting a separated text loses nothing. It also shows what cannot be written: two
separators that are next to each other and not a pair, as an empty part between two
others makes them, read as one of the part.

*BinaryCursor and StringTransport.* `FailedCallsChangeNothing`: as the module's documentation
promises, of every call. `ItemsReadBack`: what was written and not overwritten is read back by
a reader that is given all of it, and not at all by one that is not. `CallsBuildText`: the
builder has the text that its calls describe and its terminator, and leaves the caller's
buffer in exactly the call that needs it to.

*SqliteDatabase.* `ArgumentsAreExact`: what is bound is what was supplied, each argument to
every parameter of its name, or nothing is bound; the index of a list, a search of it and an
update in place agree on which entry of a name comes first. `QueriesAreFaithful`: a query that
returns, returns the table of one state of the database, with cells its schema accepts;
`load_table`, if nobody alters the table during it, exactly what it promises; and in a
transaction that has read something nobody can. `BoundValuesComeBack`, an assumption of `MCSqliteDatabase`, says
that a bound value that is stored as it is comes back in a column of its type.

## 6. Proofs

`InternerProof` proves, for every value of the constants:

- `InductiveInvariant`: `Spec => []Inductive`
- `TypeCorrect`: `Spec => []TypeOK`
- `CacheIsExact`: `Spec => []CacheNamesLive`
- `CellsKeepToTheirPool`: `Spec => []CellsInPool`
- `ValuesDieOnce`: `Spec => []DestroyedOnce`
- `PoolOutlives`: `Spec => []PoolOutlivesEntries`
- `SharingIsInvisible`: `Spec => CellsReadAsWritten`

The only assumption is `NullAssumption`: `NULL` is none of the things it can
stand in for. Nothing is assumed of the number of threads, columns, rows, texts,
pools or addresses, which may be infinite.

The safety properties are not inductive on their own. That a live value is
cached survives `Publish` only because the thread that publishes holds the mutex
since it saw the entry dead, and survives `RemoveEntry` only because it is the
destructor's own address that is compared; that the destructor finds its pool
rests on the column it borrows from. `Inductive` therefore adds to the four
properties what each program location promises: which locations hold the mutex
(`Locking`, in both directions: a locked cache has a thread in it, which borrows from a
column of the pool), what a thread's local variables are there (`Locals`), that borrows
exclude each other (`Claims`), and that
dead values are either unreferenced or have a destructor under way. The proof
has one lemma per action and, under it, one step per conjunct the action can
disturb; `ReplaceStep` covers the three actions that drop a handle. The refinement of
`InternedCells` rests on it: a cell reads as the text of a value that is alive, and no step
changes the text of one, so only the steps that store a handle or take one away are steps
of the abstract columns, and all others stutter.

`TableProof` proves that the columns, fields and marks of a table are rows:

- `TablesKeepShape`: `Spec => []TableInv`
- `TablesAreAligned`: `Spec => []Aligned`
- `RowsStayLegal`: `Spec => []RowsAreLegal`
- `CompactionsTrackRows`: `Spec => CompactionTracksRows`
- `AppendsFollow`: `Spec => AppendsFollowSchemas`
- `ViewsStayTrue`: `Spec => []ViewsAgree`
- `IndexesAreExact`: `Spec => []IndexesPartitionRows`
- `JoinsStayRelational`: `Spec => []JoinsAreRelational`
- `OrdersStayStable`: `Spec => []OrdersAreStable`
- `TablesAreRows`: `Spec => ImplementsRows`

It holds for any tables, schemas, inputs, selections and mappings, of any size. The
assumptions say what Rust's types say: `ValuesAssumption` that `NULL` and `ERR` are no
values, that no value but null is of `DataType::Null`, and that a numeric type's default is a
number of the type; `SentinelsAssumption` that they are no positions, fields or layouts
either, as `None` and `Err` are not; `SchemasAssumption` that a schema is a list of columns with
distinct names (adding a column of the same name is an error) and that only a string's
layout can be too short; `InputsAssumption` that rows, fields and positions are
lists of these; `ViewsAssumption` that there is at least one lane, that sums are of
numeric columns, and that names are finitely many (requests are for columns up to one past
their number, which no schema exceeds); `QueriesAssumption` that widening an integer to a
key maps no two values of a type to one key, that a column of nulls has no keys (as
`UnsupportedIndexType` says), that lists of keys and of pairs are not `NULL` or `ERR`, and that
each type has a total preorder (`Less`), as `Ord::cmp`, `str::cmp` and, for floating-point
numbers, `total_cmp` are.

The invariant `TableInv` says of each column which of the three shapes it has and that its
column accepts every cell (`HasShape`), of the extra fields that each row's list has distinct
names and no name of a column (`HasExtras`, `FieldsApart`), and of the marks that they are
none or one per row, and counted (`FlagsOk`). A placeholder below a null has to be
a number of the column's type, which is more than any property says: a caller can turn the row
valid again. There are three layers. One lemma per operator of `ColumnStorage` says what it does
to a column's shape and to each of its cells (`PushShape`, `PutShape`, `RetainShape`, ...); one
per operation of `TableData` says what rows result (`PushedOk`, `CompactedOk`,
`AppendedOk`, ...), where a compaction is that the kept rows are the same list of positions
for every vector, and an append that staging refuses, before anything is
extended, exactly what the rows' schema would refuse; and one per
action says which step of `TableRows` it is (`PushRowOk` to `AppendNamedOk`). The
recursive functions (`FilledUpto`, `PutUpto`, `SetUpto`, `KeptUpto`) follow by
induction, as below; that a list that overflows into a map loses no field is `PutFieldOk`.

The two action properties follow from `TableInv` in the state before. A row that is kept is
listed after as many positions as are kept before it (`KeptPlace`), which is what
`new_position` computes by counting removed ones (`NewPositionIs`). Between tables of one
schema nothing in `CanAppendRows` can fail: layouts match, and no field that one table
has is in the way of a column of the other (`SameSchemaFits`). A name finds at
most one column of a schema (`NameFinds`), so the layout of `append_named` is the only one
that the names allow (`NamedLayout`).

`ViewsAgree` also follows from `TableInv`, which says of every column which of the shapes it
has. That the right columns are handed out rests on `WalkServes`: the walk over the sorted
positions keeps the slice that starts behind the last column taken, so each position is
found in what is left, and what is taken at it is the column of that position; the sorted
list has each position that was asked for (`KeptSorted`). `BorrowsHold` says
that the refusals are the ones listed. For a column there is one case per shape
(`LengthReaders`, `SplitReaders`, `CellReaders`). A sum is a matter of
division with remainder (`LaneRows`): lane `l` takes the rows `(k - 1) * Lanes + l`, no two
lanes the same, and with the remainder they take all (`ChainsHold`).

The three invariants of `TableQueries` follow from `TableInv` as well: a query is computed
from one state. What each loop has made of the first `i` rows is said outright. An index of
one column is a function of the rows (`FiledUpto`, `IndexIs`), with the list under a key
the kept positions of the rows that have it; a composite index is one only up to the numbers of
its buckets, which depend on the order in which keys appear, so `TupleStage` says what every index
of the first `i` rows satisfies: each key has a bucket of its own, with the rows of that
key. Under a key that was never filed there is nothing, and no row has it (`IndexHolds`,
`CompositeHolds`). For a join it remains that keys agree exactly if cells do
(`KeysAgree`, which needs that the columns have one type, as the join checks), so that both
kinds of join look up the same list, the partners of the row (`CompositeJoins`,
`ColumnJoins`), and that the pairs of one row after the other are the relation in source
order (`PairsNext`). For an order, `ColumnsArePreordered` is what `slice::sort_by` demands of
`compare_rows`, and the insertion of one more row behind the last one that is not greater
(`PlaceExists`) keeps a stable order stable (`SortNext`), by transitivity.

`TableProof` also proves all properties of the projection run, again for every value of
the constants, and what they are for:

- `GuardSeesItsSchema`: `SharedSpec => []GuardMatchesSchema`
- `PoisonedTableIsNotUsed`: `SharedSpec => []PoisonedIsUnused`
- `GuardsStayUsable`: `SharedSpec => []GuardsAreUsable`, the two together
- `ReadersSeeOneTable`: `SharedSpec => ReadersAreStable`
- `ProjectionsConfineWrites`: `SharedSpec => OmittedColumnsUntouched`
- `SharedTablesAreAligned`: `SharedSpec => []Aligned`
- `SharedRowsStayLegal`: `SharedSpec => []RowsAreLegal`
- `ProjectionsEditRows`: `SharedSpec => WritesAreEdits`

The assumption is `SourceAssumption`: the shared table is one of the tables. The
inductive invariant `Guarded` of the first five adds to the two state properties that a writer
excludes everyone (`Exclusive`) and that a table keeps its six fields (`Shape`),
which is what lets the prover see that an update of one field leaves the others
alone. `ProjectionsConfineWrites` rests on `GuardMatchesSchema`: a name that the
plan's schema does not know becomes an extra field, which is harmless only as
long as the source's schema does not know it either. What the tables hold does
not matter to these five.

The last three are about what the tables hold. `SharedInv` adds `TableInv`, and that a plan
names columns of the schema it was made for (`PlansOk`). Under a guard this is the schema
of the table (`PlanReaches`), although the table may have been replaced since the
plan was made, so a write through the plan is a write of the table, which keeps `TableInv` and
is a step of `TableRows` (`ProjectedEdit`). `WritesAreEdits` says it of every step that is taken
while the write guard of a projection is held. A step of the table's owner is not
always one: the table may be replaced.

`FixedStringsProof` proves all properties of the fixed-capacity strings, for
columns of any number, capacity and length:

- `RowsHaveTheirSlots`: `Spec => []SlotsInOrder`
- `CompactionIsInPlace`: `Spec => []CompactionStaysBehind`
- `SlotsStayInOrder`: `Spec => []SlotsFollow`, the two together
- `ViewsReachTheirSlots`: `Spec => []ViewsReachOwnSlots`
- `ViewsDoNotOverlap`: `Spec => []ViewsDisjoint`
- `ViewsAreExclusive`: `Spec => []ViewsOwnSlots`, the two together
- `EveryReadIsText`: `Spec => []ReadsAreTexts`
- `TypesHold`: `Spec => []TypeOK`
- `SlotsAreInvisible`: `Spec => ImplementsTexts`

The assumptions are that capacities are positive (`LayoutAssumption`, which
`ColumnSpec::fixed_string` enforces), that texts are sequences of bytes and the
zero byte is one (`TextsAssumption`), that `NULL` is neither a length nor a text,
and that selections are sequences of positions. The invariant is that every
column is `Sound` at every step: its slots follow each other and each row reads a
text or nothing. It also holds in the middle of `retain_live`, because a row is
moved with its whole slot to a place that is not behind the row
(`RetainInOrder`). One lemma per way of changing a column (`ExtendedSound`,
`RewrittenSound`, `TruncatedSound`, `AppendedSound`) carries the arithmetic of slots, and
says which text each row has afterwards; the operations are instances of them.

The refinement shows each column as its texts (`Visible`), and a column that is being
compacted as the texts that will be left: from the first step on it is what the
loop will make of it, so that the compaction is one step of `TextColumns`. That the other
steps of the loop change nothing that is shown rests on `RetainFollows`, which says
that the destination is the number of kept rows among those that were read, and on
`KeptUptoGrows`, which says that what is kept of the rows that were read comes
first in what is kept at all, and everything after it is further on: the row that is
overwritten is either a place that was moved already or one that is not to be read
again (`StayingMoved`). A copy takes effect in its last step; `CopyFollows` says what
the rows of the unfinished result are.

`RowRangesProof` proves the safety properties of rows in place, for every number of
rows, columns, operations and threads:

- `SplitsAgree`: `Spec => []SlicesAgree`
- `SplitsAreDisjoint`: `Spec => []RangesDisjoint`
- `SplitsAreExclusive`: `Spec => []RangesAreExclusive`, the two together
- `GrainHolds`: `Spec => []GrainIsKept`, the pool never gets more than `min_rows` rows at
  once
- `TypesHold`: `Spec => []TypeOK`
- `EditsAreWhole`: `Spec => ImplementsRowEdits`

It assumes that grains are positive (`GrainsAssumption`; zero panics), that edits are
sequences, that the rows a table begins with are rows of its schema (`IsRow`), that `NULL`
is no operation and no work of the pool, and that callers are not threads of the pool. Disjointness of what ranges reach is not inductive by
itself: a range could reach other rows in one vector than in the next. The
invariant `IInv` says that every slice of a range is at the range's own rows
(`Proper`), and then that the rows of two ranges are apart (`AllApart`); the
lemma `ApartRangesAreDisjoint` goes from rows to elements. `RangeDivided` is the
lemma about a split, whoever makes it.

The refinement adds, in `RInv`, what a thread knows of its row while it works: the row in the
table is what the edits so far make of the row that was entered (`Follows`), and
the value that it holds is the one an edit reads there. Since ranges are apart, no other
thread's write is to that row (`OthersSeen`), so each row is seen by at most one thread
(`SeenRight`) and owed at most one operation (`OwedRight`), which makes the
mapping's choices unique. The operation takes effect when its thread leaves the row
(`LeaveOperates`); each write before that changes one field of one row in vectors that were
divided alike (`NamedIsWritten`), and `RunDef` proves by induction that the recursive
function `Run` of `RowEdits` is what its equations say.

`ConcurrentBuilderProof` proves the builder correct for every number of producers, calls
and rows:

- `ReturnsAreFinal`: `Spec => []PositionsAreFinal`
- `CallsAreAtomic`: `Spec => ImplementsLog`

It assumes that inputs are sequences of rows, that a schema has a natural number of
columns, and that `NULL` is neither a row, a call nor a table. A call's range is reserved
in one step and filled in many, so the invariant `IInv` says where everything is meanwhile:
what a call has written is at its place (`CallsInPlace`), the ranges of two calls are
apart (`CallsApart`), what was returned stays where it is (`ReturnedInPlace`), and each
gap belongs to a call that will fill it (`GapsClaimed`). The log of the refinement
already has the rows of the gaps (`Logged`), which `GapsClaimed` makes well-defined. The
row count is the length of the prefix without gaps; that there is exactly one
(`CountExists`, `CountUnique`) and that it only grows (`CountGrows`) is proved by
induction.

`SharedRecordsProof` proves all properties of the shared records, for every number of
threads, tables, rows and addresses:

- `CountsAreExact`: `Spec => []StrongCountsExact`
- `EditsAreAlone`: `Spec => []EditedAlone`
- `SharingIsUnseen`: `Spec => ImplementsRecordRows`

The count is a sum over all the places where a handle can be: rows of tables, threads'
hands, parts of copies and of drops that are under way. The proof gives each place an
identity, so that the count is the cardinality of the set of places that hold the
address; every step adds a place, removes one, or moves one to another. That `get_mut`
edits what no one else sees is `EditedAlone`: between the look at the count and the
write, no other thread can come by a handle, because the only one is in a table that
is borrowed. The refinement maps a table to the values its handles lead to, and a table
that is being copied or dropped to what it is before or after; that a parallel copy, put together from parts,
is the sequential one (`Chosen`) is proved by induction.

`TextBuffersProof` proves all properties of the buffers, for every base, width, size, native
order and set of texts:

- `BuffersAreBytes`: `Spec => []BuffersInv`
- `WhatIsWrittenIsRead`: `Spec => []ItemsReadBack`
- `FailuresAreClean`: `Spec => FailedCallsChangeNothing`
- `TextsAreBuilt`: `Spec => CallsBuildText`

The assumptions are that there are at least two values of a byte, that widths are positive,
that numbers are natural (`CursorAssumption`), that texts are sequences of bytes and the
terminator is one (`TransportAssumption`). The invariant says of the cursors that the
bytes of everything in `items` are where they were written (`NumberIn`, `BytesIn`),
which is `ItemsReadBack` without the reading: a write disturbs no item
it does not overlap (`ItemStays`), and those it overlaps are no items any more. Of the builder
it says that the text and its terminator are inside of the storage, or there is
none. That what is read is what was written rests on `DecodedOk`: in either order, adding up
the remainders of a number's divisions gives the number, if nothing is left after the
last. Divisions and sums are recursive functions, about which `ShiftedOk` and `PrefixesOk`
prove that their equations hold; that there are such functions at all is `RecursionExists`. A
failed call changes nothing because a write looks for room for all of its parts before it
writes the first (`WriteBytesOk`), and a read that failed in a later part is undone
(`UndoneOk`).

Induction. The library's induction theorems take an operator, which the installed
provers cannot instantiate. `NaturalLemmas` derives from well-founded induction a form that
speaks of sets (`SetInduction`: a set that has zero and the successor of each of its
elements has all numbers), which they can, so that facts about recursive functions are
provable: `KeptUpto` of `Subsequences`, `Run` of `RowEdits`, the four of `Table`'s storage.
Where the value of a recursive function is not known in closed form, `StagedRecursion` gives
one whose `k`-th value is in a set that each step leads to from the one before, and
`StagedInduction` that its values are there: `CompositeUpto`, `PairsUpto` and `SortedUpto`
of `TableQueries`.

Only model-checked: liveness (fairness and `ENABLED` are out of the prover's reach), the
refinement `CallsFollowPicks`, `AppendsTakeWholeSources` (`TablesAreRows` implies that an append
that succeeds took only rows that pass, not that it refuses no others), and everything about
`Selections`, `Interchange`, `ArgumentDocuments` and `SqliteDatabase`. No module uses a
`RECURSIVE` operator, so that each can be proved about later; where one uses a fold of the
community modules, it has to be replaced by a recursive function for that, as was done
in `ColumnStorage`.

## 7. What is not modelled

- Allocation failure, and panics that are not an application's: the code aborts
  or unwinds, and promises nothing.
- Capacity limits (`usize` overflow of row counts, the concurrent vector's
  maximum): they end in an error or a panic before anything changes.
- Memory ordering: mutexes, reference counts and the concurrent vector
  synchronise as their libraries document.
- The acquisition of a lock by a thread that holds it, which the documentation
  forbids.
- Contents of values, and conversions between them, beyond the type and whether
  a layout has room or a range a place for them (`value.rs`, `value/`): they look at one
  value and have no state.
- German strings, whose column is a plain vector of a third-party string type; the
  module only gives views of it.
- The results of floating-point sums: TLC has no reals.
- Hexadecimal and search functions of `binary.rs`, and UTF-16, JSON strings, XML escapes,
  prefixes and trimming of `text.rs`: one look at each byte, or third-party code.
- Iteration under the guards of a shared projection and `materialize`, which only read; the
  read-only views of interned strings.
- Opening a SQLite database, and batches of statements without arguments: they hand a text to
  the engine.
- Expressions: compilation, evaluation, variables and limits are the Rhai engine's. The
  wrapper converts values, and promises no rollback of a program that fails.
- Metadata of a schema that no check looks at, debug output, and error texts.

The repository also has copies of its sources: snapshots that measurements were made with
(`docs/high-level/measurements/archive`), some of them with variants of the storage
that were not adopted, and code of benchmarks (`benches`). The definitions here are
mapped to the crate itself (`src/`) and to no copy. What is left of the crate
unmapped is, beyond the list above, accessors of one line, trait implementations that
forward to modelled functions, types of errors, and unit tests.

## 8. Plan

Done: all modules of section 2, with the proofs of section 6.

Next, more proofs: `PositionsExist` and `CallsFollowPicks` of `Selections`, which need the
lemmas about `TableData` in `TableProof`.
