---------------------------- MODULE SharedRecords ----------------------------
(***************************************************************************)
(* SharedRecordTable (table/shared_record.rs): tables of reference-counted *)
(* records.  A copy of a table clones handles; a record is copied when it  *)
(* is edited while other handles to it exist (Arc::make_mut).              *)
(*                                                                         *)
(* Threads work on their own tables, or read one together.  A step is one  *)
(* handle that is cloned or dropped, or one step of make_mut, so that the  *)
(* handles of other threads come and go in between.                        *)
(***************************************************************************)
EXTENDS Naturals, Sequences, FiniteSets, TLC

CONSTANTS
  Slots,       \* names that tables are bound to
  Threads,     \* threads, each of which may hold one handle outside tables
  Addresses,   \* places for records in memory
  Records,     \* values of records
  Selections,  \* sequences of row positions that callers copy
  ParDropRows, \* rows from which par_drop is parallel (4096 in the code)
  MaxRows,     \* bound: tables grow to at most this many rows by pushes
  NULL         \* no table, no record, no handle

ASSUME ParDropRowsAssumption == ParDropRows \in Nat

ASSUME MaxRowsAssumption == MaxRows \in Nat

\* Positions count from 1 here, from 0 in the code.
ASSUME SelectionsAssumption == \A s \in Selections : s \in Seq(Nat \ {0})

ASSUME NullAssumption ==
  /\ NULL \notin Addresses \cup Records \cup [value : Records, strong : Nat \ {0}]
  /\ NULL \notin Seq(Addresses) \cup Seq(Records)

VARIABLES
  heap,    \* heap[a]: the value of the record at a and its strong count, or NULL
  table,   \* table[t]: the handles of table t, NULL if there is none
  single,  \* single[h]: the handle that thread h holds outside tables, or NULL
  job      \* job[h]: what thread h is in the middle of

vars == <<heap, table, single, job>>

Idle == [op |-> "idle"]

Init ==
  /\ heap = [a \in Addresses |-> NULL]
  /\ table = [t \in Slots |-> NULL]
  /\ single = [h \in Threads |-> NULL]
  /\ job = [h \in Threads |-> Idle]

Exists(t) == table[t] # NULL

-----------------------------------------------------------------------------
(* Handles: std::sync::Arc.                                                *)

Allocated(memory, a, v) == [memory EXCEPT ![a] = [value |-> v, strong |-> 1]]

Cloned(memory, a) == [memory EXCEPT ![a].strong = @ + 1]

\* Mutant: a record is freed when one other handle is left.
DroppedEarly(memory, a) ==
  [memory EXCEPT ![a] =
     IF @.strong <= 2 THEN NULL ELSE [value |-> @.value, strong |-> @.strong - 1]]

\* The last handle takes the record with it.
Dropped(memory, a) ==
  [memory EXCEPT ![a] =
     IF @.strong = 1 THEN NULL ELSE [value |-> @.value, strong |-> @.strong - 1]]

-----------------------------------------------------------------------------
(* Borrows: several threads may read a table, one alone may change it.     *)

Reads(h, t) == job[h].op = "gather" /\ job[h].from = t

Changes(h, t) == job[h].op \in {"copy", "write"} /\ job[h].at = t

\* The table that a job will bring into being.
Makes(h, t) == job[h].op = "gather" /\ job[h].to = t

MayRead(t) == Exists(t) /\ \A h \in Threads : ~Changes(h, t)

MayChange(t) == MayRead(t) /\ \A h \in Threads : ~Reads(h, t)

Unbound(t) == ~Exists(t) /\ \A h \in Threads : ~Makes(h, t)

Start(h, work) ==
  /\ job[h] = Idle
  /\ job' = [job EXCEPT ![h] = work]

\* Bound: memory is never used up by those who are about to copy a record.
RoomToAllocate ==
  Cardinality({h \in Threads : job[h].op = "copy"})
    < Cardinality({a \in Addresses : heap[a] = NULL})

-----------------------------------------------------------------------------
(* Calls of one step.                                                      *)

NewTable(h, t) ==
  /\ job[h] = Idle /\ Unbound(t)
  /\ table' = [table EXCEPT ![t] = <<>>]
  /\ UNCHANGED <<heap, single, job>>

Push(h, t, v) ==
  /\ job[h] = Idle /\ MayChange(t) /\ Len(table[t]) < MaxRows /\ RoomToAllocate
  /\ \E a \in Addresses :
       /\ heap[a] = NULL
       /\ heap' = Allocated(heap, a, v)
       /\ table' = [table EXCEPT ![t] = Append(@, a)]
  /\ UNCHANGED <<single, job>>

\* push_shared: the handle moves into the table.
Give(h, t) ==
  /\ job[h] = Idle /\ MayChange(t) /\ Len(table[t]) < MaxRows /\ single[h] # NULL
  /\ table' = [table EXCEPT ![t] = Append(@, single[h])]
  /\ single' = [single EXCEPT ![h] = NULL]
  /\ UNCHANGED <<heap, job>>

\* A caller clones a handle of as_slice.
Take(h, t, i) ==
  /\ job[h] = Idle /\ MayRead(t) /\ i \in DOMAIN table[t] /\ single[h] = NULL
  /\ heap' = Cloned(heap, table[t][i])
  /\ single' = [single EXCEPT ![h] = table[t][i]]
  /\ UNCHANGED <<table, job>>

Release(h) ==
  /\ job[h] = Idle /\ single[h] # NULL
  /\ heap' = Dropped(heap, single[h])
  /\ single' = [single EXCEPT ![h] = NULL]
  /\ UNCHANGED <<table, job>>

-----------------------------------------------------------------------------
(* Copies.  Rows are visited in parts of `cut` rows, sequentially within a *)
(* part and in any order between parts; the handles of the parts are put   *)
(* together in order.  A sequential call has one part.                     *)

Parts(n, cut) == 1..((n + cut - 1) \div cut)

Gather(h, t, u, positions, accepted, cut) ==
  /\ MayRead(t) /\ Unbound(u) /\ cut > 0
  /\ Start(h, [op |-> "gather", from |-> t, to |-> u, rows |-> positions,
               accepted |-> accepted, cut |-> cut,
               visited |-> [p \in Parts(Len(positions), cut) |-> 0],
               found |-> [p \in Parts(Len(positions), cut) |-> <<>>]])
  /\ UNCHANGED <<heap, table, single>>

\* filter, par_filter and par_filter_chunked; clone, which accepts everything.
Filter(h, t, u, accepted, cut) ==
  /\ MayRead(t)
  /\ Gather(h, t, u, [i \in DOMAIN table[t] |-> i], accepted, cut)

\* copy_rows and par_copy_rows: all positions are checked first.
Copy(h, t, u, positions, cut) ==
  /\ MayRead(t)
  /\ \A j \in DOMAIN positions : positions[j] <= Len(table[t])
  /\ Gather(h, t, u, positions, Records, cut)

PartLen(work, p) ==
  IF p * work.cut <= Len(work.rows) THEN work.cut ELSE Len(work.rows) - (p - 1) * work.cut

\* One row of a part: its record is looked at, and its handle cloned or not.
Visit(h, p) ==
  LET work == job[h]
      row == work.rows[(p - 1) * work.cut + work.visited[p] + 1]
      a == table[work.from][row]
      taken == heap[a].value \in work.accepted
  IN /\ work.op = "gather" /\ p \in DOMAIN work.visited
     /\ work.visited[p] < PartLen(work, p)
     /\ heap' = IF taken THEN Cloned(heap, a) ELSE heap
     /\ job' = [job EXCEPT ![h].visited[p] = @ + 1,
                           ![h].found[p] = IF taken THEN Append(@, a) ELSE @]
     /\ UNCHANGED <<table, single>>

\* The parts' handles, in source order.
Joined(parts) ==
  LET upto[p \in 0..Len(parts)] == IF p = 0 THEN <<>> ELSE upto[p - 1] \o parts[p]
  IN upto[Len(parts)]

FinishGather(h) ==
  LET work == job[h] IN
  /\ work.op = "gather"
  /\ \A p \in DOMAIN work.visited : work.visited[p] = PartLen(work, p)
  /\ table' = [table EXCEPT ![work.to] = Joined(work.found)]
  /\ job' = [job EXCEPT ![h] = Idle]
  /\ UNCHANGED <<heap, single>>

-----------------------------------------------------------------------------
(* get_mut and the write through what it returns.                          *)

\* Mutant: a record is only seen to be shared within its own table.
SharedInTable(a) == \E t \in Slots : Exists(t) /\
  Cardinality({i \in DOMAIN table[t] : table[t][i] = a}) > 1

Shared(a) == heap[a].strong > 1

\* make_mut looks at the count: nobody can raise it from 1 but through us.
GetMut(h, t, i) ==
  /\ MayChange(t) /\ i \in DOMAIN table[t]
  /\ Shared(table[t][i]) => RoomToAllocate
  /\ Start(h, [op |-> IF Shared(table[t][i]) THEN "copy" ELSE "write", at |-> t, row |-> i])
  /\ UNCHANGED <<heap, table, single>>

\* The record is copied, then the old handle dropped; it may be the last by now.
CopyRecord(h) ==
  LET t == job[h].at
      a == table[t][job[h].row]
  IN /\ job[h].op = "copy"
     /\ \E b \in Addresses :
          /\ heap[b] = NULL
          /\ heap' = Dropped(Allocated(heap, b, heap[a].value), a)
          /\ table' = [table EXCEPT ![t] = [@ EXCEPT ![job[h].row] = b]]
     /\ job' = [job EXCEPT ![h].op = "write"]
     /\ UNCHANGED single

Write(h, v) ==
  LET a == table[job[h].at][job[h].row] IN
  /\ job[h].op = "write"
  /\ heap' = [heap EXCEPT ![a].value = v]
  /\ job' = [job EXCEPT ![h] = Idle]
  /\ UNCHANGED <<table, single>>

-----------------------------------------------------------------------------
(* Drop and par_drop: the table is gone at once, its handles one by one.   *)

Drop(h, t) ==
  /\ MayChange(t)
  /\ Start(h, [op |-> "drop", handles |-> table[t], parallel |-> Len(table[t]) >= ParDropRows])
  /\ table' = [table EXCEPT ![t] = NULL]
  /\ UNCHANGED <<heap, single>>

Without(s, k) == SubSeq(s, 1, k - 1) \o SubSeq(s, k + 1, Len(s))

DropHandle(h, k) ==
  LET work == job[h] IN
  /\ work.op = "drop" /\ k \in DOMAIN work.handles
  /\ k = 1 \/ work.parallel
  /\ heap' = Dropped(heap, work.handles[k])
  /\ job' = [job EXCEPT ![h].handles = Without(@, k)]
  /\ UNCHANGED <<table, single>>

FinishDrop(h) ==
  /\ job[h].op = "drop" /\ job[h].handles = <<>>
  /\ job' = [job EXCEPT ![h] = Idle]
  /\ UNCHANGED <<heap, table, single>>

-----------------------------------------------------------------------------
Next ==
  \E h \in Threads :
    \/ \E t \in Slots :
         \/ NewTable(h, t) \/ Give(h, t) \/ Drop(h, t)
         \/ \E v \in Records : Push(h, t, v)
         \/ \E i \in 1..MaxRows : Take(h, t, i) \/ GetMut(h, t, i)
         \/ \E u \in Slots, cut \in 1..MaxRows :
              \/ \E accepted \in SUBSET Records : Filter(h, t, u, accepted, cut)
              \/ \E positions \in Selections : Copy(h, t, u, positions, cut)
    \/ Release(h)
    \/ \E p \in 1..MaxRows : Visit(h, p)
    \/ FinishGather(h)
    \/ CopyRecord(h)
    \/ \E v \in Records : Write(h, v)
    \/ \E k \in 1..MaxRows : DropHandle(h, k)
    \/ FinishDrop(h)

Spec == Init /\ [][Next]_vars

-----------------------------------------------------------------------------
(* Properties.                                                             *)

\* Who can hold handles: tables, threads, and what threads are in the middle of.
Holders == ({"table"} \X Slots) \cup ({"single"} \X Threads) \cup ({"job"} \X Threads)

\* A copy holds the rows it has found so far, a drop what it has still to drop.
HeldBy(work) ==
  IF work.op = "gather" THEN Joined(work.found)
  ELSE IF work.op = "drop" THEN work.handles ELSE <<>>

Handles(w) ==
  IF w[1] = "table" THEN IF Exists(w[2]) THEN table[w[2]] ELSE <<>>
  ELSE IF w[1] = "single" THEN IF single[w[2]] = NULL THEN <<>> ELSE <<single[w[2]]>>
  ELSE HeldBy(job[w[2]])

\* Where a is in a sequence, and all places where sequences hold it.
Where(s, a) == {i \in DOMAIN s : s[i] = a}

Places(held, a) == UNION {{w} \X Where(held[w], a) : w \in DOMAIN held}

HandleCount(a) == Cardinality(Places([w \in Holders |-> Handles(w)], a))

\* A record lives as long as there is a handle to it anywhere, be it in a copy
\* or a drop that several threads are in the middle of, and no longer; its count
\* is the number of handles, on which make_mut decides whether to copy.
StrongCountsExact ==
  \A a \in Addresses :
    HandleCount(a) = IF heap[a] = NULL THEN 0 ELSE heap[a].strong

ValueAt(a) == IF a = NULL THEN NULL ELSE heap[a].value

Values(handles) == [i \in DOMAIN handles |-> ValueAt(handles[i])]

\* What is to be seen of tables and of threads' handles.
RowsSeen == [t \in Slots |-> IF Exists(t) THEN Values(table[t]) ELSE NULL]

SingleSeen == [h \in Threads |-> ValueAt(single[h])]

Rows == INSTANCE RecordRows WITH rows <- RowsSeen, single <- SingleSeen

\* Sharing shows in nothing: every table is what it would be if all its records
\* were its own, whatever copies, filters, edits and drops of tables that share
\* them other threads are in the middle of.
ImplementsRecordRows == Rows!Spec

-----------------------------------------------------------------------------
(* An instance for TLC.                                                    *)

\* In order, out of order and twice, past the end.
MCSelections == {<<2, 1>>, <<1, 1>>}

MCSymmetry == Permutations(Addresses) \cup Permutations(Threads) \cup Permutations(Slots)
=============================================================================
