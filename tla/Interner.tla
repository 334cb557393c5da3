------------------------------- MODULE Interner -------------------------------
(***************************************************************************)
(* The string pool behind interned columns (table/interned_string.rs).    *)
(*                                                                         *)
(* A cell of a column is a strong handle (Arc) on an InternedValue; the    *)
(* value names its text and, weakly, the pool (Interner) it belongs to;    *)
(* the pool's cache names the value of each text, weakly, behind a mutex.  *)
(* A value dies when its last handle is dropped, and only then does its    *)
(* destructor lock the cache to remove it: between the two steps another   *)
(* thread can look the text up and find the dead value.                    *)
(*                                                                         *)
(* Handles are not counted: a value is alive while a cell or an unfinished *)
(* lookup holds it, which is what a strong count above zero means.  The    *)
(* address of a value is used again once nothing, not even a weak          *)
(* reference of a cache, names it.                                         *)
(***************************************************************************)
EXTENDS FiniteSets

CONSTANTS
  Threads,  \* threads that use the columns
  Columns,  \* identities of InternedStringData objects
  Slots,    \* row positions of one column
  Texts,    \* strings
  Pools,    \* addresses of Interner allocations
  Addrs,    \* addresses of InternedValue allocations
  NULL      \* no handle, no column, no pool

Cells == Columns \X Slots

Value == [text : Texts, pool : Pools]

ASSUME NullAssumption ==
  /\ NULL \notin Threads \cup Columns \cup Texts \cup Pools \cup Addrs \cup Cells \cup Value
  /\ NULL \notin [cell : Cells, text : Texts]  \* the requests of InternedCells

VARIABLES
  interner,  \* interner[k]: the pool of column k, NULL if k does not exist
  cells,     \* cells[c]: the strong handle stored in cell c
  heap,      \* heap[a]: text and pool of the InternedValue at a, while it has them
  cache,     \* cache[p][x]: the weak entry for text x in pool p
  lock,      \* lock[p]: the thread that holds the mutex of pool p
  pc,        \* pc[t]: where thread t is
  cell,      \* cell[t]: the cell t borrows mutably
  text,      \* text[t]: the text t is interning
  got,       \* got[t]: the strong handle returned by acquire
  dying,     \* dying[t]: the value whose destructor t runs
  pinned,    \* pinned[t]: the pool that destructor upgraded
  closing    \* closing[t]: the column t is dropping

vars == <<interner, cells, heap, cache, lock, pc, cell, text, got, dying,
          pinned, closing>>

Setting == {"lock", "lookup", "insert", "install"}        \* InternedStringCellMut::set
Dropping == {"upgrade", "droplock", "remove", "release"}  \* Drop for InternedValue
Steps == {"idle", "close"} \cup Setting \cup Dropping     \* "close": dropping a column

TypeOK ==
  /\ interner \in [Columns -> Pools \cup {NULL}]
  /\ cells \in [Cells -> Addrs \cup {NULL}]
  /\ heap \in [Addrs -> Value \cup {NULL}]
  /\ cache \in [Pools -> [Texts -> Addrs \cup {NULL}]]
  /\ lock \in [Pools -> Threads \cup {NULL}]
  /\ pc \in [Threads -> Steps]
  /\ cell \in [Threads -> Cells \cup {NULL}]
  /\ text \in [Threads -> Texts \cup {NULL}]
  /\ got \in [Threads -> Addrs \cup {NULL}]
  /\ dying \in [Threads -> Addrs \cup {NULL}]
  /\ pinned \in [Threads -> Pools \cup {NULL}]
  /\ closing \in [Threads -> Columns \cup {NULL}]

-----------------------------------------------------------------------------
(* Ownership.                                                              *)

\* Weak::upgrade succeeds exactly on these.
Alive(a) ==
  \/ \E c \in Cells : cells[c] = a
  \/ \E t \in Threads : got[t] = a

PoolAlive(p) ==
  \/ \E k \in Columns : interner[k] = p
  \/ \E t \in Threads : pinned[t] = p

\* A destructor that has not reached the cache yet.
Pending(a) ==
  \E t \in Threads : dying[t] = a /\ pc[t] \in {"upgrade", "droplock", "remove"}

\* No strong or weak reference is left: the allocator may hand a out again.
Unreferenced(a) ==
  /\ ~Alive(a)
  /\ \A t \in Threads : dying[t] # a
  /\ \A p \in Pools, x \in Texts : cache[p][x] # a

PoolUnreferenced(p) ==
  /\ ~PoolAlive(p)
  /\ \A a \in Addrs : heap[a] # NULL => heap[a].pool # p

\* Rust's borrow rules: the cell is borrowed mutably, or moved into a drop.
Borrowed(c) == \E t \in Threads : cell[t] = c \/ closing[t] = c[1]

ColumnBorrowed(k) ==
  \E t \in Threads : closing[t] = k \/ \E s \in Slots : cell[t] = <<k, s>>

\* The handle c stores is dropped; v takes its place.  The handle's last owner
\* goes on to run the destructor, with the borrow still in place.
Replace(t, c, v, next) ==
  LET old == cells[c] IN
  /\ cells' = [cells EXCEPT ![c] = v]
  /\ LET last == /\ old # NULL
                 /\ \A d \in Cells : cells'[d] # old
                 /\ \A u \in Threads : got'[u] # old
     IN /\ dying' = [dying EXCEPT ![t] = IF last THEN old ELSE NULL]
        /\ pc' = [pc EXCEPT ![t] = IF last THEN "upgrade" ELSE next]
        /\ cell' = [cell EXCEPT ![t] = IF last THEN c ELSE NULL]

\* The cache of a pool goes away with its last strong reference.
ReleaseCaches ==
  cache' = [p \in Pools |->
              IF (\E k \in Columns : interner'[k] = p) \/ (\E t \in Threads : pinned'[t] = p)
              THEN cache[p]
              ELSE [x \in Texts |-> NULL]]

-----------------------------------------------------------------------------
(* Columns.                                                                *)

Init ==
  /\ interner = [k \in Columns |-> NULL]
  /\ cells = [c \in Cells |-> NULL]
  /\ heap = [a \in Addrs |-> NULL]
  /\ cache = [p \in Pools |-> [x \in Texts |-> NULL]]
  /\ lock = [p \in Pools |-> NULL]
  /\ pc = [t \in Threads |-> "idle"]
  /\ cell = [t \in Threads |-> NULL]
  /\ text = [t \in Threads |-> NULL]
  /\ got = [t \in Threads |-> NULL]
  /\ dying = [t \in Threads |-> NULL]
  /\ pinned = [t \in Threads |-> NULL]
  /\ closing = [t \in Threads |-> NULL]

\* InternedStringData::new: an empty column with a pool of its own.
NewColumn(t, k, p) ==
  /\ pc[t] = "idle"
  /\ interner[k] = NULL
  /\ PoolUnreferenced(p)
  /\ interner' = [interner EXCEPT ![k] = p]
  /\ UNCHANGED <<cells, heap, cache, lock, pc, cell, text, got, dying, pinned, closing>>

\* copy_rows, copy_range and clone: handles are cloned without the mutex.
CopyColumn(t, k, from, rows) ==
  /\ pc[t] = "idle"
  /\ interner[k] = NULL
  /\ interner[from] # NULL
  /\ ~ColumnBorrowed(from)
  /\ interner' = [interner EXCEPT ![k] = interner[from]]
  /\ cells' = [c \in Cells |->
                 IF c[1] # k THEN cells[c]
                 ELSE IF rows[c[2]] = NULL THEN NULL
                 ELSE cells[<<from, rows[c[2]]>>]]
  /\ UNCHANGED <<heap, cache, lock, pc, cell, text, got, dying, pinned, closing>>

\* Mutant: handles are cloned between pools as well.
AppendAcrossPools(t, c, from) ==
  /\ pc[t] = "idle"
  /\ c[1] # from[1]
  /\ interner[c[1]] # NULL
  /\ ~ColumnBorrowed(c[1]) /\ ~ColumnBorrowed(from[1])
  /\ cells[c] = NULL /\ cells[from] # NULL
  /\ cells' = [cells EXCEPT ![c] = cells[from]]
  /\ UNCHANGED <<interner, heap, cache, lock, pc, cell, text, got, dying, pinned, closing>>

\* append_from between columns of one pool: a handle is cloned into a new row.
AppendShared(t, c, from) ==
  /\ pc[t] = "idle"
  /\ c[1] # from[1]
  /\ interner[c[1]] # NULL
  /\ interner[c[1]] = interner[from[1]]
  /\ ~ColumnBorrowed(c[1]) /\ ~ColumnBorrowed(from[1])
  /\ cells[c] = NULL /\ cells[from] # NULL
  /\ cells' = [cells EXCEPT ![c] = cells[from]]
  /\ UNCHANGED <<interner, heap, cache, lock, pc, cell, text, got, dying, pinned, closing>>

-----------------------------------------------------------------------------
(* push, InternedStringCellMut::set, and append between pools: the text is *)
(* interned in the pool of the column that receives it.                    *)

BeginSet(t, c, x) ==
  /\ pc[t] = "idle"
  /\ interner[c[1]] # NULL
  /\ ~Borrowed(c)
  /\ pc' = [pc EXCEPT ![t] = "lock"]
  /\ cell' = [cell EXCEPT ![t] = c]
  /\ text' = [text EXCEPT ![t] = x]
  /\ UNCHANGED <<interner, cells, heap, cache, lock, got, dying, pinned, closing>>

PoolOf(t) == interner[cell[t][1]]

LockEntries(t) ==
  /\ pc[t] = "lock"
  /\ lock[PoolOf(t)] = NULL
  /\ lock' = [lock EXCEPT ![PoolOf(t)] = t]
  /\ pc' = [pc EXCEPT ![t] = "lookup"]
  /\ UNCHANGED <<interner, cells, heap, cache, cell, text, got, dying, pinned, closing>>

\* Mutant: the entry's value is returned although it may be dead.
AcquireDead(t) ==
  LET a == cache[PoolOf(t)][text[t]] IN
  /\ pc[t] = "lookup"
  /\ a # NULL
  /\ got' = [got EXCEPT ![t] = a]
  /\ lock' = [lock EXCEPT ![PoolOf(t)] = NULL]
  /\ pc' = [pc EXCEPT ![t] = "install"]
  /\ UNCHANGED <<interner, cells, heap, cache, cell, text, dying, pinned, closing>>

\* acquire finds an entry whose value is alive, and returns it.
AcquireHit(t) ==
  LET a == cache[PoolOf(t)][text[t]] IN
  /\ pc[t] = "lookup"
  /\ a # NULL /\ Alive(a)
  /\ got' = [got EXCEPT ![t] = a]
  /\ lock' = [lock EXCEPT ![PoolOf(t)] = NULL]
  /\ pc' = [pc EXCEPT ![t] = "install"]
  /\ UNCHANGED <<interner, cells, heap, cache, cell, text, dying, pinned, closing>>

\* Mutant: a dead entry sends the thread back to wait for its removal.
AcquireRetries(t) ==
  LET a == cache[PoolOf(t)][text[t]] IN
  /\ pc[t] = "lookup"
  /\ a = NULL \/ ~Alive(a)
  /\ pc' = [pc EXCEPT ![t] = IF a = NULL THEN "insert" ELSE "lock"]
  /\ lock' = IF a = NULL THEN lock ELSE [lock EXCEPT ![PoolOf(t)] = NULL]
  /\ UNCHANGED <<interner, cells, heap, cache, cell, text, got, dying, pinned, closing>>

\* acquire finds no entry, or a dead one whose destructor has not removed it
\* yet.
AcquireMiss(t) ==
  LET a == cache[PoolOf(t)][text[t]] IN
  /\ pc[t] = "lookup"
  /\ a = NULL \/ ~Alive(a)
  /\ pc' = [pc EXCEPT ![t] = "insert"]
  /\ UNCHANGED <<interner, cells, heap, cache, lock, cell, text, got, dying, pinned, closing>>

\* It publishes a new value under the text, in place of the dead one.
Publish(t, b) ==
  /\ pc[t] = "insert"
  /\ Unreferenced(b)
  /\ heap' = [heap EXCEPT ![b] = [text |-> text[t], pool |-> PoolOf(t)]]
  /\ cache' = [cache EXCEPT ![PoolOf(t)][text[t]] = b]
  /\ got' = [got EXCEPT ![t] = b]
  /\ lock' = [lock EXCEPT ![PoolOf(t)] = NULL]
  /\ pc' = [pc EXCEPT ![t] = "install"]
  /\ UNCHANGED <<interner, cells, cell, text, dying, pinned, closing>>

\* Mutant: a cell that holds a value has the value's text overwritten instead.
InstallInPlace(t) ==
  LET old == cells[cell[t]] IN
  /\ pc[t] = "install"
  /\ got' = [got EXCEPT ![t] = NULL]
  /\ text' = [text EXCEPT ![t] = NULL]
  /\ IF old = NULL
     THEN Replace(t, cell[t], got[t], "idle") /\ UNCHANGED heap
     ELSE /\ heap' = [heap EXCEPT ![old].text = text[t]]
          /\ pc' = [pc EXCEPT ![t] = "idle"]
          /\ cell' = [cell EXCEPT ![t] = NULL]
          /\ UNCHANGED <<cells, dying>>
  /\ UNCHANGED <<interner, cache, lock, pinned, closing>>

\* mem::replace and drop(old), after the mutex was released.
Install(t) ==
  /\ pc[t] = "install"
  /\ got' = [got EXCEPT ![t] = NULL]
  /\ text' = [text EXCEPT ![t] = NULL]
  /\ Replace(t, cell[t], got[t], "idle")
  /\ UNCHANGED <<interner, heap, cache, lock, pinned, closing>>

\* pop, retain_live on a removed row, and set(None) on a nullable column.
BeginClear(t, c) ==
  /\ pc[t] = "idle"
  /\ ~Borrowed(c)
  /\ cells[c] # NULL
  /\ UNCHANGED got
  /\ Replace(t, c, NULL, "idle")
  /\ UNCHANGED <<interner, heap, cache, lock, text, pinned, closing>>

-----------------------------------------------------------------------------
(* Dropping a column: its values field first, its interner field last.     *)

BeginClose(t, k) ==
  /\ pc[t] = "idle"
  /\ interner[k] # NULL
  /\ ~ColumnBorrowed(k)
  /\ pc' = [pc EXCEPT ![t] = "close"]
  /\ closing' = [closing EXCEPT ![t] = k]
  /\ UNCHANGED <<interner, cells, heap, cache, lock, cell, text, got, dying, pinned>>

CloseCell(t, s) ==
  /\ pc[t] = "close"
  /\ cells[<<closing[t], s>>] # NULL
  /\ UNCHANGED got
  /\ Replace(t, <<closing[t], s>>, NULL, "close")
  /\ UNCHANGED <<interner, heap, cache, lock, text, pinned, closing>>

\* Mutant: the interner field is dropped before the values.
CloseColumnEarly(t) ==
  /\ pc[t] = "close"
  /\ interner' = [interner EXCEPT ![closing[t]] = NULL]
  /\ closing' = [closing EXCEPT ![t] = NULL]
  /\ cell' = [cell EXCEPT ![t] = NULL]
  /\ pc' = [pc EXCEPT ![t] = "idle"]
  /\ UNCHANGED <<cells, heap, lock, text, got, dying, pinned>>
  /\ ReleaseCaches

CloseColumn(t) ==
  /\ pc[t] = "close"
  /\ \A s \in Slots : cells[<<closing[t], s>>] = NULL
  /\ interner' = [interner EXCEPT ![closing[t]] = NULL]
  /\ closing' = [closing EXCEPT ![t] = NULL]
  /\ cell' = [cell EXCEPT ![t] = NULL]
  /\ pc' = [pc EXCEPT ![t] = "idle"]
  /\ UNCHANGED <<cells, heap, lock, text, got, dying, pinned>>
  /\ ReleaseCaches

-----------------------------------------------------------------------------
(* Drop for InternedValue.                                                 *)

UpgradePool(t) ==
  LET p == heap[dying[t]].pool IN
  /\ pc[t] = "upgrade"
  /\ pinned' = [pinned EXCEPT ![t] = IF PoolAlive(p) THEN p ELSE NULL]
  /\ pc' = [pc EXCEPT ![t] = IF PoolAlive(p) THEN "droplock" ELSE "release"]
  /\ UNCHANGED <<interner, cells, heap, cache, lock, cell, text, got, dying, closing>>

LockForDrop(t) ==
  /\ pc[t] = "droplock"
  /\ lock[pinned[t]] = NULL
  /\ lock' = [lock EXCEPT ![pinned[t]] = t]
  /\ pc' = [pc EXCEPT ![t] = "remove"]
  /\ UNCHANGED <<interner, cells, heap, cache, cell, text, got, dying, pinned, closing>>

\* Mutant: whatever entry the text has is removed.
RemoveAnyEntry(t) ==
  LET p == pinned[t]
      x == heap[dying[t]].text
  IN
  /\ pc[t] = "remove"
  /\ cache' = [cache EXCEPT ![p][x] = NULL]
  /\ lock' = [lock EXCEPT ![p] = NULL]
  /\ pc' = [pc EXCEPT ![t] = "release"]
  /\ UNCHANGED <<interner, cells, heap, cell, text, got, dying, pinned, closing>>

\* The entry is removed only if it still names the value being destroyed.
RemoveEntry(t) ==
  LET p == pinned[t]
      x == heap[dying[t]].text
  IN
  /\ pc[t] = "remove"
  /\ cache' = IF cache[p][x] = dying[t] THEN [cache EXCEPT ![p][x] = NULL] ELSE cache
  /\ lock' = [lock EXCEPT ![p] = NULL]
  /\ pc' = [pc EXCEPT ![t] = "release"]
  /\ UNCHANGED <<interner, cells, heap, cell, text, got, dying, pinned, closing>>

\* The upgraded pool handle and the value's own fields are dropped.
Release(t) ==
  /\ pc[t] = "release"
  /\ heap' = [heap EXCEPT ![dying[t]] = NULL]
  /\ pinned' = [pinned EXCEPT ![t] = NULL]
  /\ dying' = [dying EXCEPT ![t] = NULL]
  /\ cell' = [cell EXCEPT ![t] = NULL]
  /\ pc' = [pc EXCEPT ![t] = IF closing[t] = NULL THEN "idle" ELSE "close"]
  /\ UNCHANGED <<interner, cells, lock, text, got, closing>>
  /\ ReleaseCaches

-----------------------------------------------------------------------------
Begin(t) ==
  \/ \E k \in Columns, p \in Pools : NewColumn(t, k, p)
  \/ \E k, from \in Columns, rows \in [Slots -> Slots \cup {NULL}] :
       CopyColumn(t, k, from, rows)
  \/ \E c, from \in Cells : AppendShared(t, c, from)
  \/ \E c \in Cells, x \in Texts : BeginSet(t, c, x)
  \/ \E c \in Cells : BeginClear(t, c)
  \/ \E k \in Columns : BeginClose(t, k)

Continue(t) ==
  \/ LockEntries(t)
  \/ AcquireHit(t)
  \/ AcquireMiss(t)
  \/ \E b \in Addrs : Publish(t, b)
  \/ Install(t)
  \/ \E s \in Slots : CloseCell(t, s)
  \/ CloseColumn(t)
  \/ UpgradePool(t)
  \/ LockForDrop(t)
  \/ RemoveEntry(t)
  \/ Release(t)

Next == \E t \in Threads : Begin(t) \/ Continue(t)

Spec == Init /\ [][Next]_vars

-----------------------------------------------------------------------------
(* Safety.                                                                 *)

\* A value that a cell or a lookup holds is the one its pool's cache names for
\* its text: the cache never loses a live value to the late destructor of a
\* dead one, and a pool never holds two live values of one text.
LiveIsCached ==
  \A a \in Addrs : Alive(a) => /\ heap[a] # NULL
                               /\ cache[heap[a].pool][heap[a].text] = a

\* A cache entry leads to a value of that text and pool, which is alive or
\* still has to run the part of its destructor that removes the entry: once
\* the destructors have finished, the cache holds no unused entry.
NoStaleEntry ==
  \A p \in Pools, x \in Texts, a \in Addrs :
    cache[p][x] = a =>
      /\ heap[a] = [text |-> x, pool |-> p]
      /\ Alive(a) \/ Pending(a)

\* A cell only holds values of its own column's pool, even when the rows of
\* another table were appended or copied into it.
CellsInPool ==
  \A c \in Cells : cells[c] # NULL =>
    heap[cells[c]] # NULL /\ heap[cells[c]].pool = interner[c[1]]

\* Between a lookup, a write and a destructor of different threads the cache of
\* a pool and its living values stay in step: interning finds every living value,
\* and what it finds dead is about to be removed by its own destructor.
CacheNamesLive == LiveIsCached /\ NoStaleEntry

\* A value is destroyed once, by one thread, and is out of every cell and
\* every lookup when its destructor runs.
DestroyedOnce ==
  \A t \in Threads : dying[t] # NULL =>
    /\ ~Alive(dying[t])
    /\ heap[dying[t]] # NULL
    /\ \A u \in Threads : dying[u] = dying[t] => u = t

\* A pool outlives what refers to it: a value that a cell, a lookup or the end of
\* its own destructor still has, and a thread that is in the cache under its
\* mutex.  A column drops its cells before its pool, so the destructor's upgrade
\* cannot fail, and the pool it got stays until the value's fields are gone.
PoolOutlivesEntries ==
  /\ \A a \in Addrs : Alive(a) \/ (\E t \in Threads : dying[t] = a) =>
       heap[a] # NULL /\ PoolAlive(heap[a].pool)
  /\ \A p \in Pools : lock[p] # NULL => PoolAlive(p)

-----------------------------------------------------------------------------
(* What the safety properties rest on.                                     *)

\* The local variables of a thread, by program counter.
Locals ==
  \A t \in Threads :
    /\ cell[t] # NULL <=> pc[t] \in Setting \cup Dropping
    /\ text[t] # NULL <=> pc[t] \in Setting
    /\ got[t] # NULL <=> pc[t] = "install"
    /\ dying[t] # NULL <=> pc[t] \in Dropping
    /\ pinned[t] # NULL <=> pc[t] \in Dropping \ {"upgrade"}
    /\ pc[t] = "close" => closing[t] # NULL
    /\ closing[t] # NULL => pc[t] \in {"close"} \cup Dropping

\* Borrows are exclusive, and the columns they come from exist.
Claims ==
  /\ \A t \in Threads :
       /\ cell[t] # NULL => interner[cell[t][1]] # NULL
       /\ closing[t] # NULL => interner[closing[t]] # NULL
       /\ cell[t] # NULL /\ closing[t] # NULL => cell[t][1] = closing[t]
  /\ \A t, u \in Threads : t # u =>
       /\ cell[t] # NULL => cell[t] # cell[u] /\ closing[u] # cell[t][1]
       /\ closing[t] # NULL => closing[t] # closing[u]
  /\ \A c \in Cells : interner[c[1]] = NULL => cells[c] = NULL

\* A handle in flight, or a value being destroyed, belongs to the pool of the
\* column whose cell the thread borrows.
InFlight ==
  \A t \in Threads :
    /\ got[t] # NULL => heap[got[t]] = [text |-> text[t], pool |-> PoolOf(t)]
    /\ dying[t] # NULL => heap[dying[t]] # NULL /\ heap[dying[t]].pool = PoolOf(t)
    /\ pinned[t] # NULL => pinned[t] = PoolOf(t)

\* The mutex covers a lookup up to the publication, and a removal, and is held
\* by nobody else.
Locking ==
  /\ \A t \in Threads :
       pc[t] \in {"lookup", "insert", "remove"} => lock[PoolOf(t)] = t
  /\ \A p \in Pools : lock[p] # NULL =>
       pc[lock[p]] \in {"lookup", "insert", "remove"} /\ PoolOf(lock[p]) = p

\* A miss stays a miss until its value is published.
MissStands ==
  \A t \in Threads, a \in Addrs :
    pc[t] = "insert" /\ Alive(a) => cache[PoolOf(t)][text[t]] # a

\* The inductive invariant.
Inductive ==
  /\ TypeOK
  /\ Locals
  /\ Claims
  /\ InFlight
  /\ Locking
  /\ MissStands
  /\ CellsInPool
  /\ LiveIsCached
  /\ NoStaleEntry
  /\ DestroyedOnce

-----------------------------------------------------------------------------
(* Sharing is invisible: the columns implement plain cells of text.        *)

TextOf(c) ==
  IF cells[c] = NULL \/ heap[cells[c]] = NULL THEN NULL ELSE heap[cells[c]].text

RequestOf(t) ==
  IF pc[t] \in Setting
  THEN [cell |-> cell[t], text |-> text[t]]
  ELSE NULL

Plain == INSTANCE InternedCells WITH
  content <- [c \in Cells |-> TextOf(c)],
  request <- [t \in Threads |-> RequestOf(t)]

\* Interning, sharing handles between rows and copies, and destroying values
\* never change what any cell other than the written one reads as.
CellsReadAsWritten == Plain!Spec

-----------------------------------------------------------------------------
(* Liveness.                                                               *)

\* A thread inside an operation keeps running; starting one is its own choice.
FairSpec == Spec /\ \A t \in Threads : WF_vars(Continue(t))

Starts == \E t \in Threads : pc[t] = "idle" /\ pc'[t] # "idle"

AllIdle == \A t \in Threads : pc[t] = "idle"

\* If threads stop starting writes and drops, every operation in progress ends
\* (no thread waits for the mutex for ever, whatever the order it is granted in).
OperationsFinish == []<><<Starts>>_vars \/ <>[]AllIdle
=============================================================================
