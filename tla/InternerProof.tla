---------------------------- MODULE InternerProof ----------------------------
(***************************************************************************)
(* Proofs about Interner, for any number of threads, columns, rows, texts, *)
(* pools and allocations.                                                  *)
(***************************************************************************)
EXTENDS Interner, TLAPS

\* What NULL is not.
LEMMA NullFacts ==
  /\ NULL \notin Threads /\ NULL \notin Columns /\ NULL \notin Texts
  /\ NULL \notin Pools /\ NULL \notin Addrs /\ NULL \notin Cells
  /\ NULL \notin Value
  BY NullAssumption

\* A cell is a position of one column.
LEMMA CellFacts ==
  /\ \A c \in Cells : c[1] \in Columns
  /\ \A k \in Columns, s \in Slots : <<k, s>> \in Cells /\ <<k, s>>[1] = k
  BY DEF Cells

\* The empty pool satisfies the invariant.
LEMMA InductiveInit == Init => Inductive
  BY NullFacts, CellFacts
  DEF Init, Inductive, TypeOK, Locals, Claims, InFlight, Locking, MissStands, CellsInPool,
      LiveIsCached, NoStaleEntry, DestroyedOnce, Alive, Steps, Setting, Dropping

\* A destructor that a step leaves short of the cache is still pending after it.
LEMMA PendingStays ==
  ASSUME \A u \in Threads :
           pc[u] \in {"upgrade", "droplock", "remove"} =>
             /\ dying'[u] = dying[u]
             /\ pc'[u] \in {"upgrade", "droplock", "remove"}
  PROVE  \A b : Pending(b) => Pending(b)'
  <1>. SUFFICES ASSUME NEW b, Pending(b)  PROVE Pending(b)'
    OBVIOUS
  <1>1. PICK u \in Threads : dying[u] = b /\ pc[u] \in {"upgrade", "droplock", "remove"}
    BY DEF Pending
  <1>. QED  BY <1>1 DEF Pending

\* A new column takes a pool that nothing refers to.
LEMMA NewColumnStep ==
  ASSUME Inductive, NEW t \in Threads, NEW k \in Columns, NEW p \in Pools,
         NewColumn(t, k, p)
  PROVE  Inductive'
  <1>. USE NullFacts, CellFacts DEF Inductive, NewColumn, TypeOK
  <1>1. TypeOK'
    OBVIOUS
  <1>2. Locals'
    BY DEF Locals
  <1>3. Claims'
    BY DEF Claims, Locals
  <1>4. \A u \in Threads : cell[u] # NULL => PoolOf(u)' = PoolOf(u)
    BY DEF PoolOf, Claims
  <1>5. InFlight'
    <2>1. \A u \in Threads : got[u] # NULL \/ dying[u] # NULL \/ pinned[u] # NULL => cell[u] # NULL
      BY DEF Locals, Setting, Dropping
    <2>. QED  BY <1>4, <2>1 DEF InFlight
  <1>6. Locking' /\ MissStands'
    <2>1. \A u \in Threads : pc[u] \in {"lookup", "insert", "remove"} => cell[u] # NULL
      BY DEF Locals, Setting, Dropping
    <2>. QED  BY <1>4, <2>1 DEF Locking, MissStands, Alive
  <1>7. CellsInPool'
    BY DEF CellsInPool, Claims
  <1>8. LiveIsCached' /\ NoStaleEntry' /\ DestroyedOnce'
    <2>1. LiveIsCached' /\ DestroyedOnce'
      BY DEF LiveIsCached, DestroyedOnce, Alive
    <2>2. NoStaleEntry'
      BY DEF NoStaleEntry, Alive, Pending
    <2>. QED  BY <2>1, <2>2
  <1>. QED  BY <1>1, <1>2, <1>3, <1>5, <1>6, <1>7, <1>8

\* A thread that writes or destroys borrows a cell of an existing column.
LEMMA Borrows ==
  ASSUME Inductive
  PROVE  \A u \in Threads :
           /\ pc[u] \in Setting \cup Dropping => cell[u] \in Cells /\ PoolOf(u) \in Pools
           /\ pc[u] \in {"lock", "lookup", "insert", "install"} => text[u] \in Texts
           /\ pc[u] \in {"lookup", "insert", "remove"} => lock[PoolOf(u)] = u
           /\ cell[u] # NULL <=> pc[u] \in Setting \cup Dropping
  BY NullFacts, CellFacts
  DEF Inductive, TypeOK, Locals, Claims, Locking, PoolOf, Setting, Dropping

\* A writer borrows a cell that no one else borrows.
LEMMA BeginSetStep ==
  ASSUME Inductive, NEW t \in Threads, NEW c \in Cells, NEW x \in Texts,
         BeginSet(t, c, x)
  PROVE  Inductive'
  <1>. USE NullFacts, CellFacts DEF Inductive, BeginSet, TypeOK
  <1>0. /\ cell[t] = NULL /\ text[t] = NULL /\ got[t] = NULL
        /\ dying[t] = NULL /\ pinned[t] = NULL /\ closing[t] = NULL
    BY DEF Locals, Setting, Dropping
  <1>1. TypeOK'
    BY DEF Steps, Setting
  <1>2. Locals'
    BY <1>0 DEF Locals, Setting, Dropping
  <1>3. Claims'
    BY <1>0 DEF Claims, Borrowed
  <1>4. \A u \in Threads : u # t => PoolOf(u)' = PoolOf(u)
    BY DEF PoolOf
  <1>5. InFlight'
    BY <1>0, <1>4 DEF InFlight
  <1>6. Locking' /\ MissStands'
    BY <1>4 DEF Locking, MissStands, Alive
  <1>7. CellsInPool' /\ LiveIsCached' /\ NoStaleEntry' /\ DestroyedOnce'
    <2>1. CellsInPool' /\ LiveIsCached' /\ DestroyedOnce'
      BY <1>0 DEF CellsInPool, LiveIsCached, DestroyedOnce, Alive
    <2>2. \A b \in Addrs : Pending(b) => Pending(b)'
      BY PendingStays, <1>0
    <2>3. NoStaleEntry'
      BY <2>2 DEF NoStaleEntry, Alive
    <2>. QED  BY <2>1, <2>3
  <1>. QED  BY <1>1, <1>2, <1>3, <1>5, <1>6, <1>7

\* Only a writer that found the mutex free gets it (Interner::entries).
LEMMA LockEntriesStep ==
  ASSUME Inductive, NEW t \in Threads, LockEntries(t)
  PROVE  Inductive'
  <1>. USE NullFacts, CellFacts, Borrows DEF Inductive, LockEntries, TypeOK
  <1>1. TypeOK'
    BY DEF Steps, Setting
  <1>2. Locals'
    BY DEF Locals, Setting, Dropping
  <1>3. Claims'
    BY DEF Claims
  <1>4. \A u \in Threads : PoolOf(u)' = PoolOf(u)
    BY DEF PoolOf
  <1>5. InFlight'
    BY <1>4 DEF InFlight
  <1>6. Locking'
    BY <1>4 DEF Locking, Setting, Dropping
  <1>7. MissStands'
    BY <1>4 DEF MissStands, Alive
  <1>8. CellsInPool' /\ LiveIsCached' /\ NoStaleEntry' /\ DestroyedOnce'
    <2>1. CellsInPool' /\ LiveIsCached' /\ DestroyedOnce'
      BY DEF CellsInPool, LiveIsCached, DestroyedOnce, Alive
    <2>2. \A b \in Addrs : Pending(b) => Pending(b)'
      BY PendingStays
    <2>3. NoStaleEntry'
      BY <2>2 DEF NoStaleEntry, Alive
    <2>. QED  BY <2>1, <2>3
  <1>. QED  BY <1>1, <1>2, <1>3, <1>5, <1>6, <1>7, <1>8

\* An upgraded handle is a live value of the pool and of the text looked up.
LEMMA AcquireHitStep ==
  ASSUME Inductive, NEW t \in Threads, AcquireHit(t)
  PROVE  Inductive'
  <1>. USE NullFacts, CellFacts, Borrows DEF Inductive, AcquireHit, TypeOK
  <1>. DEFINE a == cache[PoolOf(t)][text[t]]
  <1>0. a \in Addrs /\ Alive(a) /\ heap[a] = [text |-> text[t], pool |-> PoolOf(t)]
    BY DEF Setting, NoStaleEntry
  <1>1. TypeOK'
    BY <1>0 DEF Steps, Setting
  <1>2. Locals'
    BY <1>0 DEF Locals, Setting, Dropping
  <1>3. Claims'
    BY DEF Claims
  <1>4. \A u \in Threads : PoolOf(u)' = PoolOf(u)
    BY DEF PoolOf
  <1>5. InFlight'
    BY <1>0, <1>4 DEF InFlight
  <1>6. Locking'
    BY <1>4 DEF Locking, Setting, Dropping
  <1>7. \A b \in Addrs : Alive(b)' <=> Alive(b)
    <2>1. got[t] = NULL
      BY DEF Locals
    <2>. QED  BY <1>0, <2>1 DEF Alive
  <1>8. MissStands'
    BY <1>4, <1>7 DEF MissStands, Setting
  <1>9. CellsInPool' /\ LiveIsCached' /\ NoStaleEntry' /\ DestroyedOnce'
    <2>1. CellsInPool' /\ LiveIsCached' /\ DestroyedOnce'
      BY <1>7 DEF CellsInPool, LiveIsCached, DestroyedOnce
    <2>2. \A b \in Addrs : Pending(b) => Pending(b)'
      BY PendingStays
    <2>3. NoStaleEntry'
      BY <2>2, <1>7 DEF NoStaleEntry
    <2>. QED  BY <2>1, <2>3
  <1>. QED  BY <1>1, <1>2, <1>3, <1>5, <1>6, <1>8, <1>9

\* A missing or dead entry is left in place until the insertion.
LEMMA AcquireMissStep ==
  ASSUME Inductive, NEW t \in Threads, AcquireMiss(t)
  PROVE  Inductive'
  <1>. USE NullFacts, CellFacts, Borrows DEF Inductive, AcquireMiss, TypeOK
  <1>1. TypeOK'
    BY DEF Steps, Setting
  <1>2. Locals'
    BY DEF Locals, Setting, Dropping
  <1>3. Claims'
    BY DEF Claims
  <1>4. \A u \in Threads : PoolOf(u)' = PoolOf(u)
    BY DEF PoolOf
  <1>5. InFlight'
    BY <1>4 DEF InFlight
  <1>6. Locking'
    BY <1>4 DEF Locking, Setting, Dropping
  <1>7. MissStands'
    BY <1>4 DEF MissStands, Alive
  <1>8. CellsInPool' /\ LiveIsCached' /\ NoStaleEntry' /\ DestroyedOnce'
    <2>1. CellsInPool' /\ LiveIsCached' /\ DestroyedOnce'
      BY DEF CellsInPool, LiveIsCached, DestroyedOnce, Alive
    <2>2. \A b \in Addrs : Pending(b) => Pending(b)'
      BY PendingStays
    <2>3. NoStaleEntry'
      BY <2>2 DEF NoStaleEntry, Alive
    <2>. QED  BY <2>1, <2>3
  <1>. QED  BY <1>1, <1>2, <1>3, <1>5, <1>6, <1>7, <1>8

\* A published value takes over the text's entry from a dead one, never from
\* a live one.
LEMMA PublishStep ==
  ASSUME Inductive, NEW t \in Threads, NEW b \in Addrs, Publish(t, b)
  PROVE  Inductive'
  <1>. USE NullFacts, CellFacts, Borrows DEF Inductive, Publish, TypeOK
  <1>. DEFINE p == PoolOf(t)
              x == text[t]
  <1>0. /\ p \in Pools /\ x \in Texts /\ got[t] = NULL /\ lock[p] = t
        /\ heap'[b] = [text |-> x, pool |-> p] /\ heap'[b] # NULL
        /\ \A a \in Addrs : a # b => heap'[a] = heap[a]
        /\ cache'[p][x] = b
        /\ \A q \in Pools, y \in Texts : ~(q = p /\ y = x) => cache'[q][y] = cache[q][y]
    BY DEF Setting, Locals, Value
  <1>1. TypeOK'
    BY <1>0 DEF Steps, Setting, Value
  <1>2. Locals'
    BY DEF Locals, Setting, Dropping
  <1>3. Claims'
    BY DEF Claims
  <1>4. \A u \in Threads : PoolOf(u)' = PoolOf(u)
    BY DEF PoolOf
  <1>5. /\ \A a \in Addrs : Alive(a)' <=> Alive(a) \/ a = b
        /\ ~Alive(b)
    BY <1>0 DEF Alive, Unreferenced
  <1>6. InFlight'
    <2>1. \A u \in Threads : dying[u] # b /\ got[u] # b
      BY DEF Unreferenced, Alive
    <2>. QED  BY <1>0, <1>4, <2>1 DEF InFlight
  <1>7. Locking'
    BY <1>4 DEF Locking, Setting, Dropping
  <1>8. MissStands'
    <2>. SUFFICES ASSUME NEW u \in Threads, pc[u] = "insert", u # t,
                         NEW a \in Addrs, Alive(a)'
                  PROVE  cache'[PoolOf(u)][text[u]] # a
      BY <1>4 DEF MissStands
    <2>1. PoolOf(u) # p
      BY <1>0
    <2>2. PoolOf(u) \in Pools /\ text[u] \in Texts
      BY DEF Setting
    <2>3. cache'[PoolOf(u)][text[u]] = cache[PoolOf(u)][text[u]]
      BY <1>0, <2>1, <2>2
    <2>4. cache[PoolOf(u)][text[u]] # b
      BY <2>2 DEF Unreferenced
    <2>. QED  BY <1>5, <2>2, <2>3, <2>4 DEF MissStands
  <1>9. CellsInPool'
    BY <1>0, <1>5 DEF CellsInPool, Alive
  <1>10. LiveIsCached'
    <2>. SUFFICES ASSUME NEW a \in Addrs, Alive(a), a # b
                  PROVE  heap[a] # NULL /\ cache'[heap[a].pool][heap[a].text] = a
      BY <1>0, <1>5 DEF LiveIsCached
    <2>1. heap[a] # NULL /\ cache[heap[a].pool][heap[a].text] = a
      BY DEF LiveIsCached
    <2>2. heap[a].pool \in Pools /\ heap[a].text \in Texts
      BY <2>1 DEF Value
    <2>3. ~(heap[a].pool = p /\ heap[a].text = x)
      BY <2>1 DEF MissStands
    <2>. QED  BY <1>0, <2>1, <2>2, <2>3
  <1>11. NoStaleEntry'
    <2>1. \A a \in Addrs : Pending(a) => Pending(a)'
      BY PendingStays
    <2>. SUFFICES ASSUME NEW q \in Pools, NEW y \in Texts,
                         NEW a \in Addrs, a = cache'[q][y]
                  PROVE  heap'[a] = [text |-> y, pool |-> q] /\ (Alive(a)' \/ Pending(a)')
      BY DEF NoStaleEntry
    <2>2. CASE q = p /\ y = x
      BY <1>0, <1>5, <2>2
    <2>3. CASE ~(q = p /\ y = x)
      <3>1. cache'[q][y] = cache[q][y] /\ cache[q][y] # b
        BY <1>0, <2>3 DEF Unreferenced
      <3>. QED  BY <1>0, <1>5, <2>1, <3>1 DEF NoStaleEntry
    <2>. QED  BY <2>2, <2>3
  <1>12. DestroyedOnce'
    BY <1>0, <1>5 DEF DestroyedOnce, Unreferenced
  <1>. QED  BY <1>1, <1>2, <1>3, <1>6, <1>7, <1>8, <1>9, <1>10, <1>11, <1>12

\* No thread uses any part of a column that is not borrowed.
LEMMA UnborrowedColumn ==
  ASSUME TypeOK, NEW k \in Columns, ~ColumnBorrowed(k)
  PROVE  \A u \in Threads : closing[u] # k /\ (cell[u] # NULL => cell[u][1] # k)
  BY DEF TypeOK, ColumnBorrowed, Cells

\* A column that is dropped is not borrowed by anyone.
LEMMA BeginCloseStep ==
  ASSUME Inductive, NEW t \in Threads, NEW k \in Columns, BeginClose(t, k)
  PROVE  Inductive'
  <1>. USE NullFacts, CellFacts, Borrows DEF Inductive, BeginClose, TypeOK
  <1>1. TypeOK'
    BY DEF Steps
  <1>2. Locals'
    BY DEF Locals, Setting, Dropping
  <1>3. Claims'
    <2>1. \A u \in Threads : closing[u] # k /\ (cell[u] # NULL => cell[u][1] # k)
      BY UnborrowedColumn
    <2>2. cell[t] = NULL /\ closing[t] = NULL
      BY DEF Locals, Setting, Dropping
    <2>. QED  BY <2>1, <2>2 DEF Claims
  <1>4. \A u \in Threads : PoolOf(u)' = PoolOf(u)
    BY DEF PoolOf
  <1>5. InFlight'
    BY <1>4 DEF InFlight
  <1>6. Locking'
    BY <1>4 DEF Locking, Setting, Dropping
  <1>7. MissStands'
    BY <1>4 DEF MissStands, Alive
  <1>8. CellsInPool' /\ LiveIsCached' /\ NoStaleEntry' /\ DestroyedOnce'
    <2>1. CellsInPool' /\ LiveIsCached' /\ DestroyedOnce'
      BY DEF CellsInPool, LiveIsCached, DestroyedOnce, Alive
    <2>2. \A b \in Addrs : Pending(b) => Pending(b)'
      BY PendingStays
    <2>3. NoStaleEntry'
      BY <2>2 DEF NoStaleEntry, Alive
    <2>. QED  BY <2>1, <2>3
  <1>. QED  BY <1>1, <1>2, <1>3, <1>5, <1>6, <1>7, <1>8

\* The thread that destroys a value borrows a cell of a column of its pool.
LEMMA PoolSurvives ==
  ASSUME Inductive, NEW t \in Threads, pc[t] \in Dropping
  PROVE  /\ dying[t] \in Addrs /\ heap[dying[t]].pool = PoolOf(t)
         /\ PoolAlive(heap[dying[t]].pool)
  <1>1. /\ dying[t] \in Addrs /\ heap[dying[t]].pool = PoolOf(t)
        /\ cell[t] \in Cells
    BY Borrows DEF Inductive, TypeOK, Locals, InFlight
  <1>. QED  BY <1>1, CellFacts DEF PoolAlive, PoolOf

\* A destructor finds its pool: a column it borrows from keeps it alive.
LEMMA UpgradePoolStep ==
  ASSUME Inductive, NEW t \in Threads, UpgradePool(t)
  PROVE  Inductive'
  <1>. USE NullFacts, CellFacts, Borrows DEF Inductive, UpgradePool, TypeOK
  <1>0. /\ pinned' = [pinned EXCEPT ![t] = PoolOf(t)]
        /\ pc' = [pc EXCEPT ![t] = "droplock"]
        /\ PoolOf(t) \in Pools
    BY PoolSurvives DEF Dropping
  <1>1. TypeOK'
    BY <1>0 DEF Steps, Dropping
  <1>2. Locals'
    BY <1>0 DEF Locals, Setting, Dropping
  <1>3. Claims'
    BY DEF Claims
  <1>4. \A u \in Threads : PoolOf(u)' = PoolOf(u)
    BY DEF PoolOf
  <1>5. InFlight'
    BY <1>0, <1>4 DEF InFlight
  <1>6. Locking'
    BY <1>0, <1>4 DEF Locking
  <1>7. MissStands'
    BY <1>0, <1>4 DEF MissStands, Alive
  <1>8. CellsInPool' /\ LiveIsCached' /\ NoStaleEntry' /\ DestroyedOnce'
    <2>1. CellsInPool' /\ LiveIsCached' /\ DestroyedOnce'
      BY DEF CellsInPool, LiveIsCached, DestroyedOnce, Alive
    <2>2. \A b \in Addrs : Pending(b) => Pending(b)'
      BY <1>0, PendingStays
    <2>3. NoStaleEntry'
      BY <2>2 DEF NoStaleEntry, Alive
    <2>. QED  BY <2>1, <2>3
  <1>. QED  BY <1>1, <1>2, <1>3, <1>5, <1>6, <1>7, <1>8

\* A destructor gets the mutex only while it is free.
LEMMA LockForDropStep ==
  ASSUME Inductive, NEW t \in Threads, LockForDrop(t)
  PROVE  Inductive'
  <1>. USE NullFacts, CellFacts, Borrows DEF Inductive, LockForDrop, TypeOK
  <1>0. pinned[t] = PoolOf(t) /\ PoolOf(t) \in Pools
    BY DEF InFlight, Locals, Dropping
  <1>1. TypeOK'
    BY <1>0 DEF Steps, Dropping
  <1>2. Locals'
    BY DEF Locals, Setting, Dropping
  <1>3. Claims'
    BY DEF Claims
  <1>4. \A u \in Threads : PoolOf(u)' = PoolOf(u)
    BY DEF PoolOf
  <1>5. InFlight'
    BY <1>4 DEF InFlight
  <1>6. Locking'
    BY <1>0, <1>4 DEF Locking, Setting, Dropping
  <1>7. MissStands'
    BY <1>4 DEF MissStands, Alive
  <1>8. CellsInPool' /\ LiveIsCached' /\ NoStaleEntry' /\ DestroyedOnce'
    <2>1. CellsInPool' /\ LiveIsCached' /\ DestroyedOnce'
      BY DEF CellsInPool, LiveIsCached, DestroyedOnce, Alive
    <2>2. \A b \in Addrs : Pending(b) => Pending(b)'
      BY PendingStays
    <2>3. NoStaleEntry'
      BY <2>2 DEF NoStaleEntry, Alive
    <2>. QED  BY <2>1, <2>3
  <1>. QED  BY <1>1, <1>2, <1>3, <1>5, <1>6, <1>7, <1>8

\* A destructor removes the entry of its own value and no other.
LEMMA RemoveEntryStep ==
  ASSUME Inductive, NEW t \in Threads, RemoveEntry(t)
  PROVE  Inductive'
  <1>. USE NullFacts, CellFacts, Borrows DEF Inductive, RemoveEntry, TypeOK
  <1>. DEFINE p == PoolOf(t)
              d == dying[t]
              x == heap[d].text
  <1>0. /\ pinned[t] = p /\ p \in Pools /\ d \in Addrs /\ lock[p] = t
        /\ heap[d] # NULL /\ heap[d].pool = p /\ x \in Texts
        /\ ~Alive(d)
    <2>1. /\ pinned[t] = p /\ p \in Pools /\ d \in Addrs /\ lock[p] = t
          /\ heap[d] # NULL /\ heap[d].pool = p
      BY DEF InFlight, Locals, Dropping
    <2>. QED  BY <2>1 DEF DestroyedOnce, Value
  <1>a. /\ \A q \in Pools, y \in Texts : cache'[q][y] = cache[q][y] \/ cache'[q][y] = NULL
        /\ \A q \in Pools, y \in Texts :
             cache'[q][y] # cache[q][y] => cache[q][y] = d
        /\ cache'[p][x] # d
    BY <1>0
  <1>1. TypeOK'
    BY <1>0 DEF Steps, Dropping
  <1>2. Locals'
    BY DEF Locals, Setting, Dropping
  <1>3. Claims'
    BY DEF Claims
  <1>4. \A u \in Threads : PoolOf(u)' = PoolOf(u)
    BY DEF PoolOf
  <1>5. InFlight'
    BY <1>4 DEF InFlight
  <1>6. Locking'
    BY <1>0, <1>4 DEF Locking, Setting, Dropping
  <1>7. MissStands'
    <2>. SUFFICES ASSUME NEW u \in Threads, u # t, pc[u] = "insert", NEW a \in Addrs, Alive(a)
                  PROVE  cache'[PoolOf(u)][text[u]] # a
      BY <1>4 DEF MissStands, Alive
    <2>1. PoolOf(u) \in Pools /\ text[u] \in Texts
      BY DEF Setting
    <2>2. cache'[PoolOf(u)][text[u]] = NULL \/ cache'[PoolOf(u)][text[u]] = cache[PoolOf(u)][text[u]]
      BY <1>a, <2>1
    <2>3. cache[PoolOf(u)][text[u]] # a
      BY DEF MissStands
    <2>. QED  BY <2>2, <2>3
  <1>8. CellsInPool' /\ DestroyedOnce'
    BY DEF CellsInPool, DestroyedOnce, Alive
  <1>9. LiveIsCached'
    <2>. SUFFICES ASSUME NEW a \in Addrs, Alive(a)
                  PROVE  heap[a] # NULL /\ cache'[heap[a].pool][heap[a].text] = a
      BY DEF LiveIsCached, Alive
    <2>1. /\ heap[a] # NULL /\ cache[heap[a].pool][heap[a].text] = a
          /\ heap[a].pool \in Pools /\ heap[a].text \in Texts
      BY DEF LiveIsCached, Value
    <2>2. a # d
      BY <1>0
    <2>. QED  BY <1>a, <2>1, <2>2
  <1>10. NoStaleEntry'
    <2>. SUFFICES ASSUME NEW q \in Pools, NEW y \in Texts, NEW a \in Addrs, cache'[q][y] = a
                  PROVE  heap'[a] = [text |-> y, pool |-> q] /\ (Alive(a)' \/ Pending(a)')
      BY DEF NoStaleEntry
    <2>1. heap[a] = [text |-> y, pool |-> q] /\ (Alive(a) \/ Pending(a))
      BY <1>a DEF NoStaleEntry
    <2>2. a # d
      BY <1>a, <1>0, <2>1
    <2>3. Pending(a) => Pending(a)'
      BY <2>2 DEF Pending
    <2>. QED  BY <2>1, <2>3 DEF Alive
  <1>. QED  BY <1>1, <1>2, <1>3, <1>5, <1>6, <1>7, <1>8, <1>9, <1>10

\* A cache is emptied or left as it is when pools are released.
LEMMA ReleaseCachesFacts ==
  ASSUME TypeOK, ReleaseCaches
  PROVE  /\ cache' \in [Pools -> [Texts -> Addrs \cup {NULL}]]
         /\ \A p \in Pools, x \in Texts : cache'[p][x] = NULL \/ cache'[p][x] = cache[p][x]
         /\ \A p \in Pools : (\E k \in Columns : interner'[k] = p) => cache'[p] = cache[p]
  BY DEF TypeOK, ReleaseCaches

\* A live value's pool is the pool of a column that is not being removed.
LEMMA LivePool ==
  ASSUME Inductive, NEW a \in Addrs, Alive(a)
  PROVE  /\ heap[a] # NULL /\ heap[a].pool \in Pools /\ heap[a].text \in Texts
         /\ cache[heap[a].pool][heap[a].text] = a
         /\ \E k \in Columns :
              /\ interner[k] = heap[a].pool
              /\ \/ \E c \in Cells : c[1] = k /\ cells[c] # NULL
                 \/ \E u \in Threads : cell[u] # NULL /\ cell[u][1] = k
  <1>. USE NullFacts, CellFacts, Borrows DEF Inductive, TypeOK
  <1>1. /\ heap[a] # NULL /\ heap[a].pool \in Pools /\ heap[a].text \in Texts
        /\ cache[heap[a].pool][heap[a].text] = a
    BY DEF LiveIsCached, Value
  <1>2. CASE \E c \in Cells : cells[c] = a
    <2>1. PICK c \in Cells : cells[c] = a
      BY <1>2
    <2>2. interner[c[1]] = heap[a].pool
      BY <2>1 DEF CellsInPool
    <2>. QED  BY <1>1, <2>1, <2>2
  <1>3. CASE \E u \in Threads : got[u] = a
    <2>1. PICK u \in Threads : got[u] = a
      BY <1>3
    <2>2. pc[u] = "install" /\ heap[a] = [text |-> text[u], pool |-> PoolOf(u)]
      BY <2>1 DEF Locals, InFlight
    <2>3. cell[u] \in Cells /\ interner[cell[u][1]] = heap[a].pool
      BY <2>2 DEF Setting, PoolOf
    <2>. QED  BY <1>1, <2>3
  <1>. QED  BY <1>2, <1>3 DEF Alive

\* A destructor lets go of its pool; nothing that lives belonged to it alone.
LEMMA ReleaseStep ==
  ASSUME Inductive, NEW t \in Threads, Release(t)
  PROVE  Inductive'
  <1>. USE NullFacts, CellFacts, Borrows DEF Inductive, Release, TypeOK
  <1>. DEFINE d == dying[t]
  <1>0. /\ d \in Addrs /\ ~Alive(d) /\ ~Pending(d)
        /\ \A u \in Threads : u # t => dying[u] # d
        /\ \A a \in Addrs : a # d => heap'[a] = heap[a]
        /\ closing[t] # NULL => closing[t] \in Columns
    <2>1. d \in Addrs
      BY DEF Locals, Dropping
    <2>2. ~Alive(d) /\ \A u \in Threads : u # t => dying[u] # d
      BY <2>1 DEF DestroyedOnce
    <2>. QED  BY <2>1, <2>2 DEF Pending
  <1>a. /\ cache' \in [Pools -> [Texts -> Addrs \cup {NULL}]]
        /\ \A p \in Pools, x \in Texts : cache'[p][x] = NULL \/ cache'[p][x] = cache[p][x]
        /\ \A p \in Pools : (\E k \in Columns : interner[k] = p) => cache'[p] = cache[p]
    BY ReleaseCachesFacts
  <1>1. TypeOK'
    BY <1>a DEF Steps
  <1>2. Locals'
    BY <1>0 DEF Locals, Setting, Dropping
  <1>3. Claims'
    BY DEF Claims
  <1>4. \A u \in Threads : u # t => PoolOf(u)' = PoolOf(u)
    BY DEF PoolOf
  <1>5. InFlight'
    <2>1. \A u \in Threads : got[u] # NULL => got[u] # d
      BY <1>0 DEF Alive
    <2>2. got[t] = NULL
      BY DEF Locals
    <2>. QED  BY <1>0, <1>4, <2>1, <2>2 DEF InFlight
  <1>6. Locking'
    BY <1>4 DEF Locking
  <1>7. MissStands'
    <2>. SUFFICES ASSUME NEW u \in Threads, u # t, pc[u] = "insert", NEW a \in Addrs, Alive(a)
                  PROVE  cache'[PoolOf(u)][text[u]] # a
      BY <1>4 DEF MissStands, Alive
    <2>1. PoolOf(u) \in Pools /\ text[u] \in Texts
      BY DEF Setting
    <2>2. cache'[PoolOf(u)][text[u]] = NULL \/ cache'[PoolOf(u)][text[u]] = cache[PoolOf(u)][text[u]]
      BY <1>a, <2>1
    <2>3. cache[PoolOf(u)][text[u]] # a
      BY DEF MissStands
    <2>. QED  BY <2>2, <2>3
  <1>8. CellsInPool' /\ DestroyedOnce'
    <2>1. \A c \in Cells : cells[c] # d
      BY <1>0 DEF Alive
    <2>. QED  BY <1>0, <2>1 DEF CellsInPool, DestroyedOnce, Alive
  <1>9. LiveIsCached'
    <2>. SUFFICES ASSUME NEW a \in Addrs, Alive(a)
                  PROVE  heap'[a] # NULL /\ cache'[heap'[a].pool][heap'[a].text] = a
      BY DEF LiveIsCached, Alive
    <2>1. /\ heap[a] # NULL /\ heap[a].pool \in Pools
          /\ cache[heap[a].pool][heap[a].text] = a
          /\ \E k \in Columns : interner[k] = heap[a].pool
      BY LivePool
    <2>2. cache'[heap[a].pool] = cache[heap[a].pool]
      BY <1>a, <2>1
    <2>. QED  BY <1>0, <2>1, <2>2
  <1>10. NoStaleEntry'
    <2>. SUFFICES ASSUME NEW q \in Pools, NEW y \in Texts, NEW a \in Addrs, cache'[q][y] = a
                  PROVE  heap'[a] = [text |-> y, pool |-> q] /\ (Alive(a)' \/ Pending(a)')
      BY DEF NoStaleEntry
    <2>0. cache[q][y] = a
      BY <1>a
    <2>1. heap[a] = [text |-> y, pool |-> q] /\ (Alive(a) \/ Pending(a))
      BY <2>0 DEF NoStaleEntry
    <2>2. a # d
      BY <1>0, <2>1
    <2>3. Pending(a) => Pending(a)'
      BY PendingStays
    <2>. QED  BY <1>0, <2>1, <2>2, <2>3 DEF Alive
  <1>. QED  BY <1>1, <1>2, <1>3, <1>5, <1>6, <1>7, <1>8, <1>9, <1>10

\* A dropped column leaves no cell behind that named its pool.
LEMMA CloseColumnStep ==
  ASSUME Inductive, NEW t \in Threads, CloseColumn(t)
  PROVE  Inductive'
  <1>. USE NullFacts, CellFacts, Borrows DEF Inductive, CloseColumn, TypeOK
  <1>. DEFINE k == closing[t]
  <1>0. /\ k \in Columns /\ cell[t] = NULL /\ dying[t] = NULL /\ got[t] = NULL
        /\ pinned[t] = NULL /\ text[t] = NULL
        /\ \A c \in Cells : c[1] = k => cells[c] = NULL
        /\ \A u \in Threads : cell[u] # NULL => cell[u][1] # k
        /\ \A u \in Threads : u # t => closing[u] # k
    <2>1. /\ k \in Columns /\ cell[t] = NULL /\ dying[t] = NULL /\ got[t] = NULL
          /\ pinned[t] = NULL /\ text[t] = NULL
      BY DEF Locals, Setting, Dropping
    <2>2. \A c \in Cells : c[1] = k => cells[c] = NULL
      BY DEF Cells
    <2>. QED  BY <2>1, <2>2 DEF Claims
  <1>a. /\ cache' \in [Pools -> [Texts -> Addrs \cup {NULL}]]
        /\ \A p \in Pools, x \in Texts : cache'[p][x] = NULL \/ cache'[p][x] = cache[p][x]
        /\ \A p \in Pools : (\E j \in Columns : interner'[j] = p) => cache'[p] = cache[p]
    BY ReleaseCachesFacts
  <1>1. TypeOK'
    BY <1>a, <1>0 DEF Steps
  <1>2. Locals'
    BY <1>0 DEF Locals, Setting, Dropping
  <1>3. Claims'
    BY <1>0 DEF Claims
  <1>4. \A u \in Threads : cell[u] # NULL => PoolOf(u)' = PoolOf(u)
    BY <1>0 DEF PoolOf
  <1>5. InFlight'
    <2>1. \A u \in Threads : got[u] # NULL \/ dying[u] # NULL \/ pinned[u] # NULL => cell[u] # NULL
      BY DEF Locals, Setting, Dropping
    <2>. QED  BY <1>4, <2>1 DEF InFlight
  <1>6. Locking' /\ MissStands'
    <2>1. \A u \in Threads : pc'[u] \in {"lookup", "insert", "remove"} =>
                              cell[u] # NULL /\ pc'[u] = pc[u]
      BY DEF Setting, Dropping
    <2>2. Locking'
      BY <1>4, <2>1 DEF Locking
    <2>3. MissStands'
      BY <1>4, <1>a, <2>1 DEF MissStands, Alive, Setting
    <2>. QED  BY <2>2, <2>3
  <1>7. CellsInPool' /\ DestroyedOnce'
    BY <1>0 DEF CellsInPool, DestroyedOnce, Alive
  <1>8. LiveIsCached'
    <2>. SUFFICES ASSUME NEW a \in Addrs, Alive(a)
                  PROVE  heap[a] # NULL /\ cache'[heap[a].pool][heap[a].text] = a
      BY DEF LiveIsCached, Alive
    <2>1. PICK j \in Columns :
            /\ interner[j] = heap[a].pool
            /\ \/ \E c \in Cells : c[1] = j /\ cells[c] # NULL
               \/ \E u \in Threads : cell[u] # NULL /\ cell[u][1] = j
      BY LivePool
    <2>2. interner'[j] = heap[a].pool
      BY <1>0, <2>1
    <2>. QED  BY <1>a, <2>2, LivePool
  <1>9. NoStaleEntry'
    <2>1. \A a \in Addrs : Pending(a) => Pending(a)'
      BY PendingStays
    <2>2. \A p \in Pools, x \in Texts, a \in Addrs : cache'[p][x] = a => cache[p][x] = a
      BY <1>a
    <2>3. \A a \in Addrs : Alive(a) => Alive(a)'
      BY <1>0 DEF Alive
    <2>. SUFFICES ASSUME NEW p \in Pools, NEW x \in Texts, NEW a \in Addrs, cache'[p][x] = a
                  PROVE  heap'[a] = [text |-> x, pool |-> p] /\ (Alive(a)' \/ Pending(a)')
      BY DEF NoStaleEntry
    <2>4. heap[a] = [text |-> x, pool |-> p] /\ (Alive(a) \/ Pending(a))
      BY <2>2 DEF NoStaleEntry
    <2>. QED  BY <2>1, <2>3, <2>4
  <1>. QED  BY <1>1, <1>2, <1>3, <1>5, <1>6, <1>7, <1>8, <1>9

\* Cloned handles are of values that are alive, in the pool that is shared.
LEMMA CopyColumnStep ==
  ASSUME Inductive, NEW t \in Threads, NEW k \in Columns, NEW from \in Columns,
         NEW rows \in [Slots -> Slots \cup {NULL}], CopyColumn(t, k, from, rows)
  PROVE  Inductive'
  <1>. USE NullFacts, CellFacts, Borrows DEF Inductive, CopyColumn, TypeOK
  <1>0. \A c \in Cells :
          \/ c[1] # k /\ cells'[c] = cells[c]
          \/ c[1] = k /\ cells[c] = NULL /\ cells'[c] = NULL
          \/ c[1] = k /\ cells[c] = NULL
             /\ \E d \in Cells : d[1] = from /\ cells'[c] = cells[d]
    <2>. SUFFICES ASSUME NEW c \in Cells, c[1] = k, cells'[c] # NULL
                  PROVE  cells[c] = NULL /\ \E d \in Cells : d[1] = from /\ cells'[c] = cells[d]
      BY DEF Claims
    <2>1. cells[c] = NULL
      BY DEF Claims
    <2>2. c[2] \in Slots
      BY DEF Cells
    <2>3. rows[c[2]] \in Slots /\ cells'[c] = cells[<<from, rows[c[2]]>>]
      BY <2>2
    <2>. QED  BY <2>1, <2>3
  <1>1. TypeOK'
    BY <1>0
  <1>2. Locals'
    BY DEF Locals
  <1>3. Claims'
    <2>1. \A c \in Cells : interner'[c[1]] = NULL => cells'[c] = NULL
      BY <1>0 DEF Claims
    <2>2. \A j \in Columns : interner[j] # NULL => interner'[j] # NULL
      OBVIOUS
    <2>. QED  BY <2>1, <2>2 DEF Claims
  <1>4. \A u \in Threads : cell[u] # NULL => PoolOf(u)' = PoolOf(u)
    BY DEF PoolOf, Claims
  <1>5. InFlight'
    <2>1. \A u \in Threads : got[u] # NULL \/ dying[u] # NULL \/ pinned[u] # NULL => cell[u] # NULL
      BY DEF Locals, Setting, Dropping
    <2>. QED  BY <1>4, <2>1 DEF InFlight
  <1>6. \A a \in Addrs : Alive(a)' <=> Alive(a)
    <2>1. \A d \in Cells : cells[d] # NULL => cells'[d] = cells[d]
      BY <1>0
    <2>2. \A d \in Cells : cells'[d] # NULL => \E e \in Cells : cells'[d] = cells[e]
      BY <1>0
    <2>3. ASSUME NEW a \in Addrs, Alive(a)  PROVE Alive(a)'
      BY <2>1, <2>3 DEF Alive
    <2>4. ASSUME NEW a \in Addrs, Alive(a)'  PROVE Alive(a)
      <3>1. CASE \E d \in Cells : cells'[d] = a
        <4>1. PICK d \in Cells : cells'[d] = a
          BY <3>1
        <4>2. \E e \in Cells : cells[e] = a
          BY <2>2, <4>1
        <4>. QED  BY <4>2 DEF Alive
      <3>2. CASE \E u \in Threads : got'[u] = a
        BY <3>2 DEF Alive
      <3>. QED  BY <2>4, <3>1, <3>2 DEF Alive
    <2>. QED  BY <2>3, <2>4
  <1>7. Locking' /\ MissStands'
    <2>1. \A u \in Threads : pc[u] \in {"lookup", "insert", "remove"} => cell[u] # NULL
      BY DEF Setting, Dropping
    <2>. QED  BY <1>4, <1>6, <2>1 DEF Locking, MissStands
  <1>8. CellsInPool'
    BY <1>0 DEF CellsInPool
  <1>9. LiveIsCached' /\ NoStaleEntry' /\ DestroyedOnce'
    <2>1. LiveIsCached' /\ DestroyedOnce'
      BY <1>6 DEF LiveIsCached, DestroyedOnce
    <2>2. \A a \in Addrs : Pending(a) => Pending(a)'
      BY PendingStays
    <2>3. NoStaleEntry'
      BY <1>6, <2>2 DEF NoStaleEntry
    <2>. QED  BY <2>1, <2>3
  <1>. QED  BY <1>1, <1>2, <1>3, <1>5, <1>7, <1>8, <1>9

\* A handle is only cloned into a column of the same pool.
LEMMA AppendSharedStep ==
  ASSUME Inductive, NEW t \in Threads, NEW c \in Cells, NEW from \in Cells,
         AppendShared(t, c, from)
  PROVE  Inductive'
  <1>. USE NullFacts, CellFacts, Borrows DEF Inductive, AppendShared, TypeOK
  <1>1. TypeOK'
    OBVIOUS
  <1>2. Locals' /\ Claims'
    BY DEF Locals, Claims
  <1>3. InFlight'
    BY DEF InFlight, PoolOf
  <1>4. \A a \in Addrs : Alive(a)' <=> Alive(a)
    <2>1. \A d \in Cells : cells[d] # NULL => cells'[d] = cells[d]
      OBVIOUS
    <2>2. \A d \in Cells : cells'[d] = cells[d] \/ cells'[d] = cells[from]
      OBVIOUS
    <2>. QED  BY <2>1, <2>2 DEF Alive
  <1>5. Locking' /\ MissStands'
    BY <1>4 DEF Locking, MissStands, PoolOf
  <1>6. CellsInPool'
    BY DEF CellsInPool
  <1>7. LiveIsCached' /\ NoStaleEntry' /\ DestroyedOnce'
    <2>1. LiveIsCached' /\ DestroyedOnce'
      BY <1>4 DEF LiveIsCached, DestroyedOnce
    <2>2. \A a \in Addrs : Pending(a) => Pending(a)'
      BY PendingStays
    <2>3. NoStaleEntry'
      BY <1>4, <2>2 DEF NoStaleEntry
    <2>. QED  BY <2>1, <2>3
  <1>. QED  BY <1>1, <1>2, <1>3, <1>5, <1>6, <1>7

-----------------------------------------------------------------------------
\* Install, BeginClear and CloseCell all replace the handle in a cell by the
\* one the thread holds, if any.
Replacing(t, c, next) ==
  /\ got' = [got EXCEPT ![t] = NULL]
  /\ text' = [text EXCEPT ![t] = NULL]
  /\ Replace(t, c, got[t], next)
  /\ UNCHANGED <<interner, heap, cache, lock, pinned, closing>>

\* The handle that Replace drops is handed to a destructor exactly when it
\* was the last one.
LEMMA ReplaceStep ==
  ASSUME Inductive, NEW t \in Threads, NEW c \in Cells, NEW next \in {"idle", "close"},
         Replacing(t, c, next),
         pc[t] \in {"idle", "install", "close"},
         dying[t] = NULL, pinned[t] = NULL,
         interner[c[1]] # NULL,
         next = "close" <=> closing[t] # NULL,
         closing[t] \in {NULL, c[1]},
         cell[t] \in {NULL, c},
         pc[t] = "install" => cell[t] = c,
         \A u \in Threads : u # t => cell[u] # c /\ closing[u] # c[1],
         NEW old, old = cells[c], NEW new, new = got[t]
  PROVE  Inductive'
  <1>. USE NullFacts, CellFacts, Borrows DEF Inductive, TypeOK
  <1>. DEFINE last == /\ old # NULL
                      /\ \A d \in Cells : cells'[d] # old
                      /\ \A u \in Threads : got'[u] # old
  <1>1. /\ got' = [got EXCEPT ![t] = NULL]
        /\ text' = [text EXCEPT ![t] = NULL]
        /\ cells' = [cells EXCEPT ![c] = new]
        /\ dying' = [dying EXCEPT ![t] = IF last THEN old ELSE NULL]
        /\ pc' = [pc EXCEPT ![t] = IF last THEN "upgrade" ELSE next]
        /\ cell' = [cell EXCEPT ![t] = IF last THEN c ELSE NULL]
        /\ UNCHANGED <<interner, heap, cache, lock, pinned, closing>>
    BY DEF Replacing, Replace
  <1>2. /\ old \in Addrs \cup {NULL} /\ new \in Addrs \cup {NULL}
        /\ new # NULL => heap[new] # NULL /\ heap[new].pool = interner[c[1]]
        /\ old # NULL => heap[old] # NULL /\ heap[old].pool = interner[c[1]]
    <2>1. new # NULL => pc[t] = "install" /\ cell[t] = c
      BY DEF Locals
    <2>2. new # NULL => heap[new] # NULL /\ heap[new].pool = interner[c[1]]
      <3>. SUFFICES ASSUME new # NULL
                    PROVE  heap[new] # NULL /\ heap[new].pool = interner[c[1]]
        OBVIOUS
      <3>1. text[t] \in Texts /\ PoolOf(t) \in Pools /\ PoolOf(t) = interner[c[1]]
        BY <2>1 DEF Setting, PoolOf
      <3>2. heap[new] = [text |-> text[t], pool |-> PoolOf(t)]
        BY DEF InFlight
      <3>3. [text |-> text[t], pool |-> PoolOf(t)] \in Value
        BY <3>1 DEF Value
      <3>. QED  BY <3>1, <3>2, <3>3
    <2>3. old # NULL => heap[old] # NULL /\ heap[old].pool = interner[c[1]]
      BY DEF CellsInPool
    <2>. QED  BY <2>2, <2>3
  <1>3. /\ \A a \in Addrs : Alive(a)' => Alive(a)
        /\ \A a \in Addrs : Alive(a) /\ ~Alive(a)' => last /\ a = old
    <2>1. \A d \in Cells : cells'[d] = cells[d] \/ cells'[d] = got[t]
      BY <1>1
    <2>2. \A u \in Threads : got'[u] = got[u] \/ got'[u] = NULL
      BY <1>1
    <2>3. \A d \in Cells : d # c => cells'[d] = cells[d]
      BY <1>1
    <2>4. cells'[c] = got[t]
      BY <1>1
    <2>5. \A u \in Threads : u # t => got'[u] = got[u]
      BY <1>1
    <2>6. \A a \in Addrs : Alive(a)' => Alive(a)
      BY <2>1, <2>2 DEF Alive
    <2>7. ASSUME NEW a \in Addrs, Alive(a), ~Alive(a)'  PROVE last /\ a = old
      <3>1. \A d \in Cells : cells'[d] # a
        BY <2>7 DEF Alive
      <3>2. \A u \in Threads : got'[u] # a
        BY <2>7 DEF Alive
      <3>3. \A u \in Threads : got[u] # a
        BY <2>4, <2>5, <3>1, <3>2
      <3>4. cells[c] = a
        BY <2>3, <2>7, <3>1, <3>3 DEF Alive
      <3>. QED  BY <3>1, <3>2, <3>4
    <2>8. \A a \in Addrs : Alive(a) /\ ~Alive(a)' => last /\ a = old
      BY <2>7
    <2>. QED  BY <2>6, <2>8
  <1>4. TypeOK'
    BY <1>1, <1>2 DEF Steps, Dropping
  <1>5. Locals'
    BY <1>1 DEF Locals, Setting, Dropping
  <1>6. Claims'
    <2>1. \A d \in Cells : interner'[d[1]] = NULL => cells'[d] = NULL
      BY <1>1 DEF Claims
    <2>2. /\ \A u \in Threads : u # t => cell'[u] = cell[u]
          /\ cell'[t] = c \/ cell'[t] = NULL
          /\ interner' = interner /\ closing' = closing
      BY <1>1
    <2>3. ASSUME NEW u \in Threads
          PROVE  /\ cell'[u] # NULL => interner'[cell'[u][1]] # NULL
                 /\ closing'[u] # NULL => interner'[closing'[u]] # NULL
                 /\ cell'[u] # NULL /\ closing'[u] # NULL => cell'[u][1] = closing'[u]
      BY <2>2 DEF Claims
    <2>4. ASSUME NEW u \in Threads, NEW v \in Threads, u # v
          PROVE  /\ cell'[u] # NULL => cell'[u] # cell'[v] /\ closing'[v] # cell'[u][1]
                 /\ closing'[u] # NULL => closing'[u] # closing'[v]
      <3>0. /\ cell[u] # NULL => cell[u] # cell[v] /\ closing[v] # cell[u][1]
            /\ closing[u] # NULL => closing[u] # closing[v]
        BY <2>4 DEF Claims
      <3>1. CASE u = t
        BY <2>2, <2>4, <3>0, <3>1
      <3>2. CASE v = t
        BY <2>2, <2>4, <3>0, <3>2
      <3>3. CASE u # t /\ v # t
        BY <2>2, <3>0, <3>3
      <3>. QED  BY <3>1, <3>2, <3>3
    <2>. QED  BY <2>1, <2>3, <2>4 DEF Claims
  <1>7. \A u \in Threads : u # t => PoolOf(u)' = PoolOf(u)
    BY <1>1 DEF PoolOf
  <1>8. InFlight'
    <2>1. last => PoolOf(t)' = interner[c[1]]
      BY <1>1 DEF PoolOf
    <2>. QED  BY <1>1, <1>2, <1>7, <2>1 DEF InFlight
  <1>9. Locking'
    BY <1>1, <1>7 DEF Locking
  <1>10. MissStands'
    BY <1>1, <1>3, <1>7 DEF MissStands
  <1>11. CellsInPool'
    BY <1>1, <1>2 DEF CellsInPool
  <1>12. LiveIsCached'
    BY <1>1, <1>3 DEF LiveIsCached
  <1>13. NoStaleEntry'
    <2>1. \A a \in Addrs : Pending(a) => Pending(a)'
      BY <1>1, PendingStays
    <2>2. last => Pending(old)'
      BY <1>1 DEF Pending
    <2>. QED  BY <1>1, <1>3, <2>1, <2>2 DEF NoStaleEntry
  <1>14. DestroyedOnce'
    <2>1. last => ~Alive(old)' /\ Alive(old)
      BY <1>1 DEF Alive
    <2>2. last => \A u \in Threads : dying[u] # old
      BY <2>1 DEF DestroyedOnce
    <2>. QED  BY <1>1, <1>2, <1>3, <2>1, <2>2 DEF DestroyedOnce
  <1>. QED  BY <1>4, <1>5, <1>6, <1>8, <1>9, <1>10, <1>11, <1>12, <1>13, <1>14

\* The new handle is stored before the old one is dropped.
LEMMA InstallStep ==
  ASSUME Inductive, NEW t \in Threads, Install(t)
  PROVE  Inductive'
  <1>. USE NullFacts, CellFacts, Borrows DEF Inductive, TypeOK
  <1>1. /\ pc[t] = "install" /\ cell[t] \in Cells
        /\ dying[t] = NULL /\ pinned[t] = NULL /\ closing[t] = NULL
    BY DEF Install, Locals, Setting, Dropping
  <1>2. /\ interner[cell[t][1]] # NULL
        /\ \A u \in Threads : u # t => cell[u] # cell[t] /\ closing[u] # cell[t][1]
    BY <1>1 DEF Claims
  <1>3. Replacing(t, cell[t], "idle")
    BY DEF Install, Replacing
  <1>. HIDE DEF Inductive, TypeOK
  <1>. QED  BY <1>1, <1>2, <1>3, ReplaceStep

\* A thread between two operations holds nothing.
LEMMA NothingHeld ==
  ASSUME Inductive, NEW t \in Threads, pc[t] \in {"idle", "close"}
  PROVE  /\ got[t] = NULL /\ text[t] = NULL /\ cell[t] = NULL /\ dying[t] = NULL
         /\ pinned[t] = NULL
         /\ pc[t] = "idle" => closing[t] = NULL
         /\ pc[t] = "close" => closing[t] \in Columns /\ interner[closing[t]] # NULL
         /\ got = [got EXCEPT ![t] = NULL]
         /\ text = [text EXCEPT ![t] = NULL]
  <1>1. /\ got[t] = NULL /\ text[t] = NULL /\ cell[t] = NULL /\ dying[t] = NULL
        /\ pinned[t] = NULL
        /\ pc[t] = "idle" => closing[t] = NULL
        /\ pc[t] = "close" => closing[t] # NULL
    BY DEF Inductive, Locals, Setting, Dropping
  <1>2. pc[t] = "close" => closing[t] \in Columns /\ interner[closing[t]] # NULL
    BY <1>1 DEF Inductive, TypeOK, Claims
  <1>3. got = [got EXCEPT ![t] = NULL] /\ text = [text EXCEPT ![t] = NULL]
    BY <1>1 DEF Inductive, TypeOK
  <1>. QED  BY <1>1, <1>2, <1>3

\* A cleared cell drops its handle.
LEMMA BeginClearStep ==
  ASSUME Inductive, NEW t \in Threads, NEW c \in Cells, BeginClear(t, c)
  PROVE  Inductive'
  <1>1. /\ pc[t] = "idle"
        /\ \A u \in Threads : cell[u] # c /\ closing[u] # c[1]
    BY DEF BeginClear, Borrowed
  <1>2. interner[c[1]] # NULL
    BY DEF BeginClear, Inductive, Claims
  <1>3. Replacing(t, c, "idle")
    BY <1>1, NothingHeld DEF BeginClear, Replacing
  <1>. QED  BY <1>1, <1>2, <1>3, NothingHeld, ReplaceStep

\* A column drops its handles one by one.
LEMMA CloseCellStep ==
  ASSUME Inductive, NEW t \in Threads, NEW s \in Slots, CloseCell(t, s)
  PROVE  Inductive'
  <1>. DEFINE k == closing[t]
              c == <<k, s>>
  <1>1. /\ pc[t] = "close" /\ k \in Columns /\ interner[k] # NULL
        /\ c \in Cells /\ c[1] = k
    BY NothingHeld, CellFacts DEF CloseCell
  <1>2. \A u \in Threads : u # t => cell[u] # c /\ closing[u] # k
    <2>. SUFFICES ASSUME NEW u \in Threads, u # t  PROVE cell[u] # c /\ closing[u] # k
      OBVIOUS
    <2>1. k # NULL
      BY <1>1, NullFacts
    <2>2. closing[u] # k /\ (cell[u] # NULL => cell[u][1] # k)
      BY <2>1 DEF Inductive, Claims
    <2>. QED  BY <1>1, <2>2, NullFacts
  <1>3. Replacing(t, c, "close")
    BY <1>1, NothingHeld DEF CloseCell, Replacing
  <1>4. closing[t] # NULL
    BY <1>1, NullFacts
  <1>. HIDE DEF c
  <1>. QED  BY <1>1, <1>2, <1>3, <1>4, NothingHeld, ReplaceStep

-----------------------------------------------------------------------------
\* Every step, and every stutter, preserves the invariant.
LEMMA InductiveNext == Inductive /\ [Next]_vars => Inductive'
  <1>. SUFFICES ASSUME Inductive, [Next]_vars  PROVE Inductive'
    OBVIOUS
  <1>1. ASSUME NEW t \in Threads, Begin(t)  PROVE Inductive'
    BY <1>1, NewColumnStep, CopyColumnStep, AppendSharedStep, BeginSetStep, BeginClearStep,
       BeginCloseStep DEF Begin
  <1>2. ASSUME NEW t \in Threads, Continue(t)  PROVE Inductive'
    BY <1>2, LockEntriesStep, AcquireHitStep, AcquireMissStep, PublishStep, InstallStep,
       CloseCellStep, CloseColumnStep, UpgradePoolStep, LockForDropStep, RemoveEntryStep,
       ReleaseStep DEF Continue
  <1>3. CASE UNCHANGED vars
    BY <1>3 DEF vars, Inductive, TypeOK, Locals, Claims, InFlight, Locking, MissStands,
       CellsInPool, LiveIsCached, NoStaleEntry, DestroyedOnce, Alive, Pending, PoolOf
  <1>. QED  BY <1>1, <1>2, <1>3 DEF Next

\* The invariant holds in every state of every execution.
THEOREM InductiveInvariant == Spec => []Inductive
  BY InductiveInit, InductiveNext, PTL DEF Spec

\* Every variable keeps its type.
THEOREM TypeCorrect == Spec => []TypeOK
  <1>1. Inductive => TypeOK
    BY DEF Inductive
  <1>. QED  BY <1>1, InductiveInvariant, PTL

\* However lookups, writes, copies and destructors of any number of threads
\* interleave, a live value is the one its pool's cache names, and no entry
\* outlives its value's destructor.
THEOREM CacheIsExact == Spec => []CacheNamesLive
  <1>1. Inductive => CacheNamesLive
    BY DEF Inductive, CacheNamesLive
  <1>. QED  BY <1>1, InductiveInvariant, PTL

\* Cells stay within their column's pool, whatever is copied or appended.
THEOREM CellsKeepToTheirPool == Spec => []CellsInPool
  <1>1. Inductive => CellsInPool
    BY DEF Inductive
  <1>. QED  BY <1>1, InductiveInvariant, PTL

\* No value is destroyed twice or while something holds it.
THEOREM ValuesDieOnce == Spec => []DestroyedOnce
  <1>1. Inductive => DestroyedOnce
    BY DEF Inductive
  <1>. QED  BY <1>1, InductiveInvariant, PTL

\* The pool of every value that is held or being destroyed, and of every cache
\* that is locked, is alive: a destructor finds the pool it has to clean, and
\* keeps it for as long as it uses it.
THEOREM PoolOutlives == Spec => []PoolOutlivesEntries
  <1>1. Inductive => PoolOutlivesEntries
    <2>. SUFFICES ASSUME Inductive  PROVE PoolOutlivesEntries
      OBVIOUS
    <2>1. ASSUME NEW a \in Addrs, Alive(a)  PROVE heap[a] # NULL /\ PoolAlive(heap[a].pool)
      BY <2>1, LivePool DEF PoolAlive
    <2>2. ASSUME NEW a \in Addrs, NEW t \in Threads, dying[t] = a
          PROVE  heap[a] # NULL /\ PoolAlive(heap[a].pool)
      <3>1. dying[t] # NULL
        BY <2>2, NullFacts
      <3>2. pc[t] \in Dropping /\ heap[a] # NULL
        BY <2>2, <3>1 DEF Inductive, Locals, InFlight
      <3>. QED  BY <2>2, <3>2, PoolSurvives
    <2>3. ASSUME NEW p \in Pools, lock[p] # NULL  PROVE PoolAlive(p)
      <3>1. lock[p] \in Threads /\ PoolOf(lock[p]) = p /\ cell[lock[p]] \in Cells
        BY <2>3, Borrows DEF Inductive, TypeOK, Locking, Setting, Dropping
      <3>. QED  BY <3>1, CellFacts DEF PoolAlive, PoolOf
    <2>. QED  BY <2>1, <2>2, <2>3 DEF PoolOutlivesEntries
  <1>. QED  BY <1>1, InductiveInvariant, PTL

-----------------------------------------------------------------------------
(* The pool implements plain cells of text, InternedCells.                 *)

\* A step that changes neither what a cell reads as nor a request is none of
\* the abstract cells'.
LEMMA Unseen ==
  ASSUME \A c \in Cells : TextOf(c)' = TextOf(c),
         \A t \in Threads : RequestOf(t)' = RequestOf(t)
  PROVE  [Plain!Next]_(Plain!absVars)
  BY DEF Plain!absVars

\* Steps that touch neither cells nor the text of a held value, and start or
\* end no request.
LEMMA SilentSteps ==
  ASSUME Inductive, NEW t \in Threads,
         \/ \E k \in Columns, p \in Pools : NewColumn(t, k, p)
         \/ \E k \in Columns : BeginClose(t, k)
         \/ LockEntries(t) \/ AcquireHit(t) \/ AcquireMiss(t)
         \/ CloseColumn(t) \/ UpgradePool(t) \/ LockForDrop(t) \/ RemoveEntry(t)
  PROVE  [Plain!Next]_(Plain!absVars)
  <1>1. UNCHANGED <<cells, heap>>
    BY DEF NewColumn, BeginClose, LockEntries, AcquireHit, AcquireMiss, CloseColumn,
       UpgradePool, LockForDrop, RemoveEntry
  <1>2. \A c \in Cells : TextOf(c)' = TextOf(c)
    BY <1>1 DEF TextOf
  <1>3. \A u \in Threads : RequestOf(u)' = RequestOf(u)
    BY DEF Inductive, TypeOK, RequestOf, Setting, NewColumn, BeginClose, LockEntries,
       AcquireHit, AcquireMiss, CloseColumn, UpgradePool, LockForDrop, RemoveEntry
  <1>. QED  BY <1>2, <1>3, Unseen

\* A value is published where no cell looks.
LEMMA PublishUnseen ==
  ASSUME Inductive, NEW t \in Threads, NEW b \in Addrs, Publish(t, b)
  PROVE  [Plain!Next]_(Plain!absVars)
  <1>1. \A c \in Cells : cells[c] # b
    BY DEF Publish, Unreferenced, Alive
  <1>2. \A c \in Cells : TextOf(c)' = TextOf(c)
    BY <1>1 DEF TextOf, Publish, Inductive, TypeOK
  <1>3. \A u \in Threads : RequestOf(u)' = RequestOf(u)
    BY DEF Inductive, TypeOK, RequestOf, Setting, Publish
  <1>. QED  BY <1>2, <1>3, Unseen

\* A value's own fields go after the last cell has let go of it.
LEMMA ReleaseUnseen ==
  ASSUME Inductive, NEW t \in Threads, Release(t)
  PROVE  [Plain!Next]_(Plain!absVars)
  <1>1. dying[t] # NULL
    BY DEF Inductive, Locals, Dropping, Release
  <1>2. \A c \in Cells : cells[c] # dying[t]
    BY <1>1 DEF Inductive, DestroyedOnce, Alive
  <1>3. \A c \in Cells : TextOf(c)' = TextOf(c)
    BY <1>2 DEF TextOf, Release, Inductive, TypeOK
  <1>4. \A u \in Threads : RequestOf(u)' = RequestOf(u)
    BY DEF Inductive, TypeOK, RequestOf, Setting, Release
  <1>. QED  BY <1>3, <1>4, Unseen

\* A write starts at a cell that no other write is at.
LEMMA BeginSetAsks ==
  ASSUME Inductive, NEW t \in Threads, NEW c \in Cells, NEW x \in Texts, BeginSet(t, c, x)
  PROVE  Plain!Next
  <1>. DEFINE w == [cell |-> c, text |-> x]
  <1>1. w \in Plain!Write
    BY DEF Plain!Write, Plain!Cells, Cells
  <1>2. \A d \in Cells : TextOf(d)' = TextOf(d)
    BY DEF TextOf, BeginSet
  <1>3. RequestOf(t) = NULL /\ RequestOf(t)' = w
    BY DEF RequestOf, BeginSet, Inductive, TypeOK, Setting
  <1>4. \A u \in Threads : RequestOf(u) # NULL => RequestOf(u).cell # c
    BY DEF RequestOf, BeginSet, Borrowed
  <1>5. \A u \in Threads : u # t => RequestOf(u)' = RequestOf(u)
    BY DEF RequestOf, BeginSet, Inductive, TypeOK
  <1>6. Plain!Ask(t, w)
    BY <1>2, <1>3, <1>4, <1>5 DEF Plain!Ask, Plain!Cells, Cells
  <1>. QED  BY <1>1, <1>6 DEF Plain!Next

\* The written cell reads as the text that was asked for, and no other changes.
LEMMA InstallCommits ==
  ASSUME Inductive, NEW t \in Threads, Install(t)
  PROVE  Plain!Next
  <1>. DEFINE c == cell[t]
  <1>1. c \in Cells /\ pc[t] = "install" /\ text[t] \in Texts
    BY Borrows DEF Install, Setting
  <1>2. got[t] \in Addrs /\ heap[got[t]] # NULL /\ heap[got[t]].text = text[t]
    <2>1. got[t] # NULL
      BY <1>1 DEF Inductive, Locals
    <2>2. heap[got[t]] = [text |-> text[t], pool |-> PoolOf(t)]
      BY <2>1 DEF Inductive, InFlight
    <2>3. LiveIsCached /\ got[t] \in Addrs
      BY <2>1 DEF Inductive, TypeOK
    <2>4. Alive(got[t])
      BY DEF Alive
    <2>5. heap[got[t]] # NULL
      BY <2>3, <2>4 DEF LiveIsCached
    <2>. QED  BY <2>2, <2>3, <2>5
  <1>3. cells' = [cells EXCEPT ![c] = got[t]] /\ UNCHANGED heap
    BY DEF Install, Replace
  <1>4. \A d \in Cells : TextOf(d)' = IF d = c THEN text[t] ELSE TextOf(d)
    BY <1>1, <1>2, <1>3, NullFacts DEF TextOf, Inductive, TypeOK
  <1>5. RequestOf(t) = [cell |-> c, text |-> text[t]] /\ RequestOf(t) # NULL
    <2>1. RequestOf(t) = [cell |-> c, text |-> text[t]]
      BY <1>1 DEF RequestOf, Setting
    <2>. QED  BY <2>1, <1>1, NullAssumption
  <1>6. RequestOf(t)' = NULL
    BY <1>1 DEF RequestOf, Install, Replace, Setting, Inductive, TypeOK
  <1>7. \A u \in Threads : u # t => RequestOf(u)' = RequestOf(u)
    BY DEF RequestOf, Install, Replace, Inductive, TypeOK
  <1>8. RequestOf(t).cell = c /\ RequestOf(t).text = text[t]
    BY <1>5
  <1>. HIDE DEF c
  <1>9. [d \in Cells |-> TextOf(d)]' = [[d \in Cells |-> TextOf(d)] EXCEPT ![c] = text[t]]
    BY <1>1, <1>4
  <1>10. [u \in Threads |-> RequestOf(u)]' = [[u \in Threads |-> RequestOf(u)] EXCEPT ![t] = NULL]
    BY <1>6, <1>7
  <1>11. Plain!Commit(t)
    BY <1>5, <1>8, <1>9, <1>10 DEF Plain!Commit, Plain!Cells, Cells
  <1>. QED  BY <1>11 DEF Plain!Next

\* A cleared cell reads as nothing; nobody is writing it.
LEMMA ClearedCell ==
  ASSUME Inductive, NEW t \in Threads, NEW c \in Cells, NEW next \in {"idle", "close"},
         pc[t] = next, UNCHANGED <<got, text, heap>>, Replace(t, c, NULL, next),
         \A u \in Threads : u # t => cell[u] # c
  PROVE  Plain!Next
  <1>1. cells' = [cells EXCEPT ![c] = NULL]
    BY DEF Replace
  <1>2. \A d \in Cells : TextOf(d)' = IF d = c THEN NULL ELSE TextOf(d)
    BY <1>1 DEF TextOf, Inductive, TypeOK
  <1>3. RequestOf(t) = NULL /\ RequestOf(t)' = NULL
    BY DEF RequestOf, Replace, Setting, Inductive, TypeOK
  <1>4. \A u \in Threads : u # t => RequestOf(u)' = RequestOf(u)
    BY DEF RequestOf, Replace, Inductive, TypeOK
  <1>5. \A u \in Threads : RequestOf(u) # NULL => RequestOf(u).cell # c
    BY <1>3 DEF RequestOf
  <1>6. Plain!Clear(c)
    BY <1>2, <1>3, <1>4, <1>5 DEF Plain!Clear, Plain!Cells, Cells
  <1>. QED  BY <1>6 DEF Plain!Next, Plain!Cells, Cells

LEMMA BeginClearClears ==
  ASSUME Inductive, NEW t \in Threads, NEW c \in Cells, BeginClear(t, c)
  PROVE  Plain!Next
  BY ClearedCell DEF BeginClear, Borrowed

LEMMA CloseCellClears ==
  ASSUME Inductive, NEW t \in Threads, NEW s \in Slots, CloseCell(t, s)
  PROVE  Plain!Next
  <1>. DEFINE k == closing[t]
              c == <<k, s>>
  <1>1. k \in Columns /\ k # NULL /\ c \in Cells /\ c[1] = k
    BY NothingHeld, CellFacts, NullFacts DEF CloseCell
  <1>2. \A u \in Threads : u # t => cell[u] # c
    BY <1>1, NullFacts DEF Inductive, Claims
  <1>. HIDE DEF c
  <1>3. Replace(t, c, NULL, "close")
    BY DEF CloseCell, c
  <1>. QED  BY <1>1, <1>2, <1>3, ClearedCell DEF CloseCell

\* A copied column reads as the rows it was copied from.
LEMMA CopyColumnCopies ==
  ASSUME Inductive, NEW t \in Threads, NEW k \in Columns, NEW from \in Columns,
         NEW rows \in [Slots -> Slots \cup {NULL}], CopyColumn(t, k, from, rows)
  PROVE  Plain!Next
  <1>1. \A s \in Slots : <<k, s>> \in Cells /\ TextOf(<<k, s>>) = NULL
    BY CellFacts DEF CopyColumn, Inductive, Claims, TextOf
  <1>2. \A c \in Cells : c[1] \in Columns /\ c[2] \in Slots
    BY DEF Cells
  <1>3. \A c \in Cells : TextOf(c)' =
          IF c[1] # k THEN TextOf(c)
          ELSE IF rows[c[2]] = NULL THEN NULL
          ELSE TextOf(<<from, rows[c[2]]>>)
    BY <1>2 DEF CopyColumn, TextOf, Cells
  <1>4. \A u \in Threads : RequestOf(u)' = RequestOf(u)
    BY DEF RequestOf, CopyColumn
  <1>5. Plain!Copy(k, from, rows)
    BY <1>1, <1>2, <1>3, <1>4 DEF Plain!Copy, Plain!Cells, Cells
  <1>. QED  BY <1>5 DEF Plain!Next

\* A cell appended from another column reads as that one.
LEMMA AppendSharedExtends ==
  ASSUME Inductive, NEW t \in Threads, NEW c \in Cells, NEW from \in Cells,
         AppendShared(t, c, from)
  PROVE  Plain!Next
  <1>1. TextOf(c) = NULL
    BY DEF AppendShared, TextOf
  <1>2. \A d \in Cells : TextOf(d)' = IF d = c THEN TextOf(from) ELSE TextOf(d)
    BY DEF AppendShared, TextOf, Inductive, TypeOK
  <1>3. \A u \in Threads : RequestOf(u)' = RequestOf(u)
    BY DEF RequestOf, AppendShared
  <1>4. Plain!Extend(c, from)
    BY <1>1, <1>2, <1>3 DEF Plain!Extend, Plain!Cells, Cells
  <1>. QED  BY <1>4 DEF Plain!Next, Plain!Cells, Cells

\* Sharing is invisible: whatever is interned, shared, copied and destroyed by
\* any number of threads, each cell reads as the text it was last given.
THEOREM SharingIsInvisible == Spec => CellsReadAsWritten
  <1>1. Init => Plain!Init
    BY DEF Init, Plain!Init, Plain!Cells, Cells, TextOf, RequestOf, Setting
  <1>2. Inductive /\ [Next]_vars => [Plain!Next]_(Plain!absVars)
    <2>. SUFFICES ASSUME Inductive, [Next]_vars  PROVE [Plain!Next]_(Plain!absVars)
      OBVIOUS
    <2>1. ASSUME NEW t \in Threads, Begin(t)  PROVE [Plain!Next]_(Plain!absVars)
      BY <2>1, SilentSteps, CopyColumnCopies, AppendSharedExtends, BeginSetAsks,
         BeginClearClears DEF Begin
    <2>2. ASSUME NEW t \in Threads, Continue(t)  PROVE [Plain!Next]_(Plain!absVars)
      BY <2>2, SilentSteps, PublishUnseen, InstallCommits, CloseCellClears, ReleaseUnseen
      DEF Continue
    <2>3. CASE UNCHANGED vars
      BY <2>3, Unseen DEF vars, TextOf, RequestOf
    <2>. QED  BY <2>1, <2>2, <2>3 DEF Next
  <1>. QED
    BY <1>1, <1>2, InductiveInvariant, PTL DEF Spec, CellsReadAsWritten, Plain!Spec

=============================================================================
