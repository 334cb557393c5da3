---------------------------- MODULE RowRangesProof ----------------------------
(***************************************************************************)
(* Proofs about RowRanges: whatever is split, by callers and by the pool,  *)
(* no two ranges reach the same element of any vector of the table.        *)
(***************************************************************************)
EXTENDS RowRanges, NaturalLemmas, TLAPS

\* Every vector is a sequence of n elements.
Vectors(n, s) ==
  \A v \in DOMAIN s : s[v] = [k \in 1..n |-> s[v][k]]

\* A range that is not empty, within a table of n rows, with slices of one shape
\* of all vectors.
Proper(n, vectors, r) ==
  /\ r = RowRange(r.start, r.len, r.slices, r.work)
  /\ r.start \in Nat /\ r.len \in Nat \ {0}
  /\ r.start + r.len <= n
  /\ DOMAIN r.slices = vectors
  /\ \A v \in vectors : r.slices[v].base = r.start /\ r.slices[v].len = r.len
  /\ r.work # NULL => r.work.operation \in Operations

ProperJob(n, vectors, j) ==
  /\ j = [range |-> j.range, row |-> j.row, last |-> j.last, operation |-> j.operation,
          owed |-> j.owed, step |-> j.step, got |-> j.got, value |-> j.value, old |-> j.old]
  /\ Proper(n, vectors, j.range)
  /\ j.row \in Nat /\ j.last \in Nat
  /\ j.row <= j.last /\ j.last < j.range.len
  /\ j.operation \in Operations
  /\ j.step \in Nat /\ j.step <= Len(j.operation.edits)

\* One of the ranges ends before the other starts.
Apart(r, s) == r.start + r.len <= s.start \/ s.start + s.len <= r.start

\* Range h is a part of range r.
Within(h, r) == r.start <= h.start /\ h.start + h.len <= r.start + r.len

AllApart ==
  /\ \A r, s \in ranges : r # s => Apart(r, s)
  /\ \A t \in Busy, r \in ranges : Apart(job[t].range, r)
  /\ \A t, u \in Busy : t # u => Apart(job[t].range, job[u].range)

\* RangesDisjoint follows from where ranges start and end because their slices
\* agree with that, and a new range inherits it from the one that it is part of.
IInv ==
  /\ count \in Nat
  /\ Vectors(count, store)
  /\ Busy \subseteq Threads
  /\ \A r \in ranges : Proper(count, DOMAIN store, r)
  /\ \A t \in Busy : ProperJob(count, DOMAIN store, job[t])
  /\ AllApart
  /\ GrainIsKept

-----------------------------------------------------------------------------
(* Lemmas.                                                                 *)

\* What [i \in 1..n |-> ...] has is its length.
LEMMA LengthOfVector ==
  ASSUME NEW n \in Nat, NEW f, f = [k \in 1..n |-> f[k]]
  PROVE  Len(f) = n
<1> DEFINE S == {f[k] : k \in 1..n}
<1>1. f \in [1..n -> S] OBVIOUS
<1>2. f \in Seq(S) BY <1>1
<1>3. DOMAIN f = 1..n BY <1>1
<1> QED BY <1>2, <1>3

\* An assignment to an element keeps the lengths of all vectors.
LEMMA PutKeepsVectors ==
  ASSUME NEW s, Vectors(count, s), NEW v, NEW k, NEW x,
         NEW new, new = [s EXCEPT ![v][k] = x]
  PROVE  DOMAIN new = DOMAIN s /\ Vectors(count, new)
<1>1. DOMAIN new = DOMAIN s OBVIOUS
<1>2. ASSUME NEW w \in DOMAIN new
      PROVE  new[w] = [i \in 1..count |-> new[w][i]]
  <2>1. s[w] = [i \in 1..count |-> s[w][i]] BY <1>1, <1>2 DEF Vectors
  <2>2. CASE w = v
    <3>1. new[w] = [s[w] EXCEPT ![k] = x] BY <2>2, <1>1, <1>2
    <3> QED BY <3>1, <2>1
  <2>3. CASE w # v
    <3>1. new[w] = s[w] BY <2>3, <1>1, <1>2
    <3> QED BY <3>1, <2>1
  <2> QED BY <2>2, <2>3
<1> QED BY <1>1, <1>2 DEF Vectors

\* set_named changes elements only.
LEMMA PutNamedKeepsVectors ==
  ASSUME Vectors(count, store), NEW r, NEW i, NEW name, NEW v,
         NEW new, new = PutNamed(r, i, name, v)
  PROVE  DOMAIN new = DOMAIN store /\ Vectors(count, new)
<1> DEFINE c == ColumnIndex(schema, name)
           w == IF c = NULL THEN v ELSE Prepare(schema.columns[c], v)
           values == <<"values", c>>
           valid == <<"valid", c>>
           extras == <<"extras", 0>>
<1>1. CASE w = ERR \/ (c = NULL /\ ~schema.open)
  BY <1>1 DEF PutNamed
<1>2. CASE ~(w = ERR \/ (c = NULL /\ ~schema.open)) /\ c = NULL
  <2>1. new = [store EXCEPT ![extras][Index(r, extras, i)] =
                  WithExtra(At(r, extras, i), name, w)]
    BY <1>2 DEF PutNamed, Put
  <2> QED BY <2>1, PutKeepsVectors
<1>3. CASE ~(w = ERR \/ (c = NULL /\ ~schema.open)) /\ c # NULL
  <2>1. new = PutCell(r, c, i, w) BY <1>3 DEF PutNamed
  <2>2. CASE ~IsSplit(schema.columns[c])
    <3> DEFINE k == Index(r, values, i)
    <3>1. new = [store EXCEPT ![values][k] = w]
      BY <2>1, <2>2 DEF PutCell, Put
    <3> HIDE DEF values, k, w
    <3> QED BY <3>1, PutKeepsVectors
  <2>3. CASE IsSplit(schema.columns[c]) /\ w = NULL
    <3> DEFINE k == Index(r, valid, i)
               invalid == FALSE
    <3>1. new = [store EXCEPT ![valid][k] = invalid]
      BY <2>1, <2>3 DEF PutCell, Put
    <3> HIDE DEF valid, k, invalid
    <3> QED BY <3>1, PutKeepsVectors
  <2>4. CASE IsSplit(schema.columns[c]) /\ w # NULL
    <3> DEFINE known == TRUE
               half == [store EXCEPT ![valid][Index(r, valid, i)] = known]
    <3>1. new = [half EXCEPT ![values][Index(r, values, i)] = w]
      BY <2>1, <2>4 DEF PutCell, Put
    <3> HIDE DEF known
    <3>2. DOMAIN half = DOMAIN store /\ Vectors(count, half) BY PutKeepsVectors
    <3> HIDE DEF half
    <3>3. DOMAIN new = DOMAIN half /\ Vectors(count, new) BY <3>1, <3>2, PutKeepsVectors
    <3> QED BY <3>2, <3>3
  <2> QED BY <2>2, <2>3, <2>4
<1> QED BY <1>1, <1>2, <1>3

\* The whole table is a proper range, when it has rows.
LEMMA RowsMutIsProper ==
  ASSUME count \in Nat \ {0}, Vectors(count, store)
  PROVE  Proper(count, DOMAIN store, RowsMut)
<1>1. \A v \in DOMAIN store : Len(store[v]) = count
  BY LengthOfVector DEF Vectors
<1> QED BY <1>1 DEF Proper, RowsMut, RowRange

\* The non-empty halves of a proper range are proper, lie in it and apart.
LEMMA HalvesAreProper ==
  ASSUME count \in Nat, NEW r, Proper(count, DOMAIN store, r), NEW mid \in 0..r.len,
         NEW h \in NonEmpty({LeftOf(r, mid), RightOf(r, mid)})
  PROVE  /\ Proper(count, DOMAIN store, h)
         /\ Within(h, r)
         /\ \A g \in NonEmpty({LeftOf(r, mid), RightOf(r, mid)}) : g # h => Apart(g, h)
<1> USE DEF Proper, RowRange, NonEmpty, LeftOf, RightOf, Apart, Within
<1>1. h.len > 0 /\ h \in {LeftOf(r, mid), RightOf(r, mid)} OBVIOUS
<1>2. CASE h = LeftOf(r, mid) BY <1>1, <1>2
<1>3. CASE h = RightOf(r, mid) BY <1>1, <1>3
<1> QED BY <1>1, <1>2, <1>3


-----------------------------------------------------------------------------
(* What the steps do to ranges and jobs.                                   *)

\* A range gives way to parts of it.
LEMMA RangeDivided ==
  ASSUME IInv, NEW r \in ranges, NEW new,
         \A h \in new : Proper(count, DOMAIN store, h) /\ Within(h, r),
         \A g, h \in new : g # h => Apart(g, h),
         ranges' = (ranges \ {r}) \cup new,
         UNCHANGED <<schema, count, store, job>>
  PROVE  IInv'
<1>1. \A h \in ranges' : Proper(count, DOMAIN store, h) BY DEF IInv
<1>2. Busy' = Busy BY DEF Busy
<1>3. ASSUME NEW s, Proper(count, DOMAIN store, s), Apart(s, r), NEW h \in new
      PROVE  Apart(s, h) /\ Apart(h, s)
  BY <1>3 DEF IInv, Proper, Within, Apart
<1>4. ASSUME NEW g \in ranges', NEW h \in ranges', g # h
      PROVE  Apart(g, h)
  <2>1. CASE g \in ranges \ {r} /\ h \in ranges \ {r} BY <2>1, <1>4 DEF IInv, AllApart
  <2>2. CASE g \in ranges \ {r} /\ h \in new
    <3>1. Apart(g, r) /\ Proper(count, DOMAIN store, g) BY <2>2 DEF IInv, AllApart
    <3> QED BY <3>1, <2>2, <1>3
  <2>3. CASE g \in new /\ h \in ranges \ {r}
    <3>1. Apart(h, r) /\ Proper(count, DOMAIN store, h) BY <2>3 DEF IInv, AllApart
    <3> QED BY <3>1, <2>3, <1>3
  <2>4. CASE g \in new /\ h \in new BY <2>4, <1>4
  <2> QED BY <2>1, <2>2, <2>3, <2>4
<1>5. ASSUME NEW t \in Busy, NEW h \in ranges'
      PROVE  Apart(job[t].range, h)
  <2>1. CASE h \in ranges BY <2>1 DEF IInv, AllApart
  <2>2. CASE h \in new
    <3>1. Apart(job[t].range, r) /\ Proper(count, DOMAIN store, job[t].range)
      BY DEF IInv, AllApart, ProperJob
    <3> QED BY <3>1, <2>2, <1>3
  <2> QED BY <2>1, <2>2
<1>6. AllApart' BY <1>2, <1>4, <1>5 DEF IInv, AllApart
<1>7. GrainIsKept' BY <1>2 DEF IInv, GrainIsKept
<1> QED BY <1>1, <1>2, <1>6, <1>7 DEF IInv

\* Only thread t begins, goes on or ends.
OnlyMoves(t) ==
  \A u : u # t => /\ u \in Busy' <=> u \in Busy
                  /\ u \in Busy => job'[u] = job[u]

LEMMA TakeMoves ==
  ASSUME NEW t, NEW r, NEW new, Take(t, r, new)
  PROVE  OnlyMoves(t) /\ t \notin Busy /\ Busy' = Busy \cup {t} /\ job'[t] = new
BY DEF Take, Busy, OnlyMoves

LEMMA GoesOnMoves ==
  ASSUME NEW t \in Busy, NEW new, job' = [job EXCEPT ![t] = new]
  PROVE  OnlyMoves(t) /\ Busy' = Busy /\ job'[t] = new
BY DEF Busy, OnlyMoves

LEMMA EndsMoves ==
  ASSUME NEW t \in Busy, job' = [u \in Busy \ {t} |-> job[u]]
  PROVE  OnlyMoves(t) /\ Busy' = Busy \ {t}
BY DEF Busy, OnlyMoves

\* A thread takes a range.
LEMMA RangeTaken ==
  ASSUME IInv, NEW r \in ranges, NEW t \in Threads, NEW new,
         ProperJob(count, DOMAIN store, new), new.range = r,
         t \in Pool => r.len <= r.work.min_rows,
         Take(t, r, new)
  PROVE  IInv'
<1> USE DEF Take
<1>1. /\ job'[t] = new /\ \A u \in Busy \ {t} : job'[u] = job[u]
  BY TakeMoves DEF OnlyMoves
<1>2. t \notin Busy /\ Busy' = Busy \cup {t} BY TakeMoves
<1>3. \A u \in Busy' : ProperJob(count, DOMAIN store, job'[u])
  BY <1>1, <1>2 DEF IInv
<1>4. \A s \in ranges' : s \in ranges /\ s # r OBVIOUS
<1>5. ASSUME NEW u \in Busy', NEW s \in ranges'
      PROVE  Apart(job'[u].range, s)
  BY <1>1, <1>2, <1>4 DEF IInv, AllApart
<1>6. ASSUME NEW u \in Busy', NEW w \in Busy', u # w
      PROVE  Apart(job'[u].range, job'[w].range)
  <2>1. CASE u # t /\ w # t BY <2>1, <1>1, <1>2, <1>6 DEF IInv, AllApart
  <2>2. CASE u = t /\ w # t
    <3>1. Apart(job[w].range, r) /\ w \in Busy BY <2>2, <1>2 DEF IInv, AllApart
    <3>2. job'[u].range = r /\ job'[w] = job[w] BY <2>2, <1>1, <1>2
    <3> QED BY <3>1, <3>2 DEF Apart
  <2>3. CASE u # t /\ w = t
    <3>1. Apart(job[u].range, r) /\ u \in Busy BY <2>3, <1>2 DEF IInv, AllApart
    <3>2. job'[w].range = r /\ job'[u] = job[u] BY <2>3, <1>1, <1>2
    <3> QED BY <3>1, <3>2 DEF Apart
  <2> QED BY <2>1, <2>2, <2>3, <1>6
<1>7. AllApart' BY <1>4, <1>5, <1>6 DEF IInv, AllApart
<1>8. GrainIsKept' BY <1>1, <1>2 DEF IInv, GrainIsKept
<1> QED BY <1>2, <1>3, <1>4, <1>7, <1>8 DEF IInv

\* A thread goes on with its range.
LEMMA WorkGoesOn ==
  ASSUME IInv, NEW t \in Busy, NEW new,
         ProperJob(count, DOMAIN store, new), new.range = job[t].range,
         job' = [job EXCEPT ![t] = new],
         count' = count, DOMAIN store' = DOMAIN store, Vectors(count, store'),
         UNCHANGED ranges
  PROVE  IInv'
<1>1. /\ job'[t] = new /\ \A u \in Busy \ {t} : job'[u] = job[u]
  BY GoesOnMoves DEF OnlyMoves
<1>2. Busy' = Busy BY GoesOnMoves
<1>3. \A u \in Busy' : u \in Busy /\ job'[u].range = job[u].range BY <1>1, <1>2
<1>4. \A u \in Busy' : ProperJob(count, DOMAIN store, job'[u])
  BY <1>1, <1>2 DEF IInv
<1>5. AllApart' BY <1>3 DEF IInv, AllApart, Apart
<1>6. GrainIsKept' BY <1>3 DEF IInv, GrainIsKept
<1> QED BY <1>2, <1>4, <1>5, <1>6 DEF IInv

\* A thread is done with its range, which may go back to its holder.
LEMMA WorkEnds ==
  ASSUME IInv, NEW t \in Busy, job' = [u \in Busy \ {t} |-> job[u]],
         ranges' = ranges \/ ranges' = ranges \cup {job[t].range},
         count' = count, DOMAIN store' = DOMAIN store, Vectors(count, store')
  PROVE  IInv'
<1>1. OnlyMoves(t) /\ Busy' = Busy \ {t} BY EndsMoves
<1>2. \A u \in Busy' : u \in Busy /\ u # t /\ job'[u] = job[u] BY <1>1 DEF OnlyMoves
<1>3. Proper(count, DOMAIN store, job[t].range) BY DEF IInv, ProperJob
<1>4. \A r \in ranges' : Proper(count, DOMAIN store, r) BY <1>3 DEF IInv
<1>5. ASSUME NEW r \in ranges', NEW s \in ranges', r # s
      PROVE  Apart(r, s)
  <2>1. CASE r \in ranges /\ s \in ranges BY <2>1, <1>5 DEF IInv, AllApart
  <2>2. CASE r \in ranges /\ s = job[t].range
    <3>1. Apart(job[t].range, r) BY <2>2 DEF IInv, AllApart
    <3> QED BY <3>1, <2>2 DEF Apart
  <2>3. CASE r = job[t].range /\ s \in ranges BY <2>3 DEF IInv, AllApart
  <2> QED BY <2>1, <2>2, <2>3, <1>5
<1>6. ASSUME NEW u \in Busy', NEW r \in ranges'
      PROVE  Apart(job'[u].range, r)
  BY <1>2 DEF IInv, AllApart
<1>7. AllApart' BY <1>2, <1>5, <1>6 DEF IInv, AllApart
<1>8. GrainIsKept' BY <1>2 DEF IInv, GrainIsKept
<1>9. \A u \in Busy' : ProperJob(count, DOMAIN store, job'[u]) BY <1>2 DEF IInv
<1> QED BY <1>1, <1>4, <1>7, <1>8, <1>9 DEF IInv

\* for_each enters its next row, or ends.
LEMMA LeaveKeepsInvariant ==
  ASSUME IInv, NEW t \in Busy, Leave(t),
         count' = count, DOMAIN store' = DOMAIN store, Vectors(count, store')
  PROVE  IInv'
<1> DEFINE j == job[t]
<1>1. t \in Busy /\ ProperJob(count, DOMAIN store, j) BY DEF IInv
<1>2. CASE j.row < j.last
  <2> DEFINE new == Job(j.range, j.row + 1, j.last, j.operation, j.owed)
  <2>1. job' = [job EXCEPT ![t] = new] /\ UNCHANGED ranges BY <1>2 DEF Leave
  <2>2. ProperJob(count, DOMAIN store, new) /\ new.range = j.range
    BY <1>1, <1>2, OperationsAssumption DEF ProperJob, Job
  <2> HIDE DEF new
  <2> QED BY <2>1, <2>2, <1>1, WorkGoesOn
<1>3. CASE ~(j.row < j.last)
  <2>1. job' = [u \in Busy \ {t} |-> job[u]] BY <1>3 DEF Leave
  <2>2. ranges' = ranges \/ ranges' = ranges \cup {j.range} BY <1>3 DEF Leave
  <2> QED BY <2>1, <2>2, <1>1, WorkEnds
<1> QED BY <1>2, <1>3

\* Borrowing, for which no thread may work.
LEMMA BorrowKeepsInvariant ==
  ASSUME IInv, Borrow
  PROVE  IInv'
<1> USE DEF Borrow
<1>1. Busy = {} /\ Busy' = {} BY DEF Busy
<1>2. \A r \in ranges' : r = RowsMut /\ Proper(count, DOMAIN store, r)
  <2>1. CASE count = 0 BY <2>1 DEF NonEmpty, RowsMut, RowRange
  <2>2. CASE count # 0
    <3>1. Proper(count, DOMAIN store, RowsMut) BY <2>2, RowsMutIsProper DEF IInv
    <3> QED BY <3>1 DEF NonEmpty
  <2> QED BY <2>1, <2>2
<1>3. AllApart' BY <1>1, <1>2 DEF AllApart
<1>4. GrainIsKept' BY <1>1 DEF GrainIsKept
<1> QED BY <1>1, <1>2, <1>3, <1>4 DEF IInv

\* What the holders of ranges and the pool do with them.
LEMMA RangeStepKeepsInvariant ==
  ASSUME IInv, NEW r \in ranges,
         \/ Drop(r)
         \/ \E mid \in 0..r.len : SplitAt(r, mid)
         \/ \E operation \in Operations, min_rows \in Grains :
              ParForEach(r, operation, min_rows)
         \/ ParSplit(r)
  PROVE  IInv'
<1>1. Proper(count, DOMAIN store, r) /\ count \in Nat BY DEF IInv
<1>2. ASSUME NEW mid \in 0..r.len, Divide(r, mid)
      PROVE  IInv'
  <2> DEFINE new == NonEmpty({LeftOf(r, mid), RightOf(r, mid)})
  <2>1. \A h \in new : /\ Proper(count, DOMAIN store, h) /\ Within(h, r)
                       /\ \A g \in new : g # h => Apart(g, h)
    BY <1>1, HalvesAreProper
  <2>2. ranges' = (ranges \ {r}) \cup new /\ UNCHANGED <<schema, count, store, job>>
    BY <1>2 DEF Divide
  <2> HIDE DEF new
  <2> QED BY <2>1, <2>2, RangeDivided
<1>3. CASE Drop(r)
  <2> DEFINE new == {}
  <2>1. ranges' = (ranges \ {r}) \cup new /\ UNCHANGED <<schema, count, store, job>>
    BY <1>3 DEF Drop
  <2>2. \A h \in new : FALSE OBVIOUS
  <2> HIDE DEF new
  <2> QED BY <2>1, <2>2, RangeDivided
<1>4. CASE \E mid \in 0..r.len : SplitAt(r, mid) BY <1>2, <1>4 DEF SplitAt
<1>5. ASSUME NEW operation \in Operations, NEW min_rows \in Grains,
             ParForEach(r, operation, min_rows)
      PROVE  IInv'
  <2> DEFINE work == [operation |-> operation, min_rows |-> min_rows]
             h == RowRange(r.start, r.len, r.slices, work)
             new == {h}
  <2>1. Proper(count, DOMAIN store, h) /\ Within(h, r) BY <1>1 DEF Proper, RowRange, Within
  <2>2. ranges' = (ranges \ {r}) \cup new /\ UNCHANGED <<schema, count, store, job>>
    BY <1>5 DEF ParForEach
  <2>3. \A g \in new : g = h OBVIOUS
  <2> HIDE DEF h, new
  <2> QED BY <2>1, <2>2, <2>3, RangeDivided
<1>6. CASE ParSplit(r)
  <2>1. r.len \div 2 \in 0..r.len BY <1>1 DEF Proper
  <2> QED BY <1>6, <2>1, <1>2 DEF ParSplit
<1> QED BY <1>3, <1>4, <1>5, <1>6

\* The three ways in which a thread gets its rows.
LEMMA TakeKeepsInvariant ==
  ASSUME IInv, NEW r \in ranges, NEW t \in Threads,
         \/ t \in Pool /\ ParStart(t, r)
         \/ t \in Callers /\ \E operation \in Operations :
              \/ ForEach(t, r, operation)
              \/ \E i \in 0..(r.len - 1) : RowMut(t, r, i, operation)
  PROVE  IInv'
<1>1. Proper(count, DOMAIN store, r) /\ count \in Nat BY DEF IInv
<1>2. ASSUME NEW first \in Nat, NEW last \in Nat, first <= last, last < r.len,
             NEW operation \in Operations, NEW owed,
             t \in Pool => r.len <= r.work.min_rows,
             Take(t, r, Job(r, first, last, operation, owed))
      PROVE  IInv'
  <2> DEFINE new == Job(r, first, last, operation, owed)
  <2>1. ProperJob(count, DOMAIN store, new) /\ new.range = r
    BY <1>1, <1>2, OperationsAssumption DEF ProperJob, Job
  <2> HIDE DEF new
  <2> QED BY <1>2, <2>1, RangeTaken DEF new
<1>3. r.len - 1 \in Nat /\ r.len - 1 < r.len /\ 0 <= r.len - 1 BY <1>1 DEF Proper
<1>4. CASE t \in Pool /\ ParStart(t, r)
  <2>1. r.work.operation \in Operations BY <1>1, <1>4 DEF ParStart, Proper
  <2> DEFINE yes == TRUE
  <2>2. Take(t, r, Job(r, 0, r.len - 1, r.work.operation, yes)) BY <1>4 DEF ParStart
  <2> HIDE DEF yes
  <2> QED BY <1>2, <1>3, <1>4, <2>1, <2>2 DEF ParStart
<1>5. ASSUME t \in Callers, NEW operation \in Operations, ForEach(t, r, operation)
      PROVE  IInv'
  <2> DEFINE yes == TRUE
  <2>1. Take(t, r, Job(r, 0, r.len - 1, operation, yes)) BY <1>5 DEF ForEach
  <2> HIDE DEF yes
  <2> QED BY <1>2, <1>3, <1>5, <2>1, ThreadsAssumption
<1>6. ASSUME t \in Callers, NEW operation \in Operations, NEW i \in 0..(r.len - 1),
             RowMut(t, r, i, operation)
      PROVE  IInv'
  <2> DEFINE no == FALSE
  <2>1. Take(t, r, Job(r, i, i, operation, no)) BY <1>6 DEF RowMut
  <2>2. i \in Nat /\ i <= i /\ i < r.len BY <1>1, <1>3 DEF Proper
  <2> HIDE DEF no
  <2> QED BY <1>2, <1>6, <2>1, <2>2, ThreadsAssumption
<1> QED BY <1>4, <1>5, <1>6

\* The steps of a thread on its rows.
LEMMA WorkKeepsInvariant ==
  ASSUME IInv, NEW t \in Threads, Work(t)
  PROVE  IInv'
<1> DEFINE j == job[t]
<1>1. t \in Busy BY DEF Work, Enter, Read, Write
<1>2. t \in Busy /\ ProperJob(count, DOMAIN store, j) BY <1>1 DEF IInv
<1>3. CASE Enter(t)
  <2>1. UNCHANGED <<count, store>> /\ Vectors(count, store) BY <1>3 DEF Enter, IInv
  <2>2. CASE Skips(j)
    <3>1. Leave(t) BY <1>3, <2>2 DEF Enter
    <3> QED BY <1>1, <2>1, <3>1, LeaveKeepsInvariant
  <2>3. CASE ~Skips(j)
    <3> DEFINE seen == RowAt(j.range.start + j.row)
               no == FALSE
               new == Progress(j, 1, no, NULL, seen)
    <3>1. job' = [job EXCEPT ![t] = new] /\ UNCHANGED ranges BY <1>3, <2>3 DEF Enter
    <3> HIDE DEF seen, no
    <3>2. j.operation.edits # <<>> BY <2>3 DEF Skips
    <3>3. ProperJob(count, DOMAIN store, new) /\ new.range = j.range
      BY <1>2, <3>2, OperationsAssumption DEF ProperJob, Progress
    <3> HIDE DEF new
    <3> QED BY <1>2, <2>1, <3>1, <3>3, WorkGoesOn
  <2> QED BY <2>2, <2>3
<1>4. CASE Read(t)
  <2> DEFINE v == Named(j.range, j.row, j.operation.edits[j.step].from)
             yes == TRUE
             new == Progress(j, j.step, yes, v, j.old)
  <2>1. job' = [job EXCEPT ![t] = new] /\ UNCHANGED <<count, store, ranges>>
    BY <1>4 DEF Read
  <2> HIDE DEF v, yes
  <2>2. ProperJob(count, DOMAIN store, new) /\ new.range = j.range
    BY <1>2 DEF ProperJob, Progress
  <2>3. Vectors(count, store) BY DEF IInv
  <2> HIDE DEF new
  <2> QED BY <1>2, <2>1, <2>2, <2>3, WorkGoesOn
<1>5. CASE Write(t)
  <2>1. DOMAIN store' = DOMAIN store /\ Vectors(count, store')
    <3> DEFINE edit == j.operation.edits[j.step]
               v == edit.by[j.value]
    <3>1. store' = PutNamed(j.range, j.row, edit.to, v) BY <1>5 DEF Write
    <3> HIDE DEF v
    <3> QED BY <3>1, PutNamedKeepsVectors DEF IInv
  <2>2. count' = count BY <1>5 DEF Write
  <2>3. CASE j.step < Len(j.operation.edits)
    <3> DEFINE no == FALSE
               new == Progress(j, j.step + 1, no, NULL, j.old)
    <3>1. job' = [job EXCEPT ![t] = new] /\ UNCHANGED ranges BY <1>5, <2>3 DEF Write
    <3> HIDE DEF no
    <3>2. ProperJob(count, DOMAIN store, new) /\ new.range = j.range
      BY <1>2, <2>3, OperationsAssumption DEF ProperJob, Progress
    <3> HIDE DEF new
    <3> QED BY <1>2, <2>1, <2>2, <3>1, <3>2, WorkGoesOn
  <2>4. CASE ~(j.step < Len(j.operation.edits))
    <3>1. Leave(t) BY <1>5, <2>4 DEF Write
    <3> QED BY <1>1, <2>1, <2>2, <3>1, LeaveKeepsInvariant
  <2> QED BY <2>3, <2>4
<1> QED BY <1>3, <1>4, <1>5 DEF Work

-----------------------------------------------------------------------------
(* The invariant, and what follows from it.                                *)

LEMMA InitEstablishesInvariant == Init => IInv
<1> SUFFICES ASSUME Init PROVE IInv OBVIOUS
<1>1. PICK table \in InitialRows :
        count = Len(table[2]) /\ store = StoreOf(table[1], table[2])
  BY DEF Init
<1>2. count \in Nat /\ DOMAIN table[2] = 1..count BY <1>1, InitialRowsAssumption
<1>3. Vectors(count, store)
  <2>1. \A v \in DOMAIN store :
          store[v] = [i \in DOMAIN table[2] |-> Element(table[1], v, table[2][i])]
    BY <1>1 DEF StoreOf
  <2> QED BY <2>1, <1>2 DEF Vectors
<1>4. Busy = {} /\ ranges = {} BY DEF Init, Busy
<1>5. Busy \subseteq Threads BY <1>4
<1> QED BY <1>2, <1>3, <1>4, <1>5 DEF IInv, AllApart, GrainIsKept

LEMMA NextKeepsInvariant == IInv /\ [Next]_vars => IInv'
<1> SUFFICES ASSUME IInv, [Next]_vars PROVE IInv' OBVIOUS
<1>1. CASE Borrow BY <1>1, BorrowKeepsInvariant
<1>2. ASSUME NEW r \in ranges,
             \/ Drop(r)
             \/ \E mid \in 0..r.len : SplitAt(r, mid)
             \/ \E operation \in Operations, min_rows \in Grains :
                  ParForEach(r, operation, min_rows)
             \/ ParSplit(r)
      PROVE  IInv'
  BY <1>2, RangeStepKeepsInvariant
<1>3. ASSUME NEW r \in ranges, NEW t \in Callers, NEW operation \in Operations,
             \/ ForEach(t, r, operation)
             \/ \E i \in 0..(r.len - 1) : RowMut(t, r, i, operation)
      PROVE  IInv'
  BY <1>3, TakeKeepsInvariant DEF Threads
<1>4. ASSUME NEW t \in Threads, Work(t) PROVE IInv' BY <1>4, WorkKeepsInvariant
<1>5. ASSUME NEW t \in Pool, NEW r \in ranges, ParStart(t, r) PROVE IInv'
  BY <1>5, TakeKeepsInvariant DEF Threads
<1>6. CASE UNCHANGED vars
  BY <1>6 DEF vars, IInv, Busy, AllApart, GrainIsKept
<1> QED BY <1>1, <1>2, <1>3, <1>4, <1>5, <1>6 DEF Next, Serve, Threads

LEMMA InvariantHolds == Spec => []IInv
BY InitEstablishesInvariant, NextKeepsInvariant, PTL DEF Spec

\* Every range, at rest or at work, has its slices at its own rows.
LEMMA HeldAreProper ==
  ASSUME IInv, NEW r \in Held
  PROVE  Proper(count, DOMAIN store, r)
BY DEF IInv, Held, ProperJob

\* Ranges that are apart reach different elements.
LEMMA ApartRangesAreDisjoint ==
  ASSUME NEW r, NEW s, Proper(count, DOMAIN store, r), Proper(count, DOMAIN store, s),
         count \in Nat, Apart(r, s)
  PROVE  Reach(r) \cap Reach(s) = {}
<1> SUFFICES ASSUME NEW e \in Reach(r), e \in Reach(s) PROVE FALSE OBVIOUS
<1>1. /\ e[1] \in DOMAIN store /\ e[2] \in 1..count
      /\ r.slices[e[1]].base < e[2] /\ e[2] <= r.slices[e[1]].base + r.slices[e[1]].len
      /\ s.slices[e[1]].base < e[2] /\ e[2] <= s.slices[e[1]].base + s.slices[e[1]].len
  BY DEF Reach
<1>2. /\ r.start < e[2] /\ e[2] <= r.start + r.len
      /\ s.start < e[2] /\ e[2] <= s.start + s.len
  BY <1>1 DEF Proper
<1> QED BY <1>1, <1>2 DEF Apart, Proper

\* Slices stay within vectors whose length is row_count, and threads within
\* their ranges (RowsMut, row_mut.rs:668).
THEOREM TypesHold == Spec => []TypeOK
<1>1. IInv => TypeOK
  <2> SUFFICES ASSUME IInv PROVE TypeOK OBVIOUS
  <2>1. \A v \in DOMAIN store : Len(store[v]) = count
    BY LengthOfVector DEF IInv, Vectors
  <2>2. \A r \in Held :
          /\ DOMAIN r.slices = DOMAIN store
          /\ \A v \in DOMAIN store : r.slices[v].base + r.slices[v].len <= count
    BY HeldAreProper DEF Proper
  <2>3. \A t \in Busy :
          /\ job[t].row <= job[t].last /\ job[t].last < job[t].range.len
          /\ job[t].step <= Len(job[t].operation.edits)
    BY DEF IInv, ProperJob
  <2> QED BY <2>1, <2>2, <2>3 DEF TypeOK
<1> QED BY <1>1, InvariantHolds, PTL

\* However often and wherever a range is split, its columns, extra fields and
\* flags are those of the same rows (RowsMut::split_at, row_mut.rs:735).
THEOREM SplitsAgree == Spec => []SlicesAgree
<1>1. IInv => SlicesAgree BY HeldAreProper DEF SlicesAgree, Proper
<1> QED BY <1>1, InvariantHolds, PTL

\* No two ranges share an element, for any table and any tree of splits: threads
\* that write through them need no lock (RowsMut, row_mut.rs:666).
THEOREM SplitsAreDisjoint == Spec => []RangesDisjoint
<1>1. IInv => RangesDisjoint
  <2> SUFFICES ASSUME IInv PROVE RangesDisjoint OBVIOUS
  <2>1. \A r, s \in Held : Apart(r, s) => Reach(r) \cap Reach(s) = {}
    BY HeldAreProper, ApartRangesAreDisjoint DEF IInv
  <2> QED BY <2>1 DEF IInv, AllApart, RangesDisjoint, Held
<1> QED BY <1>1, InvariantHolds, PTL

\* Threads that hold different ranges cannot meet in any element of the table
\* (RowsMut::split_at, row_mut.rs:735).
THEOREM SplitsAreExclusive == Spec => []RangesAreExclusive
  BY SplitsAgree, SplitsAreDisjoint, PTL DEF RangesAreExclusive

\* The pool never processes more than min_rows rows at a time
\* (par_for_each, row_mut.rs:787).
THEOREM GrainHolds == Spec => []GrainIsKept
<1>1. IInv => GrainIsKept BY DEF IInv
<1> QED BY <1>1, InvariantHolds, PTL

-----------------------------------------------------------------------------
(* Rows, for the refinement of RowEdits.                                   *)

\* Row k, counted from 1, of a table whose vectors are st.
RowIn(s, st, k) ==
  [cells |-> [c \in Positions(s) |->
                IF IsSplit(s.columns[c]) /\ ~st[<<"valid", c>>][k]
                THEN NULL
                ELSE st[<<"values", c>>][k]],
   extra |-> IF s.open THEN st[<<"extras", 0>>][k] ELSE NoExtras,
   dead |-> <<"flags", 0>> \in DOMAIN st /\ st[<<"flags", 0>>][k]]

\* The table has the vectors that its schema asks for.
Complete(s, vectors) ==
  /\ \A c \in Positions(s) :
       /\ <<"values", c>> \in vectors
       /\ IsSplit(s.columns[c]) => <<"valid", c>> \in vectors
  /\ s.open => <<"extras", 0>> \in vectors

\* The row that a thread works on is what its edits so far made of the row that
\* it entered, and what it read is a field of that.
Follows(s, st, j) ==
  /\ ~j.owed => j.range.work = NULL
  /\ j.step > 0 =>
       /\ ~(j.operation.live /\ j.old.dead)
       /\ RowIn(s, st, j.range.start + j.row + 1)
            = Edits!Run(s, j.operation.edits, j.old)[j.step - 1]
       /\ j.got =>
            j.value = Edits!Named(s, Edits!Run(s, j.operation.edits, j.old)[j.step - 1],
                                  j.operation.edits[j.step].from)

RInv ==
  /\ IInv
  /\ Complete(schema, DOMAIN store)
  /\ \A t \in Busy : Follows(schema, store, job[t])

\* Columns are found in the same way in both specifications.
LEMMA SameLookups ==
  ASSUME NEW s, NEW name, NEW v
  PROVE  /\ Edits!ColumnIndex(s, name) = ColumnIndex(s, name)
         /\ \A c : Edits!Prepare(s.columns[c], v) = Prepare(s.columns[c], v)
         /\ \A f : Edits!WithExtra(f, name, v) = WithExtra(f, name, v)
         /\ ColumnIndex(s, name) # NULL => ColumnIndex(s, name) \in Positions(s)
  <1>1. Edits!ColumnIndex(s, name) = ColumnIndex(s, name)
    BY DEF Edits!ColumnIndex, ColumnIndex, Edits!Positions, Positions, Edits!Width, Width,
       Edits!NamesOf, NamesOf
  <1>2. \A c : Edits!Prepare(s.columns[c], v) = Prepare(s.columns[c], v)
    BY DEF Edits!Prepare, Prepare, Edits!Accepts, Accepts
  <1>3. \A f : Edits!WithExtra(f, name, v) = WithExtra(f, name, v)
    BY DEF Edits!WithExtra, WithExtra
  <1>4. ColumnIndex(s, name) # NULL => ColumnIndex(s, name) \in Positions(s)
    BY DEF ColumnIndex
  <1>. QED  BY <1>1, <1>2, <1>3, <1>4

\* A run goes edit by edit.
LEMMA RunDef ==
  ASSUME NEW s, NEW e, NEW row, Len(e) \in Nat
  PROVE  Edits!Run(s, e, row) =
           [i \in 0..Len(e) |->
              IF i = 0 THEN row ELSE Edits!Edited(s, Edits!Run(s, e, row)[i - 1], e[i])]
  <1>. DEFINE Step(f, i) == Edits!Edited(s, f[i - 1], e[i])
              Def(f, n) == f = [i \in 0..n |-> IF i = 0 THEN row ELSE Step(f, i)]
              T == {n \in Nat : \E f : Def(f, n)}
  <1>1. 0 \in T
    <2>1. Def([i \in 0..0 |-> row], 0)
      OBVIOUS
    <2>. QED  BY <2>1
  <1>2. ASSUME NEW n \in T  PROVE n + 1 \in T
    <2>1. PICK f : Def(f, n)
      OBVIOUS
    <2>. DEFINE last == Edits!Edited(s, f[n], e[n + 1])
                g == [i \in 0..(n + 1) |-> IF i <= n THEN f[i] ELSE last]
    <2>2. \A i \in 0..(n + 1) : g[i] = IF i = 0 THEN row ELSE Step(g, i)
      <3>. TAKE i \in 0..(n + 1)
      <3>1. CASE i = 0
        BY <2>1, <3>1
      <3>2. CASE i \in 1..n
        <4>1. g[i] = f[i] /\ g[i - 1] = f[i - 1]
          <5>1. i \in 0..(n + 1) /\ i - 1 \in 0..(n + 1) /\ i <= n /\ i - 1 <= n
            BY <3>2
          <5>. HIDE DEF last
          <5>. QED  BY ONLY <5>1 DEF g
        <4>2. f[i] = Step(f, i) /\ i # 0
          <5>. HIDE DEF Step
          <5>1. \A j \in 0..n : f[j] = IF j = 0 THEN row ELSE Step(f, j)
            BY <2>1
          <5>. QED  BY <3>2, <5>1
        <4>. HIDE DEF g
        <4>. QED  BY <4>1, <4>2
      <3>3. CASE i = n + 1
        <4>1. g[n + 1] = last /\ g[n] = f[n] /\ (n + 1) - 1 = n /\ n + 1 # 0
          <5>. HIDE DEF last
          <5>. QED  OBVIOUS
        <4>. HIDE DEF g
        <4>. QED  BY <3>3, <4>1
      <3>. QED  BY <3>1, <3>2, <3>3
    <2>3. Def(g, n + 1)
      <3>1. DOMAIN g = 0..(n + 1) /\ g = [i \in 0..(n + 1) |-> g[i]]
        OBVIOUS
      <3>. HIDE DEF g, Step
      <3>. QED  BY <2>2, <3>1
    <2>. HIDE DEF g, Def
    <2>. QED  BY <2>3
  <1>3. T = Nat
    <2>1. T \in SUBSET Nat
      OBVIOUS
    <2>. HIDE DEF T
    <2>. QED  BY <1>1, <1>2, <2>1, SetInduction
  <1>4. PICK f : Def(f, Len(e))
    BY <1>3
  <1>. QED  BY <1>4 DEF Edits!Run

LEMMA RunAt ==
  ASSUME NEW s, NEW e, NEW row, Len(e) \in Nat
  PROVE  /\ Edits!Run(s, e, row)[0] = row
         /\ \A i \in 0..Len(e) :
              i < Len(e) =>
                Edits!Run(s, e, row)[i + 1] = Edits!Edited(s, Edits!Run(s, e, row)[i], e[i + 1])
  <1>. DEFINE u == Edits!Run(s, e, row)
  <1>1. u = [i \in 0..Len(e) |-> IF i = 0 THEN row ELSE Edits!Edited(s, u[i - 1], e[i])]
    BY RunDef
  <1>. HIDE DEF u
  <1>2. u[0] = row
    BY <1>1
  <1>3. ASSUME NEW i \in 0..Len(e), i < Len(e)
        PROVE  u[i + 1] = Edits!Edited(s, u[i], e[i + 1])
    <2>1. i + 1 \in 0..Len(e) /\ i + 1 # 0 /\ (i + 1) - 1 = i
      BY <1>3
    <2>2. u[i + 1] = Edits!Edited(s, u[(i + 1) - 1], e[i + 1])
      BY <1>1, <2>1
    <2>. QED  BY <2>1, <2>2
  <1>. QED  BY <1>2, <1>3 DEF u

\* What a range reaches is the element of the table's row.
LEMMA ElementOfRow ==
  ASSUME NEW r, Proper(count, DOMAIN store, r), NEW v \in DOMAIN store, NEW i \in 0..(r.len - 1)
  PROVE  Index(r, v, i) = r.start + i + 1 /\ At(r, v, i) = store[v][r.start + i + 1]
  BY DEF Index, At, Proper

\* RowAt is RowIn.
LEMMA RowAtIsRowIn ==
  ASSUME IInv, Complete(schema, DOMAIN store), NEW k \in 0..(count - 1)
  PROVE  RowAt(k) = RowIn(schema, store, k + 1)
  <1>. DEFINE r == RowsMut
  <1>0. \A v \in DOMAIN store : Len(store[v]) = count
    BY LengthOfVector DEF IInv, Vectors
  <1>1. \A v \in DOMAIN store : At(r, v, k) = store[v][k + 1]
    BY DEF RowsMut, RowRange, At, Index, IInv
  <1>2. \A v : Has(r, v, k) <=> v \in DOMAIN store
    BY <1>0 DEF RowsMut, RowRange, Has, IInv
  <1>. HIDE DEF r
  <1>3. \A c \in Positions(schema) :
          Cell(r, c, k) = IF IsSplit(schema.columns[c]) /\ ~store[<<"valid", c>>][k + 1]
                          THEN NULL ELSE store[<<"values", c>>][k + 1]
    BY <1>1 DEF Cell, Complete
  <1>4. schema.open => At(r, <<"extras", 0>>, k) = store[<<"extras", 0>>][k + 1]
    BY <1>1 DEF Complete
  <1>5. IsTombstoned(r, k)
          <=> (<<"flags", 0>> \in DOMAIN store /\ store[<<"flags", 0>>][k + 1])
    BY <1>1, <1>2 DEF IsTombstoned
  <1>6. IsTombstoned(r, k) = (<<"flags", 0>> \in DOMAIN store /\ store[<<"flags", 0>>][k + 1])
    BY <1>5, Zenon DEF IsTombstoned
  <1>. DEFINE cells == [c \in Positions(schema) |-> Cell(r, c, k)]
              extra == IF schema.open THEN At(r, <<"extras", 0>>, k) ELSE NoExtras
  <1>7. RowAt(k) = [cells |-> cells, extra |-> extra, dead |-> IsTombstoned(r, k)]
    BY Zenon DEF RowAt, r
  <1>8. /\ cells = [c \in Positions(schema) |->
                      IF IsSplit(schema.columns[c]) /\ ~store[<<"valid", c>>][k + 1]
                      THEN NULL ELSE store[<<"values", c>>][k + 1]]
        /\ extra = IF schema.open THEN store[<<"extras", 0>>][k + 1] ELSE NoExtras
    BY <1>3, <1>4
  <1>. HIDE DEF cells, extra
  <1>. QED  BY <1>6, <1>7, <1>8, Zenon DEF RowIn

\* A field that is read through a range is that of the table's row.
LEMMA NamedIsOfRow ==
  ASSUME IInv, Complete(schema, DOMAIN store), NEW r, Proper(count, DOMAIN store, r),
         NEW i \in 0..(r.len - 1), NEW name
  PROVE  Named(r, i, name) = Edits!Named(schema, RowIn(schema, store, r.start + i + 1), name)
  <1>. DEFINE k == r.start + i + 1
              c == ColumnIndex(schema, name)
              row == RowIn(schema, store, k)
  <1>1. \A v \in DOMAIN store : At(r, v, i) = store[v][k]
    BY ElementOfRow
  <1>2. Edits!ColumnIndex(schema, name) = c /\ (c # NULL => c \in Positions(schema))
    BY SameLookups
  <1>. HIDE DEF c, k
  <1>3. CASE c # NULL
    <2>1. Named(r, i, name) = Cell(r, c, i)
      BY <1>3 DEF Named, c
    <2>2. Cell(r, c, i) = IF IsSplit(schema.columns[c]) /\ ~store[<<"valid", c>>][k]
                          THEN NULL ELSE store[<<"values", c>>][k]
      BY <1>1, <1>2, <1>3 DEF Cell, Complete
    <2>3. row.cells[c] = IF IsSplit(schema.columns[c]) /\ ~store[<<"valid", c>>][k]
                         THEN NULL ELSE store[<<"values", c>>][k]
      BY <1>2, <1>3 DEF RowIn
    <2>4. Edits!Named(schema, row, name) = row.cells[c]
      BY <1>2, <1>3 DEF Edits!Named
    <2>. QED  BY <2>1, <2>2, <2>3, <2>4 DEF k
  <1>4. CASE c = NULL
    <2>. DEFINE extras == <<"extras", 0>>
    <2>1. Named(r, i, name) = IF schema.open /\ name \in DOMAIN At(r, extras, i)
                              THEN At(r, extras, i)[name] ELSE NULL
      BY <1>4 DEF Named, c
    <2>2. row.extra = IF schema.open THEN store[extras][k] ELSE NoExtras
      BY DEF RowIn
    <2>3. Edits!Named(schema, row, name)
            = IF name \in DOMAIN row.extra THEN row.extra[name] ELSE NULL
      BY <1>2, <1>4 DEF Edits!Named
    <2>4. DOMAIN NoExtras = {}
      BY DEF NoExtras
    <2>5. schema.open => At(r, extras, i) = store[extras][k]
      BY <1>1 DEF Complete
    <2>. HIDE DEF extras, row
    <2>. QED  BY <2>1, <2>2, <2>3, <2>4, <2>5 DEF row, k
  <1>. QED  BY <1>3, <1>4

\* An element that is written is one element of one row.
WrittenAt(st, new, v, k, x) == new = [st EXCEPT ![v][k] = x]

OneWritten(n, st, new, v, k, x) ==
  /\ DOMAIN new = DOMAIN st
  /\ \A u \in DOMAIN st, l \in 1..n :
       new[u][l] = IF u = v /\ l = k THEN x ELSE st[u][l]

LEMMA PutInRow ==
  ASSUME NEW n \in Nat, NEW st, Vectors(n, st), NEW v \in DOMAIN st, NEW k \in 1..n, NEW x,
         NEW new, WrittenAt(st, new, v, k, x)
  PROVE  OneWritten(n, st, new, v, k, x)
  <1>. USE DEF WrittenAt
  <1>1. DOMAIN new = DOMAIN st
    OBVIOUS
  <1>2. ASSUME NEW w \in DOMAIN st, NEW l \in 1..n
        PROVE  new[w][l] = IF w = v /\ l = k THEN x ELSE st[w][l]
    <2>1. CASE w = v
      <3>1. new[w] = [st[v] EXCEPT ![k] = x]
        BY <2>1
      <3>2. DOMAIN st[v] = 1..n
        BY DEF Vectors
      <3>. QED  BY <3>1, <3>2, <2>1
    <2>2. CASE w # v
      <3>1. new[w] = st[w]
        BY <2>2
      <3>. QED  BY <3>1, <2>2
    <2>. QED  BY <2>1, <2>2
  <1>. QED  BY <1>1, <1>2 DEF OneWritten

\* A row whose elements are the same is the same.
LEMMA SameRow ==
  ASSUME NEW s, NEW st, NEW new, NEW k, Complete(s, DOMAIN st), DOMAIN new = DOMAIN st,
         \A w \in DOMAIN st : new[w][k] = st[w][k]
  PROVE  RowIn(s, new, k) = RowIn(s, st, k)
  <1>1. \A c \in Positions(s) :
          /\ new[<<"values", c>>][k] = st[<<"values", c>>][k]
          /\ IsSplit(s.columns[c]) => new[<<"valid", c>>][k] = st[<<"valid", c>>][k]
    BY DEF Complete
  <1>2. s.open => new[<<"extras", 0>>][k] = st[<<"extras", 0>>][k]
    BY DEF Complete
  <1>3. (<<"flags", 0>> \in DOMAIN new /\ new[<<"flags", 0>>][k])
          = (<<"flags", 0>> \in DOMAIN st /\ st[<<"flags", 0>>][k])
    <2>1. CASE <<"flags", 0>> \in DOMAIN st
      <3>1. new[<<"flags", 0>>][k] = st[<<"flags", 0>>][k]
        BY <2>1
      <3>. QED  BY <2>1, <3>1, Zenon
    <2>2. CASE <<"flags", 0>> \notin DOMAIN st
      BY <2>2, Zenon
    <2>. QED  BY <2>1, <2>2
  <1>. DEFINE cells(t) == [c \in Positions(s) |->
                             IF IsSplit(s.columns[c]) /\ ~t[<<"valid", c>>][k]
                             THEN NULL ELSE t[<<"values", c>>][k]]
              extra(t) == IF s.open THEN t[<<"extras", 0>>][k] ELSE NoExtras
  <1>4. cells(new) = cells(st)
    BY <1>1
  <1>5. extra(new) = extra(st)
    BY <1>2
  <1>. QED  BY <1>3, <1>4, <1>5, Zenon DEF RowIn

\* A row of which one cell changed.
LEMMA CellChanged ==
  ASSUME NEW s, NEW st, NEW new, NEW k, Complete(s, DOMAIN st), DOMAIN new = DOMAIN st,
         NEW c \in Positions(s), NEW x,
         \A w \in DOMAIN st :
           w # <<"values", c>> /\ w # <<"valid", c>> => new[w][k] = st[w][k],
         x = IF IsSplit(s.columns[c]) /\ ~new[<<"valid", c>>][k]
             THEN NULL ELSE new[<<"values", c>>][k]
  PROVE  RowIn(s, new, k) = [RowIn(s, st, k) EXCEPT !.cells[c] = x]
  <1>. DEFINE Cells(t) == [d \in Positions(s) |->
                             IF IsSplit(s.columns[d]) /\ ~t[<<"valid", d>>][k]
                             THEN NULL ELSE t[<<"values", d>>][k]]
              extra(t) == IF s.open THEN t[<<"extras", 0>>][k] ELSE NoExtras
              dead(t) == <<"flags", 0>> \in DOMAIN t /\ t[<<"flags", 0>>][k]
  <1>1. \A d \in Positions(s) : d # c =>
          /\ new[<<"values", d>>][k] = st[<<"values", d>>][k]
          /\ IsSplit(s.columns[d]) => new[<<"valid", d>>][k] = st[<<"valid", d>>][k]
    <2>. TAKE d \in Positions(s)
    <2>. HAVE d # c
    <2>1. <<"values", d>> # <<"values", c>> /\ <<"values", d>> # <<"valid", c>>
      OBVIOUS
    <2>2. <<"valid", d>> # <<"values", c>> /\ <<"valid", d>> # <<"valid", c>>
      OBVIOUS
    <2>3. <<"values", d>> \in DOMAIN st
      BY DEF Complete
    <2>4. IsSplit(s.columns[d]) => <<"valid", d>> \in DOMAIN st
      BY DEF Complete
    <2>. QED  BY <2>1, <2>2, <2>3, <2>4
  <1>2. Cells(new) = [Cells(st) EXCEPT ![c] = x]
    <2>1. \A d \in Positions(s) : Cells(new)[d] = [Cells(st) EXCEPT ![c] = x][d]
      BY <1>1
    <2>2. DOMAIN Cells(new) = Positions(s) /\ DOMAIN [Cells(st) EXCEPT ![c] = x] = Positions(s)
      OBVIOUS
    <2>3. Cells(new) = [d \in Positions(s) |-> Cells(new)[d]]
      BY <2>2
    <2>4. [Cells(st) EXCEPT ![c] = x] = [d \in Positions(s) |-> [Cells(st) EXCEPT ![c] = x][d]]
      BY <2>2
    <2>. HIDE DEF Cells
    <2>. QED  BY <2>1, <2>3, <2>4
  <1>3. extra(new) = extra(st)
    BY DEF Complete
  <1>4. dead(new) = dead(st)
    <2>1. CASE <<"flags", 0>> \in DOMAIN st
      <3>1. new[<<"flags", 0>>][k] = st[<<"flags", 0>>][k]
        BY <2>1
      <3>. QED  BY <2>1, <3>1, Zenon
    <2>2. CASE <<"flags", 0>> \notin DOMAIN st
      BY <2>2, Zenon
    <2>. QED  BY <2>1, <2>2
  <1>5. \A t : RowIn(s, t, k) = [cells |-> Cells(t), extra |-> extra(t), dead |-> dead(t)]
    BY Zenon DEF RowIn
  <1>. HIDE DEF Cells, extra, dead
  <1>6. RowIn(s, new, k) = [cells |-> [Cells(st) EXCEPT ![c] = x], extra |-> extra(st),
                            dead |-> dead(st)]
    BY <1>2, <1>3, <1>4, <1>5, Zenon
  <1>. QED  BY <1>5, <1>6

\* A row of which the extra fields changed.
LEMMA ExtraChanged ==
  ASSUME NEW s, NEW st, NEW new, NEW k, Complete(s, DOMAIN st), DOMAIN new = DOMAIN st, s.open,
         \A w \in DOMAIN st : w # <<"extras", 0>> => new[w][k] = st[w][k]
  PROVE  RowIn(s, new, k) = [RowIn(s, st, k) EXCEPT !.extra = new[<<"extras", 0>>][k]]
  <1>. DEFINE Cells(t) == [d \in Positions(s) |->
                             IF IsSplit(s.columns[d]) /\ ~t[<<"valid", d>>][k]
                             THEN NULL ELSE t[<<"values", d>>][k]]
              extra(t) == IF s.open THEN t[<<"extras", 0>>][k] ELSE NoExtras
              dead(t) == <<"flags", 0>> \in DOMAIN t /\ t[<<"flags", 0>>][k]
  <1>1. Cells(new) = Cells(st)
    BY DEF Complete
  <1>2. extra(new) = new[<<"extras", 0>>][k]
    OBVIOUS
  <1>3. dead(new) = dead(st)
    <2>1. CASE <<"flags", 0>> \in DOMAIN st
      <3>1. new[<<"flags", 0>>][k] = st[<<"flags", 0>>][k]
        BY <2>1
      <3>. QED  BY <2>1, <3>1, Zenon
    <2>2. CASE <<"flags", 0>> \notin DOMAIN st
      BY <2>2, Zenon
    <2>. QED  BY <2>1, <2>2
  <1>4. \A t : RowIn(s, t, k) = [cells |-> Cells(t), extra |-> extra(t), dead |-> dead(t)]
    BY Zenon DEF RowIn
  <1>. HIDE DEF Cells, extra, dead
  <1>5. RowIn(s, new, k) = [cells |-> Cells(st), extra |-> new[<<"extras", 0>>][k],
                            dead |-> dead(st)]
    BY <1>1, <1>2, <1>3, <1>4, Zenon
  <1>. QED  BY <1>4, <1>5

\* set_named writes to one field of one row.
LEMMA NamedIsWritten ==
  ASSUME IInv, Complete(schema, DOMAIN store), NEW r, Proper(count, DOMAIN store, r),
         NEW i \in 0..(r.len - 1), NEW name, NEW v, NEW new, new = PutNamed(r, i, name, v)
  PROVE  \A k \in 1..count :
           RowIn(schema, new, k) =
             IF k = r.start + i + 1
             THEN Edits!WithNamed(schema, RowIn(schema, store, k), name, v)
             ELSE RowIn(schema, store, k)
  <1>. DEFINE c == ColumnIndex(schema, name)
              w == IF c = NULL THEN v ELSE Prepare(schema.columns[c], v)
              values == <<"values", c>>
              valid == <<"valid", c>>
              extras == <<"extras", 0>>
              here == r.start + i + 1
              row == RowIn(schema, store, here)
  <1>1. /\ Edits!ColumnIndex(schema, name) = c /\ (c # NULL => c \in Positions(schema))
        /\ Edits!Prepare(schema.columns[c], v) = Prepare(schema.columns[c], v)
        /\ \A f : Edits!WithExtra(f, name, w) = WithExtra(f, name, w)
    BY SameLookups
  <1>2. here \in 1..count /\ count \in Nat /\ Vectors(count, store)
    BY DEF IInv, Proper
  <1>3. \A u \in DOMAIN store : Index(r, u, i) = here /\ At(r, u, i) = store[u][here]
    BY ElementOfRow
  <1>4. values # valid
    OBVIOUS
  <1>5. SUFFICES /\ \A k \in 1..count : k # here => RowIn(schema, new, k) = RowIn(schema, store, k)
                 /\ RowIn(schema, new, here) = Edits!WithNamed(schema, row, name, v)
    OBVIOUS
  <1>6. CASE w = ERR \/ (c = NULL /\ ~schema.open)
    <2>1. new = store
      BY <1>6 DEF PutNamed
    <2>2. Edits!WithNamed(schema, row, name, v) = row
      BY <1>1, <1>6 DEF Edits!WithNamed
    <2>. QED  BY <2>1, <2>2
  <1>7. CASE ~(w = ERR \/ (c = NULL /\ ~schema.open)) /\ c = NULL
    <2>. DEFINE x == WithExtra(At(r, extras, i), name, w)
    <2>1. new = [store EXCEPT ![extras][Index(r, extras, i)] = x]
      BY <1>7 DEF PutNamed, Put
    <2>2. schema.open /\ extras \in DOMAIN store
      BY <1>7 DEF Complete
    <2>3. x = WithExtra(row.extra, name, w)
      BY <1>3, <2>2 DEF RowIn
    <2>4. Edits!WithNamed(schema, row, name, v) = [row EXCEPT !.extra = x]
      BY <1>1, <1>7, <2>3 DEF Edits!WithNamed
    <2>5. new = [store EXCEPT ![extras][here] = x]
      BY <2>1, <2>2, <1>3
    <2>. HIDE DEF x, here, w, c
    <2>6. /\ DOMAIN new = DOMAIN store
          /\ \A u \in DOMAIN store, l \in 1..count :
               new[u][l] = IF u = extras /\ l = here THEN x ELSE store[u][l]
      <3>1. WrittenAt(store, new, extras, here, x)
        BY <2>5 DEF WrittenAt
      <3>. HIDE DEF extras, values, valid, row
      <3>2. extras \in DOMAIN store /\ here \in 1..count /\ count \in Nat /\ Vectors(count, store)
        BY <2>2, <1>2
      <3>3. OneWritten(count, store, new, extras, here, x)
        BY ONLY <3>1, <3>2, PutInRow
      <3>. QED  BY ONLY <3>3 DEF OneWritten
    <2>7. \A k \in 1..count : k # here => RowIn(schema, new, k) = RowIn(schema, store, k)
      <3>. TAKE k \in 1..count
      <3>. HAVE k # here
      <3>1. \A u \in DOMAIN store : new[u][k] = store[u][k]
        BY <2>6
      <3>. QED  BY <3>1, <2>6, SameRow
    <2>8. RowIn(schema, new, here) = [row EXCEPT !.extra = new[extras][here]]
      <3>1. \A u \in DOMAIN store : u # extras => new[u][here] = store[u][here]
        BY <2>6, <1>2
      <3>. QED  BY <3>1, <2>2, <2>6, ExtraChanged
    <2>9. new[extras][here] = x
      BY <2>6, <2>2, <1>2
    <2>. QED  BY <2>4, <2>7, <2>8, <2>9
  <1>8. CASE ~(w = ERR \/ (c = NULL /\ ~schema.open)) /\ c # NULL
    <2>1. new = PutCell(r, c, i, w)
      BY <1>8 DEF PutNamed
    <2>2. c \in Positions(schema) /\ values \in DOMAIN store
      BY <1>1, <1>8 DEF Complete
    <2>3. IsSplit(schema.columns[c]) => valid \in DOMAIN store
      BY <1>1, <1>8 DEF Complete
    <2>4. Edits!WithNamed(schema, row, name, v) = [row EXCEPT !.cells[c] = w]
      BY <1>1, <1>8 DEF Edits!WithNamed
    <2>5. Index(r, values, i) = here /\ (IsSplit(schema.columns[c]) => Index(r, valid, i) = here)
      BY <1>3, <2>2, <2>3
    <2>. HIDE DEF w, here, c
    <2>6. /\ DOMAIN new = DOMAIN store
          /\ \A u \in DOMAIN store, l \in 1..count :
               (u # values /\ u # valid) \/ l # here => new[u][l] = store[u][l]
          /\ w = IF IsSplit(schema.columns[c]) /\ ~new[valid][here]
                 THEN NULL ELSE new[values][here]
      <3>1. CASE ~IsSplit(schema.columns[c])
        <4>1. new = [store EXCEPT ![values][here] = w]
          BY <2>1, <2>5, <3>1 DEF PutCell, Put
        <4>2. /\ DOMAIN new = DOMAIN store
              /\ \A u \in DOMAIN store, l \in 1..count :
                   new[u][l] = IF u = values /\ l = here THEN w ELSE store[u][l]
          <5>1. WrittenAt(store, new, values, here, w)
            BY <4>1 DEF WrittenAt
          <5>. HIDE DEF values, valid, extras, row
          <5>2. values \in DOMAIN store /\ here \in 1..count /\ count \in Nat /\ Vectors(count, store)
            BY <2>2, <1>2
          <5>3. OneWritten(count, store, new, values, here, w)
            BY ONLY <5>1, <5>2, PutInRow
          <5>. QED  BY ONLY <5>3 DEF OneWritten
        <4>. QED  BY <4>2, <2>2, <1>2, <3>1
      <3>2. CASE IsSplit(schema.columns[c]) /\ w = NULL
        <4>. DEFINE x == FALSE
        <4>1. new = [store EXCEPT ![valid][here] = x]
          BY <2>1, <2>5, <3>2 DEF PutCell, Put
        <4>. HIDE DEF x
        <4>2. /\ DOMAIN new = DOMAIN store
              /\ \A u \in DOMAIN store, l \in 1..count :
                   new[u][l] = IF u = valid /\ l = here THEN x ELSE store[u][l]
          <5>1. WrittenAt(store, new, valid, here, x)
            BY <4>1 DEF WrittenAt
          <5>. HIDE DEF values, valid, extras, row
          <5>2. valid \in DOMAIN store /\ here \in 1..count /\ count \in Nat /\ Vectors(count, store)
            BY <2>3, <3>2, <1>2
          <5>3. OneWritten(count, store, new, valid, here, x)
            BY ONLY <5>1, <5>2, PutInRow
          <5>. QED  BY ONLY <5>3 DEF OneWritten
        <4>3. new[valid][here] = x /\ ~x
          BY <4>2, <2>3, <3>2, <1>2 DEF x
        <4>. QED  BY <4>2, <4>3, <2>2, <1>2, <3>2
      <3>3. CASE IsSplit(schema.columns[c]) /\ w # NULL
        <4>. DEFINE x == TRUE
                    half == [store EXCEPT ![valid][here] = x]
        <4>1. new = [half EXCEPT ![values][here] = w]
          BY <2>1, <2>5, <3>3 DEF PutCell, Put
        <4>. HIDE DEF x
        <4>2. DOMAIN half = DOMAIN store /\ Vectors(count, half)
          BY <1>2, PutKeepsVectors
        <4>3. \A u \in DOMAIN store, l \in 1..count :
                half[u][l] = IF u = valid /\ l = here THEN x ELSE store[u][l]
          <5>1. valid \in DOMAIN store
            BY <2>3, <3>3
          <5>2. WrittenAt(store, half, valid, here, x)
            BY DEF WrittenAt
          <5>. HIDE DEF values, valid, extras, row, half
          <5>3. here \in 1..count /\ count \in Nat /\ Vectors(count, store)
            BY <1>2
          <5>4. OneWritten(count, store, half, valid, here, x)
            BY ONLY <5>1, <5>2, <5>3, PutInRow
          <5>. QED  BY ONLY <5>4 DEF OneWritten
        <4>. HIDE DEF half
        <4>4. values \in DOMAIN half
          BY <2>2, <4>2
        <4>5. /\ DOMAIN new = DOMAIN half
              /\ \A u \in DOMAIN half, l \in 1..count :
                   new[u][l] = IF u = values /\ l = here THEN w ELSE half[u][l]
          <5>1. WrittenAt(half, new, values, here, w)
            BY <4>1 DEF WrittenAt
          <5>. HIDE DEF values, valid, extras, row
          <5>2. here \in 1..count /\ count \in Nat /\ Vectors(count, half)
            BY <4>2, <1>2
          <5>3. OneWritten(count, half, new, values, here, w)
            BY ONLY <5>1, <4>4, <5>2, PutInRow
          <5>. QED  BY ONLY <5>3 DEF OneWritten
        <4>6. new[valid][here] = x /\ x /\ new[values][here] = w
          BY <4>2, <4>3, <4>5, <2>2, <2>3, <3>3, <1>2, <1>4 DEF x
        <4>7. DOMAIN new = DOMAIN store
          BY <4>2, <4>5
        <4>8. \A u \in DOMAIN store, l \in 1..count :
                (u # values /\ u # valid) \/ l # here => new[u][l] = store[u][l]
          BY <4>2, <4>3, <4>5
        <4>. QED  BY <4>6, <4>7, <4>8
      <3>. QED  BY <3>1, <3>2, <3>3
    <2>7. \A k \in 1..count : k # here => RowIn(schema, new, k) = RowIn(schema, store, k)
      <3>. TAKE k \in 1..count
      <3>. HAVE k # here
      <3>1. \A u \in DOMAIN store : new[u][k] = store[u][k]
        BY <2>6
      <3>. QED  BY <3>1, <2>6, SameRow
    <2>8. RowIn(schema, new, here) = [row EXCEPT !.cells[c] = w]
      <3>1. \A u \in DOMAIN store : u # values /\ u # valid => new[u][here] = store[u][here]
        BY <2>6, <1>2
      <3>2. w = IF IsSplit(schema.columns[c]) /\ ~new[valid][here] THEN NULL ELSE new[values][here]
        BY <2>6
      <3>3. DOMAIN new = DOMAIN store
        BY <2>6
      <3>. HIDE DEF row
      <3>. QED  BY <3>1, <3>2, <3>3, <2>2, CellChanged DEF row
    <2>. QED  BY <2>4, <2>7, <2>8
  <1>. QED  BY <1>6, <1>7, <1>8

\* A row is skipped when the table's row is deleted.
LEMMA TombstonedIsOfRow ==
  ASSUME IInv, NEW r, Proper(count, DOMAIN store, r), NEW i \in 0..(r.len - 1)
  PROVE  IsTombstoned(r, i) <=> RowIn(schema, store, r.start + i + 1).dead
  <1>. DEFINE k == r.start + i + 1
              flags == <<"flags", 0>>
  <1>1. RowIn(schema, store, k).dead <=> (flags \in DOMAIN store /\ store[flags][k])
    BY DEF RowIn
  <1>2. Has(r, flags, i) <=> flags \in DOMAIN store
    BY DEF Has, Proper
  <1>3. flags \in DOMAIN store => At(r, flags, i) = store[flags][k]
    BY ElementOfRow
  <1>. HIDE DEF k, flags
  <1>. QED  BY <1>1, <1>2, <1>3 DEF IsTombstoned, k, flags

\* The row, counted from 1, that a thread works on.
RowOf(j) == j.range.start + j.row + 1

Works(j, i) == j.step > 0 /\ RowOf(j) = i

LEMMA RowsDiffer ==
  ASSUME IInv
  PROVE  /\ \A t \in Busy : RowOf(job[t]) \in 1..count /\ job[t].row \in 0..(job[t].range.len - 1)
         /\ \A t, u \in Busy : t # u => RowOf(job[t]) # RowOf(job[u])
  <1>1. ASSUME NEW t \in Busy
        PROVE  /\ job[t].range.start \in Nat /\ job[t].range.len \in Nat /\ job[t].row \in Nat
               /\ job[t].range.start + job[t].range.len <= count /\ job[t].row < job[t].range.len
               /\ RowOf(job[t]) = job[t].range.start + job[t].row + 1
    <2>1. ProperJob(count, DOMAIN store, job[t]) /\ count \in Nat
      BY DEF IInv
    <2>2. /\ job[t].row \in Nat /\ job[t].last \in Nat /\ job[t].row <= job[t].last
          /\ job[t].last < job[t].range.len /\ Proper(count, DOMAIN store, job[t].range)
      BY <2>1 DEF ProperJob
    <2>3. /\ job[t].range.start \in Nat /\ job[t].range.len \in Nat
          /\ job[t].range.start + job[t].range.len <= count
      BY <2>2 DEF Proper
    <2>. QED  BY <2>1, <2>2, <2>3 DEF RowOf
  <1>2. \A t \in Busy : RowOf(job[t]) \in 1..count /\ job[t].row \in 0..(job[t].range.len - 1)
    BY <1>1 DEF IInv
  <1>3. ASSUME NEW t \in Busy, NEW u \in Busy, t # u
        PROVE  RowOf(job[t]) # RowOf(job[u])
    <2>1. Apart(job[t].range, job[u].range)
      BY <1>3 DEF IInv, AllApart
    <2>. QED  BY <1>1, <1>3, <2>1 DEF Apart
  <1>. QED  BY <1>2, <1>3

\* The last edit, like each before it, is one step of the run.
LEMMA WriteFollows ==
  ASSUME RInv, NEW t \in Threads, Write(t)
  PROVE  /\ t \in Busy /\ DOMAIN store' = DOMAIN store
         /\ \A l \in 1..count :
              l # RowOf(job[t]) => RowIn(schema, store', l) = RowIn(schema, store, l)
         /\ RowIn(schema, store', RowOf(job[t]))
              = Edits!Run(schema, job[t].operation.edits, job[t].old)[job[t].step]
  <1>. DEFINE j == job[t]
              k == RowOf(j)
              edit == j.operation.edits[j.step]
              run == Edits!Run(schema, j.operation.edits, j.old)
              v == edit.by[j.value]
  <1>1. t \in Busy /\ j.step > 0 /\ j.got
    BY DEF Write, Busy
  <1>2. /\ Follows(schema, store, j) /\ ProperJob(count, DOMAIN store, j)
        /\ IInv /\ Complete(schema, DOMAIN store)
    BY <1>1 DEF RInv, IInv
  <1>3. Proper(count, DOMAIN store, j.range) /\ j.row \in 0..(j.range.len - 1) /\ k \in 1..count
    BY <1>1, <1>2, RowsDiffer DEF ProperJob
  <1>4. store' = PutNamed(j.range, j.row, edit.to, v)
    BY DEF Write
  <1>5. RowIn(schema, store, k) = run[j.step - 1] /\ j.value = Edits!Named(schema, run[j.step - 1], edit.from)
    BY <1>1, <1>2 DEF Follows, RowOf
  <1>6. k = j.range.start + j.row + 1
    BY DEF RowOf
  <1>7. /\ Len(j.operation.edits) \in Nat /\ j.step - 1 \in 0..Len(j.operation.edits)
        /\ j.step - 1 < Len(j.operation.edits) /\ (j.step - 1) + 1 = j.step
    BY <1>1, <1>2, OperationsAssumption DEF ProperJob
  <1>8. run[j.step] = Edits!Edited(schema, run[j.step - 1], edit)
    <2>. HIDE DEF j
    <2>1. run[(j.step - 1) + 1] = Edits!Edited(schema, run[j.step - 1], j.operation.edits[(j.step - 1) + 1])
      BY <1>7, RunAt
    <2>. QED  BY <2>1, <1>7
  <1>9. Edits!Edited(schema, run[j.step - 1], edit)
          = Edits!WithNamed(schema, run[j.step - 1], edit.to, v)
    BY <1>5 DEF Edits!Edited
  <1>. HIDE DEF j, k, v, run, edit
  <1>10. \A l \in 1..count :
           RowIn(schema, store', l) =
             IF l = k THEN Edits!WithNamed(schema, RowIn(schema, store, l), edit.to, v)
             ELSE RowIn(schema, store, l)
    BY <1>2, <1>3, <1>4, <1>6, NamedIsWritten
  <1>11. DOMAIN store' = DOMAIN store
    BY <1>2, <1>4, PutNamedKeepsVectors DEF IInv
  <1>. QED  BY <1>1, <1>3, <1>5, <1>8, <1>9, <1>10, <1>11 DEF j, k, run

-----------------------------------------------------------------------------
(* Threads follow the runs of their rows.                                  *)

\* What a thread keeps to while its row is the same.
LEMMA FollowsOn ==
  ASSUME NEW s, NEW st, NEW new, NEW j, Follows(s, st, j),
         RowIn(s, new, RowOf(j)) = RowIn(s, st, RowOf(j))
  PROVE  Follows(s, new, j)
  BY DEF Follows, RowOf

\* A thread that starts with a row has no run to follow.
LEMMA FollowsFromStart ==
  ASSUME NEW s, NEW st, NEW j, j.step = 0, ~j.owed => j.range.work = NULL
  PROVE  Follows(s, st, j)
  BY DEF Follows

\* Steps that change no row and no job.
LEMMA RangesFollow ==
  ASSUME RInv, IInv', UNCHANGED <<schema, store, job>>
  PROVE  RInv'
  <1>1. Busy' = Busy
    BY DEF Busy
  <1>2. Complete(schema, DOMAIN store)'
    BY DEF RInv
  <1>3. \A t \in Busy' : Follows(schema', store', job'[t])
    BY <1>1 DEF RInv
  <1>. QED  BY <1>2, <1>3 DEF RInv

\* Steps of one thread that change at most the row that it works on.
LEMMA ThreadFollows ==
  ASSUME RInv, IInv', NEW t, OnlyMoves(t),
         schema' = schema, DOMAIN store' = DOMAIN store,
         \A l \in 1..count :
           (t \in Busy /\ l = RowOf(job[t])) \/ RowIn(schema, store', l) = RowIn(schema, store, l),
         t \in Busy' => Follows(schema, store', job'[t])
  PROVE  RInv'
  <1>2. Complete(schema, DOMAIN store)'
    BY DEF RInv
  <1>3. ASSUME NEW u \in Busy'
        PROVE  Follows(schema', store', job'[u])
    <2>1. CASE u = t
      BY <1>3, <2>1
    <2>2. CASE u # t
      <3>1. u \in Busy /\ job'[u] = job[u]
        BY <1>3, <2>2 DEF OnlyMoves
      <3>2. RowOf(job[u]) \in 1..count /\ (t \in Busy => RowOf(job[u]) # RowOf(job[t]))
        BY <2>2, <3>1, RowsDiffer DEF RInv
      <3>3. Follows(schema, store, job[u])
        BY <3>1 DEF RInv
      <3>4. RowIn(schema, store', RowOf(job[u])) = RowIn(schema, store, RowOf(job[u]))
        BY <3>2
      <3>. QED  BY <3>1, <3>3, <3>4, FollowsOn
    <2>. QED  BY <2>1, <2>2
  <1>. QED  BY <1>2, <1>3 DEF RInv

\* for_each leaves a row.
LEMMA LeaveFollows ==
  ASSUME RInv, IInv', NEW t \in Busy, Leave(t), schema' = schema,
         DOMAIN store' = DOMAIN store,
         \A l \in 1..count :
           l = RowOf(job[t]) \/ RowIn(schema, store', l) = RowIn(schema, store, l)
  PROVE  RInv'
  <1>. DEFINE j == job[t]
  <1>1. ~j.owed => j.range.work = NULL
    BY DEF RInv, Follows
  <1>2. CASE j.row < j.last
    <2>. DEFINE x == Job(j.range, j.row + 1, j.last, j.operation, j.owed)
    <2>1. job' = [job EXCEPT ![t] = x]
      BY <1>2 DEF Leave
    <2>2. x.step = 0 /\ (~x.owed => x.range.work = NULL)
      BY <1>1 DEF Job
    <2>. HIDE DEF x
    <2>3. Follows(schema, store', x)
      BY <2>2, FollowsFromStart
    <2>4. OnlyMoves(t) /\ job'[t] = x
      BY <2>1, GoesOnMoves
    <2>. QED  BY <2>3, <2>4, ThreadFollows
  <1>3. CASE ~(j.row < j.last)
    <2>1. job' = [u \in Busy \ {t} |-> job[u]]
      BY <1>3 DEF Leave
    <2>2. OnlyMoves(t) /\ t \notin Busy'
      BY <2>1, EndsMoves
    <2>. QED  BY <2>2, ThreadFollows
  <1>. QED  BY <1>2, <1>3

LEMMA TakeFollows ==
  ASSUME RInv, IInv', NEW r \in ranges, NEW t \in Threads,
         \/ ParStart(t, r)
         \/ \E operation \in Operations :
              \/ ForEach(t, r, operation)
              \/ \E i \in 0..(r.len - 1) : RowMut(t, r, i, operation)
  PROVE  RInv'
  <1>1. ASSUME NEW first, NEW last, NEW operation, NEW owed, ~owed => r.work = NULL,
               Take(t, r, Job(r, first, last, operation, owed))
        PROVE  RInv'
    <2>. DEFINE x == Job(r, first, last, operation, owed)
    <2>1. OnlyMoves(t) /\ job'[t] = x /\ UNCHANGED <<schema, count, store>>
      BY <1>1, TakeMoves DEF Take
    <2>2. x.step = 0 /\ (~x.owed => x.range.work = NULL)
      BY <1>1 DEF Job
    <2>. HIDE DEF x
    <2>3. Follows(schema, store', x)
      BY <2>2, FollowsFromStart
    <2>. QED  BY <2>1, <2>3, ThreadFollows
  <1>2. CASE ParStart(t, r)
    <2>. DEFINE yes == TRUE
    <2>1. Take(t, r, Job(r, 0, r.len - 1, r.work.operation, yes)) /\ yes
      BY <1>2 DEF ParStart
    <2>. HIDE DEF yes
    <2>. QED  BY <2>1, <1>1
  <1>3. ASSUME NEW operation \in Operations, ForEach(t, r, operation)
        PROVE  RInv'
    <2>. DEFINE yes == TRUE
    <2>1. Take(t, r, Job(r, 0, r.len - 1, operation, yes)) /\ yes
      BY <1>3 DEF ForEach
    <2>. HIDE DEF yes
    <2>. QED  BY <2>1, <1>1
  <1>4. ASSUME NEW operation \in Operations, NEW i \in 0..(r.len - 1), RowMut(t, r, i, operation)
        PROVE  RInv'
    <2>. DEFINE no == FALSE
    <2>1. Take(t, r, Job(r, i, i, operation, no)) /\ r.work = NULL
      BY <1>4 DEF RowMut
    <2>. HIDE DEF no
    <2>. QED  BY <2>1, <1>1
  <1>. QED  BY <1>2, <1>3, <1>4

LEMMA WorkFollows ==
  ASSUME RInv, IInv', NEW t \in Threads, Work(t)
  PROVE  RInv'
  <1>. DEFINE j == job[t]
              k == RowOf(j)
  <1>1. t \in Busy
    BY DEF Work, Enter, Read, Write
  <1>2. /\ Follows(schema, store, j) /\ ProperJob(count, DOMAIN store, j)
        /\ IInv /\ Complete(schema, DOMAIN store) /\ count \in Nat
    BY <1>1 DEF RInv, IInv
  <1>3. Proper(count, DOMAIN store, j.range) /\ j.row \in 0..(j.range.len - 1) /\ k \in 1..count
    BY <1>1, <1>2, RowsDiffer DEF ProperJob
  <1>4. k = j.range.start + j.row + 1
    BY DEF RowOf
  <1>5. CASE Enter(t)
    <2>1. UNCHANGED <<schema, count, store>>
      BY <1>5 DEF Enter
    <2>2. CASE Skips(j)
      <3>1. Leave(t)
        BY <1>5, <2>2 DEF Enter
      <3>. QED  BY <1>1, <2>1, <3>1, LeaveFollows
    <2>3. CASE ~Skips(j)
      <3>. DEFINE seen == RowAt(j.range.start + j.row)
                  no == FALSE
                  x == Progress(j, 1, no, NULL, seen)
      <3>1. job' = [job EXCEPT ![t] = x]
        BY <1>5, <2>3 DEF Enter
      <3>2. j.range.start + j.row \in 0..(count - 1)
        BY <1>3, <1>4, <1>2 DEF Proper
      <3>3. seen = RowIn(schema, store, k)
        BY <1>2, <1>4, <3>2, RowAtIsRowIn
      <3>4. ~(j.operation.live /\ seen.dead)
        BY <1>2, <1>3, <1>4, <2>3, <3>3, TombstonedIsOfRow DEF Skips
      <3>5. Edits!Run(schema, j.operation.edits, seen)[0] = seen
        BY <1>2, RunAt, OperationsAssumption DEF ProperJob
      <3>6. ~j.owed => j.range.work = NULL
        BY <1>2 DEF Follows
      <3>. HIDE DEF seen
      <3>7. /\ x.step = 1 /\ x.step - 1 = 0 /\ ~x.got /\ x.old = seen /\ x.operation = j.operation
            /\ x.range = j.range /\ x.row = j.row /\ x.owed = j.owed
        BY DEF Progress
      <3>. HIDE DEF x, j, k
      <3>8. Follows(schema, store', x)
        BY <1>4, <2>1, <3>3, <3>4, <3>5, <3>6, <3>7 DEF Follows
      <3>9. OnlyMoves(t) /\ job'[t] = x
        BY <1>1, <3>1, GoesOnMoves
      <3>. QED  BY <2>1, <3>8, <3>9, ThreadFollows
    <2>. QED  BY <2>2, <2>3
  <1>6. CASE Read(t)
    <2>. DEFINE from == j.operation.edits[j.step].from
                v == Named(j.range, j.row, from)
                yes == TRUE
                x == Progress(j, j.step, yes, v, j.old)
    <2>1. job' = [job EXCEPT ![t] = x] /\ UNCHANGED <<schema, count, store>> /\ j.step > 0
      BY <1>6 DEF Read
    <2>2. v = Edits!Named(schema, RowIn(schema, store, k), from)
      BY <1>2, <1>3, <1>4, NamedIsOfRow
    <2>. HIDE DEF v, yes
    <2>3. /\ x.step = j.step /\ x.old = j.old /\ x.operation = j.operation /\ x.value = v
          /\ x.range = j.range /\ x.row = j.row /\ x.owed = j.owed
      BY DEF Progress
    <2>. HIDE DEF x, j, k
    <2>4. Follows(schema, store', x)
      BY <1>2, <1>4, <2>1, <2>2, <2>3 DEF Follows
    <2>5. OnlyMoves(t) /\ job'[t] = x
      BY <1>1, <2>1, GoesOnMoves
    <2>. QED  BY <2>1, <2>4, <2>5, ThreadFollows
  <1>7. CASE Write(t)
    <2>1. /\ DOMAIN store' = DOMAIN store
          /\ \A l \in 1..count :
               l # k => RowIn(schema, store', l) = RowIn(schema, store, l)
          /\ RowIn(schema, store', k) = Edits!Run(schema, j.operation.edits, j.old)[j.step]
      BY <1>7, WriteFollows
    <2>2. schema' = schema /\ count' = count /\ j.step > 0
      BY <1>7 DEF Write
    <2>3. CASE j.step < Len(j.operation.edits)
      <3>. DEFINE no == FALSE
                  x == Progress(j, j.step + 1, no, NULL, j.old)
      <3>1. job' = [job EXCEPT ![t] = x]
        BY <1>7, <2>3 DEF Write
      <3>2. ~j.owed => j.range.work = NULL
        BY <1>2 DEF Follows
      <3>3. ~(j.operation.live /\ j.old.dead)
        BY <1>2, <2>2 DEF Follows
      <3>4. x.step - 1 = j.step
        BY <1>2 DEF Progress, ProperJob
      <3>5. /\ ~x.got /\ x.old = j.old /\ x.operation = j.operation
            /\ x.range = j.range /\ x.row = j.row /\ x.owed = j.owed
        BY DEF Progress
      <3>. HIDE DEF x, j, k
      <3>6. Follows(schema, store', x)
        BY <1>4, <2>1, <3>2, <3>3, <3>4, <3>5 DEF Follows
      <3>7. OnlyMoves(t) /\ job'[t] = x
        BY <1>1, <3>1, GoesOnMoves
      <3>. QED  BY <1>1, <2>1, <2>2, <3>6, <3>7, ThreadFollows DEF j, k
    <2>4. CASE ~(j.step < Len(j.operation.edits))
      <3>1. Leave(t)
        BY <1>7, <2>4 DEF Write
      <3>. QED  BY <1>1, <2>1, <2>2, <3>1, LeaveFollows
    <2>. QED  BY <2>3, <2>4
  <1>. QED  BY <1>5, <1>6, <1>7 DEF Work

LEMMA RInvInit == Init => RInv
  <1>. SUFFICES ASSUME Init PROVE RInv
    OBVIOUS
  <1>1. IInv
    BY InitEstablishesInvariant
  <1>2. Busy = {}
    BY DEF Init, Busy
  <1>3. \E flagged : DOMAIN store = VectorsOf(schema, flagged)
    BY Zenon DEF Init, StoreOf
  <1>4. Complete(schema, DOMAIN store)
    BY <1>3 DEF VectorsOf, Complete
  <1>. QED  BY <1>1, <1>2, <1>4 DEF RInv

LEMMA RInvNext == RInv /\ [Next]_vars => RInv'
  <1>. SUFFICES ASSUME RInv, [Next]_vars PROVE RInv'
    OBVIOUS
  <1>0. IInv'
    BY NextKeepsInvariant DEF RInv
  <1>1. CASE Borrow
    BY <1>0, <1>1, RangesFollow DEF Borrow
  <1>2. ASSUME NEW r \in ranges,
               \/ Drop(r)
               \/ \E mid \in 0..r.len : SplitAt(r, mid)
               \/ \E operation \in Operations, min_rows \in Grains :
                    ParForEach(r, operation, min_rows)
               \/ ParSplit(r)
        PROVE  RInv'
    <2>1. UNCHANGED <<schema, store, job>>
      BY <1>2 DEF Drop, SplitAt, Divide, ParForEach, ParSplit
    <2>. QED  BY <1>0, <2>1, RangesFollow
  <1>3. ASSUME NEW r \in ranges, NEW t \in Callers, NEW operation \in Operations,
               \/ ForEach(t, r, operation)
               \/ \E i \in 0..(r.len - 1) : RowMut(t, r, i, operation)
        PROVE  RInv'
    BY <1>0, <1>3, TakeFollows DEF Threads
  <1>4. ASSUME NEW t \in Threads, Work(t)
        PROVE  RInv'
    BY <1>0, <1>4, WorkFollows
  <1>5. ASSUME NEW t \in Pool, NEW r \in ranges, ParStart(t, r)
        PROVE  RInv'
    BY <1>0, <1>5, TakeFollows DEF Threads
  <1>6. CASE UNCHANGED vars
    BY <1>0, <1>6, RangesFollow DEF vars
  <1>. QED  BY <1>1, <1>2, <1>3, <1>4, <1>5, <1>6 DEF Next, Serve, Threads

-----------------------------------------------------------------------------
(* What the abstract rows and operations are.                              *)

SeenRight ==
  \A i \in 1..count :
    /\ \A t \in Busy : Works(job[t], i) => RowsSeen[i] = job[t].old
    /\ (\A t \in Busy : ~Works(job[t], i)) => RowsSeen[i] = RowIn(schema, store, i)

\* Row i is owed the operation.
Waits(r, i) == r.work # NULL /\ r.start < i /\ i <= r.start + r.len

Comes(j, i) ==
  /\ j.owed
  /\ j.range.start + j.row < i
  /\ i <= j.range.start + j.last + 1

Due(i, operation) ==
  \/ \E r \in ranges : Waits(r, i) /\ r.work.operation = operation
  \/ \E t \in Busy : Comes(job[t], i) /\ job[t].operation = operation

OwedRight ==
  \A i \in 1..count :
    /\ \A operation : Due(i, operation) => OperationsOwed[i] = operation
    /\ (\A operation \in Operations : ~Due(i, operation)) => OperationsOwed[i] = NULL

LEMMA SeenHolds == RInv => SeenRight
  <1>. SUFFICES ASSUME RInv, NEW i \in 1..count
                PROVE  /\ \A t \in Busy : Works(job[t], i) => RowsSeen[i] = job[t].old
                       /\ (\A t \in Busy : ~Works(job[t], i))
                            => RowsSeen[i] = RowIn(schema, store, i)
    BY DEF SeenRight
  <1>. DEFINE here == {t \in Busy : job[t].step > 0 /\ job[t].range.start + job[t].row + 1 = i}
  <1>1. RowsSeen[i] = IF here = {} THEN RowAt(i - 1) ELSE job[CHOOSE t \in here : TRUE].old
    BY DEF RowsSeen
  <1>2. \A t : t \in here <=> t \in Busy /\ Works(job[t], i)
    BY DEF Works, RowOf
  <1>. HIDE DEF here
  <1>3. ASSUME NEW t \in Busy, Works(job[t], i)
        PROVE  RowsSeen[i] = job[t].old
    <2>1. t \in here
      BY <1>2, <1>3
    <2>2. PICK u : u = CHOOSE x \in here : TRUE
      OBVIOUS
    <2>3. u \in here
      BY <2>1, <2>2
    <2>4. u = t
      BY <1>2, <1>3, <2>3, RowsDiffer DEF Works, RInv
    <2>. QED  BY <1>1, <2>1, <2>2, <2>4
  <1>4. ASSUME \A t \in Busy : ~Works(job[t], i)
        PROVE  RowsSeen[i] = RowIn(schema, store, i)
    <2>1. here = {}
      BY <1>2, <1>4
    <2>2. i - 1 \in 0..(count - 1) /\ (i - 1) + 1 = i
      BY DEF RInv, IInv
    <2>3. RowAt(i - 1) = RowIn(schema, store, (i - 1) + 1)
      BY <2>2, RowAtIsRowIn DEF RInv
    <2>. QED  BY <1>1, <2>1, <2>2, <2>3
  <1>. QED  BY <1>3, <1>4

LEMMA SeenAfterwards == RInv' => SeenRight'
  BY SeenHolds, PTL

\* A row is in one range only, at rest or at work.
LEMMA OneRangeOwes ==
  ASSUME RInv, NEW i \in 1..count
  PROVE  /\ \A r, s \in ranges : Waits(r, i) /\ Waits(s, i) => r = s
         /\ \A t, u \in Busy : Comes(job[t], i) /\ Comes(job[u], i) => t = u
         /\ \A r \in ranges, t \in Busy : ~(Waits(r, i) /\ Comes(job[t], i))
  <1>1. \A r \in ranges : r.start \in Nat /\ r.len \in Nat
    BY DEF RInv, IInv, Proper
  <1>2. \A t \in Busy :
          /\ job[t].range.start \in Nat /\ job[t].range.len \in Nat /\ job[t].row \in Nat
          /\ job[t].last \in Nat /\ job[t].last < job[t].range.len
    <2>. TAKE t \in Busy
    <2>1. ProperJob(count, DOMAIN store, job[t])
      BY DEF RInv, IInv
    <2>. QED  BY <2>1 DEF ProperJob, Proper
  <1>3. \A t \in Busy : Comes(job[t], i) =>
          job[t].range.start < i /\ i <= job[t].range.start + job[t].range.len
    BY <1>2 DEF Comes, RInv, IInv
  <1>4. count \in Nat /\ i \in Nat
    BY DEF RInv, IInv
  <1>5. \A r, s : Apart(r, s) /\ r.start \in Nat /\ r.len \in Nat /\ s.start \in Nat /\ s.len \in Nat
          => ~(/\ r.start < i /\ i <= r.start + r.len
               /\ s.start < i /\ i <= s.start + s.len)
    BY <1>4 DEF Apart
  <1>6. \A r, s \in ranges : Waits(r, i) /\ Waits(s, i) => r = s
    BY <1>1, <1>5 DEF Waits, RInv, IInv, AllApart
  <1>7. \A t, u \in Busy : Comes(job[t], i) /\ Comes(job[u], i) => t = u
    BY <1>2, <1>3, <1>5 DEF RInv, IInv, AllApart
  <1>8. \A r \in ranges, t \in Busy : ~(Waits(r, i) /\ Comes(job[t], i))
    BY <1>1, <1>2, <1>3, <1>5 DEF Waits, RInv, IInv, AllApart
  <1>. QED  BY <1>6, <1>7, <1>8

LEMMA OwedHolds == RInv => OwedRight
  <1>. SUFFICES ASSUME RInv, NEW i \in 1..count
                PROVE  /\ \A operation : Due(i, operation) => OperationsOwed[i] = operation
                       /\ (\A operation \in Operations : ~Due(i, operation))
                            => OperationsOwed[i] = NULL
    BY DEF OwedRight
  <1>. DEFINE waiting == {r \in ranges : r.work # NULL /\ r.start < i /\ i <= r.start + r.len}
              coming == {t \in Busy : /\ job[t].owed
                                      /\ job[t].range.start + job[t].row < i
                                      /\ i <= job[t].range.start + job[t].last + 1}
  <1>1. OperationsOwed[i] =
          IF waiting # {} THEN (CHOOSE r \in waiting : TRUE).work.operation
          ELSE IF coming # {} THEN job[CHOOSE t \in coming : TRUE].operation
          ELSE NULL
    BY DEF OperationsOwed
  <1>2. \A r : r \in waiting <=> r \in ranges /\ Waits(r, i)
    BY DEF Waits
  <1>3. \A t : t \in coming <=> t \in Busy /\ Comes(job[t], i)
    BY DEF Comes
  <1>. HIDE DEF waiting, coming
  <1>4. ASSUME NEW r \in ranges, Waits(r, i)
        PROVE  OperationsOwed[i] = r.work.operation
    <2>1. \A s \in waiting : s = r
      BY <1>2, <1>4, OneRangeOwes
    <2>2. r \in waiting
      BY <1>2, <1>4
    <2>3. PICK s : s = CHOOSE x \in waiting : TRUE
      OBVIOUS
    <2>4. s = r
      BY <2>1, <2>2, <2>3
    <2>. QED  BY <1>1, <2>2, <2>3, <2>4
  <1>5. ASSUME NEW t \in Busy, Comes(job[t], i)
        PROVE  OperationsOwed[i] = job[t].operation
    <2>1. \A u \in coming : u = t
      BY <1>3, <1>5, OneRangeOwes
    <2>2. t \in coming /\ waiting = {}
      BY <1>2, <1>3, <1>5, OneRangeOwes
    <2>3. PICK u : u = CHOOSE x \in coming : TRUE
      OBVIOUS
    <2>4. u = t
      BY <2>1, <2>2, <2>3
    <2>. QED  BY <1>1, <2>2, <2>3, <2>4
  <1>6. ASSUME \A operation \in Operations : ~Due(i, operation)
        PROVE  OperationsOwed[i] = NULL
    <2>1. waiting = {}
      <3>1. \A r \in ranges : r.work # NULL => r.work.operation \in Operations
        BY DEF RInv, IInv, Proper
      <3>. QED  BY <1>2, <1>6, <3>1 DEF Due, Waits
    <2>2. coming = {}
      <3>1. \A t \in Busy : job[t].operation \in Operations
        BY DEF RInv, IInv, ProperJob
      <3>. QED  BY <1>3, <1>6, <3>1 DEF Due
    <2>. QED  BY <1>1, <2>1, <2>2
  <1>. QED  BY <1>4, <1>5, <1>6 DEF Due

LEMMA OwedAfterwards == RInv' => OwedRight'
  BY OwedHolds, PTL

\* Operations are what can be due.
LEMMA DueAreOperations ==
  ASSUME RInv, NEW i, NEW operation, Due(i, operation)
  PROVE  operation \in Operations
  <1>1. \A r \in ranges : r.work # NULL => r.work.operation \in Operations
    BY DEF RInv, IInv, Proper
  <1>2. \A t \in Busy : job[t].operation \in Operations
    BY DEF RInv, IInv, ProperJob
  <1>. QED  BY <1>1, <1>2 DEF Due, Waits

\* Steps after which the same operations are due to a row.
LEMMA SameOwedAt ==
  ASSUME RInv, RInv', count' = count, NEW i \in 1..count,
         \A operation \in Operations : Due(i, operation)' <=> Due(i, operation)
  PROVE  OperationsOwed'[i] = OperationsOwed[i]
  <1>1. OwedRight /\ OwedRight' /\ i \in 1..count'
    BY OwedHolds, OwedAfterwards
  <1>2. CASE \E operation \in Operations : Due(i, operation)
    BY <1>1, <1>2 DEF OwedRight
  <1>3. CASE \A operation \in Operations : ~Due(i, operation)
    <2>1. \A operation \in Operations : ~Due(i, operation)'
      BY <1>3
    <2>. QED  BY <1>1, <1>3, <2>1 DEF OwedRight
  <1>. QED  BY <1>2, <1>3

\* Steps after which the same operations are due.
LEMMA SameOwed ==
  ASSUME RInv, RInv', count' = count,
         \A i \in 1..count, operation \in Operations : Due(i, operation)' <=> Due(i, operation)
  PROVE  OperationsOwed' = OperationsOwed
  <1>1. \A i \in 1..count : OperationsOwed'[i] = OperationsOwed[i]
    BY SameOwedAt
  <1>2. OperationsOwed = [i \in 1..count |-> OperationsOwed[i]]
    BY DEF OperationsOwed
  <1>3. OperationsOwed' = [i \in 1..count |-> OperationsOwed'[i]]
    BY DEF OperationsOwed
  <1>. QED  BY <1>1, <1>2, <1>3

\* Nobody else can be about to operate on the row that a thread works on.
LEMMA RowIsTaken ==
  ASSUME RInv, NEW t \in Busy
  PROVE  /\ \A r \in ranges : ~Waits(r, RowOf(job[t]))
         /\ \A u \in Busy : u # t => ~Comes(job[u], RowOf(job[t]))
  <1>. DEFINE k == RowOf(job[t])
  <1>1. \A u \in Busy :
          /\ job[u].range.start \in Nat /\ job[u].range.len \in Nat /\ job[u].row \in Nat
          /\ job[u].last \in Nat /\ job[u].last < job[u].range.len /\ job[u].row <= job[u].last
    <2>. TAKE u \in Busy
    <2>1. ProperJob(count, DOMAIN store, job[u])
      BY DEF RInv, IInv
    <2>. QED  BY <2>1 DEF ProperJob, Proper
  <1>2. /\ k = job[t].range.start + job[t].row + 1
        /\ job[t].range.start < k /\ k <= job[t].range.start + job[t].range.len
    BY <1>1 DEF RowOf
  <1>. HIDE DEF k
  <1>3. ASSUME NEW r \in ranges
        PROVE  ~Waits(r, k)
    <2>1. Apart(job[t].range, r) /\ r.start \in Nat /\ r.len \in Nat
      BY DEF RInv, IInv, AllApart, Proper
    <2>. QED  BY <1>1, <1>2, <2>1 DEF Waits, Apart
  <1>4. ASSUME NEW u \in Busy, u # t
        PROVE  ~Comes(job[u], k)
    <2>1. Apart(job[t].range, job[u].range)
      BY <1>4 DEF RInv, IInv, AllApart
    <2>. QED  BY <1>1, <1>2, <2>1 DEF Comes, Apart
  <1>. QED  BY <1>3, <1>4 DEF k

\* Steps of one thread, seen from the other threads' rows.
LEMMA OthersSeen ==
  ASSUME RInv, RInv', NEW t, OnlyMoves(t), UNCHANGED <<schema, count>>,
         \A l \in 1..count :
           (t \in Busy /\ l = RowOf(job[t])) \/ RowIn(schema, store', l) = RowIn(schema, store, l),
         NEW i \in 1..count, ~(t \in Busy /\ i = RowOf(job[t])),
         t \in Busy' => ~Works(job'[t], i)
  PROVE  RowsSeen'[i] = RowsSeen[i]
  <1>1. SeenRight /\ SeenRight'
    BY SeenHolds, SeenAfterwards
  <1>3. i \in 1..count'
    OBVIOUS
  <1>4. CASE \E u \in Busy : u # t /\ Works(job[u], i)
    <2>1. PICK u \in Busy : u # t /\ Works(job[u], i)
      BY <1>4
    <2>2. u \in Busy' /\ job'[u] = job[u]
      BY <2>1 DEF OnlyMoves
    <2>. QED  BY <1>1, <1>3, <2>1, <2>2 DEF SeenRight
  <1>5. CASE \A u \in Busy : u # t => ~Works(job[u], i)
    <2>1. \A u \in Busy : ~Works(job[u], i)
      BY <1>5 DEF Works
    <2>2. \A u \in Busy' : ~Works(job'[u], i)
      <3>. TAKE u \in Busy'
      <3>1. CASE u = t
        BY <3>1
      <3>2. CASE u # t
        <4>1. u \in Busy /\ job'[u] = job[u]
          BY <3>2 DEF OnlyMoves
        <4>. QED  BY <1>5, <3>2, <4>1
      <3>. QED  BY <3>1, <3>2
    <2>3. RowIn(schema, store', i) = RowIn(schema, store, i)
      OBVIOUS
    <2>. QED  BY <1>1, <1>3, <2>1, <2>2, <2>3 DEF SeenRight
  <1>. QED  BY <1>4, <1>5

\* A thread's row stays what it was when the thread entered it.
LEMMA StaysSeen ==
  ASSUME RInv, RInv', NEW t \in Busy, NEW x, job' = [job EXCEPT ![t] = x],
         UNCHANGED <<schema, count>>,
         \A l \in 1..count :
           l = RowOf(job[t]) \/ RowIn(schema, store', l) = RowIn(schema, store, l),
         x.step > 0, RowOf(x) = RowOf(job[t]),
         x.old = IF job[t].step > 0 THEN job[t].old ELSE RowIn(schema, store, RowOf(job[t]))
  PROVE  RowsSeen' = RowsSeen
  <1>. DEFINE k == RowOf(job[t])
  <1>1. SeenRight /\ SeenRight' /\ IInv
    BY SeenHolds, SeenAfterwards DEF RInv
  <1>2. k \in 1..count /\ \A u \in Busy : u # t => RowOf(job[u]) # k
    BY <1>1, RowsDiffer
  <1>3. OnlyMoves(t) /\ t \in Busy' /\ job'[t] = x
    BY GoesOnMoves
  <1>4. RowsSeen'[k] = RowsSeen[k]
    <2>1. RowsSeen'[k] = x.old
      <3>1. Works(job'[t], k)
        BY <1>3 DEF Works
      <3>. HIDE DEF k
      <3>. QED  BY <1>1, <1>2, <1>3, <3>1 DEF SeenRight
    <2>2. CASE job[t].step > 0
      <3>1. Works(job[t], k)
        BY <2>2 DEF Works
      <3>. HIDE DEF k
      <3>2. RowsSeen[k] = job[t].old
        BY <1>1, <1>2, <3>1 DEF SeenRight
      <3>. QED  BY <2>1, <2>2, <3>2
    <2>3. CASE ~(job[t].step > 0)
      <3>1. \A u \in Busy : ~Works(job[u], k)
        BY <1>2, <2>3 DEF Works
      <3>2. RowsSeen[k] = RowIn(schema, store, k)
        <4>. HIDE DEF k
        <4>. QED  BY <1>1, <1>2, <3>1 DEF SeenRight
      <3>. QED  BY <2>1, <2>3, <3>2
    <2>. QED  BY <2>2, <2>3
  <1>5. ASSUME NEW i \in 1..count, i # k
        PROVE  RowsSeen'[i] = RowsSeen[i]
    <2>1. ~Works(x, i)
      BY <1>5 DEF Works
    <2>. QED  BY <1>3, <1>5, <2>1, OthersSeen
  <1>6. RowsSeen = [i \in 1..count |-> RowsSeen[i]]
    BY DEF RowsSeen
  <1>7. RowsSeen' = [i \in 1..count |-> RowsSeen'[i]]
    BY DEF RowsSeen
  <1>8. \A i \in 1..count : RowsSeen'[i] = RowsSeen[i]
    BY <1>4, <1>5
  <1>. QED  BY <1>6, <1>7, <1>8

\* A thread that is about to start with a row shows nothing yet.
LEMMA StartSeen ==
  ASSUME RInv, RInv', NEW t, t \notin Busy, OnlyMoves(t),
         UNCHANGED <<schema, count, store>>, job'[t].step = 0
  PROVE  RowsSeen' = RowsSeen
  <1>1. ASSUME NEW i \in 1..count
        PROVE  RowsSeen'[i] = RowsSeen[i]
    <2>1. ~Works(job'[t], i)
      BY DEF Works
    <2>. QED  BY <2>1, OthersSeen
  <1>2. RowsSeen = [i \in 1..count |-> RowsSeen[i]]
    BY DEF RowsSeen
  <1>3. RowsSeen' = [i \in 1..count |-> RowsSeen'[i]]
    BY DEF RowsSeen
  <1>. QED  BY <1>1, <1>2, <1>3

LEMMA RangesSeen ==
  ASSUME RInv, RInv', UNCHANGED <<schema, count, store, job>>
  PROVE  RowsSeen' = RowsSeen
  <1>1. SeenRight /\ SeenRight' /\ Busy' = Busy
    BY SeenHolds, SeenAfterwards DEF Busy
  <1>2. ASSUME NEW i \in 1..count
        PROVE  RowsSeen'[i] = RowsSeen[i]
    <2>1. CASE \E t \in Busy : Works(job[t], i)
      BY <1>1, <2>1 DEF SeenRight
    <2>2. CASE \A t \in Busy : ~Works(job[t], i)
      BY <1>1, <2>2 DEF SeenRight
    <2>. QED  BY <2>1, <2>2
  <1>3. RowsSeen = [i \in 1..count |-> RowsSeen[i]]
    BY DEF RowsSeen
  <1>4. RowsSeen' = [i \in 1..count |-> RowsSeen'[i]]
    BY DEF RowsSeen
  <1>. QED  BY <1>2, <1>3, <1>4

-----------------------------------------------------------------------------
(* Each step is one of RowEdits, or none.                                  *)

\* for_each leaves a row that is as its operation makes it: that row's
\* operation takes effect here.
LEMMA LeaveOperates ==
  ASSUME RInv, RInv', NEW t \in Busy, Leave(t), UNCHANGED <<schema, count>>,
         \A l \in 1..count :
           l = RowOf(job[t]) \/ RowIn(schema, store', l) = RowIn(schema, store, l),
         RowIn(schema, store', RowOf(job[t]))
           = Edits!Operated(schema, job[t].operation, RowsSeen[RowOf(job[t])])
  PROVE  Edits!Next
  <1>. DEFINE j == job[t]
              k == RowOf(j)
              x == Job(j.range, j.row + 1, j.last, j.operation, j.owed)
  <1>1. /\ SeenRight /\ SeenRight' /\ OwedRight /\ OwedRight'
        /\ t \in Threads /\ IInv /\ j.operation \in Operations
    BY SeenHolds, SeenAfterwards, OwedHolds, OwedAfterwards DEF RInv, IInv, ProperJob
  <1>2. k \in 1..count /\ \A u \in Busy : u # t => RowOf(job[u]) # k
    BY <1>1, RowsDiffer
  <1>3. /\ OnlyMoves(t)
        /\ \/ /\ j.row < j.last /\ ranges' = ranges
              /\ Busy' = Busy /\ job'[t] = x
           \/ /\ ~(j.row < j.last)
              /\ ranges' = IF j.owed THEN ranges ELSE ranges \cup {j.range}
              /\ Busy' = Busy \ {t}
    <2>1. CASE j.row < j.last
      <3>1. job' = [job EXCEPT ![t] = x] /\ ranges' = ranges
        BY <2>1 DEF Leave
      <3>. HIDE DEF x
      <3>. QED  BY <2>1, <3>1, GoesOnMoves
    <2>2. CASE ~(j.row < j.last)
      <3>1. /\ job' = [u \in Busy \ {t} |-> job[u]]
            /\ ranges' = IF j.owed THEN ranges ELSE ranges \cup {j.range}
        BY <2>2 DEF Leave
      <3>. QED  BY <2>2, <3>1, EndsMoves
    <2>. QED  BY <2>1, <2>2
  <1>4. /\ ProperJob(count, DOMAIN store, j) /\ j.range.start \in Nat /\ j.row \in Nat /\ j.last \in Nat
        /\ j.row <= j.last /\ k = j.range.start + j.row + 1
        /\ (~j.owed => j.range.work = NULL)
    <2>1. ProperJob(count, DOMAIN store, j) /\ Follows(schema, store, j)
      BY DEF RInv, IInv
    <2>. QED  BY <2>1 DEF ProperJob, Proper, RowOf, Follows
  <1>5. x.step = 0 /\ x.owed = j.owed /\ x.range = j.range /\ x.row = j.row + 1 /\ x.last = j.last
        /\ x.operation = j.operation
    BY DEF Job
  <1>6. \A i : t \in Busy' => ~Works(job'[t], i)
    BY <1>3, <1>5 DEF Works
  <1>7. RowsSeen' = [RowsSeen EXCEPT ![k] = Edits!Operated(schema, j.operation, @)]
    <2>1. \A u \in Busy' : ~Works(job'[u], k)
      <3>. TAKE u \in Busy'
      <3>1. CASE u = t
        BY <1>6, <3>1
      <3>2. CASE u # t
        <4>1. u \in Busy /\ job'[u] = job[u]
          BY <1>3, <3>2 DEF OnlyMoves
        <4>. QED  BY <1>2, <3>2, <4>1 DEF Works
      <3>. QED  BY <3>1, <3>2
    <2>2. RowsSeen'[k] = RowIn(schema, store', k)
      <3>. HIDE DEF k
      <3>. QED  BY <1>1, <1>2, <2>1 DEF SeenRight
    <2>3. ASSUME NEW i \in 1..count, i # k
          PROVE  RowsSeen'[i] = RowsSeen[i]
      BY <1>3, <1>6, <2>3, OthersSeen
    <2>4. RowsSeen = [i \in 1..count |-> RowsSeen[i]]
      BY DEF RowsSeen
    <2>5. RowsSeen' = [i \in 1..count |-> RowsSeen'[i]]
      BY DEF RowsSeen
    <2>6. RowsSeen'[k] = Edits!Operated(schema, j.operation, RowsSeen[k])
      BY <2>2
    <2>. HIDE DEF k, j
    <2>. QED  BY <1>2, <2>3, <2>4, <2>5, <2>6
  <1>8. DOMAIN RowsSeen = 1..count
    BY DEF RowsSeen
  <1>9. CASE j.owed
    <2>1. ranges' = ranges
      BY <1>3, <1>9
    <2>2. Comes(j, k)
      BY <1>4, <1>9 DEF Comes
    <2>3. OperationsOwed[k] = j.operation
      <3>1. Due(k, j.operation)
        BY <2>2 DEF Due
      <3>. HIDE DEF k, j
      <3>. QED  BY <1>1, <1>2, <3>1 DEF OwedRight
    <2>4. OperationsOwed'[k] = NULL
      <3>1. PICK m \in 1..count : m = k
        BY <1>2
      <3>2. \A r \in ranges' : ~Waits(r, m)
        BY <2>1, <3>1, RowIsTaken
      <3>3. ASSUME NEW u \in Busy', Comes(job'[u], m)
            PROVE  FALSE
        <4>1. CASE u = t
          <5>1. job'[t] = x
            BY <1>3, <3>3, <4>1
          <5>2. Comes(x, m)
            BY <3>3, <4>1, <5>1
          <5>. HIDE DEF x, k
          <5>. QED  BY <1>4, <1>5, <3>1, <5>2 DEF Comes
        <4>2. CASE u # t
          <5>1. u \in Busy /\ job'[u] = job[u]
            BY <1>3, <4>2 DEF OnlyMoves
          <5>. QED  BY <3>1, <3>3, <4>2, <5>1, RowIsTaken
        <4>. QED  BY <4>1, <4>2
      <3>4. \A operation \in Operations : ~Due(m, operation)'
        BY <3>2, <3>3 DEF Due
      <3>5. m \in 1..count'
        OBVIOUS
      <3>6. OperationsOwed'[m] = NULL
        BY <1>1, <3>4, <3>5 DEF OwedRight
      <3>. QED  BY <3>1, <3>6
    <2>5. ASSUME NEW i \in 1..count, i # k
          PROVE  OperationsOwed'[i] = OperationsOwed[i]
      <3>1. \A u \in Busy' : u # t => u \in Busy /\ job'[u] = job[u]
        BY <1>3 DEF OnlyMoves
      <3>2. \A u \in Busy : u # t => u \in Busy' /\ job'[u] = job[u]
        BY <1>3 DEF OnlyMoves
      <3>3. t \in Busy' => job'[t].operation = j.operation /\ (Comes(job'[t], i) <=> Comes(j, i))
        <4>1. Comes(x, i) <=> Comes(j, i)
          <5>. HIDE DEF x, k, j
          <5>. QED  BY <1>4, <1>5, <2>5 DEF Comes
        <4>. QED  BY <1>3, <1>5, <4>1
      <3>4. t \notin Busy' => ~Comes(j, i)
        <4>. HIDE DEF k, j
        <4>. QED  BY <1>3, <1>4, <2>5 DEF Comes
      <3>5. ASSUME NEW operation \in Operations
            PROVE  Due(i, operation)' <=> Due(i, operation)
        <4>1. Due(i, operation)' => Due(i, operation)
          BY <2>1, <3>1, <3>3 DEF Due
        <4>2. Due(i, operation) => Due(i, operation)'
          BY <2>1, <3>2, <3>3, <3>4 DEF Due
        <4>. QED  BY <4>1, <4>2
      <3>. QED  BY <3>5, SameOwedAt
    <2>6. OperationsOwed' = [OperationsOwed EXCEPT ![k] = NULL]
      <3>1. OperationsOwed = [i \in 1..count |-> OperationsOwed[i]]
        BY DEF OperationsOwed
      <3>2. OperationsOwed' = [i \in 1..count |-> OperationsOwed'[i]]
        BY DEF OperationsOwed
      <3>. HIDE DEF k
      <3>. QED  BY <2>4, <2>5, <3>1, <3>2
    <2>7. OperationsOwed[k] # NULL
      BY <1>1, <2>3, NullAssumption
    <2>. HIDE DEF k, j
    <2>8. Edits!Operate(k)
      BY <1>7, <2>3, <2>6, <2>7 DEF Edits!Operate
    <2>. QED  BY <1>2, <1>8, <2>8 DEF Edits!Next
  <1>10. CASE ~j.owed
    <2>1. \A i : ~Comes(j, i) /\ ~Comes(x, i)
      BY <1>5, <1>10 DEF Comes
    <2>2. \A r \in ranges' : r \in ranges \/ r.work = NULL
      BY <1>3, <1>4, <1>10
    <2>3. ranges \subseteq ranges'
      BY <1>3, <1>10
    <2>4. \A u \in Busy' : u # t => u \in Busy /\ job'[u] = job[u]
      BY <1>3 DEF OnlyMoves
    <2>5. \A u \in Busy : u # t => u \in Busy' /\ job'[u] = job[u]
      BY <1>3 DEF OnlyMoves
    <2>6. \A i : t \in Busy' => ~Comes(job'[t], i)
      BY <1>3, <2>1
    <2>7. OperationsOwed' = OperationsOwed
      <3>1. ASSUME NEW i \in 1..count, NEW operation \in Operations
            PROVE  Due(i, operation)' <=> Due(i, operation)
        <4>1. Due(i, operation)' => Due(i, operation)
          BY <2>2, <2>4, <2>6 DEF Due, Waits
        <4>2. Due(i, operation) => Due(i, operation)'
          BY <2>1, <2>3, <2>5 DEF Due
        <4>. QED  BY <4>1, <4>2
      <3>. QED  BY <3>1, SameOwed
    <2>8. OperationsOwed[k] = NULL
      <3>1. \A operation \in Operations : ~Due(k, operation)
        BY <2>1, RowIsTaken DEF Due
      <3>. HIDE DEF k
      <3>. QED  BY <1>1, <1>2, <3>1 DEF OwedRight
    <2>. HIDE DEF k, j
    <2>9. Edits!OperateNow(k, j.operation)
      BY <1>7, <2>7, <2>8 DEF Edits!OperateNow
    <2>. QED  BY <1>1, <1>2, <1>8, <2>9 DEF Edits!Next
  <1>. QED  BY <1>9, <1>10

\* A thread stays with its row: nothing shows.
LEMMA StayImplements ==
  ASSUME RInv, RInv', NEW t \in Busy, NEW x, job' = [job EXCEPT ![t] = x],
         UNCHANGED <<schema, count, ranges>>,
         \A l \in 1..count :
           l = RowOf(job[t]) \/ RowIn(schema, store', l) = RowIn(schema, store, l),
         NEW step, step > 0, NEW got, NEW value, NEW old,
         x = Progress(job[t], step, got, value, old),
         old = IF job[t].step > 0 THEN job[t].old ELSE RowIn(schema, store, RowOf(job[t]))
  PROVE  UNCHANGED (Edits!absVars)
  <1>. DEFINE j == job[t]
  <1>1. /\ x.step = step /\ x.old = old /\ x.range = j.range /\ x.row = j.row /\ x.last = j.last
        /\ x.operation = j.operation /\ x.owed = j.owed
    BY DEF Progress
  <1>2. OnlyMoves(t) /\ Busy' = Busy /\ job'[t] = x
    BY GoesOnMoves
  <1>3. RowOf(x) = RowOf(j)
    BY <1>1 DEF RowOf
  <1>4. RowsSeen' = RowsSeen
    <2>1. x.step > 0 /\ x.old = IF job[t].step > 0 THEN job[t].old
                                ELSE RowIn(schema, store, RowOf(job[t]))
      BY <1>1
    <2>. QED  BY <1>3, <2>1, StaysSeen
  <1>5. ASSUME NEW i \in 1..count, NEW operation \in Operations
        PROVE  Due(i, operation)' <=> Due(i, operation)
    <2>1. \A u \in Busy : u # t => job'[u] = job[u]
      BY <1>2 DEF OnlyMoves
    <2>2. Comes(x, i) <=> Comes(j, i)
      BY <1>1 DEF Comes
    <2>3. \A u \in Busy : /\ Comes(job'[u], i) <=> Comes(job[u], i)
                          /\ job'[u].operation = job[u].operation
      <3>. TAKE u \in Busy
      <3>1. CASE u = t
        BY <1>1, <1>2, <2>2, <3>1
      <3>2. CASE u # t
        BY <2>1, <3>2
      <3>. QED  BY <3>1, <3>2
    <2>. QED  BY <1>2, <2>3 DEF Due
  <1>6. OperationsOwed' = OperationsOwed
    BY <1>5, SameOwed
  <1>. QED  BY <1>4, <1>6 DEF Edits!absVars

\* The steps of a thread on its rows.
LEMMA WorkImplements ==
  ASSUME RInv, RInv', NEW t \in Threads, Work(t)
  PROVE  [Edits!Next]_(Edits!absVars)
  <1>. DEFINE j == job[t]
              k == RowOf(j)
  <1>1. t \in Busy
    BY DEF Work, Enter, Read, Write
  <1>2. /\ Follows(schema, store, j) /\ ProperJob(count, DOMAIN store, j)
        /\ IInv /\ Complete(schema, DOMAIN store) /\ count \in Nat /\ SeenRight
    BY <1>1, SeenHolds DEF RInv, IInv
  <1>3. /\ Proper(count, DOMAIN store, j.range) /\ j.row \in 0..(j.range.len - 1) /\ k \in 1..count
        /\ \A u \in Busy : u # t => RowOf(job[u]) # k
    BY <1>1, <1>2, RowsDiffer DEF ProperJob
  <1>4. k = j.range.start + j.row + 1
    BY DEF RowOf
  <1>5. Len(j.operation.edits) \in Nat /\ j.step \in Nat /\ j.step <= Len(j.operation.edits)
    BY <1>2, OperationsAssumption DEF ProperJob
  <1>6. RowsSeen[k] = IF j.step > 0 THEN j.old ELSE RowIn(schema, store, k)
    <2>1. CASE j.step > 0
      <3>1. Works(job[t], k)
        BY <2>1 DEF Works
      <3>. HIDE DEF k
      <3>. QED  BY <1>1, <1>2, <1>3, <2>1, <3>1 DEF SeenRight
    <2>2. CASE ~(j.step > 0)
      <3>1. \A u \in Busy : ~Works(job[u], k)
        BY <1>3, <2>2 DEF Works
      <3>. HIDE DEF k
      <3>. QED  BY <1>1, <1>2, <1>3, <2>2, <3>1 DEF SeenRight
    <2>. QED  BY <2>1, <2>2
  <1>7. CASE Enter(t)
    <2>1. UNCHANGED <<schema, count, store>> /\ j.step = 0
      BY <1>7 DEF Enter
    <2>2. CASE Skips(j)
      <3>1. Leave(t)
        BY <1>7, <2>2 DEF Enter
      <3>2. RowsSeen[k] = RowIn(schema, store, k)
        BY <1>6, <2>1
      <3>3. Edits!Operated(schema, j.operation, RowsSeen[k]) = RowsSeen[k]
        <4>1. CASE j.operation.live /\ IsTombstoned(j.range, j.row)
          <5>1. RowsSeen[k].dead
            BY <1>2, <1>3, <1>4, <3>2, <4>1, TombstonedIsOfRow
          <5>. QED  BY <4>1, <5>1 DEF Edits!Operated
        <4>2. CASE j.operation.edits = <<>>
          <5>1. Len(j.operation.edits) = 0
            BY <4>2
          <5>2. \A row : Edits!Run(schema, j.operation.edits, row)[0] = row
            BY <1>5, RunAt
          <5>. QED  BY <5>1, <5>2 DEF Edits!Operated
        <4>. QED  BY <2>2, <4>1, <4>2 DEF Skips
      <3>4. Edits!Next
        BY <1>1, <2>1, <3>1, <3>2, <3>3, LeaveOperates
      <3>. QED  BY <3>4
    <2>3. CASE ~Skips(j)
      <3>. DEFINE seen == RowAt(j.range.start + j.row)
                  no == FALSE
                  x == Progress(j, 1, no, NULL, seen)
      <3>1. job' = [job EXCEPT ![t] = x] /\ UNCHANGED ranges
        BY <1>7, <2>3 DEF Enter
      <3>2. j.range.start + j.row \in 0..(count - 1)
        BY <1>3, <1>4, <1>2 DEF Proper
      <3>3. seen = RowIn(schema, store, k)
        BY <1>2, <1>4, <3>2, RowAtIsRowIn
      <3>4. x = Progress(job[t], 1, no, NULL, seen) /\ 1 > 0 /\ ~(job[t].step > 0)
        BY <2>1
      <3>. HIDE DEF x, no, seen
      <3>. QED  BY <1>1, <2>1, <3>1, <3>3, <3>4, StayImplements
    <2>. QED  BY <2>2, <2>3
  <1>8. CASE Read(t)
    <2>. DEFINE v == Named(j.range, j.row, j.operation.edits[j.step].from)
                yes == TRUE
                x == Progress(j, j.step, yes, v, j.old)
    <2>1. job' = [job EXCEPT ![t] = x] /\ UNCHANGED <<schema, count, store, ranges>> /\ j.step > 0
      BY <1>8 DEF Read
    <2>2. x = Progress(job[t], j.step, yes, v, j.old) /\ j.old = job[t].old /\ job[t].step > 0
      BY <2>1
    <2>. HIDE DEF x, v, yes, j
    <2>. QED  BY <1>1, <2>1, <2>2, StayImplements
  <1>9. CASE Write(t)
    <2>1. /\ \A l \in 1..count :
               l # k => RowIn(schema, store', l) = RowIn(schema, store, l)
          /\ RowIn(schema, store', k) = Edits!Run(schema, j.operation.edits, j.old)[j.step]
      BY <1>9, WriteFollows DEF RInv
    <2>2. schema' = schema /\ count' = count /\ j.step > 0
      BY <1>9 DEF Write
    <2>3. CASE j.step < Len(j.operation.edits)
      <3>. DEFINE no == FALSE
                  next == j.step + 1
                  x == Progress(j, next, no, NULL, j.old)
      <3>1. job' = [job EXCEPT ![t] = x] /\ UNCHANGED ranges
        BY <1>9, <2>3 DEF Write
      <3>2. x = Progress(job[t], next, no, NULL, j.old) /\ j.old = job[t].old /\ job[t].step > 0
        BY <2>2
      <3>3. next > 0
        BY <1>5
      <3>4. \A l \in 1..count :
              l = RowOf(job[t]) \/ RowIn(schema, store', l) = RowIn(schema, store, l)
        BY <2>1
      <3>. HIDE DEF x, no, next, j
      <3>. QED  BY <1>1, <2>2, <3>1, <3>2, <3>3, <3>4, StayImplements
    <2>4. CASE ~(j.step < Len(j.operation.edits))
      <3>1. Leave(t)
        BY <1>9, <2>4 DEF Write
      <3>2. RowsSeen[k] = j.old /\ j.step = Len(j.operation.edits)
        BY <1>5, <1>6, <2>2, <2>4
      <3>3. ~(j.operation.live /\ j.old.dead)
        BY <1>2, <2>2 DEF Follows
      <3>4. RowIn(schema, store', k) = Edits!Operated(schema, j.operation, RowsSeen[k])
        BY <2>1, <3>2, <3>3 DEF Edits!Operated
      <3>5. Edits!Next
        BY <1>1, <2>1, <2>2, <3>1, <3>4, LeaveOperates
      <3>. QED  BY <3>5
    <2>. QED  BY <2>3, <2>4
  <1>. QED  BY <1>7, <1>8, <1>9 DEF Work

\* A thread takes a range.  Operations are owed from for_each on.
LEMMA TakeImplements ==
  ASSUME RInv, RInv', NEW r \in ranges, NEW t \in Threads,
         \/ ParStart(t, r)
         \/ \E operation \in Operations :
              \/ ForEach(t, r, operation)
              \/ \E i \in 0..(r.len - 1) : RowMut(t, r, i, operation)
  PROVE  [Edits!Next]_(Edits!absVars)
  <1>1. ASSUME NEW first, NEW last, NEW operation, NEW owed,
               Take(t, r, Job(r, first, last, operation, owed))
        PROVE  /\ RowsSeen' = RowsSeen /\ schema' = schema /\ count' = count
               /\ t \notin Busy /\ Busy' = Busy \cup {t}
               /\ \A u \in Busy : job'[u] = job[u]
               /\ job'[t].operation = operation
               /\ \A i : Comes(job'[t], i) <=> owed /\ r.start + first < i /\ i <= r.start + last + 1
               /\ ranges' = ranges \ {r}
    <2>. DEFINE x == Job(r, first, last, operation, owed)
    <2>1. OnlyMoves(t) /\ t \notin Busy /\ Busy' = Busy \cup {t} /\ job'[t] = x
      BY <1>1, TakeMoves
    <2>2. UNCHANGED <<schema, count, store>> /\ ranges' = ranges \ {r}
      BY <1>1 DEF Take
    <2>3. x.step = 0 /\ x.operation = operation
      BY DEF Job
    <2>4. \A i : Comes(x, i) <=> owed /\ r.start + first < i /\ i <= r.start + last + 1
      BY DEF Job, Comes
    <2>. HIDE DEF x
    <2>5. RowsSeen' = RowsSeen
      BY <2>1, <2>2, <2>3, StartSeen
    <2>6. \A u \in Busy : job'[u] = job[u]
      BY <2>1 DEF OnlyMoves
    <2>. QED  BY <2>1, <2>2, <2>3, <2>4, <2>5, <2>6
  <1>2. /\ r.start \in Nat /\ r.len \in Nat \ {0} /\ r.start + r.len <= count /\ count \in Nat
        /\ r.work # NULL => r.work.operation \in Operations
    BY DEF RInv, IInv, Proper
  <1>3. CASE ParStart(t, r)
    <2>. DEFINE yes == TRUE
    <2>1. Take(t, r, Job(r, 0, r.len - 1, r.work.operation, yes)) /\ yes /\ r.work # NULL
      BY <1>3 DEF ParStart
    <2>. HIDE DEF yes
    <2>2. /\ RowsSeen' = RowsSeen /\ schema' = schema /\ count' = count
          /\ t \notin Busy /\ Busy' = Busy \cup {t}
          /\ \A u \in Busy : job'[u] = job[u]
          /\ job'[t].operation = r.work.operation
          /\ \A i : Comes(job'[t], i) <=> r.start + 0 < i /\ i <= r.start + (r.len - 1) + 1
          /\ ranges' = ranges \ {r}
      BY <1>1, <2>1
    <2>3. \A i \in 1..count : Comes(job'[t], i) <=> Waits(r, i)
      BY <1>2, <2>1, <2>2 DEF Waits
    <2>4. ASSUME NEW i \in 1..count, NEW operation \in Operations
          PROVE  Due(i, operation)' <=> Due(i, operation)
      BY <2>2, <2>3 DEF Due
    <2>5. OperationsOwed' = OperationsOwed
      BY <2>2, <2>4, SameOwed
    <2>. QED  BY <2>2, <2>5 DEF Edits!absVars
  <1>4. ASSUME NEW operation \in Operations, ForEach(t, r, operation)
        PROVE  Edits!Next
    <2>. DEFINE yes == TRUE
    <2>1. Take(t, r, Job(r, 0, r.len - 1, operation, yes)) /\ yes /\ r.work = NULL
      BY <1>4 DEF ForEach
    <2>. HIDE DEF yes
    <2>2. /\ RowsSeen' = RowsSeen /\ schema' = schema /\ count' = count
          /\ t \notin Busy /\ Busy' = Busy \cup {t}
          /\ \A u \in Busy : job'[u] = job[u]
          /\ job'[t].operation = operation
          /\ \A i : Comes(job'[t], i) <=> r.start + 0 < i /\ i <= r.start + (r.len - 1) + 1
          /\ ranges' = ranges \ {r}
      BY <1>1, <2>1
    <2>3. \A i \in 1..count : Comes(job'[t], i) <=> i \in (r.start + 1)..(r.start + r.len)
      BY <1>2, <2>2
    <2>4. OwedRight /\ OwedRight'
      BY OwedHolds, OwedAfterwards
    <2>5. ASSUME NEW i \in 1..count, i \in (r.start + 1)..(r.start + r.len)
          PROVE  OperationsOwed[i] = NULL /\ OperationsOwed'[i] = operation
      <3>1. \A s \in ranges : ~Waits(s, i)
        <4>. TAKE s \in ranges
        <4>1. CASE s = r
          BY <2>1, <4>1 DEF Waits
        <4>2. CASE s # r
          <5>1. Apart(s, r) /\ s.start \in Nat /\ s.len \in Nat
            BY <4>2 DEF RInv, IInv, AllApart, Proper
          <5>. QED  BY <1>2, <2>5, <5>1 DEF Apart, Waits
        <4>. QED  BY <4>1, <4>2
      <3>2. \A u \in Busy : ~Comes(job[u], i)
        <4>. TAKE u \in Busy
        <4>1. ProperJob(count, DOMAIN store, job[u]) /\ Apart(job[u].range, r)
          BY DEF RInv, IInv, AllApart
        <4>2. /\ job[u].range.start \in Nat /\ job[u].range.len \in Nat
              /\ job[u].row \in Nat /\ job[u].last \in Nat /\ job[u].last < job[u].range.len
          BY <4>1 DEF ProperJob, Proper
        <4>. QED  BY <1>2, <2>5, <4>1, <4>2 DEF Apart, Comes
      <3>3. \A o \in Operations : ~Due(i, o)
        BY <3>1, <3>2 DEF Due
      <3>4. Due(i, operation)'
        BY <2>2, <2>3, <2>5 DEF Due
      <3>5. i \in 1..count'
        BY <2>2
      <3>. QED  BY <2>4, <3>3, <3>4, <3>5 DEF OwedRight
    <2>6. ASSUME NEW i \in 1..count, i \notin (r.start + 1)..(r.start + r.len)
          PROVE  OperationsOwed'[i] = OperationsOwed[i]
      <3>1. ~Waits(r, i)
        BY <2>1 DEF Waits
      <3>2. ~Comes(job'[t], i)
        BY <2>3, <2>6
      <3>3. \A o \in Operations : Due(i, o)' <=> Due(i, o)
        BY <2>2, <3>1, <3>2 DEF Due
      <3>. QED  BY <2>2, <3>3, SameOwedAt
    <2>7. DOMAIN RowsSeen = 1..count
      BY DEF RowsSeen
    <2>8. OperationsOwed' = [i \in 1..count |-> OperationsOwed'[i]]
      BY <2>2 DEF OperationsOwed
    <2>9. (r.start + 1)..(r.start + r.len) \subseteq 1..count
      BY <1>2
    <2>10. Edits!Owe(r.start + 1, r.start + r.len, operation)
      <3>1. \A i \in (r.start + 1)..(r.start + r.len) : OperationsOwed[i] = NULL
        BY <2>5, <2>9
      <3>2. OperationsOwed' = [i \in DOMAIN RowsSeen |->
              IF i \in (r.start + 1)..(r.start + r.len) THEN operation ELSE OperationsOwed[i]]
        BY <2>5, <2>6, <2>7, <2>8
      <3>. QED  BY <2>2, <3>1, <3>2 DEF Edits!Owe
    <2>11. r.start + 1 \in DOMAIN RowsSeen /\ r.start + r.len \in DOMAIN RowsSeen
      BY <1>2, <2>7
    <2>. QED  BY <2>10, <2>11 DEF Edits!Next
  <1>5. ASSUME NEW operation \in Operations, NEW i \in 0..(r.len - 1), RowMut(t, r, i, operation)
        PROVE  UNCHANGED (Edits!absVars)
    <2>. DEFINE no == FALSE
    <2>1. Take(t, r, Job(r, i, i, operation, no)) /\ ~no /\ r.work = NULL
      BY <1>5 DEF RowMut
    <2>. HIDE DEF no
    <2>2. /\ RowsSeen' = RowsSeen /\ schema' = schema /\ count' = count
          /\ t \notin Busy /\ Busy' = Busy \cup {t}
          /\ \A u \in Busy : job'[u] = job[u]
          /\ \A l : ~Comes(job'[t], l)
          /\ ranges' = ranges \ {r}
      BY <1>1, <2>1
    <2>3. \A l : ~Waits(r, l)
      BY <2>1 DEF Waits
    <2>4. ASSUME NEW l \in 1..count, NEW o \in Operations
          PROVE  Due(l, o)' <=> Due(l, o)
      BY <2>2, <2>3 DEF Due
    <2>5. OperationsOwed' = OperationsOwed
      BY <2>2, <2>4, SameOwed
    <2>. QED  BY <2>2, <2>5 DEF Edits!absVars
  <1>. QED  BY <1>3, <1>4, <1>5

\* What the holders of ranges and the pool do with them.
LEMMA RangesImplement ==
  ASSUME RInv, RInv', NEW r \in ranges,
         \/ Drop(r)
         \/ \E mid \in 0..r.len : SplitAt(r, mid)
         \/ \E operation \in Operations, min_rows \in Grains :
              ParForEach(r, operation, min_rows)
         \/ ParSplit(r)
  PROVE  [Edits!Next]_(Edits!absVars)
  <1>1. UNCHANGED <<schema, count, store, job>> /\ Busy' = Busy
    BY DEF Drop, SplitAt, Divide, ParForEach, ParSplit, Busy
  <1>2. RowsSeen' = RowsSeen
    BY <1>1, RangesSeen
  <1>3. /\ r.start \in Nat /\ r.len \in Nat \ {0} /\ r.start + r.len <= count /\ count \in Nat
        /\ \A s \in ranges : s.start \in Nat /\ s.len \in Nat
    BY DEF RInv, IInv, Proper
  <1>4. CASE Drop(r)
    <2>1. r.work = NULL /\ ranges' = ranges \ {r}
      BY <1>4 DEF Drop
    <2>2. ASSUME NEW i \in 1..count, NEW operation \in Operations
          PROVE  Due(i, operation)' <=> Due(i, operation)
      BY <1>1, <2>1 DEF Due, Waits
    <2>3. OperationsOwed' = OperationsOwed
      BY <1>1, <2>2, SameOwed
    <2>. QED  BY <1>1, <1>2, <2>3 DEF Edits!absVars
  <1>5. ASSUME NEW mid \in 0..r.len, Divide(r, mid)
        PROVE  UNCHANGED (Edits!absVars)
    <2>. DEFINE new == NonEmpty({LeftOf(r, mid), RightOf(r, mid)})
    <2>1. ranges' = (ranges \ {r}) \cup new
      BY <1>5 DEF Divide
    <2>2. \A h \in new : h.work = r.work
      BY DEF NonEmpty, LeftOf, RightOf, RowRange
    <2>3. ASSUME NEW i \in 1..count
          PROVE  (\E h \in new : Waits(h, i)) <=> Waits(r, i)
      <3>1. \A h \in new : h = LeftOf(r, mid) \/ h = RightOf(r, mid)
        BY DEF NonEmpty
      <3>2. Waits(LeftOf(r, mid), i) <=> r.work # NULL /\ r.start < i /\ i <= r.start + mid
        BY DEF Waits, LeftOf, RowRange
      <3>3. Waits(RightOf(r, mid), i)
              <=> r.work # NULL /\ r.start + mid < i /\ i <= r.start + mid + (r.len - mid)
        BY DEF Waits, RightOf, RowRange
      <3>4. i > r.start /\ i <= r.start + mid => LeftOf(r, mid) \in new
        BY <1>3 DEF NonEmpty, LeftOf, RowRange
      <3>5. i > r.start + mid /\ i <= r.start + r.len => RightOf(r, mid) \in new
        BY <1>3 DEF NonEmpty, RightOf, RowRange
      <3>6. r.start + mid + (r.len - mid) = r.start + r.len
        BY <1>3
      <3>. HIDE DEF new
      <3>7. (\E h \in new : Waits(h, i)) => Waits(r, i)
        BY <1>3, <3>1, <3>2, <3>3, <3>6 DEF Waits
      <3>8. Waits(r, i) => \E h \in new : Waits(h, i)
        BY <1>3, <3>2, <3>3, <3>4, <3>5, <3>6 DEF Waits
      <3>. QED  BY <3>7, <3>8
    <2>. HIDE DEF new
    <2>4. ASSUME NEW i \in 1..count, NEW operation \in Operations
          PROVE  Due(i, operation)' <=> Due(i, operation)
      BY <1>1, <2>1, <2>2, <2>3 DEF Due
    <2>5. OperationsOwed' = OperationsOwed
      BY <1>1, <2>4, SameOwed
    <2>. QED  BY <1>1, <1>2, <2>5 DEF Edits!absVars
  <1>6. CASE \E mid \in 0..r.len : SplitAt(r, mid)
    BY <1>5, <1>6 DEF SplitAt
  <1>7. CASE ParSplit(r)
    <2>1. r.len \div 2 \in 0..r.len
      BY <1>3
    <2>. QED  BY <1>5, <1>7, <2>1 DEF ParSplit
  <1>8. ASSUME NEW operation \in Operations, NEW min_rows \in Grains,
               ParForEach(r, operation, min_rows)
        PROVE  Edits!Next
    <2>. DEFINE work == [operation |-> operation, min_rows |-> min_rows]
                h == RowRange(r.start, r.len, r.slices, work)
    <2>1. r.work = NULL /\ ranges' = (ranges \ {r}) \cup {h}
      BY <1>8 DEF ParForEach
    <2>2. h.start = r.start /\ h.len = r.len /\ h.work.operation = operation
      BY DEF RowRange
    <2>3. h.work # NULL
      <3>1. work = [operation |-> work.operation, min_rows |-> work.min_rows]
            /\ work.operation \in Operations /\ work.min_rows \in Nat
        BY GrainsAssumption
      <3>2. work \in [operation : Operations, min_rows : Grains]
        OBVIOUS
      <3>. HIDE DEF work
      <3>. QED  BY <3>2, NullAssumption DEF h, RowRange
    <2>. HIDE DEF h
    <2>4. OwedRight /\ OwedRight'
      BY OwedHolds, OwedAfterwards
    <2>5. ASSUME NEW i \in 1..count, i \in (r.start + 1)..(r.start + r.len)
          PROVE  OperationsOwed[i] = NULL /\ OperationsOwed'[i] = operation
      <3>1. \A s \in ranges : ~Waits(s, i)
        <4>. TAKE s \in ranges
        <4>1. CASE s = r
          BY <2>1, <4>1 DEF Waits
        <4>2. CASE s # r
          <5>1. Apart(s, r)
            BY <4>2 DEF RInv, IInv, AllApart
          <5>. QED  BY <1>3, <2>5, <5>1 DEF Apart, Waits
        <4>. QED  BY <4>1, <4>2
      <3>2. \A u \in Busy : ~Comes(job[u], i)
        <4>. TAKE u \in Busy
        <4>1. ProperJob(count, DOMAIN store, job[u]) /\ Apart(job[u].range, r)
          BY DEF RInv, IInv, AllApart
        <4>2. /\ job[u].range.start \in Nat /\ job[u].range.len \in Nat
              /\ job[u].row \in Nat /\ job[u].last \in Nat /\ job[u].last < job[u].range.len
          BY <4>1 DEF ProperJob, Proper
        <4>. QED  BY <1>3, <2>5, <4>1, <4>2 DEF Apart, Comes
      <3>3. \A o \in Operations : ~Due(i, o)
        BY <3>1, <3>2 DEF Due
      <3>4. Due(i, operation)'
        <4>1. Waits(h, i)
          BY <1>3, <2>2, <2>3, <2>5 DEF Waits
        <4>. QED  BY <2>1, <2>2, <4>1 DEF Due
      <3>5. i \in 1..count'
        BY <1>1
      <3>. QED  BY <2>4, <3>3, <3>4, <3>5 DEF OwedRight
    <2>6. ASSUME NEW i \in 1..count, i \notin (r.start + 1)..(r.start + r.len)
          PROVE  OperationsOwed'[i] = OperationsOwed[i]
      <3>1. ~Waits(r, i)
        BY <2>1 DEF Waits
      <3>2. ~Waits(h, i)
        BY <1>3, <2>2, <2>6 DEF Waits
      <3>3. \A o \in Operations : Due(i, o)' <=> Due(i, o)
        BY <1>1, <2>1, <3>1, <3>2 DEF Due
      <3>. QED  BY <1>1, <3>3, SameOwedAt
    <2>7. DOMAIN RowsSeen = 1..count
      BY DEF RowsSeen
    <2>8. OperationsOwed' = [i \in 1..count |-> OperationsOwed'[i]]
      BY <1>1 DEF OperationsOwed
    <2>9. (r.start + 1)..(r.start + r.len) \subseteq 1..count
      BY <1>3
    <2>10. Edits!Owe(r.start + 1, r.start + r.len, operation)
      <3>1. \A i \in (r.start + 1)..(r.start + r.len) : OperationsOwed[i] = NULL
        BY <2>5, <2>9
      <3>2. OperationsOwed' = [i \in DOMAIN RowsSeen |->
              IF i \in (r.start + 1)..(r.start + r.len) THEN operation ELSE OperationsOwed[i]]
        BY <2>5, <2>6, <2>7, <2>8
      <3>. QED  BY <1>1, <1>2, <3>1, <3>2 DEF Edits!Owe
    <2>11. r.start + 1 \in DOMAIN RowsSeen /\ r.start + r.len \in DOMAIN RowsSeen
      BY <1>3, <2>7
    <2>. QED  BY <2>10, <2>11 DEF Edits!Next
  <1>. QED  BY <1>4, <1>6, <1>7, <1>8

LEMMA BorrowImplements ==
  ASSUME RInv, RInv', Borrow
  PROVE  UNCHANGED (Edits!absVars)
  <1>1. UNCHANGED <<schema, count, store, job>> /\ Busy = {} /\ Busy' = {} /\ ranges = {}
        /\ ranges' = NonEmpty({RowsMut})
    BY DEF Borrow, Busy
  <1>2. \A h \in ranges' : h.work = NULL
    BY <1>1 DEF NonEmpty, RowsMut, RowRange
  <1>3. RowsSeen' = RowsSeen
    BY <1>1, RangesSeen
  <1>4. ASSUME NEW i \in 1..count, NEW operation \in Operations
        PROVE  Due(i, operation)' <=> Due(i, operation)
    BY <1>1, <1>2 DEF Due, Waits
  <1>5. OperationsOwed' = OperationsOwed
    BY <1>1, <1>4, SameOwed
  <1>. QED  BY <1>1, <1>3, <1>5 DEF Edits!absVars

\* The table that was built shows the rows that it was built from.
LEMMA BuiltAsGiven ==
  ASSUME NEW table \in InitialRows,
         schema = table[1], count = Len(table[2]), store = StoreOf(table[1], table[2])
  PROVE  \A i \in 1..count : RowIn(schema, store, i) = table[2][i]
  <1>. SUFFICES ASSUME NEW i \in 1..count  PROVE RowIn(schema, store, i) = table[2][i]
    OBVIOUS
  <1>. DEFINE row == table[2][i]
              flagged == \E k \in DOMAIN table[2] : table[2][k].dead
  <1>1. IsRow(schema, row) /\ DOMAIN table[2] = 1..count
    BY InitialRowsAssumption
  <1>2. \A v \in VectorsOf(schema, flagged) : store[v][i] = Element(schema, v, row)
    BY <1>1, Zenon DEF StoreOf
  <1>3. DOMAIN store = VectorsOf(schema, flagged)
    BY Zenon DEF StoreOf
  <1>4. \A c \in Positions(schema) :
          (IF IsSplit(schema.columns[c]) /\ ~store[<<"valid", c>>][i]
           THEN NULL ELSE store[<<"values", c>>][i]) = row.cells[c]
    <2>. TAKE c \in Positions(schema)
    <2>1. <<"values", c>> \in VectorsOf(schema, flagged)
      BY DEF VectorsOf
    <2>2. store[<<"values", c>>][i]
            = IF IsSplit(schema.columns[c]) /\ row.cells[c] = NULL THEN Zero ELSE row.cells[c]
      BY <1>2, <2>1 DEF Element
    <2>3. IsSplit(schema.columns[c]) => (store[<<"valid", c>>][i] <=> row.cells[c] # NULL)
      <3>1. IsSplit(schema.columns[c]) => <<"valid", c>> \in VectorsOf(schema, flagged)
        BY DEF VectorsOf
      <3>2. Element(schema, <<"valid", c>>, row) = (row.cells[c] # NULL)
        BY DEF Element
      <3>. QED  BY <1>2, <3>1, <3>2
    <2>. QED  BY <2>2, <2>3
  <1>5. schema.open => store[<<"extras", 0>>][i] = row.extra
    <2>1. schema.open => <<"extras", 0>> \in VectorsOf(schema, flagged)
      BY DEF VectorsOf
    <2>2. Element(schema, <<"extras", 0>>, row) = row.extra
      BY DEF Element
    <2>. QED  BY <1>2, <2>1, <2>2
  <1>6. (<<"flags", 0>> \in DOMAIN store /\ store[<<"flags", 0>>][i]) <=> row.dead
    <2>1. <<"flags", 0>> \in DOMAIN store <=> flagged
      BY <1>3 DEF VectorsOf
    <2>2. Element(schema, <<"flags", 0>>, row) = row.dead
      BY DEF Element
    <2>3. row.dead => flagged
      BY <1>1
    <2>. HIDE DEF flagged, row
    <2>. QED  BY <1>2, <1>3, <2>1, <2>2, <2>3
  <1>7. (<<"flags", 0>> \in DOMAIN store /\ store[<<"flags", 0>>][i]) = row.dead
    <2>1. row.dead \in BOOLEAN
      BY <1>1 DEF IsRow
    <2>2. CASE row.dead
      <3>1. row.dead = TRUE
        BY <2>1, <2>2
      <3>. QED  BY <1>6, <2>2, <3>1, Zenon
    <2>3. CASE ~row.dead
      <3>1. row.dead = FALSE
        BY <2>1, <2>3
      <3>. QED  BY <1>6, <2>3, <3>1, Zenon
    <2>. QED  BY <2>2, <2>3
  <1>. DEFINE Cells == [c \in Positions(schema) |->
                          IF IsSplit(schema.columns[c]) /\ ~store[<<"valid", c>>][i]
                          THEN NULL ELSE store[<<"values", c>>][i]]
              extra == IF schema.open THEN store[<<"extras", 0>>][i] ELSE NoExtras
  <1>8. Cells = row.cells
    <2>1. row.cells = [c \in Positions(schema) |-> row.cells[c]]
      BY <1>1 DEF IsRow, Positions
    <2>. HIDE DEF row
    <2>. QED  BY <1>4, <2>1
  <1>9. extra = row.extra
    BY <1>1, <1>5 DEF IsRow
  <1>10. RowIn(schema, store, i) = [cells |-> Cells, extra |-> extra, dead |-> row.dead]
    <2>. HIDE DEF row
    <2>. QED  BY <1>7, Zenon DEF RowIn
  <1>11. row = [cells |-> row.cells, extra |-> row.extra, dead |-> row.dead]
    BY <1>1 DEF IsRow
  <1>. HIDE DEF Cells, extra, row
  <1>. QED  BY <1>8, <1>9, <1>10, <1>11 DEF row

LEMMA InitImplements == Init => Edits!Init
  <1>. SUFFICES ASSUME Init PROVE Edits!Init
    OBVIOUS
  <1>1. PICK table \in InitialRows :
          schema = table[1] /\ count = Len(table[2]) /\ store = StoreOf(table[1], table[2])
    BY DEF Init
  <1>2. Busy = {} /\ ranges = {} /\ RInv /\ SeenRight /\ OwedRight
    BY RInvInit, SeenHolds, OwedHolds DEF Init, Busy
  <1>3. table[2] = [i \in 1..count |-> table[2][i]]
    BY <1>1, InitialRowsAssumption
  <1>4. RowsSeen = table[2]
    <2>1. \A i \in 1..count : RowsSeen[i] = table[2][i]
      BY <1>1, <1>2, BuiltAsGiven DEF SeenRight
    <2>2. RowsSeen = [i \in 1..count |-> RowsSeen[i]]
      BY DEF RowsSeen
    <2>. QED  BY <1>3, <2>1, <2>2
  <1>5. OperationsOwed = [i \in DOMAIN RowsSeen |-> NULL]
    <2>1. \A i \in 1..count : OperationsOwed[i] = NULL
      BY <1>2 DEF OwedRight, Due
    <2>2. OperationsOwed = [i \in 1..count |-> OperationsOwed[i]]
      BY DEF OperationsOwed
    <2>3. DOMAIN RowsSeen = 1..count
      BY DEF RowsSeen
    <2>. QED  BY <2>1, <2>2, <2>3
  <1>. QED  BY <1>1, <1>4, <1>5 DEF Edits!Init

LEMMA NextImplements == RInv /\ RInv' /\ [Next]_vars => [Edits!Next]_(Edits!absVars)
  <1>. SUFFICES ASSUME RInv, RInv', [Next]_vars PROVE [Edits!Next]_(Edits!absVars)
    OBVIOUS
  <1>1. CASE Borrow
    BY <1>1, BorrowImplements
  <1>2. ASSUME NEW r \in ranges,
               \/ Drop(r)
               \/ \E mid \in 0..r.len : SplitAt(r, mid)
               \/ \E operation \in Operations, min_rows \in Grains :
                    ParForEach(r, operation, min_rows)
               \/ ParSplit(r)
        PROVE  [Edits!Next]_(Edits!absVars)
    BY <1>2, RangesImplement
  <1>3. ASSUME NEW r \in ranges, NEW t \in Callers, NEW operation \in Operations,
               \/ ForEach(t, r, operation)
               \/ \E i \in 0..(r.len - 1) : RowMut(t, r, i, operation)
        PROVE  [Edits!Next]_(Edits!absVars)
    BY <1>3, TakeImplements DEF Threads
  <1>4. ASSUME NEW t \in Threads, Work(t)
        PROVE  [Edits!Next]_(Edits!absVars)
    BY <1>4, WorkImplements
  <1>5. ASSUME NEW t \in Pool, NEW r \in ranges, ParStart(t, r)
        PROVE  [Edits!Next]_(Edits!absVars)
    BY <1>5, TakeImplements DEF Threads
  <1>6. CASE UNCHANGED vars
    <2>1. UNCHANGED <<schema, count, store, ranges, job>> /\ Busy' = Busy
      BY <1>6 DEF vars, Busy
    <2>2. RowsSeen' = RowsSeen
      BY <2>1, RangesSeen
    <2>3. OperationsOwed' = OperationsOwed
      <3>1. \A i \in 1..count, operation \in Operations : Due(i, operation)' <=> Due(i, operation)
        BY <2>1 DEF Due
      <3>. QED  BY <2>1, <3>1, SameOwed
    <2>. QED  BY <2>1, <2>2, <2>3 DEF Edits!absVars
  <1>. QED  BY <1>1, <1>2, <1>3, <1>4, <1>5, <1>6 DEF Next, Serve, Threads

\* However ranges are split and threads interleave, the rows behave as if each
\* operation happened to its row at once: every row that is owed one gets it once,
\* and no other row changes (par_for_each_inner, row_mut.rs:804).
THEOREM EditsAreWhole == Spec => ImplementsRowEdits
  <1>1. Spec => []RInv
    BY RInvInit, RInvNext, PTL DEF Spec
  <1>. QED  BY <1>1, InitImplements, NextImplements, PTL DEF Spec, ImplementsRowEdits, Edits!Spec
=============================================================================
