------------------------ MODULE ConcurrentBuilderProof ------------------------
(***************************************************************************)
(* Proofs about ConcurrentBuilder: the positions that calls return are     *)
(* where their rows end up, and the builder implements one log to which    *)
(* calls add their rows atomically, for any number of producers and calls, *)
(* any schema and any rows.                                                *)
(***************************************************************************)
EXTENDS ConcurrentBuilder, NaturalLemmas, SequenceTheorems

Calls == [rows : Batches, begin : Nat, done : Nat]

Returns == [rows : Batches, begin : Nat \ {0}]

TypeOK ==
  /\ slots \in Seq(BatchRows \cup {NULL})
  /\ call \in [Producers -> Calls \cup {NULL}]
  /\ returned \in SUBSET Returns

Reserved(p) == call[p] # NULL /\ call[p].begin # 0

\* The position of the k-th row of a call.
Place(c, k) == c.begin + k - 1

\* A call has written the first of its rows to their places.
CallsInPlace ==
  \A p \in Producers : call[p] # NULL =>
    /\ call[p].done <= Len(call[p].rows)
    /\ call[p].begin = 0 => call[p].done = 0
    /\ call[p].begin # 0 => \A k \in 1..Len(call[p].rows) :
         /\ Place(call[p], k) \in DOMAIN slots
         /\ slots[Place(call[p], k)] = IF k <= call[p].done THEN call[p].rows[k] ELSE NULL

\* No two calls share a place.
CallsApart ==
  \A p, q \in Producers : p # q /\ Reserved(p) /\ Reserved(q) =>
    \A k \in 1..Len(call[p].rows), l \in 1..Len(call[q].rows) :
      Place(call[p], k) # Place(call[q], l)

\* The rows of a call that returned stay where it put them.
ReturnedInPlace ==
  \A r \in returned : \A k \in DOMAIN r.rows :
    Place(r, k) \in DOMAIN slots /\ slots[Place(r, k)] = r.rows[k]

\* A gap is a place of a call that goes on.
GapsClaimed ==
  \A i \in DOMAIN slots : slots[i] = NULL =>
    \E p \in Producers :
      Reserved(p) /\ \E k \in 1..Len(call[p].rows) : i = Place(call[p], k)

\* The table is made when nobody is in a call.
TableLast == table # NULL => AllReturned /\ PositionsAreFinal

IInv ==
  TypeOK /\ CallsInPlace /\ CallsApart /\ ReturnedInPlace /\ GapsClaimed /\ TableLast

-----------------------------------------------------------------------------
(* What is added.                                                          *)

LEMMA BatchTyped ==
  ASSUME NEW batch \in Batches
  PROVE  /\ batch \in Seq(BatchRows)
         /\ Len(batch) \in Nat /\ DOMAIN batch = 1..Len(batch)
         /\ \A k \in 1..Len(batch) : batch[k] \in BatchRows
  <1>1. PICK b \in Inputs : batch = Prepared(b)
    BY DEF Batches
  <1>2. b \in Seq(RangeOf(b))
    BY RowsAssumption
  <1>3. batch = [i \in 1..Len(b) |-> PendingRow(b[i])] /\ Len(b) \in Nat
    BY <1>1, <1>2 DEF Prepared
  <1>4. \A i \in DOMAIN batch : batch[i] \in BatchRows
    BY DEF BatchRows, RangeOf
  <1>. QED  BY <1>3, <1>4

\* A row that passed validation fits the columns, whatever its values were.
LEMMA PreparedFits ==
  ASSUME NEW input, Valid(input), PendingRow(input) # NULL
  PROVE  Fits(PendingRow(input))
  <1>. DEFINE row == PrepareRow(Schema, input.values)
  <1>1. row # ERR
    BY DEF Valid, PendingRow
  <1>2. row = [c \in Positions(Schema) |-> Prepare(Schema.columns[c], input.values[c])]
        /\ \A c \in Positions(Schema) : Prepare(Schema.columns[c], input.values[c]) # ERR
    BY <1>1 DEF PrepareRow
  <1>3. \A c \in Positions(Schema) : Accepts(Schema.columns[c], row[c])
    <2>. TAKE c \in Positions(Schema)
    <2>1. row[c] = Prepare(Schema.columns[c], input.values[c]) /\ row[c] # ERR
      BY <1>2
    <2>. HIDE DEF row
    <2>. QED  BY <2>1 DEF Prepare
  <1>4. Len(row) = Width(Schema)
    <2>1. Width(Schema) \in Nat /\ DOMAIN row = 1..Width(Schema)
      BY <1>2, SchemaAssumption DEF Positions
    <2>2. row \in Seq({row[c] : c \in Positions(Schema)})
      BY <1>2, <2>1 DEF Positions
    <2>. HIDE DEF row
    <2>. QED  BY <2>1, <2>2
  <1>5. PendingRow(input).values = row
    BY DEF PendingRow
  <1>. HIDE DEF row
  <1>. QED  BY <1>3, <1>4, <1>5 DEF Fits

LEMMA BatchFits ==
  \A row \in BatchRows : row # NULL /\ Fits(row)
  <1>. TAKE row \in BatchRows
  <1>1. row # NULL
    BY NullAssumption
  <1>2. PICK b \in Inputs : (\A i \in DOMAIN b : Valid(b[i])) /\ row \in RangeOf(Prepared(b))
    BY DEF BatchRows, Batches
  <1>3. PICK i \in DOMAIN b : row = PendingRow(b[i])
    BY <1>2 DEF RangeOf, Prepared
  <1>. QED  BY <1>1, <1>2, <1>3, PreparedFits

\* A call, as the type invariant has it.
LEMMA CallTyped ==
  ASSUME TypeOK, NEW p \in Producers, call[p] # NULL
  PROVE  /\ call[p] \in Calls /\ call[p].rows \in Batches
         /\ call[p].begin \in Nat /\ call[p].done \in Nat
         /\ Len(call[p].rows) \in Nat /\ DOMAIN call[p].rows = 1..Len(call[p].rows)
         /\ \A k \in 1..Len(call[p].rows) : call[p].rows[k] \in BatchRows /\ call[p].rows[k] # NULL
  <1>1. call[p] \in Calls
    BY DEF TypeOK
  <1>. QED  BY <1>1, BatchTyped, BatchFits DEF Calls

\* The slots after n more were reserved.
LEMMA SlotsReserved ==
  ASSUME TypeOK, NEW batch \in Batches
  PROVE  LET more == slots \o [i \in DOMAIN batch |-> NULL] IN
         /\ more \in Seq(BatchRows \cup {NULL})
         /\ Len(more) = Len(slots) + Len(batch)
         /\ \A i \in 1..Len(slots) : more[i] = slots[i]
         /\ \A i \in (Len(slots) + 1)..(Len(slots) + Len(batch)) : more[i] = NULL
  <1>. DEFINE gap == [i \in DOMAIN batch |-> NULL]
  <1>1. Len(batch) \in Nat /\ DOMAIN batch = 1..Len(batch)
    BY BatchTyped
  <1>2. gap \in Seq(BatchRows \cup {NULL}) /\ Len(gap) = Len(batch) /\ \A i \in 1..Len(batch) : gap[i] = NULL
    BY <1>1
  <1>3. slots \in Seq(BatchRows \cup {NULL})
    BY DEF TypeOK
  <1>. HIDE DEF gap
  <1>4. /\ slots \o gap \in Seq(BatchRows \cup {NULL})
        /\ Len(slots \o gap) = Len(slots) + Len(batch)
        /\ \A i \in 1..(Len(slots) + Len(batch)) :
             (slots \o gap)[i] = IF i <= Len(slots) THEN slots[i] ELSE gap[i - Len(slots)]
    BY <1>1, <1>2, <1>3
  <1>5. ASSUME NEW i \in (Len(slots) + 1)..(Len(slots) + Len(batch))  PROVE (slots \o gap)[i] = NULL
    BY <1>1, <1>2, <1>3, <1>4
  <1>6. ASSUME NEW i \in 1..Len(slots)  PROVE (slots \o gap)[i] = slots[i]
    BY <1>1, <1>3, <1>4
  <1>. QED  BY <1>4, <1>5, <1>6 DEF gap

-----------------------------------------------------------------------------
(* The steps of a call, field by field.                                    *)

LEMMA ValidateStep ==
  ASSUME TypeOK, NEW p \in Producers, NEW batch \in Inputs, Validate(p, batch)
  PROVE  /\ call[p] = NULL /\ table = NULL
         /\ call'[p] \in Calls /\ call'[p] # NULL /\ call'[p].begin = 0 /\ call'[p].done = 0
         /\ \A q \in Producers : q # p => call'[q] = call[q]
         /\ UNCHANGED <<slots, returned, table>>
  <1>1. Prepared(batch) \in Batches
    BY DEF Validate, Batches
  <1>2. call'[p] = [rows |-> Prepared(batch), begin |-> 0, done |-> 0]
        /\ \A q \in Producers : q # p => call'[q] = call[q]
    BY DEF Validate, TypeOK
  <1>3. call'[p] \in Calls
    BY <1>1, <1>2 DEF Calls
  <1>4. call'[p] # NULL
    BY <1>3, NullAssumption DEF Calls
  <1>. QED  BY <1>2, <1>3, <1>4 DEF Validate

LEMMA ReserveStep ==
  ASSUME TypeOK, NEW p \in Producers, Reserve(p)
  PROVE  /\ call[p] # NULL /\ call[p].begin = 0
         /\ call'[p] \in Calls /\ call'[p] # NULL
         /\ call'[p].rows = call[p].rows /\ call'[p].done = call[p].done
         /\ call'[p].begin = Len(slots) + 1
         /\ \A q \in Producers : q # p => call'[q] = call[q]
         /\ slots' = slots \o [i \in DOMAIN call[p].rows |-> NULL]
         /\ UNCHANGED <<returned, table>>
  <1>1. call[p] \in Calls /\ Len(slots) \in Nat
    BY CallTyped DEF Reserve, TypeOK
  <1>2. call'[p] = [call[p] EXCEPT !.begin = Len(slots) + 1]
        /\ \A q \in Producers : q # p => call'[q] = call[q]
    BY DEF Reserve, TypeOK
  <1>3. call'[p] \in Calls
    BY <1>1, <1>2 DEF Calls
  <1>4. call'[p] # NULL
    BY <1>3, NullAssumption DEF Calls
  <1>. QED  BY <1>1, <1>2, <1>3, <1>4 DEF Reserve, Calls

LEMMA WriteStep ==
  ASSUME TypeOK, NEW p \in Producers, Write(p)
  PROVE  /\ Reserved(p) /\ call[p].done < Len(call[p].rows)
         /\ call'[p] \in Calls /\ call'[p] # NULL
         /\ call'[p].rows = call[p].rows /\ call'[p].begin = call[p].begin
         /\ call'[p].done = call[p].done + 1
         /\ \A q \in Producers : q # p => call'[q] = call[q]
         /\ slots' \in Seq(BatchRows \cup {NULL}) /\ Len(slots') = Len(slots)
         /\ DOMAIN slots' = DOMAIN slots
         /\ \A i \in DOMAIN slots :
              slots'[i] = IF i = Place(call[p], call[p].done + 1)
                          THEN call[p].rows[call[p].done + 1] ELSE slots[i]
         /\ UNCHANGED <<returned, table>>
  <1>1. /\ call[p] \in Calls /\ Len(call[p].rows) \in Nat /\ call[p].begin \in Nat
        /\ call[p].done \in Nat /\ call[p].done < Len(call[p].rows)
        /\ \A k \in 1..Len(call[p].rows) : call[p].rows[k] \in BatchRows
    BY CallTyped DEF Write
  <1>2. call'[p] = [call[p] EXCEPT !.done = @ + 1]
        /\ \A q \in Producers : q # p => call'[q] = call[q]
    BY DEF Write, TypeOK
  <1>3. call'[p] \in Calls
    BY <1>1, <1>2 DEF Calls
  <1>4. call'[p] # NULL
    BY <1>3, NullAssumption DEF Calls
  <1>5. Place(call[p], call[p].done + 1) = call[p].begin + call[p].done
        /\ call[p].done + 1 \in 1..Len(call[p].rows)
    BY <1>1 DEF Place
  <1>6. slots' = [i \in DOMAIN slots |->
                    IF i = Place(call[p], call[p].done + 1)
                    THEN call[p].rows[call[p].done + 1] ELSE slots[i]]
    BY <1>5 DEF Write
  <1>7. /\ slots' \in Seq(BatchRows \cup {NULL}) /\ Len(slots') = Len(slots)
        /\ DOMAIN slots' = DOMAIN slots
        /\ \A i \in DOMAIN slots :
             slots'[i] = IF i = Place(call[p], call[p].done + 1)
                         THEN call[p].rows[call[p].done + 1] ELSE slots[i]
    <2>1. slots \in Seq(BatchRows \cup {NULL}) /\ call[p].rows[call[p].done + 1] \in BatchRows
      BY <1>1, <1>5 DEF TypeOK
    <2>. QED  BY <1>6, <2>1
  <1>. QED  BY <1>1, <1>2, <1>3, <1>4, <1>7 DEF Write, Calls, Reserved

LEMMA ReturnStep ==
  ASSUME TypeOK, NEW p \in Producers, Return(p)
  PROVE  /\ Reserved(p) /\ call[p].done = Len(call[p].rows)
         /\ call'[p] = NULL /\ \A q \in Producers : q # p => call'[q] = call[q]
         /\ returned' = returned \cup {[rows |-> call[p].rows, begin |-> call[p].begin]}
         /\ [rows |-> call[p].rows, begin |-> call[p].begin] \in Returns
         /\ UNCHANGED <<slots, table>>
  BY CallTyped DEF Return, Reserved, TypeOK, Returns

\* When everyone has returned no gap is left, so the table takes every row.
LEMMA NoGaps ==
  ASSUME IInv, AllReturned
  PROVE  slots \in Seq(BatchRows) /\ \A i \in DOMAIN slots : slots[i] # NULL
  <1>1. \A i \in DOMAIN slots : slots[i] # NULL
    BY DEF IInv, GapsClaimed, AllReturned, Reserved
  <1>2. slots \in Seq(BatchRows \cup {NULL})
    BY DEF IInv, TypeOK
  <1>. QED  BY <1>1, <1>2

LEMMA TakeStep ==
  ASSUME IInv, NEW before \in {<<>>, Existing}, Take(before)
  PROVE  /\ AllReturned /\ table = NULL
         /\ table' = [kept |-> Len(before), rows |-> before \o slots] /\ table' # NULL
         /\ UNCHANGED <<slots, call, returned>>
  <1>1. slots \in Seq(BatchRows)
    BY NoGaps DEF Take
  <1>2. PICK n \in 0..Len(slots) :
          /\ n < Len(slots) => ~Fits(slots[n + 1])
          /\ table' = [kept |-> Len(before), rows |-> before \o SubSeq(slots, 1, n)]
    BY DEF Take
  <1>3. n = Len(slots)
    <2>1. \A i \in 1..Len(slots) : Fits(slots[i])
      BY <1>1, BatchFits
    <2>2. Len(slots) \in Nat
      BY <1>1
    <2>. QED  BY <1>2, <2>1, <2>2
  <1>4. SubSeq(slots, 1, Len(slots)) = slots
    <2>. DEFINE s == SubSeq(slots, 1, Len(slots))
    <2>1. s \in Seq(BatchRows) /\ Len(s) = Len(slots) /\ \A i \in 1..Len(s) : s[i] = slots[i]
      BY <1>1
    <2>. HIDE DEF s
    <2>2. s = slots
      BY <1>1, <2>1, SeqEqual
    <2>. QED  BY <2>2 DEF s
  <1>5. table' = [kept |-> Len(before), rows |-> before \o slots]
    BY <1>2, <1>3, <1>4
  <1>6. table' # NULL
    <2>1. before \in Seq(BatchRows \cup RangeOf(Existing)) /\ Len(before) \in Nat
      <3>1. Existing \in Seq(RangeOf(Existing))
        BY RowsAssumption
      <3>2. Existing \in Seq(BatchRows \cup RangeOf(Existing)) /\ <<>> \in Seq(BatchRows \cup RangeOf(Existing))
        BY <3>1
      <3>3. before \in Seq(BatchRows \cup RangeOf(Existing))
        BY <3>2
      <3>. QED  BY <3>3, LenProperties
    <2>2. before \o slots \in Seq(BatchRows \cup RangeOf(Existing))
      <3>1. slots \in Seq(BatchRows \cup RangeOf(Existing))
        BY <1>1
      <3>. HIDE DEF IInv
      <3>. QED  BY <2>1, <3>1, ConcatProperties
    <2>3. table' \in [kept : Nat, rows : Seq(BatchRows \cup RangeOf(Existing))]
      BY <1>5, <2>1, <2>2
    <2>. QED  BY <2>3, NullAssumption
  <1>. QED  BY <1>5, <1>6 DEF Take

\* PositionsAreFinal of a table.
FinalIn(result) ==
  /\ \A r \in returned : \A k \in DOMAIN r.rows :
       LET i == result.kept + r.begin + k - 1 IN
       i \in DOMAIN result.rows /\ result.rows[i] = r.rows[k]
  /\ \A i \in 1..result.kept : result.rows[i] = Existing[i]

\* The table that is made of the rows has them where they were.
LEMMA TakenInPlace ==
  ASSUME IInv, AllReturned, NEW before \in {<<>>, Existing},
         NEW result, result = [kept |-> Len(before), rows |-> before \o slots]
  PROVE  FinalIn(result)
  <1>1. slots \in Seq(BatchRows)
    BY NoGaps
  <1>2. before \in Seq(RangeOf(before)) /\ (before = <<>> \/ before = Existing)
    <2>1. CASE before = <<>>
      <3>1. <<>> \in Seq(RangeOf(<<>>))
        OBVIOUS
      <3>. QED  BY <2>1, <3>1
    <2>2. CASE before = Existing
      BY <2>2, RowsAssumption
    <2>. QED  BY <2>1, <2>2
  <1>. DEFINE m == Len(before)
              n == Len(slots)
              S == BatchRows \cup RangeOf(before)
  <1>3. m \in Nat /\ n \in Nat /\ DOMAIN slots = 1..n /\ before \in Seq(S) /\ slots \in Seq(S)
    BY <1>1, <1>2
  <1>. HIDE DEF S
  <1>4. /\ DOMAIN (before \o slots) = 1..(m + n)
        /\ \A i \in 1..(m + n) : (before \o slots)[i] = IF i <= m THEN before[i] ELSE slots[i - m]
    BY <1>3
  <1>. HIDE DEF m, n
  <1>5. result.kept = m /\ result.rows = before \o slots
    BY DEF m
  <1>6. ASSUME NEW r \in returned, NEW k \in DOMAIN r.rows
        PROVE  LET i == m + r.begin + k - 1 IN
               i \in 1..(m + n) /\ (before \o slots)[i] = r.rows[k]
    <2>1. Place(r, k) \in 1..n /\ slots[Place(r, k)] = r.rows[k]
      BY <1>3 DEF IInv, ReturnedInPlace
    <2>2. r.begin \in Nat \ {0} /\ k \in Nat
      <3>1. r \in Returns
        BY DEF IInv, TypeOK
      <3>. QED  BY <3>1, BatchTyped DEF Returns
    <2>. DEFINE j == Place(r, k)
                i == m + r.begin + k - 1
    <2>3. i = m + j /\ j \in 1..n
      BY <1>3, <2>1, <2>2 DEF Place
    <2>. HIDE DEF i, j
    <2>4. i \in 1..(m + n) /\ ~(i <= m) /\ i - m = j
      BY <1>3, <2>3
    <2>5. (before \o slots)[i] = slots[j]
      BY <1>4, <2>4
    <2>6. i \in 1..(m + n) /\ (before \o slots)[i] = r.rows[k]
      BY <2>1, <2>4, <2>5 DEF j
    <2>. QED  BY <2>6 DEF i
  <1>7. ASSUME NEW i \in 1..m  PROVE (before \o slots)[i] = Existing[i]
    <2>1. i \in 1..(m + n) /\ i <= m /\ m # 0
      BY <1>3
    <2>2. before = Existing
      BY <1>2, <2>1 DEF m
    <2>. QED  BY <1>4, <2>1, <2>2
  <1>. QED  BY <1>4, <1>5, <1>6, <1>7 DEF FinalIn

-----------------------------------------------------------------------------
(* The invariant is inductive.                                             *)

\* Nothing happens any more when there is a table.
LEMMA MadeInTheEnd ==
  ASSUME IInv, [Next]_vars, table # NULL
  PROVE  UNCHANGED vars
  <1>1. \A p \in Producers : call[p] = NULL
    BY DEF IInv, TableLast, AllReturned
  <1>. QED  BY <1>1 DEF Next, Validate, Produce, Reserve, Write, Return, IntoTable, AppendTo, Take

LEMMA ValidateKeeps ==
  ASSUME IInv, NEW p \in Producers, NEW batch \in Inputs, Validate(p, batch)
  PROVE  IInv'
  <1>. USE DEF IInv
  <1>1. /\ call[p] = NULL /\ table = NULL
        /\ call'[p] \in Calls /\ call'[p] # NULL /\ call'[p].begin = 0 /\ call'[p].done = 0
        /\ \A q \in Producers : q # p => call'[q] = call[q]
        /\ UNCHANGED <<slots, returned, table>>
    BY ValidateStep
  <1>2. TypeOK'
    <2>1. call' \in [Producers -> Calls \cup {NULL}]
      <3>1. \A q \in Producers : call'[q] \in Calls \cup {NULL}
        BY <1>1 DEF TypeOK
      <3>2. call' = [q \in Producers |-> call'[q]]
        BY DEF Validate, TypeOK
      <3>. QED  BY <3>1, <3>2
    <2>. QED  BY <1>1, <2>1 DEF TypeOK
  <1>3. Len(call'[p].rows) \in Nat
    BY <1>1, BatchTyped DEF Calls
  <1>4. CallsInPlace'
    <2>. SUFFICES ASSUME NEW q \in Producers, call'[q] # NULL
         PROVE /\ call'[q].done <= Len(call'[q].rows)
               /\ call'[q].begin = 0 => call'[q].done = 0
               /\ call'[q].begin # 0 => \A k \in 1..Len(call'[q].rows) :
                    /\ Place(call'[q], k) \in DOMAIN slots'
                    /\ slots'[Place(call'[q], k)] = IF k <= call'[q].done THEN call'[q].rows[k] ELSE NULL
      BY DEF CallsInPlace, Place
    <2>1. CASE q = p
      BY <1>1, <1>3, <2>1
    <2>2. CASE q # p
      BY <1>1, <2>2 DEF CallsInPlace, Place
    <2>. QED  BY <2>1, <2>2
  <1>5. \A q \in Producers : Reserved(q)' => q # p /\ Reserved(q) /\ call'[q] = call[q]
    BY <1>1 DEF Reserved
  <1>6. CallsApart'
    BY <1>1, <1>5 DEF CallsApart, Place
  <1>7. ReturnedInPlace'
    BY <1>1 DEF ReturnedInPlace, Place
  <1>8. GapsClaimed'
    <2>. SUFFICES ASSUME NEW i \in DOMAIN slots, slots[i] = NULL
         PROVE  \E q \in Producers :
                  Reserved(q)' /\ \E k \in 1..Len(call'[q].rows) : i = Place(call'[q], k)
      BY <1>1 DEF GapsClaimed, Place
    <2>1. PICK q \in Producers :
            Reserved(q) /\ \E k \in 1..Len(call[q].rows) : i = Place(call[q], k)
      BY DEF GapsClaimed
    <2>2. q # p /\ call'[q] = call[q]
      BY <1>1, <2>1 DEF Reserved
    <2>3. Reserved(q)'
      BY <2>1, <2>2 DEF Reserved
    <2>. QED  BY <2>1, <2>2, <2>3
  <1>9. TableLast'
    BY <1>1 DEF TableLast
  <1>. QED  BY <1>2, <1>4, <1>6, <1>7, <1>8, <1>9

LEMMA ReserveKeeps ==
  ASSUME IInv, NEW p \in Producers, Reserve(p)
  PROVE  IInv'
  <1>. USE DEF IInv
  <1>1. /\ call[p] # NULL /\ call[p].begin = 0
        /\ call'[p] \in Calls /\ call'[p] # NULL
        /\ call'[p].rows = call[p].rows /\ call'[p].done = call[p].done
        /\ call'[p].begin = Len(slots) + 1
        /\ \A q \in Producers : q # p => call'[q] = call[q]
        /\ slots' = slots \o [i \in DOMAIN call[p].rows |-> NULL]
        /\ UNCHANGED <<returned, table>>
    BY ReserveStep
  <1>2. call[p].rows \in Batches /\ Len(call[p].rows) \in Nat /\ call[p].done = 0
    BY <1>1, CallTyped DEF CallsInPlace
  <1>. DEFINE n == Len(slots)
              m == Len(call[p].rows)
  <1>3. /\ slots' \in Seq(BatchRows \cup {NULL})
        /\ Len(slots') = n + m
        /\ \A i \in 1..n : slots'[i] = slots[i]
        /\ \A i \in (n + 1)..(n + m) : slots'[i] = NULL
    BY <1>1, <1>2, SlotsReserved
  <1>4. n \in Nat /\ m \in Nat /\ DOMAIN slots = 1..n /\ DOMAIN slots' = 1..(n + m)
    <2>1. n \in Nat /\ m \in Nat /\ DOMAIN slots = 1..n
      BY <1>2 DEF TypeOK
    <2>2. DOMAIN slots' = 1..Len(slots')
      BY <1>3
    <2>. QED  BY <1>3, <2>1, <2>2
  <1>5. call'[p].begin = n + 1 /\ Len(call'[p].rows) = m
    BY <1>1
  <1>. HIDE DEF n, m
  <1>6. \A i \in DOMAIN slots : i \in DOMAIN slots' /\ slots'[i] = slots[i]
    BY <1>3, <1>4
  <1>7. TypeOK'
    <2>1. \A q \in Producers : call'[q] \in Calls \cup {NULL}
      BY <1>1 DEF TypeOK
    <2>2. call' = [q \in Producers |-> call'[q]]
      BY DEF Reserve, TypeOK
    <2>3. call' \in [Producers -> Calls \cup {NULL}]
      BY <2>1, <2>2
    <2>. QED  BY <1>1, <1>3, <2>3 DEF TypeOK
  <1>8. \A k \in 1..m : Place(call'[p], k) = n + k /\ Place(call'[p], k) \in (n + 1)..(n + m)
    <2>. TAKE k \in 1..m
    <2>1. Place(call'[p], k) = n + 1 + k - 1
      BY <1>5 DEF Place
    <2>. QED  BY <1>4, <2>1
  <1>9. \A q \in Producers : call[q] # NULL /\ call[q].begin # 0 =>
          \A k \in 1..Len(call[q].rows) : Place(call[q], k) \in 1..n
    BY <1>4 DEF CallsInPlace
  <1>10. CallsInPlace'
    <2>. SUFFICES ASSUME NEW q \in Producers, call'[q] # NULL
         PROVE /\ call'[q].done <= Len(call'[q].rows)
               /\ call'[q].begin = 0 => call'[q].done = 0
               /\ call'[q].begin # 0 => \A k \in 1..Len(call'[q].rows) :
                    /\ Place(call'[q], k) \in DOMAIN slots'
                    /\ slots'[Place(call'[q], k)] = IF k <= call'[q].done THEN call'[q].rows[k] ELSE NULL
      BY DEF CallsInPlace, Place
    <2>1. CASE q = p
      <3>1. call'[p].done = 0
        BY <1>1, <1>2
      <3>2. \A k \in 1..m : Place(call'[p], k) \in 1..(n + m) /\ slots'[Place(call'[p], k)] = NULL
                           /\ ~(k <= 0)
        BY <1>3, <1>4, <1>8
      <3>. QED  BY <1>4, <1>5, <2>1, <3>1, <3>2
    <2>2. CASE q # p
      <3>1. call'[q] = call[q] /\ call[q] # NULL
        BY <1>1, <2>2
      <3>2. /\ call[q].done <= Len(call[q].rows)
            /\ call[q].begin = 0 => call[q].done = 0
            /\ call[q].begin # 0 => \A k \in 1..Len(call[q].rows) :
                 /\ Place(call[q], k) \in DOMAIN slots
                 /\ slots[Place(call[q], k)] = IF k <= call[q].done THEN call[q].rows[k] ELSE NULL
        BY <3>1 DEF CallsInPlace
      <3>. QED  BY <1>6, <3>1, <3>2
    <2>. QED  BY <2>1, <2>2
  <1>11. CallsApart'
    <2>. SUFFICES ASSUME NEW q \in Producers, NEW r \in Producers, q # r, Reserved(q)', Reserved(r)',
                         NEW k \in 1..Len(call'[q].rows), NEW l \in 1..Len(call'[r].rows)
         PROVE  Place(call'[q], k) # Place(call'[r], l)
      BY DEF CallsApart, Place
    <2>1. CASE q # p /\ r # p
      <3>1. call'[q] = call[q] /\ call'[r] = call[r]
        BY <1>1, <2>1
      <3>2. Reserved(q) /\ Reserved(r)
        BY <3>1 DEF Reserved
      <3>3. k \in 1..Len(call[q].rows) /\ l \in 1..Len(call[r].rows)
        BY <3>1
      <3>4. Place(call[q], k) # Place(call[r], l)
        BY <3>2, <3>3 DEF CallsApart
      <3>. QED  BY <3>1, <3>4
    <2>2. CASE q = p
      <3>1. Place(call'[q], k) \in (n + 1)..(n + m)
        BY <1>5, <1>8, <2>2
      <3>2. Place(call'[r], l) \in 1..n
        BY <1>1, <1>9, <2>2 DEF Reserved
      <3>. QED  BY <1>4, <3>1, <3>2
    <2>3. CASE r = p
      <3>1. Place(call'[r], l) \in (n + 1)..(n + m)
        BY <1>5, <1>8, <2>3
      <3>2. Place(call'[q], k) \in 1..n
        BY <1>1, <1>9, <2>3 DEF Reserved
      <3>. QED  BY <1>4, <3>1, <3>2
    <2>. QED  BY <2>1, <2>2, <2>3
  <1>12. ReturnedInPlace'
    BY <1>1, <1>6 DEF ReturnedInPlace, Place
  <1>13. GapsClaimed'
    <2>. SUFFICES ASSUME NEW i \in 1..(n + m), slots'[i] = NULL
         PROVE  \E q \in Producers :
                  Reserved(q)' /\ \E k \in 1..Len(call'[q].rows) : i = Place(call'[q], k)
      BY <1>4 DEF GapsClaimed, Place
    <2>1. CASE i \in 1..n
      <3>1. slots[i] = NULL /\ i \in DOMAIN slots
        BY <1>4, <1>6, <2>1
      <3>2. PICK q \in Producers :
              Reserved(q) /\ \E k \in 1..Len(call[q].rows) : i = Place(call[q], k)
        BY <3>1 DEF GapsClaimed
      <3>3. q # p /\ call'[q] = call[q]
        BY <1>1, <3>2 DEF Reserved
      <3>4. Reserved(q)'
        BY <3>2, <3>3 DEF Reserved
      <3>. QED  BY <3>2, <3>3, <3>4
    <2>2. CASE i \in (n + 1)..(n + m)
      <3>1. i - n \in 1..m /\ n + (i - n) = i
        BY <1>4, <2>2
      <3>2. Place(call'[p], i - n) = i
        BY <1>8, <3>1
      <3>3. Reserved(p)'
        BY <1>1, <1>4, <1>5 DEF Reserved
      <3>. QED  BY <1>5, <3>1, <3>2, <3>3
    <2>3. i \in 1..n \/ i \in (n + 1)..(n + m)
      BY <1>4
    <2>. QED  BY <2>1, <2>2, <2>3
  <1>14. TableLast'
    BY <1>1 DEF TableLast, AllReturned
  <1>. QED  BY <1>7, <1>10, <1>11, <1>12, <1>13, <1>14

LEMMA WriteKeeps ==
  ASSUME IInv, NEW p \in Producers, Write(p)
  PROVE  IInv'
  <1>. USE DEF IInv
  <1>1. /\ Reserved(p) /\ call[p].done < Len(call[p].rows)
        /\ call'[p] \in Calls /\ call'[p] # NULL
        /\ call'[p].rows = call[p].rows /\ call'[p].begin = call[p].begin
        /\ call'[p].done = call[p].done + 1
        /\ \A q \in Producers : q # p => call'[q] = call[q]
        /\ slots' \in Seq(BatchRows \cup {NULL}) /\ Len(slots') = Len(slots)
        /\ DOMAIN slots' = DOMAIN slots
        /\ \A i \in DOMAIN slots :
             slots'[i] = IF i = Place(call[p], call[p].done + 1)
                         THEN call[p].rows[call[p].done + 1] ELSE slots[i]
        /\ UNCHANGED <<returned, table>>
    BY WriteStep
  <1>2. /\ call[p] # NULL /\ call[p].begin # 0 /\ call[p].begin \in Nat
        /\ Len(call[p].rows) \in Nat /\ call[p].done \in Nat
        /\ \A k \in 1..Len(call[p].rows) : call[p].rows[k] # NULL
    BY <1>1, CallTyped DEF Reserved
  <1>. DEFINE d == call[p].done + 1
              w == Place(call[p], d)
  <1>3. /\ d \in 1..Len(call[p].rows) /\ d \in Nat
        /\ \A k \in 1..Len(call[p].rows) : k <= d <=> (k <= call[p].done \/ k = d)
        /\ ~(d <= call[p].done)
    BY <1>1, <1>2
  <1>4. \A q \in Producers :
          /\ Reserved(q)' <=> Reserved(q)
          /\ call'[q] # NULL <=> call[q] # NULL
          /\ call[q] # NULL =>
               /\ call'[q].rows = call[q].rows /\ call'[q].begin = call[q].begin
               /\ \A k : Place(call'[q], k) = Place(call[q], k)
    BY <1>1, <1>2 DEF Reserved, Place
  <1>5. \A k \in 1..Len(call[p].rows) : Place(call[p], k) = w => k = d
    BY <1>2, <1>3 DEF Place
  <1>6. w \in DOMAIN slots /\ slots[w] = NULL
    BY <1>2, <1>3 DEF CallsInPlace
  <1>7. call'[p].done = d /\ slots'[w] = call[p].rows[d]
        /\ \A i \in DOMAIN slots : i # w => slots'[i] = slots[i]
    BY <1>1, <1>6
  <1>8. Place(call[p], d) = w
    OBVIOUS
  <1>. HIDE DEF d, w
  <1>9. TypeOK'
    <2>1. \A q \in Producers : call'[q] \in Calls \cup {NULL}
      BY <1>1 DEF TypeOK
    <2>2. call' = [q \in Producers |-> call'[q]]
      BY DEF Write, TypeOK
    <2>3. call' \in [Producers -> Calls \cup {NULL}]
      BY <2>1, <2>2
    <2>. QED  BY <1>1, <2>3 DEF TypeOK
  <1>10. CallsInPlace'
    <2>. SUFFICES ASSUME NEW q \in Producers, call'[q] # NULL
         PROVE /\ call'[q].done <= Len(call'[q].rows)
               /\ call'[q].begin = 0 => call'[q].done = 0
               /\ call'[q].begin # 0 => \A k \in 1..Len(call'[q].rows) :
                    /\ Place(call'[q], k) \in DOMAIN slots'
                    /\ slots'[Place(call'[q], k)] = IF k <= call'[q].done THEN call'[q].rows[k] ELSE NULL
      BY DEF CallsInPlace, Place
    <2>0. /\ call[q] # NULL /\ call[q].done <= Len(call[q].rows)
          /\ call[q].begin = 0 => call[q].done = 0
          /\ call[q].begin # 0 => \A k \in 1..Len(call[q].rows) :
               /\ Place(call[q], k) \in DOMAIN slots
               /\ slots[Place(call[q], k)] = IF k <= call[q].done THEN call[q].rows[k] ELSE NULL
      BY <1>4 DEF CallsInPlace
    <2>1. CASE q = p
      <3>1. ASSUME NEW k \in 1..Len(call[p].rows)
            PROVE  slots'[Place(call[p], k)] = IF k <= d THEN call[p].rows[k] ELSE NULL
        <4>1. CASE k = d
          BY <1>3, <1>7, <1>8, <4>1
        <4>2. CASE k # d
          <5>1. Place(call[p], k) # w /\ Place(call[p], k) \in DOMAIN slots
            BY <1>2, <1>5, <2>0, <2>1, <4>2
          <5>2. k <= d <=> k <= call[p].done
            BY <1>3, <4>2
          <5>. QED  BY <1>2, <1>7, <2>0, <2>1, <5>1, <5>2
        <4>. QED  BY <4>1, <4>2
      <3>2. d <= Len(call[p].rows)
        BY <1>2, <1>3
      <3>3. /\ call'[p].done <= Len(call'[p].rows)
            /\ call'[p].begin # 0 /\ Len(call'[p].rows) = Len(call[p].rows)
        BY <1>1, <1>2, <1>7, <3>2
      <3>4. ASSUME NEW k \in 1..Len(call[p].rows)
            PROVE  /\ Place(call'[p], k) \in DOMAIN slots'
                   /\ slots'[Place(call'[p], k)] = IF k <= call'[p].done THEN call'[p].rows[k] ELSE NULL
        <4>1. Place(call'[p], k) = Place(call[p], k) /\ call'[p].rows = call[p].rows /\ call'[p].done = d
          BY <1>1, <1>2, <1>4, <1>7
        <4>2. Place(call[p], k) \in DOMAIN slots'
          BY <1>1, <1>2, <2>0, <2>1
        <4>. QED  BY <3>1, <4>1, <4>2
      <3>. QED  BY <2>1, <3>3, <3>4
    <2>2. CASE q # p
      <3>1. call'[q] = call[q]
        BY <1>1, <2>2
      <3>2. ASSUME call[q].begin # 0, NEW k \in 1..Len(call[q].rows)  PROVE Place(call[q], k) # w
        BY <1>1, <1>3, <1>8, <2>0, <2>2, <3>2 DEF CallsApart, Reserved
      <3>. QED  BY <1>1, <1>7, <2>0, <3>1, <3>2
    <2>. QED  BY <2>1, <2>2
  <1>11. CallsApart'
    <2>. SUFFICES ASSUME NEW q \in Producers, NEW r \in Producers, q # r, Reserved(q)', Reserved(r)',
                         NEW k \in 1..Len(call'[q].rows), NEW l \in 1..Len(call'[r].rows)
         PROVE  Place(call'[q], k) # Place(call'[r], l)
      BY DEF CallsApart, Place
    <2>1. Reserved(q) /\ Reserved(r) /\ call[q] # NULL /\ call[r] # NULL
      BY <1>4 DEF Reserved
    <2>2. /\ k \in 1..Len(call[q].rows) /\ l \in 1..Len(call[r].rows)
          /\ Place(call'[q], k) = Place(call[q], k) /\ Place(call'[r], l) = Place(call[r], l)
      BY <1>4, <2>1
    <2>3. Place(call[q], k) # Place(call[r], l)
      BY <2>1, <2>2 DEF CallsApart
    <2>. QED  BY <2>2, <2>3
  <1>12. ReturnedInPlace'
    <2>. SUFFICES ASSUME NEW r \in returned, NEW k \in DOMAIN r.rows
         PROVE  Place(r, k) \in DOMAIN slots' /\ slots'[Place(r, k)] = r.rows[k]
      BY <1>1 DEF ReturnedInPlace, Place
    <2>1. Place(r, k) \in DOMAIN slots /\ slots[Place(r, k)] = r.rows[k]
      BY DEF ReturnedInPlace
    <2>2. r.rows[k] # NULL
      <3>1. r.rows \in Batches
        BY DEF TypeOK, Returns
      <3>. QED  BY <3>1, BatchTyped, BatchFits
    <2>. QED  BY <1>1, <1>6, <1>7, <2>1, <2>2
  <1>13. GapsClaimed'
    <2>. SUFFICES ASSUME NEW i \in DOMAIN slots, slots'[i] = NULL
         PROVE  \E q \in Producers :
                  Reserved(q)' /\ \E k \in 1..Len(call'[q].rows) : i = Place(call'[q], k)
      BY <1>1 DEF GapsClaimed, Place
    <2>1. slots[i] = NULL
      BY <1>2, <1>3, <1>7
    <2>2. PICK q \in Producers :
            Reserved(q) /\ \E k \in 1..Len(call[q].rows) : i = Place(call[q], k)
      BY <2>1 DEF GapsClaimed
    <2>3. call[q] # NULL
      BY <2>2 DEF Reserved
    <2>. QED  BY <1>4, <2>2, <2>3
  <1>14. TableLast'
    BY <1>1, <1>2 DEF TableLast, AllReturned
  <1>. QED  BY <1>9, <1>10, <1>11, <1>12, <1>13, <1>14

LEMMA ReturnKeeps ==
  ASSUME IInv, NEW p \in Producers, Return(p)
  PROVE  IInv'
  <1>. USE DEF IInv
  <1>1. /\ Reserved(p) /\ call[p].done = Len(call[p].rows)
        /\ call'[p] = NULL /\ \A q \in Producers : q # p => call'[q] = call[q]
        /\ returned' = returned \cup {[rows |-> call[p].rows, begin |-> call[p].begin]}
        /\ [rows |-> call[p].rows, begin |-> call[p].begin] \in Returns
        /\ UNCHANGED <<slots, table>>
    BY ReturnStep
  <1>2. /\ call[p] # NULL /\ call[p].begin # 0 /\ Len(call[p].rows) \in Nat
        /\ DOMAIN call[p].rows = 1..Len(call[p].rows)
        /\ \A k \in 1..Len(call[p].rows) : call[p].rows[k] # NULL
    BY <1>1, CallTyped DEF Reserved
  <1>3. \A k \in 1..Len(call[p].rows) :
          Place(call[p], k) \in DOMAIN slots /\ slots[Place(call[p], k)] = call[p].rows[k]
    BY <1>1, <1>2 DEF CallsInPlace
  <1>4. TypeOK'
    <2>1. \A q \in Producers : call'[q] \in Calls \cup {NULL}
      BY <1>1 DEF TypeOK
    <2>2. call' = [q \in Producers |-> call'[q]]
      BY DEF Return, TypeOK
    <2>3. call' \in [Producers -> Calls \cup {NULL}]
      BY <2>1, <2>2
    <2>. QED  BY <1>1, <2>3 DEF TypeOK
  <1>5. \A q \in Producers : call'[q] # NULL => q # p /\ call'[q] = call[q]
    BY <1>1
  <1>6. CallsInPlace'
    BY <1>1, <1>5 DEF CallsInPlace, Place
  <1>7. CallsApart'
    BY <1>5 DEF CallsApart, Reserved, Place
  <1>8. ReturnedInPlace'
    <2>. SUFFICES ASSUME NEW r \in returned', NEW k \in DOMAIN r.rows
         PROVE  Place(r, k) \in DOMAIN slots /\ slots[Place(r, k)] = r.rows[k]
      BY <1>1 DEF ReturnedInPlace, Place
    <2>1. CASE r \in returned
      BY <2>1 DEF ReturnedInPlace
    <2>2. CASE r = [rows |-> call[p].rows, begin |-> call[p].begin]
      BY <1>2, <1>3, <2>2 DEF Place
    <2>. QED  BY <1>1, <2>1, <2>2
  <1>9. GapsClaimed'
    <2>. SUFFICES ASSUME NEW i \in DOMAIN slots, slots[i] = NULL
         PROVE  \E q \in Producers :
                  Reserved(q)' /\ \E k \in 1..Len(call'[q].rows) : i = Place(call'[q], k)
      BY <1>1 DEF GapsClaimed, Place
    <2>1. PICK q \in Producers :
            Reserved(q) /\ \E k \in 1..Len(call[q].rows) : i = Place(call[q], k)
      BY DEF GapsClaimed
    <2>2. q # p
      BY <1>2, <1>3, <2>1
    <2>3. call'[q] = call[q]
      BY <1>1, <2>2
    <2>4. Reserved(q)'
      BY <2>1, <2>3 DEF Reserved
    <2>. QED  BY <2>1, <2>3, <2>4
  <1>10. TableLast'
    BY <1>1, <1>2 DEF TableLast, AllReturned
  <1>. QED  BY <1>4, <1>6, <1>7, <1>8, <1>9, <1>10

LEMMA TakeKeeps ==
  ASSUME IInv, NEW before \in {<<>>, Existing}, Take(before)
  PROVE  IInv'
  <1>1. /\ AllReturned /\ table = NULL
        /\ table' = [kept |-> Len(before), rows |-> before \o slots]
        /\ UNCHANGED <<slots, call, returned>>
    BY TakeStep
  <1>2. AllReturned'
    BY <1>1 DEF AllReturned
  <1>3. PositionsAreFinal'
    <2>0. PICK result : result = table'
      OBVIOUS
    <2>1. result = [kept |-> Len(before), rows |-> before \o slots]
      BY <1>1, <2>0
    <2>2. FinalIn(result)
      BY <1>1, <2>1, TakenInPlace
    <2>3. FinalIn(result)'
      BY <1>1, <2>2 DEF FinalIn
    <2>4. ASSUME NEW r \in returned', NEW k \in DOMAIN r.rows
          PROVE  LET i == table'.kept + r.begin + k - 1 IN
                 i \in DOMAIN table'.rows /\ table'.rows[i] = r.rows[k]
      BY <2>0, <2>3 DEF FinalIn
    <2>5. ASSUME NEW i \in 1..table'.kept  PROVE table'.rows[i] = Existing[i]
      BY <2>0, <2>3 DEF FinalIn
    <2>6. /\ \A r \in returned' : \A k \in DOMAIN r.rows :
               LET i == table'.kept + r.begin + k - 1 IN
               i \in DOMAIN table'.rows /\ table'.rows[i] = r.rows[k]
          /\ \A i \in 1..table'.kept : table'.rows[i] = Existing[i]
      BY ONLY <2>4, <2>5
    <2>. QED  BY ONLY <2>6 DEF PositionsAreFinal
  <1>4. TypeOK'
    BY <1>1 DEF IInv, TypeOK
  <1>5. CallsInPlace'
    BY <1>1 DEF IInv, CallsInPlace, Place
  <1>6. CallsApart'
    BY <1>1 DEF IInv, CallsApart, Reserved, Place
  <1>7. ReturnedInPlace'
    BY <1>1 DEF IInv, ReturnedInPlace, Place
  <1>8. GapsClaimed'
    BY <1>1 DEF IInv, GapsClaimed, Reserved, Place
  <1>9. TableLast'
    BY <1>2, <1>3 DEF TableLast
  <1>. QED  BY <1>4, <1>5, <1>6, <1>7, <1>8, <1>9 DEF IInv

LEMMA RefuseKeeps ==
  ASSUME IInv, AllReturned, table' = [kept |-> Len(Existing), rows |-> Existing],
         slots' = <<>>, returned' = {}, UNCHANGED call
  PROVE  IInv'
  <1>1. \A p \in Producers : call'[p] = NULL
    BY DEF AllReturned
  <1>2. TypeOK'
    BY DEF IInv, TypeOK
  <1>3. PositionsAreFinal'
    BY DEF PositionsAreFinal
  <1>. QED
    BY <1>1, <1>2, <1>3
       DEF IInv, CallsInPlace, CallsApart, Reserved, ReturnedInPlace, GapsClaimed, TableLast, AllReturned

LEMMA Inductive == Spec => []IInv
  <1>1. Init => IInv
    BY DEF Init, IInv, TypeOK, CallsInPlace, CallsApart, Reserved, ReturnedInPlace, GapsClaimed, TableLast
  <1>2. IInv /\ [Next]_vars => IInv'
    <2>. SUFFICES ASSUME IInv, [Next]_vars  PROVE IInv'
      OBVIOUS
    <2>1. CASE UNCHANGED vars
      BY <2>1 DEF vars, IInv, TypeOK, CallsInPlace, CallsApart, Reserved, ReturnedInPlace,
                  GapsClaimed, TableLast, AllReturned, PositionsAreFinal
    <2>2. CASE IntoTable
      BY <2>2, TakeKeeps DEF IntoTable
    <2>3. ASSUME NEW target \in Targets, AppendTo(target)  PROVE IInv'
      <3>1. CASE target = Schema
        BY <2>3, <3>1, TakeKeeps DEF AppendTo
      <3>2. CASE target # Schema
        BY <2>3, <3>2, RefuseKeeps DEF AppendTo
      <3>. QED  BY <3>1, <3>2
    <2>. QED
      BY <2>1, <2>2, <2>3, ValidateKeeps, ReserveKeeps, WriteKeeps, ReturnKeeps DEF Next, Produce
  <1>. QED  BY <1>1, <1>2, PTL DEF Spec

\* The position that push_row or extend_rows returned is where the rows are in
\* the table, however the calls of other producers overlapped with it.
THEOREM ReturnsAreFinal == Spec => []PositionsAreFinal
  <1>1. IInv => PositionsAreFinal
    BY DEF IInv, TableLast, PositionsAreFinal
  <1>. QED  BY Inductive, <1>1, PTL

-----------------------------------------------------------------------------
(* The log of calls.                                                       *)

\* The count of rows is the length of the prefix without gaps.
Counts(s, n) ==
  /\ n \in 0..Len(s)
  /\ \A i \in 1..n : s[i] # NULL
  /\ n < Len(s) => s[n + 1] = NULL

LEMMA CountExists ==
  ASSUME NEW s, Len(s) \in Nat
  PROVE  \E n \in 0..Len(s) : Counts(s, n)
  <1>. DEFINE ends == {n \in 0..Len(s) : n < Len(s) => s[n + 1] = NULL}
  <1>1. Len(s) \in ends /\ ends \in SUBSET Nat
    OBVIOUS
  <1>2. PICK n \in ends : \A m \in ends : n <= m
    <2>. HIDE DEF ends
    <2>. QED  BY <1>1, LeastNatural
  <1>3. ASSUME NEW i \in 1..n  PROVE s[i] # NULL
    <2>1. n \in 0..Len(s) /\ i - 1 \in 0..Len(s) /\ ~(n <= i - 1) /\ (i - 1) + 1 = i
      OBVIOUS
    <2>2. i - 1 \notin ends
      <3>. HIDE DEF ends
      <3>. QED  BY <1>2, <2>1
    <2>. QED  BY <2>1, <2>2
  <1>. QED  BY <1>2, <1>3 DEF Counts

LEMMA CountUnique ==
  ASSUME NEW s, Len(s) \in Nat, NEW m, NEW n, Counts(s, m), Counts(s, n)
  PROVE  m = n
  <1>1. m \in 0..Len(s) /\ n \in 0..Len(s)
    BY DEF Counts
  <1>2. ~(m < n)
    BY <1>1 DEF Counts
  <1>3. ~(n < m)
    BY <1>1 DEF Counts
  <1>. QED  BY <1>1, <1>2, <1>3

\* What a state's log and count are.
Logs ==
  /\ Logged \in Seq(BatchRows) /\ Len(Logged) = Len(slots)
  /\ \A i \in DOMAIN slots : slots[i] # NULL => Logged[i] = slots[i]
  /\ \A p \in Producers : Reserved(p) =>
       \A k \in 1..Len(call[p].rows) : Logged[Place(call[p], k)] = call[p].rows[k]
  /\ Counts(slots, RowCount)

LEMMA LogOfState ==
  ASSUME IInv
  PROVE  Logs
  <1>1. slots \in Seq(BatchRows \cup {NULL}) /\ Len(slots) \in Nat /\ DOMAIN slots = 1..Len(slots)
    BY DEF IInv, TypeOK
  <1>2. Counts(slots, RowCount)
    BY <1>1, CountExists DEF Counts, RowCount
  <1>3. ASSUME NEW i \in DOMAIN slots, slots[i] # NULL
        PROVE  RowAt(i) = slots[i] /\ RowAt(i) \in BatchRows
    BY <1>1, <1>3 DEF RowAt
  <1>4. ASSUME NEW p \in Producers, Reserved(p), NEW k \in 1..Len(call[p].rows)
        PROVE  /\ Place(call[p], k) \in DOMAIN slots
               /\ RowAt(Place(call[p], k)) = call[p].rows[k] /\ call[p].rows[k] \in BatchRows
    <2>1. /\ call[p] # NULL /\ call[p].begin # 0 /\ call[p].begin \in Nat
          /\ call[p].rows[k] \in BatchRows /\ Len(call[p].rows) \in Nat
      BY <1>4, CallTyped DEF IInv, Reserved
    <2>. DEFINE i == Place(call[p], k)
    <2>2. i \in DOMAIN slots /\ slots[i] = IF k <= call[p].done THEN call[p].rows[k] ELSE NULL
      BY <1>4, <2>1 DEF IInv, CallsInPlace
    <2>3. CASE slots[i] # NULL
      BY <1>3, <2>1, <2>2, <2>3
    <2>4. CASE slots[i] = NULL
      <3>. DEFINE Claims(q) == /\ call[q] # NULL /\ call[q].begin # 0
                               /\ i \in call[q].begin..(call[q].begin + Len(call[q].rows) - 1)
                  owner == CHOOSE q \in Producers : Claims(q)
      <3>1. Claims(p) /\ i - call[p].begin + 1 = k
        BY <2>1 DEF Place
      <3>2. owner \in Producers /\ Claims(owner)
        BY <3>1
      <3>. HIDE DEF owner
      <3>3. /\ Reserved(owner) /\ call[owner].begin \in Nat
            /\ Len(call[owner].rows) \in Nat
        BY <3>2, CallTyped DEF IInv, Reserved
      <3>4. \E l \in 1..Len(call[owner].rows) : i = Place(call[owner], l)
        <4>. DEFINE b == call[owner].begin
                    n == Len(call[owner].rows)
        <4>1. b \in Nat /\ n \in Nat /\ i \in b..(b + n - 1)
          BY <3>2, <3>3
        <4>. HIDE DEF b, n, i
        <4>2. i - b + 1 \in 1..n /\ i = b + (i - b + 1) - 1
          BY <4>1
        <4>. QED  BY <4>2 DEF Place, b, n
      <3>5. owner = p
        BY <1>4, <3>2, <3>3, <3>4 DEF IInv, CallsApart
      <3>6. RowAt(i) = call[owner].rows[i - call[owner].begin + 1]
        BY <2>4 DEF RowAt, owner
      <3>. QED  BY <2>1, <2>2, <3>1, <3>5, <3>6
    <2>. QED  BY <2>3, <2>4
  <1>5. \A i \in DOMAIN slots : RowAt(i) \in BatchRows
    BY <1>3, <1>4 DEF IInv, GapsClaimed
  <1>6. Logged \in Seq(BatchRows) /\ Len(Logged) = Len(slots)
        /\ \A i \in DOMAIN slots : Logged[i] = RowAt(i)
    BY <1>1, <1>5 DEF Logged
  <1>. QED  BY <1>2, <1>3, <1>4, <1>6 DEF Logs

LEMMA LogAfterwards ==
  ASSUME IInv'
  PROVE  Logs'
  BY LogOfState, PTL

\* A step that overwrites no row and forgets no call that still has to write
\* leaves the log as it is.
LEMMA LogStays ==
  ASSUME IInv, IInv', Len(slots') = Len(slots),
         \A i \in DOMAIN slots : slots[i] # NULL => slots'[i] = slots[i],
         \A q \in Producers : Reserved(q) =>
           \/ /\ Reserved(q)'
              /\ call'[q].rows = call[q].rows /\ call'[q].begin = call[q].begin
           \/ \A k \in 1..Len(call[q].rows) : slots[Place(call[q], k)] # NULL
  PROVE  Logged' = Logged
  <1>1. /\ Logged \in Seq(BatchRows) /\ Len(Logged) = Len(slots)
        /\ \A i \in DOMAIN slots : slots[i] # NULL => Logged[i] = slots[i]
        /\ \A p \in Producers : Reserved(p) =>
             \A k \in 1..Len(call[p].rows) : Logged[Place(call[p], k)] = call[p].rows[k]
    BY LogOfState DEF Logs
  <1>2. /\ Logged' \in Seq(BatchRows) /\ Len(Logged') = Len(slots')
        /\ \A i \in DOMAIN slots' : slots'[i] # NULL => Logged'[i] = slots'[i]
        /\ \A p \in Producers : Reserved(p)' =>
             \A k \in 1..Len(call'[p].rows) : Logged'[Place(call'[p], k)] = call'[p].rows[k]
    BY LogAfterwards DEF Logs, Place
  <1>3. DOMAIN slots = 1..Len(slots) /\ DOMAIN slots' = 1..Len(slots)
    BY DEF IInv, TypeOK
  <1>4. ASSUME NEW i \in 1..Len(slots)  PROVE Logged'[i] = Logged[i]
    <2>1. CASE slots[i] # NULL
      BY <1>1, <1>2, <1>3, <2>1
    <2>2. CASE slots[i] = NULL
      <3>1. PICK q \in Producers :
              Reserved(q) /\ \E k \in 1..Len(call[q].rows) : i = Place(call[q], k)
        BY <1>3, <2>2 DEF IInv, GapsClaimed
      <3>2. PICK k \in 1..Len(call[q].rows) : i = Place(call[q], k)
        BY <3>1
      <3>3. Reserved(q)' /\ call'[q].rows = call[q].rows /\ call'[q].begin = call[q].begin
        BY <2>2, <3>1, <3>2
      <3>4. Place(call'[q], k) = i
        BY <3>2, <3>3 DEF Place
      <3>. QED  BY <1>1, <1>2, <3>1, <3>2, <3>3, <3>4
    <2>. QED  BY <2>1, <2>2
  <1>. QED  BY <1>1, <1>2, <1>4, SeqEqual

\* Rows that appear leave the count or raise it.
LEMMA CountGrows ==
  ASSUME NEW s, NEW t, Len(s) \in Nat, Len(t) = Len(s),
         NEW m, NEW n, Counts(s, m), Counts(t, n),
         \A i \in 1..Len(s) : s[i] # NULL => t[i] # NULL
  PROVE  n = m \/ n \in (m + 1)..Len(s)
  <1>1. m \in 0..Len(s) /\ n \in 0..Len(s)
    BY DEF Counts
  <1>2. ~(n < m)
    <2>. SUFFICES ASSUME n < m  PROVE FALSE
      OBVIOUS
    <2>1. n + 1 \in 1..m /\ n + 1 \in 1..Len(s)
      BY <1>1
    <2>2. s[n + 1] # NULL /\ t[n + 1] = NULL
      BY <1>1, <2>1 DEF Counts
    <2>. QED  BY <2>1, <2>2
  <1>. QED  BY <1>1, <1>2

LEMMA LogUnchanged ==
  ASSUME IInv, UNCHANGED <<slots, call, table>>
  PROVE  UNCHANGED <<Logged, RowCount, Result>>
  BY DEF Logged, RowAt, RowCount, Result

LEMMA ValidateImplements ==
  ASSUME IInv, IInv', NEW p \in Producers, NEW batch \in Inputs, Validate(p, batch)
  PROVE  UNCHANGED <<Logged, RowCount, Result>>
  <1>1. /\ call[p] = NULL /\ \A q \in Producers : q # p => call'[q] = call[q]
        /\ UNCHANGED <<slots, table>>
    BY ValidateStep DEF IInv
  <1>2. \A q \in Producers : Reserved(q) => Reserved(q)' /\ call'[q] = call[q]
    BY <1>1 DEF Reserved
  <1>3. Logged' = Logged
    BY <1>1, <1>2, LogStays
  <1>. QED  BY <1>1, <1>3 DEF RowCount, Result

LEMMA ReturnImplements ==
  ASSUME IInv, IInv', NEW p \in Producers, Return(p)
  PROVE  UNCHANGED <<Logged, RowCount, Result>>
  <1>1. /\ Reserved(p) /\ call[p].done = Len(call[p].rows)
        /\ \A q \in Producers : q # p => call'[q] = call[q]
        /\ UNCHANGED <<slots, table>>
    BY ReturnStep DEF IInv
  <1>2. ASSUME NEW q \in Producers, Reserved(q), q # p
        PROVE  Reserved(q)' /\ call'[q] = call[q]
    BY <1>1, <1>2 DEF Reserved
  <1>3. \A k \in 1..Len(call[p].rows) : slots[Place(call[p], k)] # NULL
    <2>. TAKE k \in 1..Len(call[p].rows)
    <2>1. call[p] # NULL /\ call[p].begin # 0 /\ call[p].rows[k] # NULL /\ k <= call[p].done
      BY <1>1, CallTyped DEF Reserved, IInv
    <2>. QED  BY <2>1 DEF IInv, CallsInPlace
  <1>4. Logged' = Logged
    BY <1>1, <1>2, <1>3, LogStays
  <1>. QED  BY <1>1, <1>4 DEF RowCount, Result

LEMMA WriteImplements ==
  ASSUME IInv, IInv', NEW p \in Producers, Write(p)
  PROVE  UNCHANGED <<Logged, RowCount, Result>> \/ Log!Show
  <1>1. /\ Reserved(p) /\ call[p].done < Len(call[p].rows)
        /\ call'[p] # NULL /\ call'[p].rows = call[p].rows /\ call'[p].begin = call[p].begin
        /\ \A q \in Producers : q # p => call'[q] = call[q]
        /\ Len(slots') = Len(slots)
        /\ \A i \in DOMAIN slots :
             slots'[i] = IF i = Place(call[p], call[p].done + 1)
                         THEN call[p].rows[call[p].done + 1] ELSE slots[i]
        /\ UNCHANGED <<returned, table>>
    BY WriteStep DEF IInv
  <1>2. /\ call[p].done + 1 \in 1..Len(call[p].rows)
        /\ call[p].rows[call[p].done + 1] # NULL
        /\ slots[Place(call[p], call[p].done + 1)] = NULL
    <2>1. /\ call[p].done \in Nat /\ Len(call[p].rows) \in Nat
          /\ call[p] # NULL /\ call[p].begin # 0
          /\ \A k \in 1..Len(call[p].rows) : call[p].rows[k] # NULL
      BY <1>1, CallTyped DEF IInv, Reserved
    <2>2. call[p].done + 1 \in 1..Len(call[p].rows) /\ ~(call[p].done + 1 <= call[p].done)
      BY <1>1, <2>1
    <2>. QED  BY <2>1, <2>2 DEF IInv, CallsInPlace
  <1>3. \A i \in DOMAIN slots : slots[i] # NULL => slots'[i] = slots[i] /\ slots'[i] # NULL
    BY <1>1, <1>2
  <1>4. \A q \in Producers : Reserved(q) =>
          Reserved(q)' /\ call'[q].rows = call[q].rows /\ call'[q].begin = call[q].begin
    BY <1>1 DEF Reserved
  <1>5. Logged' = Logged
    BY <1>1, <1>3, <1>4, LogStays
  <1>6. Len(slots) \in Nat /\ DOMAIN slots = 1..Len(slots) /\ Len(Logged) = Len(slots)
        /\ Counts(slots, RowCount)
    BY LogOfState DEF IInv, TypeOK, Logs
  <1>7. Counts(slots', RowCount')
    BY LogAfterwards DEF Logs, Counts
  <1>8. RowCount' = RowCount \/ RowCount' \in (RowCount + 1)..Len(slots)
    BY <1>1, <1>3, <1>6, <1>7, CountGrows
  <1>. QED  BY <1>1, <1>5, <1>6, <1>8 DEF Log!Show, Result

LEMMA ReserveImplements ==
  ASSUME IInv, IInv', NEW p \in Producers, Reserve(p)
  PROVE  Log!Add(call[p].rows)
  <1>1. /\ call[p] # NULL /\ call[p].begin = 0
        /\ call'[p] # NULL /\ call'[p].rows = call[p].rows
        /\ call'[p].begin = Len(slots) + 1
        /\ \A q \in Producers : q # p => call'[q] = call[q]
        /\ slots' = slots \o [i \in DOMAIN call[p].rows |-> NULL]
        /\ UNCHANGED <<returned, table>>
    BY ReserveStep DEF IInv
  <1>2. table = NULL
    BY <1>1 DEF IInv, TableLast, AllReturned
  <1>. DEFINE n == Len(slots)
              batch == call[p].rows
              m == Len(batch)
  <1>3. /\ batch \in Batches /\ batch \in Seq(BatchRows) /\ m \in Nat
        /\ n \in Nat /\ DOMAIN slots = 1..n
    <2>1. batch \in Batches /\ m \in Nat
      BY <1>1, CallTyped DEF IInv
    <2>. QED  BY <2>1, BatchTyped DEF IInv, TypeOK
  <1>4. /\ slots' \in Seq(BatchRows \cup {NULL}) /\ Len(slots') = n + m
        /\ \A i \in 1..n : slots'[i] = slots[i]
        /\ \A i \in (n + 1)..(n + m) : slots'[i] = NULL
    BY <1>1, <1>3, SlotsReserved DEF IInv
  <1>5. /\ Logged \in Seq(BatchRows) /\ Len(Logged) = n
        /\ \A i \in 1..n : slots[i] # NULL => Logged[i] = slots[i]
        /\ \A q \in Producers : Reserved(q) =>
             \A k \in 1..Len(call[q].rows) : Logged[Place(call[q], k)] = call[q].rows[k]
        /\ Counts(slots, RowCount)
    BY <1>3, LogOfState DEF Logs
  <1>6. /\ Logged' \in Seq(BatchRows) /\ Len(Logged') = n + m
        /\ \A i \in 1..(n + m) : slots'[i] # NULL => Logged'[i] = slots'[i]
        /\ \A q \in Producers : Reserved(q)' =>
             \A k \in 1..Len(call'[q].rows) : Logged'[Place(call'[q], k)] = call'[q].rows[k]
        /\ Counts(slots', RowCount')
    BY <1>4, LogAfterwards DEF Logs, Place, Counts
  <1>7. Reserved(p)' /\ \A k \in 1..m : Place(call'[p], k) = n + k
    <2>1. call'[p].begin = n + 1
      BY <1>1
    <2>2. n + 1 # 0 /\ \A k \in 1..m : (n + 1) + k - 1 = n + k
      <3>. HIDE DEF n, m
      <3>. QED  BY <1>3
    <2>. QED  BY <1>1, <2>1, <2>2 DEF Reserved, Place
  <1>8. \A k \in 1..m : Logged'[n + k] = batch[k]
    BY <1>1, <1>6, <1>7
  <1>9. ASSUME NEW i \in 1..n  PROVE Logged'[i] = Logged[i]
    <2>1. i \in 1..(n + m)
      BY <1>3
    <2>2. CASE slots[i] # NULL
      BY <1>4, <1>5, <1>6, <2>1, <2>2
    <2>3. CASE slots[i] = NULL
      <3>1. PICK q \in Producers :
              Reserved(q) /\ \E k \in 1..Len(call[q].rows) : i = Place(call[q], k)
        BY <1>3, <2>3 DEF IInv, GapsClaimed
      <3>2. PICK k \in 1..Len(call[q].rows) : i = Place(call[q], k)
        BY <3>1
      <3>3. q # p
        BY <1>1, <3>1 DEF Reserved
      <3>4. Reserved(q)' /\ call'[q] = call[q]
        BY <1>1, <3>1, <3>3 DEF Reserved
      <3>. QED  BY <1>5, <1>6, <3>1, <3>2, <3>4
    <2>. QED  BY <2>2, <2>3
  <1>. HIDE DEF n, m, batch
  <1>10. Logged' = Logged \o batch
    <2>1. /\ Logged \o batch \in Seq(BatchRows) /\ Len(Logged \o batch) = n + m
          /\ \A i \in 1..(n + m) : (Logged \o batch)[i] = IF i <= n THEN Logged[i] ELSE batch[i - n]
      BY <1>3, <1>5 DEF m
    <2>2. ASSUME NEW i \in 1..(n + m)  PROVE Logged'[i] = (Logged \o batch)[i]
      <3>1. CASE i <= n
        <4>1. i \in 1..n
          BY <1>3, <3>1
        <4>. QED  BY <1>9, <2>1, <3>1, <4>1
      <3>2. CASE ~(i <= n)
        <4>1. i - n \in 1..m /\ n + (i - n) = i
          BY <1>3, <3>2
        <4>2. Logged'[i] = batch[i - n]
          BY <1>8, <4>1
        <4>. QED  BY <2>1, <3>2, <4>2
      <3>. QED  BY <3>1, <3>2
    <2>. QED  BY <1>6, <2>1, <2>2, SeqEqual
  <1>11. RowCount' = RowCount
    <2>. PICK c : c = RowCount
      OBVIOUS
    <2>1. Counts(slots, c) /\ c \in 0..n
      BY <1>5 DEF Counts, n
    <2>2. Counts(slots', c)
      <3>1. c \in 0..Len(slots') /\ \A i \in 1..c : i \in 1..n
        BY <1>3, <1>4, <2>1
      <3>2. \A i \in 1..c : slots'[i] # NULL
        BY <1>4, <2>1, <3>1 DEF Counts
      <3>3. ASSUME c < n + m  PROVE slots'[c + 1] = NULL
        <4>1. CASE c < n
          <5>1. c + 1 \in 1..n
            BY <1>3, <2>1, <4>1
          <5>. QED  BY <1>4, <2>1, <4>1, <5>1 DEF Counts, n
        <4>2. CASE ~(c < n)
          <5>1. c + 1 \in (n + 1)..(n + m)
            BY <1>3, <2>1, <3>3, <4>2
          <5>. QED  BY <1>4, <5>1
        <4>. QED  BY <4>1, <4>2
      <3>. QED  BY <1>4, <3>1, <3>2, <3>3 DEF Counts
    <2>3. Len(slots') \in Nat
      BY <1>3, <1>4
    <2>. QED  BY <1>6, <2>2, <2>3, CountUnique
  <1>. QED  BY <1>1, <1>2, <1>10, <1>11 DEF Log!Add, Result, batch

\* Without gaps the log is the rows, and all of them count.
LEMMA LogInTheEnd ==
  ASSUME IInv, AllReturned
  PROVE  Logged = slots /\ RowCount = Len(slots)
  <1>1. slots \in Seq(BatchRows) /\ DOMAIN slots = 1..Len(slots) /\ \A i \in DOMAIN slots : slots[i] # NULL
    BY NoGaps
  <1>2. Logged \in Seq(BatchRows) /\ Len(Logged) = Len(slots)
        /\ (\A i \in DOMAIN slots : slots[i] # NULL => Logged[i] = slots[i]) /\ Counts(slots, RowCount)
    BY LogOfState DEF Logs
  <1>3. Logged = slots
    <2>1. \A i \in 1..Len(slots) : Logged[i] = slots[i]
      BY <1>1, <1>2
    <2>. QED  BY <1>1, <1>2, <2>1, SeqEqual
  <1>4. Counts(slots, Len(slots)) /\ Len(slots) \in Nat
    BY <1>1 DEF Counts
  <1>5. RowCount = Len(slots)
    BY <1>2, <1>4, CountUnique
  <1>. QED  BY <1>3, <1>5

LEMMA TakeImplements ==
  ASSUME IInv, NEW before \in {<<>>, Existing}, Take(before)
  PROVE  Log!Take(before)
  <1>1. /\ AllReturned /\ table = NULL
        /\ table' = [kept |-> Len(before), rows |-> before \o slots] /\ table' # NULL
        /\ UNCHANGED <<slots, call>>
    BY TakeStep
  <1>2. Result = NULL /\ Result' = before \o slots
    BY <1>1 DEF Result
  <1>3. Logged' = Logged /\ RowCount' = RowCount
    BY <1>1 DEF Logged, RowAt, RowCount
  <1>4. Logged = slots /\ RowCount = Len(slots)
    BY <1>1, LogInTheEnd
  <1>. QED  BY <1>2, <1>3, <1>4 DEF Log!Take

LEMMA RefuseImplements ==
  ASSUME IInv, AllReturned, table = NULL,
         table' = [kept |-> Len(Existing), rows |-> Existing], slots' = <<>>, UNCHANGED call
  PROVE  Log!Refuse
  <1>1. table' # NULL
    <2>1. Existing \in Seq(RangeOf(Existing))
      BY RowsAssumption
    <2>2. Existing \in Seq(BatchRows \cup RangeOf(Existing)) /\ Len(Existing) \in Nat
      BY <2>1
    <2>3. table' \in [kept : Nat, rows : Seq(BatchRows \cup RangeOf(Existing))]
      BY <2>2
    <2>. QED  BY <2>3, NullAssumption
  <1>2. Result = NULL /\ Result' = Existing
    BY <1>1 DEF Result
  <1>3. Logged' = <<>>
    BY DEF Logged
  <1>4. RowCount' = 0
    <2>1. Len(slots') = 0
      OBVIOUS
    <2>. QED  BY <2>1 DEF RowCount
  <1>5. Logged = slots /\ RowCount = Len(slots)
    BY LogInTheEnd
  <1>. QED  BY <1>2, <1>3, <1>4, <1>5 DEF Log!Refuse

LEMMA StepImplements ==
  ASSUME IInv, IInv', [Next]_vars
  PROVE  [Log!Next]_<<Logged, RowCount, Result>>
  <1>1. CASE UNCHANGED vars
    <2>1. UNCHANGED <<slots, call, table>>
      BY <1>1 DEF vars
    <2>. QED  BY <2>1, LogUnchanged
  <1>2. ASSUME NEW p \in Producers, NEW batch \in Inputs, Validate(p, batch)
        PROVE  UNCHANGED <<Logged, RowCount, Result>>
    BY <1>2, ValidateImplements
  <1>3. ASSUME NEW p \in Producers, Reserve(p)  PROVE Log!Next
    <2>1. call[p].rows \in Batches
      BY <1>3, CallTyped DEF IInv, Reserve
    <2>. QED  BY <1>3, <2>1, ReserveImplements DEF Log!Next
  <1>4. ASSUME NEW p \in Producers, Write(p)
        PROVE  UNCHANGED <<Logged, RowCount, Result>> \/ Log!Next
    BY <1>4, WriteImplements DEF Log!Next
  <1>5. ASSUME NEW p \in Producers, Return(p)  PROVE UNCHANGED <<Logged, RowCount, Result>>
    BY <1>5, ReturnImplements
  <1>6. ASSUME NEW before \in {<<>>, Existing}, Take(before)  PROVE Log!Next
    BY <1>6, TakeImplements DEF Log!Next
  <1>7. CASE IntoTable
    <2>1. Take(<<>>) /\ <<>> \in {<<>>, Existing}
      BY <1>7 DEF IntoTable
    <2>. QED  BY <1>6, <2>1
  <1>8. ASSUME NEW target \in Targets, AppendTo(target)  PROVE Log!Next
    <2>1. CASE target = Schema
      BY <1>6, <1>8, <2>1 DEF AppendTo
    <2>2. CASE target # Schema
      BY <1>8, <2>2, RefuseImplements DEF AppendTo, Log!Next
    <2>. QED  BY <2>1, <2>2
  <1>. QED  BY <1>1, <1>2, <1>3, <1>4, <1>5, <1>7, <1>8 DEF Next, Produce

\* Calls are atomic: in whatever order their steps interleave, each adds all
\* its rows to one log at once, the row count only uncovers more of that log,
\* and the table that the builder is turned into is the whole of it.
THEOREM CallsAreAtomic == Spec => ImplementsLog
  <1>1. Init => Log!Init
    <2>. SUFFICES ASSUME Init  PROVE Log!Init
      OBVIOUS
    <2>1. slots = <<>> /\ table = NULL /\ Len(slots) = 0
      BY DEF Init
    <2>2. Logged = <<>> /\ RowCount = 0
      BY <2>1 DEF Logged, RowCount
    <2>. QED  BY <2>1, <2>2 DEF Log!Init, Result
  <1>2. IInv /\ IInv' /\ [Next]_vars => [Log!Next]_(Log!logVars)
    BY StepImplements DEF Log!logVars
  <1>3. Spec => Log!Spec
    BY <1>1, <1>2, Inductive, PTL DEF Spec, Log!Spec
  <1>. QED  BY <1>3 DEF ImplementsLog
===============================================================================
