----------------------------- MODULE FixedStrings -----------------------------
(***************************************************************************)
(* Fixed-capacity strings (table/fixed_string.rs): the cells of a column   *)
(* are slots of one byte buffer; a descriptor per row says where its slot  *)
(* starts and how much of it is text.  A mutable view of a column can be   *)
(* split; its descriptors keep their offsets into the whole buffer, and    *)
(* the view remembers which byte its own part of the buffer starts with.   *)
(*                                                                         *)
(* The loops of copy_rows and retain_live are modelled row by row.  Offsets*)
(* count from 0, sequences from 1.                                         *)
(***************************************************************************)
EXTENDS Naturals, Sequences, Subsequences

CONSTANTS
  Columns,     \* columns
  Layout,      \* Layout[c]: its capacity and nullability when it is created
  Bytes,       \* bytes
  ZERO,        \* the byte that new slots are filled with
  Texts,       \* texts: the sequences of bytes that are UTF-8
  Selections,  \* sequences of row positions that callers copy
  NULL,        \* no text; NULL_LENGTH as a length
  MaxRows      \* bound: column c grows to at most MaxRows[c] rows

\* ColumnSpec::fixed_string refuses a capacity of zero.
ASSUME LayoutAssumption ==
  Layout \in [Columns -> [capacity : Nat \ {0}, nullable : BOOLEAN]]

ASSUME TextsAssumption == ZERO \in Bytes /\ \A text \in Texts : text \in Seq(Bytes)

ASSUME NullAssumption == NULL \notin Nat /\ NULL \notin Texts

ASSUME SelectionsAssumption == \A rows \in Selections : rows \in Seq(Nat \ {0})

VARIABLES
  data,   \* data[c]: FixedStringData of column c
  views,  \* views[c]: the mutable views that column c is split into, or none
  loop    \* the copy or compaction that is in progress, or Idle

vars == <<data, views, loop>>

New(layout) ==
  [capacity |-> layout.capacity, nullable |-> layout.nullable, indices |-> <<>>, buffer |-> <<>>]

Rows(D) == Len(D.indices)

\* Column D with other rows.
WithRows(D, indices, buffer) ==
  [capacity |-> D.capacity, nullable |-> D.nullable, indices |-> indices, buffer |-> buffer]

Zeros(n) == [b \in 1..n |-> ZERO]

\* copy_from_slice and copy_within.
Overwrite(buffer, offset, bytes) ==
  [b \in DOMAIN buffer |->
     IF b \in (offset + 1)..(offset + Len(bytes)) THEN bytes[b - offset] ELSE buffer[b]]

Slice(buffer, offset, length) == SubSeq(buffer, offset + 1, offset + length)

LengthOf(value) == IF value = NULL THEN NULL ELSE Len(value)

\* What the table has validated before it pushes.
Fits(D, value) == IF value = NULL THEN D.nullable ELSE Len(value) <= D.capacity

\* FixedStrings::get.
TextOf(D, i) ==
  LET index == D.indices[i] IN
  IF index.length = NULL THEN NULL ELSE Slice(D.buffer, index.offset, index.length)

Contents(D) == [i \in 1..Rows(D) |-> TextOf(D, i)]

Idle == [kind |-> "idle"]

Init ==
  /\ data = [c \in Columns |-> New(Layout[c])]
  /\ views = [c \in Columns |-> {}]
  /\ loop = Idle

\* Nothing borrows the column.
Owned(c) == views[c] = {} /\ loop = Idle

-----------------------------------------------------------------------------
(* A column as a whole.                                                    *)

Pushed(D, value) ==
  LET offset == Len(D.buffer)
      grown == D.buffer \o Zeros(D.capacity)
  IN WithRows(D, Append(D.indices, [offset |-> offset, length |-> LengthOf(value)]),
              IF value = NULL THEN grown ELSE Overwrite(grown, offset, value))

Popped(D) ==
  LET last == D.indices[Rows(D)] IN
  WithRows(D, SubSeq(D.indices, 1, Rows(D) - 1), SubSeq(D.buffer, 1, last.offset))

CanAppend(D, E) == D.capacity = E.capacity /\ D.nullable = E.nullable

\* Mutant: the offsets of the other column are kept.
AppendedUnmoved(D, E) ==
  WithRows(D, D.indices \o E.indices, D.buffer \o E.buffer)

\* append and append_from.
Appended(D, E) ==
  LET base == Len(D.buffer)
      moved == [i \in DOMAIN E.indices |-> [E.indices[i] EXCEPT !.offset = @ + base]]
  IN WithRows(D, D.indices \o moved, D.buffer \o E.buffer)

Push(c, value) ==
  /\ Owned(c)
  /\ Fits(data[c], value)
  /\ Rows(data[c]) < MaxRows[c]
  /\ data' = [data EXCEPT ![c] = Pushed(@, value)]
  /\ UNCHANGED <<views, loop>>

Pop(c) ==
  /\ Owned(c)
  /\ Rows(data[c]) > 0
  /\ data' = [data EXCEPT ![c] = Popped(@)]
  /\ UNCHANGED <<views, loop>>

AppendFrom(c, d) ==
  /\ Owned(c) /\ Owned(d)
  /\ CanAppend(data[c], data[d])
  /\ Rows(data[c]) + Rows(data[d]) <= MaxRows[c]
  /\ data' = [data EXCEPT ![c] = Appended(@, data[d])]
  /\ UNCHANGED <<views, loop>>

\* append uses the other column up.
AppendOwned(c, d) ==
  /\ Owned(c) /\ Owned(d)
  /\ CanAppend(data[c], data[d])
  /\ Rows(data[c]) + Rows(data[d]) <= MaxRows[c]
  /\ data' = [data EXCEPT ![c] = Appended(@, data[d]), ![d] = New(Layout[d])]
  /\ UNCHANGED <<views, loop>>

-----------------------------------------------------------------------------
(* Loops.                                                                  *)

\* Mutant: a long text is copied without the rest of its slot.
CopiedTight(D, result, i) ==
  LET index == D.indices[i]
      offset == Len(result.buffer)
      zeroed == result.buffer \o Zeros(D.capacity)
  IN WithRows(result, Append(result.indices, [offset |-> offset, length |-> index.length]),
       IF index.length = NULL THEN zeroed
       ELSE IF index.length > D.capacity \div 2
       THEN result.buffer \o Slice(D.buffer, index.offset, index.length)
       ELSE Overwrite(zeroed, offset, Slice(D.buffer, index.offset, index.length)))

\* copy_rows adds one row: the whole slot of a long text, a zeroed slot and the
\* text of a short one.
CopiedRow(D, result, i) ==
  LET index == D.indices[i]
      offset == Len(result.buffer)
      zeroed == result.buffer \o Zeros(D.capacity)
  IN WithRows(result, Append(result.indices, [offset |-> offset, length |-> index.length]),
       IF index.length = NULL THEN zeroed
       ELSE IF index.length > D.capacity \div 2
       THEN result.buffer \o Slice(D.buffer, index.offset, D.capacity)
       ELSE Overwrite(zeroed, offset, Slice(D.buffer, index.offset, index.length)))

\* The result becomes column d.
StartCopy(c, d, rows) ==
  /\ Owned(c) /\ Owned(d)
  /\ \A j \in DOMAIN rows : rows[j] <= Rows(data[c])
  /\ Len(rows) <= MaxRows[d]
  /\ loop' = [kind |-> "copy", from |-> c, to |-> d, rows |-> rows,
              result |-> New([capacity |-> data[c].capacity, nullable |-> data[c].nullable])]
  /\ UNCHANGED <<data, views>>

Copying == loop.kind = "copy"

CopyRow ==
  /\ Copying
  /\ Rows(loop.result) < Len(loop.rows)
  /\ loop' = [loop EXCEPT !.result =
                CopiedRow(data[loop.from], @, loop.rows[Rows(@) + 1])]
  /\ UNCHANGED <<data, views>>

EndCopy ==
  /\ Copying
  /\ Rows(loop.result) = Len(loop.rows)
  /\ data' = [data EXCEPT ![loop.to] = loop.result]
  /\ loop' = Idle
  /\ UNCHANGED views

StartRetain(c, tombstoned) ==
  /\ Owned(c)
  /\ loop' = [kind |-> "retain", column |-> c, tombstoned |-> tombstoned,
              row |-> 0, destination |-> 0]
  /\ UNCHANGED <<data, views>>

Retaining == loop.kind = "retain"

\* Mutant: the bytes move without their descriptor.
MovedBytes(D, i, destination) ==
  LET source == D.indices[i] IN
  WithRows(D, [D.indices EXCEPT ![destination + 1] = source],
           Overwrite(D.buffer, destination * D.capacity,
                     Slice(D.buffer, source.offset, D.capacity)))

\* retain_live moves row i down to the given place.
Moved(D, i, destination) ==
  LET offset == destination * D.capacity
      source == D.indices[i]
  IN WithRows(D, [D.indices EXCEPT ![destination + 1] =
                    [offset |-> offset, length |-> source.length]],
              Overwrite(D.buffer, offset, Slice(D.buffer, source.offset, D.capacity)))

\* What is left when the first rows are the kept ones.
Truncated(D, rows) ==
  WithRows(D, SubSeq(D.indices, 1, rows), SubSeq(D.buffer, 1, rows * D.capacity))

RetainRow ==
  /\ Retaining
  /\ loop.row < Len(loop.tombstoned)
  /\ IF loop.tombstoned[loop.row + 1]
     THEN /\ loop' = [loop EXCEPT !.row = @ + 1]
          /\ UNCHANGED data
     ELSE /\ loop' = [loop EXCEPT !.row = @ + 1, !.destination = @ + 1]
          /\ data' = [data EXCEPT ![loop.column] = Moved(@, loop.row + 1, loop.destination)]
  /\ UNCHANGED views

EndRetain ==
  /\ Retaining
  /\ loop.row = Len(loop.tombstoned)
  /\ data' = [data EXCEPT ![loop.column] = Truncated(@, loop.destination)]
  /\ loop' = Idle
  /\ UNCHANGED views

-----------------------------------------------------------------------------
(* Views.  A view has rows of the column's descriptors, from first + 1 on,  *)
(* and size bytes of its buffer, from start on.                            *)

WholeView(D) ==
  [first |-> 0, rows |-> Rows(D), start |-> 0, size |-> Len(D.buffer), base |-> 0]

LeftOf(v, mid, bytes) ==
  [first |-> v.first, rows |-> mid, start |-> v.start, size |-> bytes, base |-> v.base]

\* Mutant: the view forgets how far its buffer is from the column's first byte.
RightUnbased(v, mid, bytes) ==
  [v EXCEPT !.first = @ + mid, !.rows = @ - mid, !.start = @ + bytes, !.size = @ - bytes]

RightOf(v, mid, bytes) ==
  [first |-> v.first + mid, rows |-> v.rows - mid,
   start |-> v.start + bytes, size |-> v.size - bytes, base |-> v.base + bytes]

\* view_mut.
ViewMut(c) ==
  /\ Owned(c)
  /\ views' = [views EXCEPT ![c] = {WholeView(data[c])}]
  /\ UNCHANGED <<data, loop>>

\* The last borrow of the column ends.
Release(c) ==
  /\ views[c] # {}
  /\ views' = [views EXCEPT ![c] = {}]
  /\ UNCHANGED <<data, loop>>

SplitAt(c, v, mid) ==
  LET bytes == mid * data[c].capacity IN
  /\ mid <= v.rows
  /\ views' = [views EXCEPT ![c] = (@ \ {v}) \cup {LeftOf(v, mid, bytes), RightOf(v, mid, bytes)}]
  /\ UNCHANGED <<data, loop>>

\* cell_mut: where the slot of the view's i-th row starts in the column.
SlotOf(D, v, i) == v.start + (D.indices[v.first + i].offset - v.base)

\* iter_mut: where its i-th chunk does.
ChunkOf(D, v, i) == v.start + (i - 1) * D.capacity

\* Mutant: a text's old length stays when the new one is shorter.
WrittenLonger(D, i, offset, value) ==
  IF value = NULL THEN WithRows(D, [D.indices EXCEPT ![i].length = NULL], D.buffer)
  ELSE WithRows(D, [D.indices EXCEPT ![i].length =
                      IF @ # NULL /\ @ > Len(value) THEN @ ELSE Len(value)],
                Overwrite(D.buffer, offset, value))

\* FixedStringCellMut::set: a null keeps the bytes of the slot.
Written(D, i, offset, value) ==
  WithRows(D, [D.indices EXCEPT ![i].length = LengthOf(value)],
           IF value = NULL THEN D.buffer ELSE Overwrite(D.buffer, offset, value))

\* set, through a view or an element of its iteration; a rejected value changes
\* nothing.
SetCell(c, v, i, offset, value) ==
  /\ i <= v.rows
  /\ data' = IF Fits(data[c], value)
             THEN [data EXCEPT ![c] = Written(@, v.first + i, offset, value)]
             ELSE data
  /\ UNCHANGED <<views, loop>>

\* as_str_mut: safe operations on a str keep its length and UTF-8.
EditCell(c, v, i, text) ==
  LET length == data[c].indices[v.first + i].length IN
  /\ i <= v.rows
  /\ length = Len(text)
  /\ data' = [data EXCEPT ![c] = WithRows(@, @.indices,
                 Overwrite(@.buffer, SlotOf(data[c], v, i), text))]
  /\ UNCHANGED <<views, loop>>

Next ==
  \/ \E c \in Columns :
       \/ \E value \in Texts \cup {NULL} : Push(c, value)
       \/ Pop(c)
       \/ \E d \in Columns \ {c} :
            \/ AppendFrom(c, d)
            \/ AppendOwned(c, d)
            \/ \E rows \in Selections : StartCopy(c, d, rows)
       \/ \E tombstoned \in [1..Rows(data[c]) -> BOOLEAN] : StartRetain(c, tombstoned)
       \/ ViewMut(c)
       \/ Release(c)
       \/ \E v \in views[c] :
            \/ \E mid \in 0..v.rows : SplitAt(c, v, mid)
            \/ \E i \in 1..v.rows :
                 \/ \E value \in Texts \cup {NULL} :
                      \/ SetCell(c, v, i, SlotOf(data[c], v, i), value)
                      \/ SetCell(c, v, i, ChunkOf(data[c], v, i), value)
                 \/ \E text \in Texts : EditCell(c, v, i, text)
  \/ CopyRow \/ EndCopy \/ RetainRow \/ EndRetain

Spec == Init /\ [][Next]_vars

-----------------------------------------------------------------------------
(* Properties.                                                             *)

Lengths(D) == 0..D.capacity \cup IF D.nullable THEN {NULL} ELSE {}

\* A column whose slots follow each other without gaps: row i has the i-th.
Slotted(D) ==
  /\ Len(D.buffer) = Rows(D) * D.capacity
  /\ \A i \in 1..Rows(D) :
       /\ D.indices[i].offset = (i - 1) * D.capacity
       /\ D.indices[i].length \in Lengths(D)

\* Columns and views have their types; a column that is being compacted still
\* has all its rows.
TypeOK ==
  /\ \A c \in Columns :
       LET D == data[c] IN
       /\ D.capacity \in Nat \ {0} /\ D.nullable \in BOOLEAN
       /\ D.indices \in Seq([offset : Nat, length : Nat \cup {NULL}])
       /\ D.buffer \in Seq(Bytes)
       /\ \A v \in views[c] :
            /\ v.first + v.rows <= Rows(D) /\ v.start + v.size <= Len(D.buffer)
            /\ v.base \in Nat
  /\ Retaining => /\ views[loop.column] = {}
                  /\ Len(loop.tombstoned) = Rows(data[loop.column])
  /\ Copying => views[loop.from] = {} /\ views[loop.to] = {}

\* Between calls, every row has the slot that iter_mut finds it in, whatever was
\* pushed, popped, copied, appended and compacted before.
SlotsInOrder ==
  /\ \A c \in Columns : ~(Retaining /\ loop.column = c) => Slotted(data[c])
  /\ Copying => Slotted(loop.result)

\* While a column is compacted, the rows that were moved have their new slots
\* and the rows that are still to be read have their old ones.
CompactionStaysBehind ==
  Retaining =>
    LET D == data[loop.column] IN
    /\ loop.destination <= loop.row
    /\ Slotted(D)

\* A row has the slot of its position, between calls and in the middle of the
\* loops, of which retain_live writes into the buffer that it still reads from.
SlotsFollow == SlotsInOrder /\ CompactionStaysBehind

\* A view reaches, by descriptor and by chunk, the slots of its own rows, which
\* are in its part of the buffer.
ViewsReachOwnSlots ==
  \A c \in Columns : \A v \in views[c] :
    /\ v.start = v.first * data[c].capacity
    /\ v.size = v.rows * data[c].capacity
    /\ \A i \in 1..v.rows :
         /\ SlotOf(data[c], v, i) = ChunkOf(data[c], v, i)
         /\ SlotOf(data[c], v, i) \in v.start..(v.start + v.size - data[c].capacity)

\* No two views share a row.
ViewsDisjoint ==
  \A c \in Columns : \A v, w \in views[c] :
    v # w => v.first + v.rows <= w.first \/ w.first + w.rows <= v.first

\* A cell reached through a view, however its part of the column was split off,
\* is the cell of its row and of no other view: writes through the halves of a
\* split, by threads that do not synchronise, cannot meet.
ViewsOwnSlots == ViewsReachOwnSlots /\ ViewsDisjoint

\* What a read hands out is UTF-8, which is not checked again (the safety of
\* from_utf8_unchecked).
ReadsAreTexts ==
  /\ \A c \in Columns : \A i \in 1..Rows(data[c]) :
       TextOf(data[c], i) \in Texts \cup {NULL}
  /\ Copying => \A i \in 1..Rows(loop.result) : TextOf(loop.result, i) \in Texts \cup {NULL}

\* The rows that the compaction in progress keeps.
Live == {i \in DOMAIN loop.tombstoned : ~loop.tombstoned[i]}

\* The texts of the rows that stay in D, of which the first are in their places
\* already.
Staying(D, kept, destination) ==
  LET order == KeptOf(kept, Rows(D))
  IN [j \in DOMAIN order |-> TextOf(D, IF j <= destination THEN j ELSE order[j])]

\* The texts of a column; a column that is being compacted has the ones it keeps.
Visible(c) ==
  IF Retaining /\ loop.column = c THEN Staying(data[c], Live, loop.destination)
  ELSE Contents(data[c])

Cells == INSTANCE TextColumns WITH content <- [c \in Columns |-> Visible(c)]

\* Slots, views and loops behave as sequences of texts: an operation changes the
\* cells it is about, and a rejected one changes nothing.
ImplementsTexts == Cells!Spec
=============================================================================
