--------------------------- MODULE FixedStringsProof ---------------------------
(***************************************************************************)
(* Proofs about FixedStrings, for columns of any length and capacity: a    *)
(* row's slot is where its descriptor and where its chunk is, views do not *)
(* share slots, and what is read is a whole text; columns behave as        *)
(* sequences of texts.                                                     *)
(***************************************************************************)
EXTENDS FixedStrings, NaturalLemmas, TLAPS

Descriptors == [offset : Nat, length : Nat \cup {NULL}]

\* What a column is made of.
ColumnData ==
  [capacity : Nat \ {0}, nullable : BOOLEAN, indices : Seq(Descriptors), buffer : Seq(Bytes)]

\* The bytes that row i reads are those of a text.
HoldsText(D, i) ==
  D.indices[i].length = NULL \/
  \E text \in Texts :
    /\ D.indices[i].length = Len(text)
    /\ \A b \in 1..Len(text) : D.buffer[D.indices[i].offset + b] = text[b]

\* Where the slot of row i starts.
At(D, i) == (i - 1) * D.capacity

\* A column in order.
Sound(D) == D \in ColumnData /\ Slotted(D) /\ \A i \in 1..Rows(D) : HoldsText(D, i)

-----------------------------------------------------------------------------
(* Arithmetic of slots.                                                    *)

\* The slots of n rows and of one more.
LEMMA NextSlot ==
  ASSUME NEW n \in Nat, NEW k \in Nat
  PROVE  n * k \in Nat /\ (n + 1) * k = n * k + k
  OBVIOUS

\* Slots of different rows do not overlap.
LEMMA SlotsApart ==
  ASSUME NEW i \in Nat, NEW j \in Nat, NEW k \in Nat, i < j
  PROVE  i * k + k <= j * k
  <1>1. PICK d \in Nat : j = i + 1 + d
    <2>1. j - i - 1 \in Nat /\ j = i + 1 + (j - i - 1)
      OBVIOUS
    <2>. QED  BY <2>1
  <1>2. j * k = i * k + k + d * k /\ d * k \in Nat
    BY <1>1
  <1>3. i * k \in Nat
    OBVIOUS
  <1>. QED  BY <1>2, <1>3

\* The first rows take up no more than all of them.
LEMMA FewerSlots ==
  ASSUME NEW i \in Nat, NEW j \in Nat, NEW k \in Nat, i <= j
  PROVE  i * k \in Nat /\ j * k \in Nat /\ i * k <= j * k /\ (j - i) * k = j * k - i * k
  <1>1. PICK d \in Nat : j = i + d
    <2>1. j - i \in Nat /\ j = i + (j - i)
      OBVIOUS
    <2>. QED  BY <2>1
  <1>2. j * k = i * k + d * k /\ d * k \in Nat /\ i * k \in Nat
    BY <1>1
  <1>3. j - i = d
    BY <1>1
  <1>. QED  BY <1>2, <1>3

\* A byte of a text in a slot is a byte of the buffer.
LEMMA WithinSlot ==
  ASSUME NEW o \in Nat, NEW k \in Nat, NEW l \in 0..k, NEW b \in 1..l,
         NEW n \in Nat, o + k <= n
  PROVE  o + b \in 1..n
  OBVIOUS

\* Nor is it a byte of another slot.
LEMMA OutsideSlot ==
  ASSUME NEW o \in Nat, NEW at \in Nat, NEW k \in Nat, NEW b \in 1..k,
         o + k <= at \/ at + k <= o
  PROVE  o + b <= at \/ o + b > at + k
  OBVIOUS

-----------------------------------------------------------------------------
(* Buffers.                                                                *)

\* Overwriting replaces a part of a buffer and nothing else.
LEMMA OverwriteBytes ==
  ASSUME NEW buffer \in Seq(Bytes), NEW offset \in Nat, NEW bytes \in Seq(Bytes),
         offset + Len(bytes) <= Len(buffer)
  PROVE  /\ Overwrite(buffer, offset, bytes) \in Seq(Bytes)
         /\ Len(Overwrite(buffer, offset, bytes)) = Len(buffer)
         /\ \A b \in 1..Len(bytes) : Overwrite(buffer, offset, bytes)[offset + b] = bytes[b]
         /\ \A b \in 1..Len(buffer) :
              b <= offset \/ b > offset + Len(bytes)
                => Overwrite(buffer, offset, bytes)[b] = buffer[b]
  <1>1. DOMAIN buffer = 1..Len(buffer)
    OBVIOUS
  <1>2. \A b \in 1..Len(buffer) :
          b \in (offset + 1)..(offset + Len(bytes)) => bytes[b - offset] \in Bytes
    OBVIOUS
  <1>. QED  BY <1>1, <1>2 DEF Overwrite

\* A slice has the bytes it was taken from.
LEMMA SliceBytes ==
  ASSUME NEW buffer \in Seq(Bytes), NEW offset \in Nat, NEW length \in Nat,
         offset + length <= Len(buffer)
  PROVE  /\ Slice(buffer, offset, length) \in Seq(Bytes)
         /\ Len(Slice(buffer, offset, length)) = length
         /\ \A b \in 1..length : Slice(buffer, offset, length)[b] = buffer[offset + b]
  BY SMTT(30) DEF Slice

\* New slots are zeroed.
LEMMA ZeroBytes ==
  ASSUME NEW n \in Nat
  PROVE  Zeros(n) \in Seq(Bytes) /\ Len(Zeros(n)) = n
  BY TextsAssumption DEF Zeros

\* Growing a buffer keeps what is in it.
LEMMA GrownBytes ==
  ASSUME NEW buffer \in Seq(Bytes), NEW more \in Seq(Bytes)
  PROVE  /\ buffer \o more \in Seq(Bytes)
         /\ Len(buffer \o more) = Len(buffer) + Len(more)
         /\ \A b \in 1..Len(buffer) : (buffer \o more)[b] = buffer[b]
         /\ \A b \in 1..Len(more) : (buffer \o more)[Len(buffer) + b] = more[b]
  OBVIOUS

-----------------------------------------------------------------------------
(* Columns.                                                                *)

\* Where the slots of a column in order are.
LEMMA SlotBounds ==
  ASSUME NEW D, Sound(D), NEW i \in 1..Rows(D)
  PROVE  /\ D.capacity \in Nat /\ D.indices[i] \in Descriptors
         /\ D.indices[i].offset = At(D, i)
         /\ D.indices[i].offset \in Nat
         /\ D.indices[i].offset + D.capacity <= Len(D.buffer)
         /\ D.indices[i].length # NULL => D.indices[i].length \in 0..D.capacity
  <1>1. D.capacity \in Nat /\ D.indices \in Seq(Descriptors) /\ Rows(D) \in Nat
    BY DEF Sound, ColumnData, Rows
  <1>2. D.indices[i] \in Descriptors
    BY <1>1 DEF Rows
  <1>3. (i - 1) * D.capacity + D.capacity <= Rows(D) * D.capacity
    BY <1>1, SlotsApart
  <1>4. D.indices[i].offset = (i - 1) * D.capacity /\ D.indices[i].length \in Lengths(D)
    BY DEF Sound, Slotted
  <1>5. D.indices[i].offset = At(D, i)
    BY <1>4 DEF At
  <1>6. D.indices[i].offset + D.capacity <= Len(D.buffer)
    BY <1>3, <1>4 DEF Sound, Slotted
  <1>7. D.indices[i].offset \in Nat
    BY <1>2 DEF Descriptors
  <1>8. D.indices[i].length # NULL => D.indices[i].length \in 0..D.capacity
    BY <1>4 DEF Lengths
  <1>. QED  BY <1>1, <1>2, <1>5, <1>6, <1>7, <1>8

\* Row i reads a value.
Reads(D, i, value) ==
  /\ D.indices[i].length = LengthOf(value)
  /\ value # NULL => \A b \in 1..Len(value) : D.buffer[D.indices[i].offset + b] = value[b]

\* Row j of E reads the bytes that row i of D reads.
SameBytes(E, j, D, i) ==
  /\ E.indices[j].length = D.indices[i].length
  /\ D.indices[i].length # NULL =>
       \A b \in 1..D.indices[i].length :
         E.buffer[E.indices[j].offset + b] = D.buffer[D.indices[i].offset + b]

LEMMA SameBytesHold ==
  ASSUME NEW D, NEW i, NEW E, NEW j, HoldsText(D, i), SameBytes(E, j, D, i)
  PROVE  HoldsText(E, j)
  BY DEF HoldsText, SameBytes

\* Two sequences with the same elements are the same.
LEMMA SameSequence ==
  ASSUME NEW S, NEW s \in Seq(S), NEW t \in Seq(S), Len(s) = Len(t),
         \A i \in 1..Len(t) : s[i] = t[i]
  PROVE  s = t
  OBVIOUS

\* What a row reads is its text.
LEMMA TextRead ==
  ASSUME NEW D, Sound(D), NEW i \in 1..Rows(D), NEW value \in Texts \cup {NULL},
         Reads(D, i, value)
  PROVE  TextOf(D, i) = value
  <1>1. CASE value = NULL
    BY <1>1 DEF TextOf, Reads, LengthOf
  <1>2. CASE value # NULL
    <2>1. /\ value \in Texts /\ D.indices[i].length = Len(value)
          /\ \A b \in 1..Len(value) : D.buffer[D.indices[i].offset + b] = value[b]
      BY <1>2 DEF Reads, LengthOf
    <2>2. /\ D.buffer \in Seq(Bytes) /\ value \in Seq(Bytes) /\ Len(value) \in Nat
          /\ Len(D.buffer) \in Nat /\ Len(value) # NULL
      BY <2>1, TextsAssumption, NullAssumption DEF Sound, ColumnData
    <2>3. D.indices[i].offset \in Nat /\ D.indices[i].offset + Len(value) <= Len(D.buffer)
      <3>1. /\ D.capacity \in Nat /\ D.indices[i].offset \in Nat
            /\ D.indices[i].offset + D.capacity <= Len(D.buffer)
            /\ D.indices[i].length \in 0..D.capacity
        BY <2>1, <2>2, SlotBounds
      <3>. QED  BY <2>1, <2>2, <3>1
    <2>. DEFINE slice == Slice(D.buffer, D.indices[i].offset, Len(value))
    <2>4. /\ slice \in Seq(Bytes) /\ Len(slice) = Len(value)
          /\ \A b \in 1..Len(value) : slice[b] = D.buffer[D.indices[i].offset + b]
      BY <2>2, <2>3, SliceBytes
    <2>5. TextOf(D, i) = slice
      BY <2>1, <2>2 DEF TextOf
    <2>. HIDE DEF slice
    <2>6. slice = value
      <3>1. \A b \in 1..Len(value) : slice[b] = value[b]
        BY <2>1, <2>4
      <3>. QED  BY <2>2, <2>4, <3>1, SameSequence
    <2>. QED  BY <2>5, <2>6
  <1>. QED  BY <1>1, <1>2

\* A row that holds a text reads one.
LEMMA RowReads ==
  ASSUME NEW D, NEW i, HoldsText(D, i)
  PROVE  \E value \in Texts \cup {NULL} : Reads(D, i, value)
  <1>1. CASE D.indices[i].length = NULL
    BY <1>1 DEF Reads, LengthOf
  <1>2. CASE D.indices[i].length # NULL
    <2>1. PICK text \in Texts :
            /\ D.indices[i].length = Len(text)
            /\ \A b \in 1..Len(text) : D.buffer[D.indices[i].offset + b] = text[b]
      BY <1>2 DEF HoldsText
    <2>2. Reads(D, i, text)
      BY <2>1, NullAssumption DEF Reads, LengthOf
    <2>. QED  BY <2>1, <2>2
  <1>. QED  BY <1>1, <1>2

\* What is read is a text.
LEMMA ReadText ==
  ASSUME NEW D, Sound(D), NEW i \in 1..Rows(D)
  PROVE  TextOf(D, i) \in Texts \cup {NULL} /\ Reads(D, i, TextOf(D, i))
  <1>1. PICK value \in Texts \cup {NULL} : Reads(D, i, value)
    BY RowReads DEF Sound
  <1>. QED  BY <1>1, TextRead

\* Rows that read the same bytes have the same text.
LEMMA SameText ==
  ASSUME NEW D, Sound(D), NEW i \in 1..Rows(D), NEW E, Sound(E), NEW j \in 1..Rows(E),
         SameBytes(E, j, D, i)
  PROVE  TextOf(E, j) = TextOf(D, i)
  <1>. DEFINE value == TextOf(D, i)
  <1>1. value \in Texts \cup {NULL} /\ Reads(D, i, value)
    BY ReadText
  <1>. HIDE DEF value
  <1>2. Reads(E, j, value)
    <2>1. value # NULL => LengthOf(value) # NULL /\ LengthOf(value) = Len(value)
      <3>1. value # NULL => Len(value) \in Nat
        BY <1>1, TextsAssumption
      <3>. QED  BY <3>1, NullAssumption DEF LengthOf
    <2>. QED  BY <1>1, <2>1 DEF Reads, SameBytes
  <1>3. TextOf(E, j) = value
    BY <1>1, <1>2, TextRead
  <1>. QED  BY <1>3 DEF value

\* The slot at offset is filled with a value.
Filled(buffer, offset, length, value) ==
  /\ length = LengthOf(value)
  /\ value # NULL => \A b \in 1..Len(value) : buffer[offset + b] = value[b]

\* A column with one more slot at its end.
Extended(D, buffer, length) ==
  WithRows(D, Append(D.indices, [offset |-> Len(D.buffer), length |-> length]), buffer)

\* A slot that is added in order, and holds a text, leaves the column in order.
LEMMA ExtendedSound ==
  ASSUME NEW D, Sound(D), NEW buffer \in Seq(Bytes), NEW length \in Lengths(D),
         Len(buffer) = Len(D.buffer) + D.capacity,
         \A b \in 1..Len(D.buffer) : buffer[b] = D.buffer[b],
         length # NULL => \E text \in Texts :
           /\ length = Len(text)
           /\ \A b \in 1..Len(text) : buffer[Len(D.buffer) + b] = text[b]
  PROVE  /\ Sound(Extended(D, buffer, length))
         /\ Rows(Extended(D, buffer, length)) = Rows(D) + 1
         /\ \A i \in 1..Rows(D) : TextOf(Extended(D, buffer, length), i) = TextOf(D, i)
         /\ \A value \in Texts \cup {NULL} :
              Filled(buffer, Len(D.buffer), length, value)
                => TextOf(Extended(D, buffer, length), Rows(D) + 1) = value
  <1>. DEFINE n == Rows(D)
              new == [offset |-> Len(D.buffer), length |-> length]
  <1>1. /\ D.capacity \in Nat \ {0} /\ D.nullable \in BOOLEAN
        /\ D.indices \in Seq(Descriptors) /\ D.buffer \in Seq(Bytes)
        /\ n \in Nat
    BY DEF Sound, ColumnData, Rows
  <1>. DEFINE E == Extended(D, buffer, length)
  <1>2. /\ E.capacity = D.capacity /\ E.nullable = D.nullable
        /\ E.buffer = buffer /\ E.indices = Append(D.indices, new)
        /\ E = [capacity |-> E.capacity, nullable |-> E.nullable,
                indices |-> E.indices, buffer |-> E.buffer]
    BY DEF Extended, WithRows
  <1>. HIDE DEF E
  <1>3. new \in Descriptors /\ new.offset = Len(D.buffer) /\ new.length = length
    BY <1>1 DEF Lengths, Descriptors
  <1>. HIDE DEF new
  <1>4. /\ E.indices \in Seq(Descriptors) /\ Rows(E) = n + 1
        /\ E.indices[n + 1] = new
        /\ \A i \in 1..n : E.indices[i] = D.indices[i]
    BY <1>1, <1>2, <1>3 DEF Rows
  <1>5. E \in ColumnData
    BY <1>1, <1>2, <1>4 DEF ColumnData
  <1>6. Len(D.buffer) = n * D.capacity
    BY DEF Sound, Slotted
  <1>7. Slotted(E)
    <2>1. Len(E.buffer) = Rows(E) * E.capacity
      BY <1>1, <1>2, <1>4, <1>6, NextSlot
    <2>2. Lengths(E) = Lengths(D)
      BY <1>2 DEF Lengths
    <2>3. ASSUME NEW i \in 1..Rows(E)
          PROVE  E.indices[i].offset = (i - 1) * E.capacity /\ E.indices[i].length \in Lengths(E)
      <3>1. CASE i = n + 1
        <4>1. i - 1 = n
          BY <1>1, <3>1
        <4>. QED  BY <1>2, <1>3, <1>4, <1>6, <2>2, <3>1, <4>1
      <3>2. CASE i \in 1..n
        BY <1>2, <1>4, <2>2, <3>2 DEF Sound, Slotted
      <3>. QED  BY <1>1, <1>4, <3>1, <3>2
    <2>. QED  BY <2>1, <2>3 DEF Slotted
  <1>8. ASSUME NEW i \in 1..n PROVE SameBytes(E, i, D, i)
    <2>1. E.indices[i] = D.indices[i]
      BY <1>4
    <2>2. /\ D.indices[i].offset \in Nat
          /\ D.indices[i].offset + D.capacity <= Len(D.buffer)
          /\ D.indices[i].length # NULL => D.indices[i].length \in 0..D.capacity
      BY SlotBounds
    <2>3. ASSUME D.indices[i].length # NULL, NEW b \in 1..D.indices[i].length
          PROVE  E.buffer[E.indices[i].offset + b] = D.buffer[D.indices[i].offset + b]
      <3>1. D.indices[i].offset + b \in 1..Len(D.buffer)
        <4>1. Len(D.buffer) \in Nat /\ D.capacity \in Nat
          BY <1>1
        <4>. QED  BY <2>2, <2>3, <4>1, WithinSlot
      <3>. QED  BY <1>2, <2>1, <3>1
    <2>. QED  BY <2>1, <2>3 DEF SameBytes
  <1>9. ASSUME NEW i \in 1..Rows(E) PROVE HoldsText(E, i)
    <2>1. CASE i = n + 1
      <3>1. E.indices[i] = new /\ E.buffer = buffer
        BY <1>2, <1>4, <2>1
      <3>. QED  BY <3>1, <1>3 DEF HoldsText
    <2>2. CASE i \in 1..n
      <3>1. HoldsText(D, i)
        BY <2>2 DEF Sound
      <3>. QED  BY <1>8, <2>2, <3>1, SameBytesHold
    <2>. QED  BY <1>1, <1>4, <2>1, <2>2
  <1>10. Sound(E)
    BY <1>5, <1>7, <1>9 DEF Sound
  <1>11. ASSUME NEW i \in 1..n PROVE TextOf(E, i) = TextOf(D, i)
    <2>1. i \in 1..Rows(E)
      BY <1>1, <1>4
    <2>. QED  BY <1>8, <1>10, <2>1, SameText
  <1>12. ASSUME NEW value \in Texts \cup {NULL}, Filled(buffer, Len(D.buffer), length, value)
         PROVE  TextOf(E, n + 1) = value
    <2>1. n + 1 \in 1..Rows(E) /\ E.indices[n + 1] = new /\ E.buffer = buffer
      BY <1>1, <1>2, <1>4
    <2>2. Reads(E, n + 1, value)
      BY <1>3, <1>12, <2>1 DEF Reads, Filled
    <2>. QED  BY <1>10, <2>1, <2>2, TextRead
  <1>. QED  BY <1>4, <1>10, <1>11, <1>12 DEF E

\* A column of which row i reads other bytes.
Rewritten(D, i, buffer, length) ==
  WithRows(D, [D.indices EXCEPT ![i] = [offset |-> At(D, i), length |-> length]],
           buffer)

\* Writing a text, or a null, into one slot leaves the column in order.
LEMMA RewrittenSound ==
  ASSUME NEW D, Sound(D), NEW i \in 1..Rows(D), NEW buffer \in Seq(Bytes),
         NEW length \in Lengths(D),
         Len(buffer) = Len(D.buffer),
         \A b \in 1..Len(D.buffer) :
           b <= At(D, i) \/ b > At(D, i) + D.capacity
             => buffer[b] = D.buffer[b],
         length # NULL => \E text \in Texts :
           /\ length = Len(text)
           /\ \A b \in 1..Len(text) : buffer[At(D, i) + b] = text[b]
  PROVE  /\ Sound(Rewritten(D, i, buffer, length))
         /\ Rows(Rewritten(D, i, buffer, length)) = Rows(D)
         /\ \A j \in 1..Rows(D) :
              j # i => TextOf(Rewritten(D, i, buffer, length), j) = TextOf(D, j)
         /\ \A value \in Texts \cup {NULL} :
              Filled(buffer, At(D, i), length, value)
                => TextOf(Rewritten(D, i, buffer, length), i) = value
  <1>. DEFINE n == Rows(D)
              at == At(D, i)
              new == [offset |-> at, length |-> length]
              E == Rewritten(D, i, buffer, length)
  <1>1. /\ D.capacity \in Nat \ {0} /\ D.nullable \in BOOLEAN
        /\ D.indices \in Seq(Descriptors) /\ D.buffer \in Seq(Bytes)
        /\ n \in Nat
    BY DEF Sound, ColumnData, Rows
  <1>0. at \in Nat
    BY SlotBounds
  <1>2. /\ E.capacity = D.capacity /\ E.nullable = D.nullable
        /\ E.buffer = buffer /\ E.indices = [D.indices EXCEPT ![i] = new]
        /\ E = [capacity |-> E.capacity, nullable |-> E.nullable,
                indices |-> E.indices, buffer |-> E.buffer]
    BY DEF Rewritten, WithRows
  <1>. HIDE DEF E
  <1>3. new \in Descriptors /\ new.offset = at /\ new.length = length
    BY <1>0, <1>1 DEF Lengths, Descriptors
  <1>. HIDE DEF new
  <1>4. /\ E.indices \in Seq(Descriptors) /\ Rows(E) = n
        /\ E.indices[i] = new
        /\ \A j \in 1..n : j # i => E.indices[j] = D.indices[j]
    BY <1>1, <1>2, <1>3 DEF Rows
  <1>5. E \in ColumnData
    BY <1>1, <1>2, <1>4 DEF ColumnData
  <1>6. Slotted(E)
    <2>1. Lengths(E) = Lengths(D)
      BY <1>2 DEF Lengths
    <2>2. Len(E.buffer) = Rows(E) * E.capacity
      BY <1>2, <1>4 DEF Sound, Slotted
    <2>3. ASSUME NEW j \in 1..Rows(E)
          PROVE  E.indices[j].offset = (j - 1) * E.capacity /\ E.indices[j].length \in Lengths(E)
      <3>1. CASE j = i
        <4>1. at = (j - 1) * E.capacity
          BY <1>2, <3>1 DEF At
        <4>. QED  BY <1>3, <1>4, <2>1, <3>1, <4>1
      <3>2. CASE j # i
        BY <1>2, <1>4, <2>1, <3>2 DEF Sound, Slotted
      <3>. QED  BY <3>1, <3>2
    <2>. QED  BY <2>2, <2>3 DEF Slotted
  <1>7. ASSUME NEW j \in 1..n, j # i PROVE SameBytes(E, j, D, j)
    <2>1. E.indices[j] = D.indices[j]
      BY <1>4, <1>7
    <2>2. /\ D.indices[j].offset = At(D, j)
          /\ D.indices[j].offset \in Nat
          /\ D.indices[j].offset + D.capacity <= Len(D.buffer)
          /\ D.indices[j].length # NULL => D.indices[j].length \in 0..D.capacity
      BY <2>1, SlotBounds
    <2>3. D.indices[j].offset + D.capacity <= at \/ at + D.capacity <= D.indices[j].offset
      <3>1. i - 1 \in Nat /\ j - 1 \in Nat /\ D.capacity \in Nat
        BY <1>1, <2>1
      <3>2. CASE j - 1 < i - 1
        <4>1. (j - 1) * D.capacity + D.capacity <= (i - 1) * D.capacity
          BY <3>1, <3>2, SlotsApart
        <4>. QED  BY <2>2, <4>1 DEF At
      <3>3. CASE i - 1 < j - 1
        <4>1. (i - 1) * D.capacity + D.capacity <= (j - 1) * D.capacity
          BY <3>1, <3>3, SlotsApart
        <4>. QED  BY <2>2, <4>1 DEF At
      <3>4. j - 1 < i - 1 \/ i - 1 < j - 1
        BY <1>1, <1>7
      <3>. QED  BY <3>2, <3>3, <3>4
    <2>4. ASSUME D.indices[j].length # NULL, NEW b \in 1..D.indices[j].length
          PROVE  E.buffer[E.indices[j].offset + b] = D.buffer[D.indices[j].offset + b]
      <3>1. Len(D.buffer) \in Nat /\ D.capacity \in Nat
        BY <1>1
      <3>2. D.indices[j].offset + b \in 1..Len(D.buffer)
        BY <2>2, <2>4, <3>1, WithinSlot
      <3>3. b \in 1..D.capacity
        <4>1. D.indices[j].length \in 0..D.capacity
          BY <2>2, <2>4
        <4>. QED  BY <2>4, <3>1, <4>1
      <3>4. D.indices[j].offset + b <= at \/ D.indices[j].offset + b > at + D.capacity
        <4>1. D.indices[j].offset \in Nat /\ at \in Nat
          BY <1>0, <2>2
        <4>. QED  BY <2>3, <3>1, <3>3, <4>1, OutsideSlot
      <3>. QED  BY <1>2, <2>1, <3>2, <3>4
    <2>. QED  BY <2>1, <2>4 DEF SameBytes
  <1>8. ASSUME NEW j \in 1..Rows(E) PROVE HoldsText(E, j)
    <2>1. CASE j = i
      <3>1. E.indices[j] = new /\ E.buffer = buffer
        BY <1>2, <1>4, <2>1
      <3>. QED  BY <3>1, <1>3 DEF HoldsText
    <2>2. CASE j # i
      <3>1. HoldsText(D, j) /\ j \in 1..n
        BY <1>4, <2>2 DEF Sound
      <3>. QED  BY <1>7, <2>2, <3>1, SameBytesHold
    <2>. QED  BY <2>1, <2>2
  <1>9. Sound(E)
    BY <1>5, <1>6, <1>8 DEF Sound
  <1>10. ASSUME NEW j \in 1..n, j # i PROVE TextOf(E, j) = TextOf(D, j)
    <2>1. j \in 1..Rows(E) /\ SameBytes(E, j, D, j)
      BY <1>4, <1>7, <1>10
    <2>. QED  BY <1>9, <2>1, SameText
  <1>11. ASSUME NEW value \in Texts \cup {NULL}, Filled(buffer, at, length, value)
         PROVE  TextOf(E, i) = value
    <2>1. i \in 1..Rows(E) /\ E.indices[i] = new /\ E.buffer = buffer
      BY <1>2, <1>4
    <2>2. Reads(E, i, value)
      BY <1>3, <1>11, <2>1 DEF Reads, Filled
    <2>. QED  BY <1>9, <2>1, <2>2, TextRead
  <1>. QED  BY <1>4, <1>9, <1>10, <1>11 DEF E

\* The first rows of a column in order are one.
LEMMA TruncatedSound ==
  ASSUME NEW D, Sound(D), NEW m \in 0..Rows(D)
  PROVE  /\ Sound(Truncated(D, m)) /\ Rows(Truncated(D, m)) = m
         /\ \A i \in 1..m : TextOf(Truncated(D, m), i) = TextOf(D, i)
  <1>. DEFINE n == Rows(D)
              E == Truncated(D, m)
  <1>1. /\ D.capacity \in Nat \ {0} /\ D.nullable \in BOOLEAN
        /\ D.indices \in Seq(Descriptors) /\ D.buffer \in Seq(Bytes)
        /\ n \in Nat /\ m \in Nat /\ m <= n /\ n = Len(D.indices)
    BY DEF Sound, ColumnData, Rows
  <1>2. m * D.capacity \in Nat /\ m * D.capacity <= Len(D.buffer)
    <2>1. Len(D.buffer) = n * D.capacity
      BY DEF Sound, Slotted
    <2>2. n \in Nat /\ m \in Nat /\ m <= n /\ D.capacity \in Nat
      BY <1>1
    <2>. HIDE DEF n
    <2>. QED  BY <2>1, <2>2, FewerSlots
  <1>3. /\ E.capacity = D.capacity /\ E.nullable = D.nullable
        /\ E.buffer = SubSeq(D.buffer, 1, m * D.capacity)
        /\ E.indices = SubSeq(D.indices, 1, m)
        /\ E = [capacity |-> E.capacity, nullable |-> E.nullable,
                indices |-> E.indices, buffer |-> E.buffer]
    BY DEF Truncated, WithRows
  <1>. HIDE DEF E
  <1>4. /\ E.indices \in Seq(Descriptors) /\ Rows(E) = m
        /\ \A j \in 1..m : E.indices[j] = D.indices[j]
    BY <1>1, <1>3 DEF Rows
  <1>5. /\ E.buffer \in Seq(Bytes) /\ Len(E.buffer) = m * D.capacity
        /\ \A b \in 1..(m * D.capacity) : E.buffer[b] = D.buffer[b]
    BY <1>1, <1>2, <1>3
  <1>6. E \in ColumnData
    BY <1>1, <1>3, <1>4, <1>5 DEF ColumnData
  <1>7. Slotted(E)
    <2>1. Lengths(E) = Lengths(D)
      BY <1>3 DEF Lengths
    <2>. QED  BY <1>1, <1>3, <1>4, <1>5, <2>1 DEF Sound, Slotted
  <1>8. ASSUME NEW j \in 1..m PROVE j \in 1..n /\ SameBytes(E, j, D, j)
    <2>1. j \in 1..n /\ E.indices[j] = D.indices[j]
      BY <1>1, <1>4
    <2>2. /\ D.indices[j].offset = At(D, j)
          /\ D.indices[j].offset \in Nat
          /\ D.indices[j].length # NULL => D.indices[j].length \in 0..D.capacity
      BY <2>1, SlotBounds
    <2>3. D.indices[j].offset + D.capacity <= m * D.capacity
      <3>1. j - 1 \in Nat /\ j - 1 < m /\ D.capacity \in Nat
        BY <1>1, <2>1
      <3>2. (j - 1) * D.capacity + D.capacity <= m * D.capacity
        BY <1>1, <3>1, SlotsApart
      <3>. QED  BY <2>2, <3>2 DEF At
    <2>4. ASSUME D.indices[j].length # NULL, NEW b \in 1..D.indices[j].length
          PROVE  E.buffer[E.indices[j].offset + b] = D.buffer[D.indices[j].offset + b]
      <3>1. D.indices[j].offset + b \in 1..(m * D.capacity)
        BY <1>1, <1>2, <2>2, <2>3, <2>4, WithinSlot
      <3>. QED  BY <1>5, <2>1, <3>1
    <2>. QED  BY <2>1, <2>4 DEF SameBytes
  <1>9. \A j \in 1..m : HoldsText(E, j)
    BY <1>8, SameBytesHold DEF Sound
  <1>10. Sound(E)
    BY <1>4, <1>6, <1>7, <1>9 DEF Sound
  <1>11. ASSUME NEW j \in 1..m PROVE TextOf(E, j) = TextOf(D, j)
    <2>1. j \in 1..n /\ j \in 1..Rows(E) /\ SameBytes(E, j, D, j)
      BY <1>4, <1>8
    <2>. QED  BY <1>10, <2>1, SameText
  <1>. QED  BY <1>4, <1>10, <1>11 DEF E

-----------------------------------------------------------------------------
(* Operations on columns.                                                  *)

\* The length of a value that fits is one that a row can have.
LEMMA FittingLength ==
  ASSUME NEW D, D \in ColumnData, NEW value \in Texts \cup {NULL}, Fits(D, value)
  PROVE  /\ LengthOf(value) \in Lengths(D)
         /\ value # NULL => value \in Seq(Bytes) /\ Len(value) \in 0..D.capacity
         /\ LengthOf(value) # NULL => value \in Texts /\ LengthOf(value) = Len(value)
  <1>1. CASE value = NULL
    BY <1>1 DEF Fits, LengthOf, Lengths
  <1>2. CASE value # NULL
    <2>1. value \in Texts /\ value \in Seq(Bytes) /\ Len(value) \in Nat /\ D.capacity \in Nat
      BY <1>2, TextsAssumption DEF ColumnData
    <2>. QED  BY <1>2, <2>1 DEF Fits, LengthOf, Lengths
  <1>. QED  BY <1>1, <1>2

\* push.
LEMMA PushedSound ==
  ASSUME NEW D, Sound(D), NEW value \in Texts \cup {NULL}, Fits(D, value)
  PROVE  /\ Sound(Pushed(D, value)) /\ Rows(Pushed(D, value)) = Rows(D) + 1
         /\ \A i \in 1..Rows(D) : TextOf(Pushed(D, value), i) = TextOf(D, i)
         /\ TextOf(Pushed(D, value), Rows(D) + 1) = value
  <1>. DEFINE offset == Len(D.buffer)
              grown == D.buffer \o Zeros(D.capacity)
              buffer == IF value = NULL THEN grown ELSE Overwrite(grown, offset, value)
  <1>1. D \in ColumnData /\ D.buffer \in Seq(Bytes) /\ D.capacity \in Nat /\ offset \in Nat
    BY DEF Sound, ColumnData
  <1>2. /\ grown \in Seq(Bytes) /\ Len(grown) = offset + D.capacity
        /\ \A b \in 1..offset : grown[b] = D.buffer[b]
    <2>1. Zeros(D.capacity) \in Seq(Bytes) /\ Len(Zeros(D.capacity)) = D.capacity
      BY <1>1, ZeroBytes
    <2>. DEFINE zeros == Zeros(D.capacity)
    <2>. HIDE DEF zeros
    <2>2. /\ D.buffer \o zeros \in Seq(Bytes)
          /\ Len(D.buffer \o zeros) = Len(D.buffer) + Len(zeros)
          /\ \A b \in 1..Len(D.buffer) : (D.buffer \o zeros)[b] = D.buffer[b]
      BY <1>1, <2>1, GrownBytes DEF zeros
    <2>. QED  BY <2>1, <2>2 DEF zeros
  <1>3. /\ LengthOf(value) \in Lengths(D)
        /\ value # NULL => value \in Seq(Bytes) /\ Len(value) \in 0..D.capacity
        /\ LengthOf(value) # NULL => value \in Texts /\ LengthOf(value) = Len(value)
    BY <1>1, FittingLength
  <1>. HIDE DEF grown
  <1>4. value # NULL =>
          /\ Overwrite(grown, offset, value) \in Seq(Bytes)
          /\ Len(Overwrite(grown, offset, value)) = Len(grown)
          /\ \A b \in 1..Len(value) : Overwrite(grown, offset, value)[offset + b] = value[b]
          /\ \A b \in 1..offset : Overwrite(grown, offset, value)[b] = grown[b]
    BY <1>1, <1>2, <1>3, OverwriteBytes
  <1>5. /\ buffer \in Seq(Bytes) /\ Len(buffer) = offset + D.capacity
        /\ \A b \in 1..offset : buffer[b] = D.buffer[b]
        /\ value # NULL => \A b \in 1..Len(value) : buffer[offset + b] = value[b]
    BY <1>2, <1>4
  <1>. HIDE DEF buffer
  <1>6. Pushed(D, value) = Extended(D, buffer, LengthOf(value))
    BY DEF Pushed, Extended, buffer, grown
  <1>7. LengthOf(value) # NULL => value # NULL
    BY DEF LengthOf
  <1>8. LengthOf(value) # NULL =>
          \E text \in Texts : /\ LengthOf(value) = Len(text)
                              /\ \A b \in 1..Len(text) : buffer[Len(D.buffer) + b] = text[b]
    BY <1>3, <1>5, <1>7
  <1>9. Filled(buffer, Len(D.buffer), LengthOf(value), value)
    BY <1>5 DEF Filled
  <1>10. /\ Sound(Extended(D, buffer, LengthOf(value)))
         /\ Rows(Extended(D, buffer, LengthOf(value))) = Rows(D) + 1
         /\ \A i \in 1..Rows(D) : TextOf(Extended(D, buffer, LengthOf(value)), i) = TextOf(D, i)
         /\ TextOf(Extended(D, buffer, LengthOf(value)), Rows(D) + 1) = value
    BY <1>3, <1>5, <1>8, <1>9, ExtendedSound
  <1>. QED  BY <1>6, <1>10

\* pop: the last slot starts where the buffer is cut.
LEMMA PoppedSound ==
  ASSUME NEW D, Sound(D), Rows(D) > 0
  PROVE  /\ Sound(Popped(D)) /\ Rows(Popped(D)) = Rows(D) - 1
         /\ \A i \in 1..(Rows(D) - 1) : TextOf(Popped(D), i) = TextOf(D, i)
  <1>1. D \in ColumnData /\ Rows(D) \in Nat /\ Rows(D) = Len(D.indices) /\ Rows(D) \in 1..Rows(D)
    BY DEF Sound, ColumnData, Rows
  <1>2. D.indices[Rows(D)].offset = (Rows(D) - 1) * D.capacity
    BY <1>1, SlotBounds DEF At
  <1>3. Popped(D) = Truncated(D, Rows(D) - 1)
    BY <1>1, <1>2 DEF Popped, Truncated
  <1>4. Rows(D) - 1 \in 0..Rows(D)
    BY <1>1
  <1>. QED  BY <1>3, <1>4, TruncatedSound

\* Replacing a cell, by a descriptor or by a chunk that is its own.
LEMMA WrittenSound ==
  ASSUME NEW D, Sound(D), NEW i \in 1..Rows(D), NEW value \in Texts \cup {NULL}, Fits(D, value)
  PROVE  /\ Sound(Written(D, i, At(D, i), value))
         /\ Rows(Written(D, i, At(D, i), value)) = Rows(D)
         /\ \A j \in 1..Rows(D) :
              TextOf(Written(D, i, At(D, i), value), j) = IF j = i THEN value ELSE TextOf(D, j)
  <1>. DEFINE at == At(D, i)
              buffer == IF value = NULL THEN D.buffer ELSE Overwrite(D.buffer, at, value)
              indices == [D.indices EXCEPT ![i] = [offset |-> at, length |-> LengthOf(value)]]
  <1>1. /\ D \in ColumnData /\ D.buffer \in Seq(Bytes) /\ D.capacity \in Nat
        /\ D.indices \in Seq(Descriptors)
    BY DEF Sound, ColumnData
  <1>2. /\ D.indices[i] \in Descriptors /\ D.indices[i].offset = at
        /\ at \in Nat /\ at + D.capacity <= Len(D.buffer)
    BY SlotBounds
  <1>3. /\ LengthOf(value) \in Lengths(D)
        /\ value # NULL => value \in Seq(Bytes) /\ Len(value) \in 0..D.capacity
        /\ LengthOf(value) # NULL => value \in Texts /\ LengthOf(value) = Len(value)
    BY <1>1, FittingLength
  <1>4. value # NULL => at + Len(value) <= Len(D.buffer) /\ Len(value) <= D.capacity
    BY <1>1, <1>2, <1>3
  <1>5. value # NULL =>
          /\ Overwrite(D.buffer, at, value) \in Seq(Bytes)
          /\ Len(Overwrite(D.buffer, at, value)) = Len(D.buffer)
          /\ \A b \in 1..Len(value) : Overwrite(D.buffer, at, value)[at + b] = value[b]
          /\ \A b \in 1..Len(D.buffer) : b <= at \/ b > at + Len(value)
               => Overwrite(D.buffer, at, value)[b] = D.buffer[b]
    BY <1>1, <1>2, <1>3, <1>4, OverwriteBytes
  <1>6. /\ buffer \in Seq(Bytes) /\ Len(buffer) = Len(D.buffer)
        /\ \A b \in 1..Len(D.buffer) : b <= at \/ b > at + D.capacity => buffer[b] = D.buffer[b]
        /\ value # NULL => \A b \in 1..Len(value) : buffer[at + b] = value[b]
    <2>1. CASE value = NULL
      BY <1>1, <2>1
    <2>2. CASE value # NULL
      <3>1. \A b \in 1..Len(D.buffer) : b > at + D.capacity => b > at + Len(value)
        BY <1>1, <1>2, <1>3, <2>2
      <3>. QED  BY <1>5, <2>2, <3>1
    <2>. QED  BY <2>1, <2>2
  <1>. HIDE DEF buffer
  <1>7. Written(D, i, at, value) = Rewritten(D, i, buffer, LengthOf(value))
    <2>1. D.indices[i] = [offset |-> at, length |-> D.indices[i].length]
      BY <1>2 DEF Descriptors
    <2>2. [D.indices EXCEPT ![i].length = LengthOf(value)] = indices
      BY <2>1
    <2>. QED  BY <2>2 DEF Written, Rewritten, buffer
  <1>8. LengthOf(value) # NULL =>
          \E text \in Texts : /\ LengthOf(value) = Len(text)
                              /\ \A b \in 1..Len(text) : buffer[at + b] = text[b]
    <2>1. LengthOf(value) # NULL => value # NULL
      BY DEF LengthOf
    <2>. QED  BY <1>3, <1>6, <2>1
  <1>9. Filled(buffer, At(D, i), LengthOf(value), value)
    BY <1>6 DEF Filled
  <1>10. \A b \in 1..Len(D.buffer) :
           b <= At(D, i) \/ b > At(D, i) + D.capacity => buffer[b] = D.buffer[b]
    BY <1>6
  <1>. DEFINE E == Rewritten(D, i, buffer, LengthOf(value))
  <1>11. /\ Sound(E) /\ Rows(E) = Rows(D)
         /\ \A j \in 1..Rows(D) : j # i => TextOf(E, j) = TextOf(D, j)
         /\ \A v \in Texts \cup {NULL} :
              Filled(buffer, At(D, i), LengthOf(value), v) => TextOf(E, i) = v
    BY <1>3, <1>6, <1>8, <1>10, RewrittenSound
  <1>. QED  BY <1>7, <1>9, <1>11

\* as_str_mut: a text is replaced by one of its length.
LEMMA EditedSound ==
  ASSUME NEW D, Sound(D), NEW i \in 1..Rows(D), NEW text \in Texts,
         D.indices[i].length = Len(text)
  PROVE  /\ Sound(WithRows(D, D.indices, Overwrite(D.buffer, At(D, i), text)))
         /\ Rows(WithRows(D, D.indices, Overwrite(D.buffer, At(D, i), text))) = Rows(D)
         /\ \A j \in 1..Rows(D) :
              TextOf(WithRows(D, D.indices, Overwrite(D.buffer, At(D, i), text)), j)
                = IF j = i THEN text ELSE TextOf(D, j)
  <1>. DEFINE at == At(D, i)
              buffer == Overwrite(D.buffer, at, text)
  <1>1. /\ D \in ColumnData /\ D.buffer \in Seq(Bytes) /\ D.capacity \in Nat
        /\ D.indices \in Seq(Descriptors) /\ text \in Seq(Bytes) /\ Len(text) \in Nat
    BY TextsAssumption DEF Sound, ColumnData
  <1>2. /\ D.indices[i] \in Descriptors /\ D.indices[i].offset = at
        /\ at \in Nat /\ at + D.capacity <= Len(D.buffer)
        /\ D.indices[i].length # NULL => D.indices[i].length \in 0..D.capacity
    BY SlotBounds
  <1>3. Len(text) # NULL /\ Len(text) \in 0..D.capacity /\ at + Len(text) <= Len(D.buffer)
    <2>1. Len(text) # NULL
      BY <1>1, NullAssumption
    <2>. QED  BY <1>1, <1>2, <2>1
  <1>4. /\ buffer \in Seq(Bytes) /\ Len(buffer) = Len(D.buffer)
        /\ \A b \in 1..Len(text) : buffer[at + b] = text[b]
        /\ \A b \in 1..Len(D.buffer) : b <= at \/ b > at + Len(text) => buffer[b] = D.buffer[b]
    BY <1>1, <1>2, <1>3, OverwriteBytes
  <1>. HIDE DEF buffer
  <1>5. \A b \in 1..Len(D.buffer) : b > at + D.capacity => b > at + Len(text)
    BY <1>1, <1>2, <1>3
  <1>6. WithRows(D, D.indices, buffer) = Rewritten(D, i, buffer, Len(text))
    <2>1. D.indices[i] = [offset |-> at, length |-> Len(text)]
      BY <1>2 DEF Descriptors
    <2>2. [D.indices EXCEPT ![i] = [offset |-> at, length |-> Len(text)]] = D.indices
      BY <1>1, <2>1
    <2>. QED  BY <2>2 DEF Rewritten
  <1>7. Len(text) \in Lengths(D)
    BY <1>3 DEF Lengths
  <1>8. \E t \in Texts : Len(text) = Len(t) /\ \A b \in 1..Len(t) : buffer[at + b] = t[b]
    BY <1>4
  <1>9. Filled(buffer, At(D, i), Len(text), text)
    BY <1>4, NullAssumption DEF Filled, LengthOf
  <1>10. \A b \in 1..Len(D.buffer) :
           b <= At(D, i) \/ b > At(D, i) + D.capacity => buffer[b] = D.buffer[b]
    BY <1>4, <1>5
  <1>. DEFINE E == Rewritten(D, i, buffer, Len(text))
  <1>11. /\ Sound(E) /\ Rows(E) = Rows(D)
         /\ \A j \in 1..Rows(D) : j # i => TextOf(E, j) = TextOf(D, j)
         /\ \A v \in Texts \cup {NULL} :
              Filled(buffer, At(D, i), Len(text), v) => TextOf(E, i) = v
    BY <1>3, <1>4, <1>7, <1>8, <1>10, RewrittenSound
  <1>. QED  BY <1>6, <1>9, <1>11 DEF buffer

\* retain_live moves a row down into the place of an earlier one.
LEMMA MovedSound ==
  ASSUME NEW D, Sound(D), NEW i \in 1..Rows(D), NEW destination \in Nat, destination < i
  PROVE  /\ Sound(Moved(D, i, destination)) /\ Rows(Moved(D, i, destination)) = Rows(D)
         /\ \A j \in 1..Rows(D) :
              TextOf(Moved(D, i, destination), j)
                = IF j = destination + 1 THEN TextOf(D, i) ELSE TextOf(D, j)
  <1>. DEFINE at == At(D, destination + 1)
              source == D.indices[i]
              slot == Slice(D.buffer, source.offset, D.capacity)
              buffer == Overwrite(D.buffer, at, slot)
  <1>1. /\ D \in ColumnData /\ D.buffer \in Seq(Bytes) /\ D.capacity \in Nat
        /\ D.indices \in Seq(Descriptors) /\ Rows(D) \in Nat
    BY DEF Sound, ColumnData, Rows
  <1>2. destination + 1 \in 1..Rows(D) /\ destination * D.capacity = at
    BY <1>1 DEF At
  <1>3. at \in Nat /\ at + D.capacity <= Len(D.buffer)
    BY <1>2, SlotBounds
  <1>4. /\ source.offset \in Nat /\ source.offset + D.capacity <= Len(D.buffer)
        /\ source.length # NULL => source.length \in 0..D.capacity
        /\ source.length \in Lengths(D)
    BY SlotBounds DEF Sound, Slotted
  <1>5. /\ slot \in Seq(Bytes) /\ Len(slot) = D.capacity
        /\ \A b \in 1..D.capacity : slot[b] = D.buffer[source.offset + b]
    BY <1>1, <1>4, SliceBytes
  <1>. HIDE DEF slot
  <1>6. /\ buffer \in Seq(Bytes) /\ Len(buffer) = Len(D.buffer)
        /\ \A b \in 1..D.capacity : buffer[at + b] = slot[b]
        /\ \A b \in 1..Len(D.buffer) :
             b <= at \/ b > at + D.capacity => buffer[b] = D.buffer[b]
    <2>1. /\ D.buffer \in Seq(Bytes) /\ at \in Nat /\ slot \in Seq(Bytes)
          /\ at + Len(slot) <= Len(D.buffer)
      BY <1>1, <1>3, <1>5
    <2>. HIDE DEF at
    <2>2. /\ buffer \in Seq(Bytes) /\ Len(buffer) = Len(D.buffer)
          /\ \A b \in 1..Len(slot) : buffer[at + b] = slot[b]
          /\ \A b \in 1..Len(D.buffer) :
               b <= at \/ b > at + Len(slot) => buffer[b] = D.buffer[b]
      BY <2>1, OverwriteBytes
    <2>. QED  BY <1>5, <2>2
  <1>. HIDE DEF buffer
  <1>7. source.length # NULL =>
          \E text \in Texts : /\ source.length = Len(text)
                              /\ \A b \in 1..Len(text) : buffer[at + b] = text[b]
    <2>. SUFFICES ASSUME source.length # NULL
                  PROVE  \E text \in Texts :
                           /\ source.length = Len(text)
                           /\ \A b \in 1..Len(text) : buffer[at + b] = text[b]
      OBVIOUS
    <2>1. PICK text \in Texts :
            /\ source.length = Len(text)
            /\ \A b \in 1..Len(text) : D.buffer[source.offset + b] = text[b]
      BY DEF Sound, HoldsText
    <2>2. \A b \in 1..Len(text) : b \in 1..D.capacity
      BY <1>1, <1>4, <2>1
    <2>. QED  BY <1>5, <1>6, <2>1, <2>2
  <1>8. Moved(D, i, destination) = Rewritten(D, destination + 1, buffer, source.length)
    BY <1>2 DEF Moved, Rewritten, buffer, slot
  <1>9. PICK to \in 1..Rows(D) : to = destination + 1
    BY <1>2
  <1>. DEFINE value == TextOf(D, i)
              E == Rewritten(D, to, buffer, source.length)
  <1>10. value \in Texts \cup {NULL} /\ Filled(buffer, At(D, to), source.length, value)
    <2>1. value \in Texts \cup {NULL} /\ Reads(D, i, value)
      BY ReadText
    <2>. HIDE DEF value
    <2>2. value # NULL => Len(value) \in 1..D.capacity \cup {0} /\ source.length = Len(value)
      <3>1. value # NULL => Len(value) \in Nat
        BY <2>1, TextsAssumption
      <3>. QED  BY <1>4, <2>1, <3>1, NullAssumption DEF Reads, LengthOf
    <2>3. value # NULL => \A b \in 1..Len(value) : b \in 1..D.capacity
      BY <1>1, <2>2
    <2>. QED  BY <1>5, <1>6, <1>9, <2>1, <2>3 DEF Filled, Reads
  <1>. HIDE DEF value
  <1>11. /\ Sound(E) /\ Rows(E) = Rows(D)
         /\ \A j \in 1..Rows(D) : j # to => TextOf(E, j) = TextOf(D, j)
         /\ \A v \in Texts \cup {NULL} :
              Filled(buffer, At(D, to), source.length, v) => TextOf(E, to) = v
    <2>. HIDE DEF source
    <2>. QED  BY <1>4, <1>6, <1>7, <1>9, RewrittenSound
  <1>12. Moved(D, i, destination) = E
    BY <1>8, <1>9
  <1>. HIDE DEF E
  <1>. QED  BY <1>9, <1>10, <1>11, <1>12 DEF value

\* copy_rows adds a row of one column to another of the same kind.
LEMMA CopiedRowSound ==
  ASSUME NEW D, Sound(D), NEW R, Sound(R), NEW i \in 1..Rows(D),
         R.capacity = D.capacity, R.nullable = D.nullable
  PROVE  /\ Sound(CopiedRow(D, R, i)) /\ Rows(CopiedRow(D, R, i)) = Rows(R) + 1
         /\ \A j \in 1..Rows(R) : TextOf(CopiedRow(D, R, i), j) = TextOf(R, j)
         /\ TextOf(CopiedRow(D, R, i), Rows(R) + 1) = TextOf(D, i)
  <1>. DEFINE index == D.indices[i]
              offset == Len(R.buffer)
              zeros == Zeros(D.capacity)
              zeroed == R.buffer \o zeros
              slot == Slice(D.buffer, index.offset, D.capacity)
              short == Slice(D.buffer, index.offset, index.length)
              buffer == IF index.length = NULL THEN zeroed
                        ELSE IF index.length > D.capacity \div 2 THEN R.buffer \o slot
                        ELSE Overwrite(zeroed, offset, short)
  <1>1. /\ D.buffer \in Seq(Bytes) /\ R.buffer \in Seq(Bytes) /\ D.capacity \in Nat
        /\ offset \in Nat
    BY DEF Sound, ColumnData
  <1>2. /\ index.offset \in Nat /\ index.offset + D.capacity <= Len(D.buffer)
        /\ index.length # NULL => index.length \in 0..D.capacity
        /\ index.length \in Lengths(R)
    <2>1. Lengths(R) = Lengths(D)
      BY DEF Lengths
    <2>. QED  BY <2>1, SlotBounds DEF Sound, Slotted
  <1>3. /\ zeroed \in Seq(Bytes) /\ Len(zeroed) = offset + D.capacity
        /\ \A b \in 1..offset : zeroed[b] = R.buffer[b]
    <2>1. zeros \in Seq(Bytes) /\ Len(zeros) = D.capacity
      BY <1>1, ZeroBytes
    <2>. HIDE DEF zeros
    <2>2. R.buffer \in Seq(Bytes)
      BY <1>1
    <2>3. /\ zeroed \in Seq(Bytes) /\ Len(zeroed) = Len(R.buffer) + Len(zeros)
          /\ \A b \in 1..Len(R.buffer) : zeroed[b] = R.buffer[b]
      BY <2>1, <2>2, GrownBytes
    <2>. QED  BY <2>1, <2>3
  <1>4. /\ slot \in Seq(Bytes) /\ Len(slot) = D.capacity
        /\ \A b \in 1..D.capacity : slot[b] = D.buffer[index.offset + b]
    <2>1. /\ D.buffer \in Seq(Bytes) /\ index.offset \in Nat /\ D.capacity \in Nat
          /\ index.offset + D.capacity <= Len(D.buffer)
      BY <1>1, <1>2
    <2>. HIDE DEF index
    <2>. QED  BY <2>1, SliceBytes
  <1>5. index.length # NULL =>
          /\ short \in Seq(Bytes) /\ Len(short) = index.length
          /\ \A b \in 1..index.length : short[b] = D.buffer[index.offset + b]
    <2>. HIDE DEF index
    <2>1. /\ D.buffer \in Seq(Bytes) /\ index.offset \in Nat
          /\ index.length # NULL =>
               index.length \in Nat /\ index.offset + index.length <= Len(D.buffer)
      BY <1>1, <1>2
    <2>. QED  BY <2>1, SliceBytes
  <1>. HIDE DEF index, zeros, zeroed, slot, short
  <1>6. /\ R.buffer \o slot \in Seq(Bytes) /\ Len(R.buffer \o slot) = offset + D.capacity
        /\ \A b \in 1..offset : (R.buffer \o slot)[b] = R.buffer[b]
        /\ \A b \in 1..D.capacity : (R.buffer \o slot)[offset + b] = slot[b]
    <2>1. R.buffer \in Seq(Bytes) /\ slot \in Seq(Bytes)
      BY <1>1, <1>4
    <2>2. /\ R.buffer \o slot \in Seq(Bytes) /\ Len(R.buffer \o slot) = Len(R.buffer) + Len(slot)
          /\ \A b \in 1..Len(R.buffer) : (R.buffer \o slot)[b] = R.buffer[b]
          /\ \A b \in 1..Len(slot) : (R.buffer \o slot)[Len(R.buffer) + b] = slot[b]
      BY <2>1, GrownBytes
    <2>. QED  BY <1>4, <2>2
  <1>7. index.length # NULL =>
          /\ Overwrite(zeroed, offset, short) \in Seq(Bytes)
          /\ Len(Overwrite(zeroed, offset, short)) = offset + D.capacity
          /\ \A b \in 1..offset : Overwrite(zeroed, offset, short)[b] = zeroed[b]
          /\ \A b \in 1..index.length : Overwrite(zeroed, offset, short)[offset + b] = short[b]
    <2>. SUFFICES ASSUME index.length # NULL
                  PROVE  /\ Overwrite(zeroed, offset, short) \in Seq(Bytes)
                         /\ Len(Overwrite(zeroed, offset, short)) = offset + D.capacity
                         /\ \A b \in 1..offset : Overwrite(zeroed, offset, short)[b] = zeroed[b]
                         /\ \A b \in 1..index.length :
                              Overwrite(zeroed, offset, short)[offset + b] = short[b]
      OBVIOUS
    <2>. HIDE DEF offset
    <2>1. /\ offset \in Nat /\ D.capacity \in Nat /\ index.length \in 0..D.capacity
          /\ zeroed \in Seq(Bytes) /\ Len(zeroed) = offset + D.capacity
          /\ short \in Seq(Bytes) /\ Len(short) = index.length
      BY <1>1, <1>2, <1>3, <1>5
    <2>2. offset + Len(short) <= Len(zeroed) /\ \A b \in 1..offset : b \in 1..Len(zeroed)
      BY <2>1
    <2>3. /\ Overwrite(zeroed, offset, short) \in Seq(Bytes)
          /\ Len(Overwrite(zeroed, offset, short)) = Len(zeroed)
          /\ \A b \in 1..Len(short) : Overwrite(zeroed, offset, short)[offset + b] = short[b]
          /\ \A b \in 1..Len(zeroed) :
               b <= offset \/ b > offset + Len(short)
                 => Overwrite(zeroed, offset, short)[b] = zeroed[b]
      BY <2>1, <2>2, OverwriteBytes
    <2>. QED  BY <2>1, <2>2, <2>3
  <1>8. /\ buffer \in Seq(Bytes) /\ Len(buffer) = offset + D.capacity
        /\ \A b \in 1..offset : buffer[b] = R.buffer[b]
        /\ index.length # NULL =>
             \A b \in 1..index.length : buffer[offset + b] = D.buffer[index.offset + b]
    <2>1. CASE index.length = NULL
      BY <1>3, <2>1
    <2>2. CASE index.length # NULL /\ index.length > D.capacity \div 2
      <3>1. buffer = R.buffer \o slot
        BY <2>2
      <3>2. \A b \in 1..index.length : b \in 1..D.capacity
        BY <1>1, <1>2, <2>2
      <3>. QED  BY <1>4, <1>6, <3>1, <3>2
    <2>3. CASE index.length # NULL /\ ~(index.length > D.capacity \div 2)
      BY <1>3, <1>5, <1>7, <2>3
    <2>. QED  BY <2>1, <2>2, <2>3
  <1>. HIDE DEF buffer
  <1>9. index.length # NULL =>
          \E text \in Texts : /\ index.length = Len(text)
                              /\ \A b \in 1..Len(text) : buffer[offset + b] = text[b]
    <2>1. HoldsText(D, i)
      BY DEF Sound
    <2>. QED  BY <1>8, <2>1 DEF HoldsText, index
  <1>10. CopiedRow(D, R, i) = Extended(R, buffer, index.length)
    BY DEF CopiedRow, Extended, buffer, index, zeroed, zeros, slot, short
  <1>. DEFINE value == TextOf(D, i)
              E == Extended(R, buffer, index.length)
  <1>11. value \in Texts \cup {NULL} /\ Filled(buffer, Len(R.buffer), index.length, value)
    <2>1. value \in Texts \cup {NULL} /\ Reads(D, i, value)
      BY ReadText
    <2>. HIDE DEF value
    <2>2. value # NULL => index.length # NULL /\ index.length = Len(value)
      <3>1. value # NULL => Len(value) \in Nat
        BY <2>1, TextsAssumption
      <3>. QED  BY <2>1, <3>1, NullAssumption DEF Reads, LengthOf, index
    <2>. QED  BY <1>8, <2>1, <2>2 DEF Filled, Reads, index
  <1>. HIDE DEF value
  <1>12. /\ Sound(E) /\ Rows(E) = Rows(R) + 1
         /\ \A j \in 1..Rows(R) : TextOf(E, j) = TextOf(R, j)
         /\ \A v \in Texts \cup {NULL} :
              Filled(buffer, Len(R.buffer), index.length, v) => TextOf(E, Rows(R) + 1) = v
    BY <1>2, <1>8, <1>9, ExtendedSound
  <1>. HIDE DEF E
  <1>. QED  BY <1>10, <1>11, <1>12 DEF E, value

\* Two sequences, one behind the other.
LEMMA Concatenation ==
  ASSUME NEW S, NEW s \in Seq(S), NEW t \in Seq(S)
  PROVE  /\ s \o t \in Seq(S) /\ Len(s \o t) = Len(s) + Len(t)
         /\ \A i \in 1..Len(s) : (s \o t)[i] = s[i]
         /\ \A i \in 1..Len(t) : (s \o t)[Len(s) + i] = t[i]
  OBVIOUS

\* A descriptor that moves.
LEMMA MovedOffset ==
  ASSUME NEW index \in Descriptors, NEW base \in Nat
  PROVE  [index EXCEPT !.offset = @ + base]
           = [offset |-> index.offset + base, length |-> index.length]
  BY DEF Descriptors

\* The slots of two columns.
LEMMA SlotsOfBoth ==
  ASSUME NEW n \in Nat, NEW m \in Nat, NEW k \in Nat
  PROVE  /\ (n + m) * k = n * k + m * k
         /\ \A j \in 1..m : ((n + j) - 1) * k = (j - 1) * k + n * k
  OBVIOUS

\* append and append_from: the offsets of the other column move behind this one.
LEMMA AppendedSound ==
  ASSUME NEW D, Sound(D), NEW E, Sound(E), CanAppend(D, E)
  PROVE  /\ Sound(Appended(D, E)) /\ Rows(Appended(D, E)) = Rows(D) + Rows(E)
         /\ \A i \in 1..Rows(D) : TextOf(Appended(D, E), i) = TextOf(D, i)
         /\ \A j \in 1..Rows(E) : TextOf(Appended(D, E), Rows(D) + j) = TextOf(E, j)
  <1>. DEFINE base == Len(D.buffer)
              n == Rows(D)
              m == Rows(E)
              moved == [i \in DOMAIN E.indices |-> [E.indices[i] EXCEPT !.offset = @ + base]]
              A == Appended(D, E)
  <1>1. /\ D.capacity \in Nat \ {0} /\ D.nullable \in BOOLEAN
        /\ D.indices \in Seq(Descriptors) /\ D.buffer \in Seq(Bytes)
        /\ E.indices \in Seq(Descriptors) /\ E.buffer \in Seq(Bytes)
        /\ n \in Nat /\ m \in Nat /\ base \in Nat /\ n = Len(D.indices) /\ m = Len(E.indices)
    BY DEF Sound, ColumnData, Rows
  <1>2. base = n * D.capacity /\ Len(E.buffer) = m * D.capacity
    BY DEF Sound, Slotted, CanAppend
  <1>3. /\ A.capacity = D.capacity /\ A.nullable = D.nullable
        /\ A.indices = D.indices \o moved /\ A.buffer = D.buffer \o E.buffer
        /\ A = [capacity |-> A.capacity, nullable |-> A.nullable,
                indices |-> A.indices, buffer |-> A.buffer]
    BY DEF Appended, WithRows
  <1>. HIDE DEF A
  <1>4. /\ moved \in Seq(Descriptors) /\ Len(moved) = m
        /\ \A i \in 1..m : /\ moved[i].offset = E.indices[i].offset + base
                           /\ moved[i].length = E.indices[i].length
    <2>1. DOMAIN E.indices = 1..m
      BY <1>1
    <2>2. ASSUME NEW i \in 1..m
          PROVE  /\ [E.indices[i] EXCEPT !.offset = @ + base] \in Descriptors
                 /\ [E.indices[i] EXCEPT !.offset = @ + base].offset = E.indices[i].offset + base
                 /\ [E.indices[i] EXCEPT !.offset = @ + base].length = E.indices[i].length
      <3>1. E.indices[i] \in Descriptors
        BY <1>1, <2>2
      <3>2. [E.indices[i] EXCEPT !.offset = @ + base]
              = [offset |-> E.indices[i].offset + base, length |-> E.indices[i].length]
        <4>1. base \in Nat
          BY <1>1
        <4>. QED  BY <3>1, <4>1, MovedOffset
      <3>3. E.indices[i].offset + base \in Nat
        <4>1. base \in Nat
          BY <1>1
        <4>. QED  BY <3>1, <4>1 DEF Descriptors
      <3>. QED  BY <3>1, <3>2, <3>3 DEF Descriptors
    <2>3. \A i \in 1..m : moved[i] = [E.indices[i] EXCEPT !.offset = @ + base]
      BY <2>1
    <2>4. moved \in [1..m -> Descriptors]
      BY <2>1, <2>2
    <2>. HIDE DEF moved
    <2>5. moved \in Seq(Descriptors) /\ Len(moved) = m
      <3>1. m \in Nat
        BY <1>1
      <3>. HIDE DEF m
      <3>. QED  BY <2>4, <3>1
    <2>. QED  BY <2>2, <2>3, <2>5
  <1>. HIDE DEF moved
  <1>5. /\ A.indices \in Seq(Descriptors) /\ Rows(A) = n + m
        /\ \A i \in 1..n : A.indices[i] = D.indices[i]
        /\ \A i \in 1..m : A.indices[n + i] = moved[i]
    <2>1. /\ D.indices \o moved \in Seq(Descriptors)
          /\ Len(D.indices \o moved) = Len(D.indices) + Len(moved)
          /\ \A i \in 1..Len(D.indices) : (D.indices \o moved)[i] = D.indices[i]
          /\ \A i \in 1..Len(moved) : (D.indices \o moved)[Len(D.indices) + i] = moved[i]
      <3>1. D.indices \in Seq(Descriptors) /\ moved \in Seq(Descriptors)
        BY <1>1, <1>4
      <3>. QED  BY <3>1, Concatenation
    <2>. QED  BY <1>1, <1>3, <1>4, <2>1 DEF Rows
  <1>6. /\ A.buffer \in Seq(Bytes) /\ Len(A.buffer) = base + Len(E.buffer)
        /\ \A b \in 1..base : A.buffer[b] = D.buffer[b]
        /\ \A b \in 1..Len(E.buffer) : A.buffer[base + b] = E.buffer[b]
    <2>1. /\ D.buffer \o E.buffer \in Seq(Bytes)
          /\ Len(D.buffer \o E.buffer) = Len(D.buffer) + Len(E.buffer)
          /\ \A b \in 1..Len(D.buffer) : (D.buffer \o E.buffer)[b] = D.buffer[b]
          /\ \A b \in 1..Len(E.buffer) : (D.buffer \o E.buffer)[Len(D.buffer) + b] = E.buffer[b]
      BY <1>1, GrownBytes
    <2>. QED  BY <1>3, <2>1
  <1>7. A \in ColumnData
    BY <1>1, <1>3, <1>5, <1>6 DEF ColumnData
  <1>. HIDE DEF n, m, base
  <1>8. \A i \in 1..Rows(A) : i \in 1..n \/ \E j \in 1..m : i = n + j
    <2>. SUFFICES ASSUME NEW i \in 1..Rows(A), i \notin 1..n
                  PROVE  \E j \in 1..m : i = n + j
      OBVIOUS
    <2>1. n \in Nat /\ m \in Nat /\ i \in 1..(n + m)
      BY <1>1, <1>5
    <2>2. i - n \in 1..m /\ i = n + (i - n)
      BY <2>1
    <2>. QED  BY <2>2
  <1>9. Slotted(A)
    <2>1. Len(A.buffer) = Rows(A) * A.capacity
      <3>1. (n + m) * D.capacity = n * D.capacity + m * D.capacity
        <4>1. n \in Nat /\ m \in Nat /\ D.capacity \in Nat
          BY <1>1
        <4>. QED  BY <4>1, SlotsOfBoth
      <3>. QED  BY <1>2, <1>3, <1>5, <1>6, <3>1
    <2>2. Lengths(A) = Lengths(D) /\ Lengths(A) = Lengths(E)
      BY <1>3 DEF Lengths, CanAppend
    <2>3. ASSUME NEW i \in 1..n
          PROVE  A.indices[i].offset = (i - 1) * A.capacity /\ A.indices[i].length \in Lengths(A)
      BY <1>3, <1>5, <2>2 DEF Sound, Slotted, n
    <2>4. ASSUME NEW j \in 1..m
          PROVE  /\ A.indices[n + j].offset = ((n + j) - 1) * A.capacity
                 /\ A.indices[n + j].length \in Lengths(A)
      <3>1. E.indices[j].offset = (j - 1) * D.capacity /\ E.indices[j].length \in Lengths(E)
        BY DEF Sound, Slotted, CanAppend, m
      <3>2. ((n + j) - 1) * D.capacity = (j - 1) * D.capacity + n * D.capacity
        <4>1. n \in Nat /\ m \in Nat /\ D.capacity \in Nat
          BY <1>1
        <4>. QED  BY <4>1, SlotsOfBoth
      <3>. QED  BY <1>2, <1>3, <1>4, <1>5, <2>2, <3>1, <3>2
    <2>. QED  BY <1>8, <2>1, <2>3, <2>4 DEF Slotted
  <1>10. ASSUME NEW i \in 1..n PROVE HoldsText(A, i) /\ SameBytes(A, i, D, i)
    <2>1. HoldsText(D, i) /\ A.indices[i] = D.indices[i]
      BY <1>5 DEF Sound, n
    <2>2. /\ D.indices[i].offset \in Nat /\ D.indices[i].offset + D.capacity <= base
          /\ D.indices[i].length # NULL => D.indices[i].length \in 0..D.capacity
      BY SlotBounds DEF n, base
    <2>3. ASSUME D.indices[i].length # NULL, NEW b \in 1..D.indices[i].length
          PROVE  A.buffer[A.indices[i].offset + b] = D.buffer[D.indices[i].offset + b]
      <3>1. D.indices[i].offset + b \in 1..base
        <4>1. D.capacity \in Nat
          BY <1>1
        <4>. QED  BY <1>1, <2>2, <2>3, <4>1, WithinSlot
      <3>. QED  BY <1>6, <2>1, <3>1
    <2>4. A.indices[i].length = D.indices[i].length
      BY <2>1
    <2>5. SameBytes(A, i, D, i)
      BY <2>3, <2>4 DEF SameBytes
    <2>. QED  BY <2>1, <2>5, SameBytesHold
  <1>11. ASSUME NEW j \in 1..m PROVE HoldsText(A, n + j) /\ SameBytes(A, n + j, E, j)
    <2>1. /\ HoldsText(E, j) /\ A.indices[n + j].length = E.indices[j].length
          /\ A.indices[n + j].offset = E.indices[j].offset + base
      BY <1>4, <1>5 DEF Sound, m
    <2>2. /\ E.indices[j].offset \in Nat /\ E.indices[j].offset + D.capacity <= Len(E.buffer)
          /\ E.indices[j].length # NULL => E.indices[j].length \in 0..D.capacity
      BY SlotBounds DEF CanAppend, m
    <2>3. ASSUME E.indices[j].length # NULL, NEW b \in 1..E.indices[j].length
          PROVE  A.buffer[A.indices[n + j].offset + b] = E.buffer[E.indices[j].offset + b]
      <3>1. E.indices[j].offset + b \in 1..Len(E.buffer)
        <4>1. D.capacity \in Nat /\ Len(E.buffer) \in Nat
          BY <1>1
        <4>. QED  BY <2>2, <2>3, <4>1, WithinSlot
      <3>2. A.indices[n + j].offset + b = base + (E.indices[j].offset + b)
        <4>1. b \in Nat
          BY <2>2, <2>3
        <4>. QED  BY <1>1, <2>1, <2>2, <4>1
      <3>. QED  BY <1>6, <3>1, <3>2
    <2>4. SameBytes(A, n + j, E, j)
      BY <2>1, <2>3 DEF SameBytes
    <2>. QED  BY <2>1, <2>4, SameBytesHold
  <1>12. Sound(A)
    BY <1>7, <1>8, <1>9, <1>10, <1>11 DEF Sound
  <1>13. ASSUME NEW i \in 1..n PROVE TextOf(A, i) = TextOf(D, i)
    <2>1. i \in 1..Rows(A)
      <3>1. n \in Nat /\ m \in Nat /\ Rows(A) = n + m /\ i \in 1..n
        BY <1>1, <1>5
      <3>. QED  BY ONLY <3>1
    <2>2. SameBytes(A, i, D, i)
      BY <1>10
    <2>3. i \in 1..Rows(D)
      BY DEF n
    <2>. QED  BY <1>12, <2>1, <2>2, <2>3, SameText
  <1>14. ASSUME NEW j \in 1..m PROVE TextOf(A, n + j) = TextOf(E, j)
    <2>1. n + j \in 1..Rows(A)
      <3>1. n \in Nat /\ m \in Nat /\ Rows(A) = n + m /\ j \in 1..m
        BY <1>1, <1>5
      <3>. QED  BY ONLY <3>1
    <2>2. SameBytes(A, n + j, E, j)
      BY <1>11
    <2>3. j \in 1..Rows(E)
      BY DEF m
    <2>. QED  BY <1>12, <2>1, <2>2, <2>3, SameText
  <1>. QED  BY <1>5, <1>12, <1>13, <1>14 DEF A, n, m

-----------------------------------------------------------------------------
(* The invariant.                                                          *)

View == [first : Nat, rows : Nat, start : Nat, size : Nat, base : Nat]

\* A view whose part of the buffer is the slots of its rows.
Placed(D, v) ==
  /\ v \in View
  /\ v.first + v.rows <= Rows(D)
  /\ v.start = v.first * D.capacity
  /\ v.size = v.rows * D.capacity
  /\ v.base = v.start

CopyInOrder ==
  /\ loop = [kind |-> "copy", from |-> loop.from, to |-> loop.to, rows |-> loop.rows,
             result |-> loop.result]
  /\ loop.from \in Columns /\ loop.to \in Columns
  /\ loop.rows \in Seq(Nat \ {0})
  /\ \A j \in 1..Len(loop.rows) : loop.rows[j] <= Rows(data[loop.from])
  /\ Sound(loop.result)
  /\ loop.result.capacity = data[loop.from].capacity
  /\ loop.result.nullable = data[loop.from].nullable
  /\ views[loop.from] = {} /\ views[loop.to] = {}

RetainInOrder ==
  /\ loop = [kind |-> "retain", column |-> loop.column, tombstoned |-> loop.tombstoned,
             row |-> loop.row, destination |-> loop.destination]
  /\ loop.column \in Columns
  /\ loop.tombstoned \in [1..Rows(data[loop.column]) -> BOOLEAN]
  /\ loop.row \in 0..Rows(data[loop.column])
  /\ loop.destination \in 0..loop.row
  /\ views[loop.column] = {}

\* Every column is in order at every step, also the one that is being compacted,
\* because what is written is always a place that was read already.
IInv ==
  /\ data = [c \in Columns |-> data[c]]
  /\ \A c \in Columns : Sound(data[c])
  /\ views = [c \in Columns |-> views[c]]
  /\ \A c \in Columns : \A v \in views[c] : Placed(data[c], v)
  /\ ViewsDisjoint
  /\ loop # Idle => CopyInOrder \/ RetainInOrder

\* A column starts out empty.
LEMMA NewSound ==
  ASSUME NEW layout \in [capacity : Nat \ {0}, nullable : BOOLEAN]
  PROVE  Sound(New(layout)) /\ Rows(New(layout)) = 0
  <1>1. New(layout) \in ColumnData /\ Rows(New(layout)) = 0
    BY DEF New, ColumnData, Rows
  <1>2. Slotted(New(layout))
    <2>1. Len(New(layout).buffer) = 0 /\ New(layout).capacity \in Nat
      BY DEF New
    <2>. QED  BY <1>1, <2>1 DEF Slotted
  <1>. QED  BY <1>1, <1>2 DEF Sound

LEMMA InitInv == Init => IInv
  <1>. SUFFICES ASSUME Init PROVE IInv
    OBVIOUS
  <1>1. \A c \in Columns : Sound(data[c])
    BY LayoutAssumption, NewSound DEF Init
  <1>2. data = [c \in Columns |-> data[c]] /\ views = [c \in Columns |-> views[c]]
    BY DEF Init
  <1>3. (\A c \in Columns : \A v \in views[c] : Placed(data[c], v)) /\ ViewsDisjoint
    BY DEF Init, ViewsDisjoint
  <1>. QED  BY <1>1, <1>2, <1>3 DEF IInv, Init

\* Columns may change while their views do not: a column that is borrowed keeps
\* its rows.
LEMMA ColumnsChanged ==
  ASSUME IInv, views' = views, data' = [c \in Columns |-> data'[c]],
         \A c \in Columns : Sound(data'[c]),
         \A c \in Columns : \/ views[c] = {}
                           \/ /\ Rows(data'[c]) = Rows(data[c])
                              /\ data'[c].capacity = data[c].capacity,
         loop' # Idle => CopyInOrder' \/ RetainInOrder'
  PROVE  IInv'
  <1>1. ASSUME NEW c \in Columns, NEW v \in views'[c] PROVE Placed(data'[c], v)
    BY <1>1 DEF IInv, Placed
  <1>2. ViewsDisjoint'
    BY DEF IInv, ViewsDisjoint
  <1>. QED  BY <1>1, <1>2 DEF IInv

\* One column is replaced, and nothing is in progress afterwards.
LEMMA ColumnReplaced ==
  ASSUME IInv, NEW c \in Columns, NEW E, Sound(E), views[c] = {}, views' = views,
         data' = [data EXCEPT ![c] = E], loop' = Idle
  PROVE  IInv'
  <1>1. data = [d \in Columns |-> data[d]]
    BY DEF IInv
  <1>2. /\ data' = [d \in Columns |-> data'[d]] /\ data'[c] = E
        /\ \A d \in Columns : d # c => data'[d] = data[d]
    BY <1>1
  <1>3. \A d \in Columns : Sound(data'[d])
    BY <1>2 DEF IInv
  <1>4. \A d \in Columns : views[d] = {} \/ (/\ Rows(data'[d]) = Rows(data[d])
                                            /\ data'[d].capacity = data[d].capacity)
    BY <1>2
  <1>. QED  BY <1>2, <1>3, <1>4, ColumnsChanged

LEMMA PushInv ==
  ASSUME IInv, NEW c \in Columns, NEW value \in Texts \cup {NULL}, Push(c, value)
  PROVE  IInv'
  <1>1. Sound(data[c]) /\ views[c] = {} /\ loop' = Idle /\ views' = views
    BY DEF IInv, Push, Owned
  <1>2. Sound(Pushed(data[c], value))
    BY <1>1, PushedSound DEF Push
  <1>3. data' = [data EXCEPT ![c] = Pushed(data[c], value)]
    BY DEF Push
  <1>. QED  BY <1>1, <1>2, <1>3, ColumnReplaced

LEMMA PopInv ==
  ASSUME IInv, NEW c \in Columns, Pop(c)
  PROVE  IInv'
  <1>1. Sound(data[c]) /\ views[c] = {} /\ loop' = Idle /\ views' = views
    BY DEF IInv, Pop, Owned
  <1>2. Sound(Popped(data[c]))
    BY <1>1, PoppedSound DEF Pop
  <1>3. data' = [data EXCEPT ![c] = Popped(data[c])]
    BY DEF Pop
  <1>. QED  BY <1>1, <1>2, <1>3, ColumnReplaced

LEMMA AppendFromInv ==
  ASSUME IInv, NEW c \in Columns, NEW d \in Columns, AppendFrom(c, d)
  PROVE  IInv'
  <1>1. Sound(data[c]) /\ Sound(data[d]) /\ views[c] = {} /\ loop' = Idle /\ views' = views
    BY DEF IInv, AppendFrom, Owned
  <1>2. Sound(Appended(data[c], data[d]))
    BY <1>1, AppendedSound DEF AppendFrom
  <1>3. data' = [data EXCEPT ![c] = Appended(data[c], data[d])]
    BY DEF AppendFrom
  <1>. QED  BY <1>1, <1>2, <1>3, ColumnReplaced

LEMMA AppendOwnedInv ==
  ASSUME IInv, NEW c \in Columns, NEW d \in Columns \ {c}, AppendOwned(c, d)
  PROVE  IInv'
  <1>1. /\ Sound(data[c]) /\ Sound(data[d]) /\ views[c] = {} /\ views[d] = {}
        /\ loop' = Idle /\ views' = views
    BY DEF IInv, AppendOwned, Owned
  <1>2. Sound(Appended(data[c], data[d])) /\ Sound(New(Layout[d]))
    BY <1>1, AppendedSound, NewSound, LayoutAssumption DEF AppendOwned
  <1>3. /\ data = [e \in Columns |-> data[e]]
        /\ data' = [data EXCEPT ![c] = Appended(data[c], data[d]), ![d] = New(Layout[d])]
    BY DEF AppendOwned, IInv
  <1>4. /\ data' = [e \in Columns |-> data'[e]]
        /\ data'[c] = Appended(data[c], data[d]) /\ data'[d] = New(Layout[d])
        /\ \A e \in Columns : e # c /\ e # d => data'[e] = data[e]
    BY <1>3
  <1>5. \A e \in Columns : Sound(data'[e])
    BY <1>2, <1>4 DEF IInv
  <1>6. \A e \in Columns : views[e] = {} \/ (/\ Rows(data'[e]) = Rows(data[e])
                                            /\ data'[e].capacity = data[e].capacity)
    BY <1>1, <1>4
  <1>. QED  BY <1>1, <1>4, <1>5, <1>6, ColumnsChanged

LEMMA StartCopyInv ==
  ASSUME IInv, NEW c \in Columns, NEW d \in Columns, NEW rows \in Selections,
         StartCopy(c, d, rows)
  PROVE  IInv'
  <1>. DEFINE layout == [capacity |-> data[c].capacity, nullable |-> data[c].nullable]
  <1>1. /\ views[c] = {} /\ views[d] = {} /\ data' = data /\ views' = views
        /\ \A j \in DOMAIN rows : rows[j] <= Rows(data[c])
        /\ loop' = [kind |-> "copy", from |-> c, to |-> d, rows |-> rows, result |-> New(layout)]
    BY DEF StartCopy, Owned
  <1>2. layout \in [capacity : Nat \ {0}, nullable : BOOLEAN]
    BY DEF IInv, Sound, ColumnData
  <1>3. /\ Sound(New(layout)) /\ New(layout).capacity = data[c].capacity
        /\ New(layout).nullable = data[c].nullable
    BY <1>2, NewSound DEF New
  <1>. HIDE DEF layout
  <1>4. CopyInOrder'
    <2>1. rows \in Seq(Nat \ {0}) /\ DOMAIN rows = 1..Len(rows)
      BY SelectionsAssumption
    <2>2. /\ loop'.from = c /\ loop'.to = d /\ loop'.rows = rows /\ loop'.result = New(layout)
          /\ loop' = [kind |-> "copy", from |-> loop'.from, to |-> loop'.to,
                      rows |-> loop'.rows, result |-> loop'.result]
      BY <1>1
    <2>. QED  BY <1>1, <1>3, <2>1, <2>2 DEF CopyInOrder
  <1>. QED  BY <1>1, <1>4, ColumnsChanged DEF IInv

\* What the steps of a loop know of it.
LEMMA LoopKinds ==
  ASSUME IInv
  PROVE  (Copying => CopyInOrder) /\ (Retaining => RetainInOrder)
  <1>1. ASSUME Copying PROVE ~RetainInOrder
    BY <1>1 DEF Copying, RetainInOrder
  <1>2. ASSUME Retaining PROVE ~CopyInOrder
    BY <1>2 DEF Retaining, CopyInOrder
  <1>. QED  BY <1>1, <1>2 DEF IInv, Copying, Retaining, Idle

LEMMA CopyRowInv ==
  ASSUME IInv, CopyRow
  PROVE  IInv'
  <1>. DEFINE D == data[loop.from]
              i == loop.rows[Rows(loop.result) + 1]
              E == CopiedRow(D, loop.result, i)
  <1>1. CopyInOrder
    BY LoopKinds DEF CopyRow
  <1>2. /\ data' = data /\ views' = views /\ Rows(loop.result) < Len(loop.rows)
        /\ loop' = [loop EXCEPT !.result = E]
    BY DEF CopyRow
  <1>3. /\ loop = [kind |-> "copy", from |-> loop.from, to |-> loop.to, rows |-> loop.rows,
                   result |-> loop.result]
        /\ loop.from \in Columns /\ loop.rows \in Seq(Nat \ {0}) /\ Sound(loop.result) /\ Sound(D)
        /\ loop.result.capacity = D.capacity /\ loop.result.nullable = D.nullable
        /\ Rows(loop.result) \in Nat /\ Rows(D) \in Nat
        /\ \A j \in 1..Len(loop.rows) : loop.rows[j] <= Rows(D)
    BY <1>1 DEF CopyInOrder, IInv, Sound, ColumnData, Rows
  <1>4. i \in 1..Rows(D)
    <2>1. Rows(loop.result) + 1 \in 1..Len(loop.rows)
      BY <1>2, <1>3
    <2>. DEFINE next == Rows(loop.result) + 1
    <2>. HIDE DEF next
    <2>2. loop.rows[next] \in Nat \ {0} /\ loop.rows[next] <= Rows(D) /\ Rows(D) \in Nat
      <3>1. next \in 1..Len(loop.rows)
        BY <2>1 DEF next
      <3>. QED  BY <1>3, <3>1
    <2>. QED  BY <2>2 DEF next
  <1>5. Sound(E) /\ E.capacity = D.capacity /\ E.nullable = D.nullable
    <2>1. Sound(E)
      BY <1>3, <1>4, CopiedRowSound
    <2>2. E.capacity = loop.result.capacity /\ E.nullable = loop.result.nullable
      BY DEF CopiedRow, WithRows
    <2>. QED  BY <1>3, <2>1, <2>2
  <1>. HIDE DEF E
  <1>6. CopyInOrder'
    <2>1. /\ loop'.from = loop.from /\ loop'.to = loop.to /\ loop'.rows = loop.rows
          /\ loop'.result = E
          /\ loop' = [kind |-> "copy", from |-> loop'.from, to |-> loop'.to,
                      rows |-> loop'.rows, result |-> loop'.result]
      BY <1>2, <1>3
    <2>. QED  BY <1>1, <1>2, <1>5, <2>1 DEF CopyInOrder
  <1>. QED  BY <1>2, <1>6, ColumnsChanged DEF IInv

LEMMA EndCopyInv ==
  ASSUME IInv, EndCopy
  PROVE  IInv'
  <1>1. CopyInOrder
    BY LoopKinds DEF EndCopy
  <1>2. /\ loop.to \in Columns /\ Sound(loop.result) /\ views[loop.to] = {}
        /\ data' = [data EXCEPT ![loop.to] = loop.result] /\ loop' = Idle /\ views' = views
    BY <1>1 DEF EndCopy, CopyInOrder
  <1>. QED  BY <1>2, ColumnReplaced

LEMMA StartRetainInv ==
  ASSUME IInv, NEW c \in Columns, NEW tombstoned \in [1..Rows(data[c]) -> BOOLEAN],
         StartRetain(c, tombstoned)
  PROVE  IInv'
  <1>1. /\ views[c] = {} /\ data' = data /\ views' = views
        /\ loop' = [kind |-> "retain", column |-> c, tombstoned |-> tombstoned,
                    row |-> 0, destination |-> 0]
    BY DEF StartRetain, Owned
  <1>2. RetainInOrder'
    <2>1. /\ loop'.column = c /\ loop'.tombstoned = tombstoned
          /\ loop'.row = 0 /\ loop'.destination = 0
          /\ loop' = [kind |-> "retain", column |-> loop'.column,
                      tombstoned |-> loop'.tombstoned, row |-> loop'.row,
                      destination |-> loop'.destination]
      BY <1>1
    <2>2. Rows(data[c]) \in Nat
      BY DEF IInv, Sound, ColumnData, Rows
    <2>. QED  BY <1>1, <2>1, <2>2 DEF RetainInOrder
  <1>. QED  BY <1>1, <1>2, ColumnsChanged DEF IInv

\* The row moves on.
LEMMA NextRow ==
  ASSUME NEW r, NEW column, NEW tombstoned, NEW row, NEW destination,
         r = [kind |-> "retain", column |-> column, tombstoned |-> tombstoned,
              row |-> row, destination |-> destination]
  PROVE  [r EXCEPT !.row = @ + 1]
           = [kind |-> "retain", column |-> column, tombstoned |-> tombstoned,
              row |-> row + 1, destination |-> destination]
  OBVIOUS

\* The destination moves on with the row.
LEMMA NextDestination ==
  ASSUME NEW r, NEW column, NEW tombstoned, NEW row, NEW destination,
         r = [kind |-> "retain", column |-> column, tombstoned |-> tombstoned,
              row |-> row, destination |-> destination]
  PROVE  [r EXCEPT !.destination = @ + 1]
           = [kind |-> "retain", column |-> column, tombstoned |-> tombstoned,
              row |-> row, destination |-> destination + 1]
  OBVIOUS

LEMMA RetainRowInv ==
  ASSUME IInv, RetainRow
  PROVE  IInv'
  <1>. DEFINE c == loop.column
              D == data[c]
              i == loop.row + 1
              E == Moved(D, i, loop.destination)
  <1>1. RetainInOrder
    BY LoopKinds DEF RetainRow
  <1>2. /\ loop = [kind |-> "retain", column |-> c, tombstoned |-> loop.tombstoned,
                   row |-> loop.row, destination |-> loop.destination]
        /\ c \in Columns /\ Sound(D) /\ views[c] = {} /\ views' = views
        /\ loop.tombstoned \in [1..Rows(D) -> BOOLEAN]
        /\ loop.row \in 0..Rows(D) /\ loop.destination \in 0..loop.row
        /\ Rows(D) \in Nat /\ data = [d \in Columns |-> data[d]]
    BY <1>1 DEF RetainInOrder, IInv, RetainRow, Sound, ColumnData, Rows
  <1>3. loop.row < Rows(D)
    <2>1. Len(loop.tombstoned) = Rows(D)
      BY <1>2
    <2>. QED  BY <2>1 DEF RetainRow
  <1>4. i \in 1..Rows(D) /\ loop.destination \in Nat /\ loop.destination < i
    BY <1>2, <1>3
  <1>5. CASE loop.tombstoned[i]
    <2>1. data' = data /\ loop' = [loop EXCEPT !.row = @ + 1]
      BY <1>5 DEF RetainRow
    <2>2. RetainInOrder'
      <3>1. /\ loop'.column = c /\ loop'.tombstoned = loop.tombstoned
            /\ loop'.row = i /\ loop'.destination = loop.destination
            /\ loop' = [kind |-> "retain", column |-> loop'.column,
                        tombstoned |-> loop'.tombstoned, row |-> loop'.row,
                        destination |-> loop'.destination]
        <4>1. loop' = [kind |-> "retain", column |-> c, tombstoned |-> loop.tombstoned,
                       row |-> i, destination |-> loop.destination]
          BY <1>2, <2>1, NextRow
        <4>. QED  BY <4>1
      <3>2. i \in 0..Rows(D) /\ loop.destination \in 0..i
        BY <1>2, <1>4
      <3>. QED  BY <1>2, <2>1, <3>1, <3>2 DEF RetainInOrder
    <2>. QED  BY <1>2, <2>1, <2>2, ColumnsChanged DEF IInv
  <1>6. CASE ~loop.tombstoned[i]
    <2>1. /\ data' = [data EXCEPT ![c] = E]
          /\ loop' = [loop EXCEPT !.row = @ + 1, !.destination = @ + 1]
      BY <1>6 DEF RetainRow
    <2>2. Sound(E) /\ Rows(E) = Rows(D) /\ E.capacity = D.capacity
      <3>1. Sound(E) /\ Rows(E) = Rows(D)
        BY <1>2, <1>4, MovedSound
      <3>. QED  BY <3>1 DEF Moved, WithRows
    <2>. HIDE DEF E
    <2>3. /\ data' = [d \in Columns |-> data'[d]] /\ data'[c] = E
          /\ \A d \in Columns : d # c => data'[d] = data[d]
      BY <1>2, <2>1
    <2>4. RetainInOrder'
      <3>1. /\ loop'.column = c /\ loop'.tombstoned = loop.tombstoned
            /\ loop'.row = i /\ loop'.destination = loop.destination + 1
            /\ loop' = [kind |-> "retain", column |-> loop'.column,
                        tombstoned |-> loop'.tombstoned, row |-> loop'.row,
                        destination |-> loop'.destination]
        <4>. DEFINE r == [loop EXCEPT !.row = @ + 1]
        <4>1. r = [kind |-> "retain", column |-> c, tombstoned |-> loop.tombstoned,
                   row |-> i, destination |-> loop.destination]
          BY <1>2
        <4>2. loop' = [r EXCEPT !.destination = @ + 1]
          BY <2>1
        <4>. HIDE DEF r
        <4>3. loop' = [kind |-> "retain", column |-> c, tombstoned |-> loop.tombstoned,
                       row |-> i, destination |-> loop.destination + 1]
          BY <4>1, <4>2, NextDestination
        <4>. QED  BY <4>3
      <3>2. i \in 0..Rows(D) /\ loop.destination + 1 \in 0..i
        BY <1>2, <1>4
      <3>. QED  BY <1>2, <2>2, <2>3, <3>1, <3>2 DEF RetainInOrder
    <2>5. \A d \in Columns : Sound(data'[d])
      BY <2>2, <2>3 DEF IInv
    <2>6. \A d \in Columns : views[d] = {} \/ (/\ Rows(data'[d]) = Rows(data[d])
                                              /\ data'[d].capacity = data[d].capacity)
      BY <1>2, <2>3
    <2>. QED  BY <1>2, <2>3, <2>4, <2>5, <2>6, ColumnsChanged
  <1>. QED  BY <1>5, <1>6

LEMMA EndRetainInv ==
  ASSUME IInv, EndRetain
  PROVE  IInv'
  <1>1. RetainInOrder
    BY LoopKinds DEF EndRetain
  <1>. DEFINE c == loop.column
  <1>2. /\ c \in Columns /\ Sound(data[c]) /\ views[c] = {} /\ views' = views /\ loop' = Idle
        /\ data' = [data EXCEPT ![c] = Truncated(data[c], loop.destination)]
    BY <1>1 DEF RetainInOrder, IInv, EndRetain
  <1>3. loop.destination \in 0..Rows(data[c])
    <2>1. Rows(data[c]) \in Nat
      BY <1>2 DEF Sound, ColumnData, Rows
    <2>. QED  BY <1>1, <2>1 DEF RetainInOrder
  <1>4. Sound(Truncated(data[c], loop.destination))
    BY <1>2, <1>3, TruncatedSound
  <1>. QED  BY <1>2, <1>4, ColumnReplaced

\* A change of one column's views, while the column itself stays, leaves the
\* loops alone: they are about other columns.
LEMMA ViewsChanged ==
  ASSUME IInv, NEW c \in Columns, NEW V, data' = data, loop' = loop,
         views' = [views EXCEPT ![c] = V],
         \A v \in V : Placed(data[c], v),
         \A v, w \in V :
           v # w => v.first + v.rows <= w.first \/ w.first + w.rows <= v.first,
         loop = Idle \/ views[c] # {} \/ V = {}
  PROVE  IInv'
  <1>1. /\ views = [d \in Columns |-> views[d]] /\ views' = [d \in Columns |-> views'[d]]
        /\ views'[c] = V /\ \A d \in Columns : d # c => views'[d] = views[d]
    BY DEF IInv
  <1>2. \A d \in Columns : \A v \in views'[d] : Placed(data'[d], v)
    BY <1>1 DEF IInv
  <1>3. ViewsDisjoint'
    BY <1>1 DEF IInv, ViewsDisjoint
  <1>4. loop' # Idle => CopyInOrder' \/ RetainInOrder'
    <2>. SUFFICES ASSUME loop # Idle PROVE CopyInOrder' \/ RetainInOrder'
      OBVIOUS
    <2>1. \A d \in Columns : views[d] = {} => views'[d] = {}
      BY <1>1
    <2>2. CASE CopyInOrder
      BY <2>1, <2>2 DEF CopyInOrder
    <2>3. CASE RetainInOrder
      BY <2>1, <2>3 DEF RetainInOrder
    <2>. QED  BY <2>2, <2>3 DEF IInv
  <1>. QED  BY <1>1, <1>2, <1>3, <1>4 DEF IInv

LEMMA ViewMutInv ==
  ASSUME IInv, NEW c \in Columns, ViewMut(c)
  PROVE  IInv'
  <1>. DEFINE D == data[c]
              v == WholeView(D)
  <1>1. /\ data' = data /\ loop' = loop /\ loop = Idle
        /\ views' = [views EXCEPT ![c] = {v}]
    BY DEF ViewMut, Owned
  <1>2. /\ D.capacity \in Nat /\ Rows(D) \in Nat /\ Len(D.buffer) = Rows(D) * D.capacity
        /\ Len(D.buffer) \in Nat
    BY DEF IInv, Sound, Slotted, ColumnData, Rows
  <1>3. Placed(D, v)
    BY <1>2 DEF Placed, WholeView, View
  <1>. HIDE DEF v
  <1>. DEFINE V == {v}
  <1>4. /\ \A w \in V : Placed(D, w)
        /\ \A w, x \in V : w # x => w.first + w.rows <= x.first \/ x.first + x.rows <= w.first
    BY <1>3
  <1>5. views' = [views EXCEPT ![c] = V]
    BY <1>1
  <1>. HIDE DEF V
  <1>. QED  BY <1>1, <1>4, <1>5, ViewsChanged

LEMMA ReleaseInv ==
  ASSUME IInv, NEW c \in Columns, Release(c)
  PROVE  IInv'
  <1>1. data' = data /\ loop' = loop /\ views' = [views EXCEPT ![c] = {}]
    BY DEF Release
  <1>. DEFINE V == {}
  <1>2. /\ \A w \in V : Placed(data[c], w)
        /\ \A w, x \in V : w # x => w.first + w.rows <= x.first \/ x.first + x.rows <= w.first
        /\ V = {} /\ views' = [views EXCEPT ![c] = V]
    BY <1>1
  <1>. HIDE DEF V
  <1>. QED  BY <1>1, <1>2, ViewsChanged

\* Where a view is cut.
LEMMA CutSlots ==
  ASSUME NEW first \in Nat, NEW rows \in Nat, NEW mid \in 0..rows, NEW k \in Nat
  PROVE  /\ mid * k \in Nat /\ rows * k - mid * k \in Nat /\ rows - mid \in Nat
         /\ first * k + mid * k = (first + mid) * k
         /\ rows * k - mid * k = (rows - mid) * k
  BY FewerSlots, SlotsOfBoth

LEMMA SplitAtInv ==
  ASSUME IInv, NEW c \in Columns, NEW v \in views[c], NEW mid \in 0..v.rows, SplitAt(c, v, mid)
  PROVE  IInv'
  <1>. DEFINE D == data[c]
              bytes == mid * D.capacity
              left == LeftOf(v, mid, bytes)
              right == RightOf(v, mid, bytes)
              V == (views[c] \ {v}) \cup {left, right}
  <1>1. data' = data /\ loop' = loop /\ views' = [views EXCEPT ![c] = V]
    BY DEF SplitAt
  <1>2. /\ v.first \in Nat /\ v.rows \in Nat /\ v.start \in Nat /\ v.base = v.start
        /\ v.first + v.rows <= Rows(D) /\ v.start = v.first * D.capacity
        /\ v.size = v.rows * D.capacity
    BY DEF IInv, Placed, View
  <1>3. D.capacity \in Nat /\ Rows(D) \in Nat
    BY DEF IInv, Sound, ColumnData, Rows
  <1>4. /\ bytes \in Nat /\ v.size - bytes \in Nat /\ v.rows - mid \in Nat /\ mid \in Nat
        /\ v.start + bytes = (v.first + mid) * D.capacity
        /\ v.size - bytes = (v.rows - mid) * D.capacity
    BY <1>2, <1>3, CutSlots
  <1>5. left = [first |-> v.first, rows |-> mid, start |-> v.start, size |-> bytes,
                base |-> v.base]
    BY DEF LeftOf
  <1>6. right = [first |-> v.first + mid, rows |-> v.rows - mid, start |-> v.start + bytes,
                 size |-> v.size - bytes, base |-> v.base + bytes]
    BY DEF RightOf
  <1>7. Placed(D, left)
    <2>1. left \in View
      BY <1>2, <1>4, <1>5 DEF View
    <2>2. /\ left.first + left.rows <= Rows(D) /\ left.start = left.first * D.capacity
          /\ left.size = left.rows * D.capacity /\ left.base = left.start
      BY <1>2, <1>3, <1>4, <1>5
    <2>. QED  BY <2>1, <2>2 DEF Placed
  <1>8. Placed(D, right)
    <2>. HIDE DEF bytes
    <2>1. right \in View
      BY <1>2, <1>4, <1>6 DEF View
    <2>2. /\ right.first + right.rows <= Rows(D) /\ right.start = right.first * D.capacity
          /\ right.size = right.rows * D.capacity /\ right.base = right.start
      BY <1>2, <1>3, <1>4, <1>6
    <2>. QED  BY <2>1, <2>2 DEF Placed
  <1>9. /\ left.first = v.first /\ left.rows = mid
        /\ right.first = v.first + mid /\ right.rows = v.rows - mid
    BY <1>5, <1>6
  <1>. HIDE DEF left, right, bytes
  <1>10. \A w \in V : Placed(D, w)
    BY <1>7, <1>8 DEF IInv
  <1>11. ASSUME NEW w \in views[c], w # v
         PROVE  /\ w.first \in Nat /\ w.rows \in Nat
                /\ v.first + v.rows <= w.first \/ w.first + w.rows <= v.first
    BY <1>11 DEF IInv, ViewsDisjoint, Placed, View
  <1>12. ASSUME NEW w \in V, NEW x \in V, w # x
         PROVE  w.first + w.rows <= x.first \/ x.first + x.rows <= w.first
    <2>1. CASE w \in views[c] \ {v} /\ x \in views[c] \ {v}
      BY <1>12, <2>1 DEF IInv, ViewsDisjoint
    <2>2. CASE w \in views[c] \ {v} /\ x \in {left, right}
      BY <1>2, <1>4, <1>9, <1>11, <2>2
    <2>3. CASE w \in {left, right} /\ x \in views[c] \ {v}
      BY <1>2, <1>4, <1>9, <1>11, <2>3
    <2>4. CASE w \in {left, right} /\ x \in {left, right}
      BY <1>2, <1>4, <1>9, <1>12, <2>4
    <2>. QED  BY <2>1, <2>2, <2>3, <2>4
  <1>. HIDE DEF V
  <1>. QED  BY <1>1, <1>10, <1>12, ViewsChanged

\* Writing through a view: the column keeps its rows, and a loop is about others.
LEMMA BorrowedWritten ==
  ASSUME IInv, NEW c \in Columns, views[c] # {}, NEW E, Sound(E),
         Rows(E) = Rows(data[c]), E.capacity = data[c].capacity,
         data' = [data EXCEPT ![c] = E], views' = views, loop' = loop
  PROVE  IInv'
  <1>1. /\ data = [d \in Columns |-> data[d]] /\ data' = [d \in Columns |-> data'[d]]
        /\ data'[c] = E /\ \A d \in Columns : d # c => data'[d] = data[d]
    BY DEF IInv
  <1>2. \A d \in Columns : Sound(data'[d])
    BY <1>1 DEF IInv
  <1>3. \A d \in Columns : views[d] = {} \/ (/\ Rows(data'[d]) = Rows(data[d])
                                            /\ data'[d].capacity = data[d].capacity)
    BY <1>1
  <1>4. loop' # Idle => CopyInOrder' \/ RetainInOrder'
    <2>1. CASE CopyInOrder
      <3>1. loop.from # c /\ data'[loop.from] = data[loop.from]
        BY <1>1, <2>1 DEF CopyInOrder
      <3>. QED  BY <2>1, <3>1 DEF CopyInOrder
    <2>2. CASE RetainInOrder
      <3>1. loop.column # c /\ data'[loop.column] = data[loop.column]
        BY <1>1, <2>2 DEF RetainInOrder
      <3>. QED  BY <2>2, <3>1 DEF RetainInOrder
    <2>. QED  BY <2>1, <2>2 DEF IInv
  <1>. QED  BY <1>1, <1>2, <1>3, <1>4, ColumnsChanged

\* The descriptor of a view's row and its chunk start at the slot of the
\* column's row.
LEMMA OwnSlot ==
  ASSUME NEW D, Sound(D), NEW v, Placed(D, v), NEW i \in 1..v.rows
  PROVE  /\ v.first + i \in 1..Rows(D)
         /\ SlotOf(D, v, i) = At(D, v.first + i)
         /\ ChunkOf(D, v, i) = At(D, v.first + i)
         /\ SlotOf(D, v, i) \in Nat
         /\ v.start \in Nat /\ v.size \in Nat /\ D.capacity \in Nat
         /\ v.start <= SlotOf(D, v, i) /\ SlotOf(D, v, i) + D.capacity <= v.start + v.size
  <1>1. /\ D.capacity \in Nat /\ Rows(D) \in Nat /\ v.first \in Nat /\ v.rows \in Nat
        /\ v.start \in Nat /\ v.size \in Nat
        /\ v.first + v.rows <= Rows(D) /\ v.start = v.first * D.capacity
        /\ v.size = v.rows * D.capacity /\ v.base = v.start
    BY DEF Sound, ColumnData, Rows, Placed, View
  <1>2. v.first + i \in 1..Rows(D)
    BY <1>1
  <1>3. At(D, v.first + i) = (i - 1) * D.capacity + v.first * D.capacity
    BY <1>1, SlotsOfBoth DEF At
  <1>4. D.indices[v.first + i].offset = At(D, v.first + i)
    BY <1>2, SlotBounds
  <1>5. (i - 1) * D.capacity + D.capacity <= v.rows * D.capacity /\ (i - 1) * D.capacity \in Nat
    BY <1>1, SlotsApart
  <1>6. SlotOf(D, v, i) = At(D, v.first + i)
    BY <1>1, <1>3, <1>4, <1>5 DEF SlotOf
  <1>7. ChunkOf(D, v, i) = At(D, v.first + i)
    BY <1>1, <1>3, <1>5 DEF ChunkOf
  <1>8. SlotOf(D, v, i) \in Nat
    BY <1>1, <1>3, <1>5, <1>6
  <1>. QED  BY <1>1, <1>2, <1>3, <1>5, <1>6, <1>7, <1>8

\* set, wherever the slot was found.
LEMMA SetCellInv ==
  ASSUME IInv, NEW c \in Columns, NEW v \in views[c], NEW i \in 1..v.rows,
         NEW value \in Texts \cup {NULL}, NEW offset,
         offset = SlotOf(data[c], v, i) \/ offset = ChunkOf(data[c], v, i),
         SetCell(c, v, i, offset, value)
  PROVE  IInv'
  <1>. DEFINE D == data[c]
              E == Written(D, v.first + i, offset, value)
  <1>1. Sound(D) /\ Placed(D, v) /\ views[c] # {}
    BY DEF IInv
  <1>2. v.first + i \in 1..Rows(D) /\ offset = At(D, v.first + i)
    BY <1>1, OwnSlot
  <1>3. views' = views /\ loop' = loop
    BY DEF SetCell
  <1>4. CASE Fits(D, value)
    <2>1. Sound(E) /\ Rows(E) = Rows(D)
      BY <1>1, <1>2, <1>4, WrittenSound
    <2>2. E.capacity = D.capacity
      BY DEF Written, WithRows
    <2>3. data' = [data EXCEPT ![c] = E]
      BY <1>4 DEF SetCell
    <2>. HIDE DEF E
    <2>. QED  BY <1>1, <1>3, <2>1, <2>2, <2>3, BorrowedWritten
  <1>5. CASE ~Fits(D, value)
    <2>1. data' = data
      BY <1>5 DEF SetCell
    <2>. QED  BY <1>3, <2>1 DEF IInv, ViewsDisjoint, CopyInOrder, RetainInOrder
  <1>. QED  BY <1>4, <1>5

LEMMA EditCellInv ==
  ASSUME IInv, NEW c \in Columns, NEW v \in views[c], NEW i \in 1..v.rows, NEW text \in Texts,
         EditCell(c, v, i, text)
  PROVE  IInv'
  <1>. DEFINE D == data[c]
              E == WithRows(D, D.indices, Overwrite(D.buffer, SlotOf(D, v, i), text))
  <1>1. Sound(D) /\ Placed(D, v) /\ views[c] # {}
    BY DEF IInv
  <1>2. v.first + i \in 1..Rows(D) /\ SlotOf(D, v, i) = At(D, v.first + i)
    BY <1>1, OwnSlot
  <1>3. /\ views' = views /\ loop' = loop /\ D.indices[v.first + i].length = Len(text)
        /\ data' = [data EXCEPT ![c] = E]
    BY DEF EditCell
  <1>4. Sound(E) /\ Rows(E) = Rows(D)
    BY <1>1, <1>2, <1>3, EditedSound
  <1>5. E.capacity = D.capacity
    BY DEF WithRows
  <1>. HIDE DEF E
  <1>. QED  BY <1>1, <1>3, <1>4, <1>5, BorrowedWritten

LEMMA NextInv == IInv /\ [Next]_vars => IInv'
  <1>. SUFFICES ASSUME IInv, [Next]_vars PROVE IInv'
    OBVIOUS
  <1>1. CASE UNCHANGED vars
    BY <1>1 DEF vars, IInv, ViewsDisjoint, CopyInOrder, RetainInOrder
  <1>2. ASSUME NEW c \in Columns, NEW value \in Texts \cup {NULL}, Push(c, value) PROVE IInv'
    BY <1>2, PushInv
  <1>3. ASSUME NEW c \in Columns, Pop(c) PROVE IInv'
    BY <1>3, PopInv
  <1>4. ASSUME NEW c \in Columns, NEW d \in Columns \ {c}, AppendFrom(c, d) PROVE IInv'
    BY <1>4, AppendFromInv
  <1>5. ASSUME NEW c \in Columns, NEW d \in Columns \ {c}, AppendOwned(c, d) PROVE IInv'
    BY <1>5, AppendOwnedInv
  <1>6. ASSUME NEW c \in Columns, NEW d \in Columns \ {c}, NEW rows \in Selections,
               StartCopy(c, d, rows)
        PROVE  IInv'
    BY <1>6, StartCopyInv
  <1>7. ASSUME NEW c \in Columns, NEW tombstoned \in [1..Rows(data[c]) -> BOOLEAN],
               StartRetain(c, tombstoned)
        PROVE  IInv'
    BY <1>7, StartRetainInv
  <1>8. ASSUME NEW c \in Columns, ViewMut(c) PROVE IInv'
    BY <1>8, ViewMutInv
  <1>9. ASSUME NEW c \in Columns, Release(c) PROVE IInv'
    BY <1>9, ReleaseInv
  <1>10. ASSUME NEW c \in Columns, NEW v \in views[c], NEW mid \in 0..v.rows, SplitAt(c, v, mid)
         PROVE  IInv'
    BY <1>10, SplitAtInv
  <1>11. ASSUME NEW c \in Columns, NEW v \in views[c], NEW i \in 1..v.rows,
                NEW value \in Texts \cup {NULL},
                \/ SetCell(c, v, i, SlotOf(data[c], v, i), value)
                \/ SetCell(c, v, i, ChunkOf(data[c], v, i), value)
         PROVE  IInv'
    BY <1>11, SetCellInv
  <1>12. ASSUME NEW c \in Columns, NEW v \in views[c], NEW i \in 1..v.rows, NEW text \in Texts,
                EditCell(c, v, i, text)
         PROVE  IInv'
    BY <1>12, EditCellInv
  <1>13. CASE CopyRow \/ EndCopy \/ RetainRow \/ EndRetain
    BY <1>13, CopyRowInv, EndCopyInv, RetainRowInv, EndRetainInv
  <1>. QED
    BY <1>1, <1>2, <1>3, <1>4, <1>5, <1>6, <1>7, <1>8, <1>9, <1>10, <1>11, <1>12, <1>13 DEF Next

LEMMA InvHolds == Spec => []IInv
  BY InitInv, NextInv, PTL DEF Spec

-----------------------------------------------------------------------------
(* The texts of columns, for the refinement of TextColumns.                *)

Cellular == Texts \cup {NULL}

\* The texts of a column are a sequence.
LEMMA ContentsType ==
  ASSUME NEW D, Sound(D)
  PROVE  /\ Rows(D) \in Nat
         /\ Contents(D) \in Seq(Cellular) /\ Len(Contents(D)) = Rows(D)
         /\ DOMAIN Contents(D) = 1..Rows(D)
         /\ \A i \in 1..Rows(D) : Contents(D)[i] = TextOf(D, i)
  <1>1. Rows(D) \in Nat
    BY DEF Sound, ColumnData, Rows
  <1>2. \A i \in 1..Rows(D) : TextOf(D, i) \in Cellular
    BY ReadText DEF Cellular
  <1>. DEFINE n == Rows(D)
              s == Contents(D)
  <1>3. s = [i \in 1..n |-> TextOf(D, i)]
    BY DEF Contents
  <1>. HIDE DEF n, s
  <1>4. s \in [1..n -> Cellular]
    BY <1>2, <1>3 DEF n
  <1>5. s \in Seq(Cellular) /\ Len(s) = n /\ DOMAIN s = 1..n
    BY <1>1, <1>4 DEF n
  <1>6. \A i \in 1..n : s[i] = TextOf(D, i)
    BY <1>3
  <1>. QED  BY <1>1, <1>5, <1>6 DEF n, s

\* Columns with the same texts in the same rows.
LEMMA SameContents ==
  ASSUME NEW D, Sound(D), NEW s \in Seq(Cellular), Len(s) = Rows(D),
         \A i \in 1..Rows(D) : TextOf(D, i) = s[i]
  PROVE  Contents(D) = s
  <1>1. /\ Contents(D) \in Seq(Cellular) /\ Len(Contents(D)) = Rows(D)
        /\ \A i \in 1..Rows(D) : Contents(D)[i] = TextOf(D, i)
    BY ContentsType
  <1>. DEFINE t == Contents(D)
  <1>2. t \in Seq(Cellular) /\ Len(t) = Len(s) /\ \A i \in 1..Len(s) : t[i] = s[i]
    BY <1>1
  <1>. HIDE DEF t
  <1>3. t = s
    BY <1>2, SameSequence
  <1>. QED  BY <1>3 DEF t

\* A pushed value is the last text.
LEMMA PushedContents ==
  ASSUME NEW D, Sound(D), NEW value \in Cellular, Fits(D, value)
  PROVE  Contents(Pushed(D, value)) = Append(Contents(D), value)
  <1>. DEFINE E == Pushed(D, value)
              n == Rows(D)
              s == Contents(D)
              t == Append(s, value)
  <1>1. /\ Sound(E) /\ Rows(E) = n + 1
        /\ \A i \in 1..n : TextOf(E, i) = TextOf(D, i)
        /\ TextOf(E, n + 1) = value
    BY PushedSound DEF Cellular
  <1>2. /\ n \in Nat /\ s \in Seq(Cellular) /\ Len(s) = n
        /\ \A i \in 1..n : s[i] = TextOf(D, i)
    BY ContentsType
  <1>. HIDE DEF E, n, s
  <1>3. t \in Seq(Cellular) /\ Len(t) = n + 1 /\ t[n + 1] = value /\ \A i \in 1..n : t[i] = s[i]
    BY <1>2
  <1>. HIDE DEF t
  <1>4. \A i \in 1..Rows(E) : TextOf(E, i) = t[i]
    <2>. TAKE i \in 1..Rows(E)
    <2>1. i = n + 1 \/ i \in 1..n
      BY <1>1, <1>2
    <2>. QED  BY <1>1, <1>2, <1>3, <2>1
  <1>5. Contents(E) = t
    BY <1>1, <1>3, <1>4, SameContents
  <1>. QED  BY <1>5 DEF E, t, s

\* Without its last row.
LEMMA PoppedContents ==
  ASSUME NEW D, Sound(D), Rows(D) > 0
  PROVE  Contents(Popped(D)) = SubSeq(Contents(D), 1, Len(Contents(D)) - 1)
  <1>. DEFINE E == Popped(D)
              n == Rows(D)
              s == Contents(D)
              t == SubSeq(s, 1, Len(s) - 1)
  <1>1. Sound(E) /\ Rows(E) = n - 1 /\ \A i \in 1..(n - 1) : TextOf(E, i) = TextOf(D, i)
    BY PoppedSound
  <1>2. /\ n \in Nat /\ n > 0 /\ s \in Seq(Cellular) /\ Len(s) = n
        /\ \A i \in 1..n : s[i] = TextOf(D, i)
    BY ContentsType
  <1>. HIDE DEF E, n, s
  <1>3. t \in Seq(Cellular) /\ Len(t) = n - 1 /\ \A i \in 1..(n - 1) : t[i] = s[i]
    BY <1>2
  <1>. HIDE DEF t
  <1>4. \A i \in 1..Rows(E) : TextOf(E, i) = t[i]
    BY <1>1, <1>2, <1>3
  <1>5. Contents(E) = t
    BY <1>1, <1>3, <1>4, SameContents
  <1>. QED  BY <1>5 DEF E, t, s

\* One column's texts behind the other's.
LEMMA AppendedContents ==
  ASSUME NEW D, Sound(D), NEW F, Sound(F), CanAppend(D, F)
  PROVE  Contents(Appended(D, F)) = Contents(D) \o Contents(F)
  <1>. DEFINE E == Appended(D, F)
              n == Rows(D)
              m == Rows(F)
              s == Contents(D)
              t == Contents(F)
              u == s \o t
  <1>1. /\ Sound(E) /\ Rows(E) = n + m
        /\ \A i \in 1..n : TextOf(E, i) = TextOf(D, i)
        /\ \A j \in 1..m : TextOf(E, n + j) = TextOf(F, j)
    BY AppendedSound
  <1>2. /\ n \in Nat /\ s \in Seq(Cellular) /\ Len(s) = n
        /\ \A i \in 1..n : s[i] = TextOf(D, i)
    BY ContentsType
  <1>3. /\ m \in Nat /\ t \in Seq(Cellular) /\ Len(t) = m
        /\ \A i \in 1..m : t[i] = TextOf(F, i)
    BY ContentsType
  <1>. HIDE DEF E, n, m, s, t
  <1>4. /\ u \in Seq(Cellular) /\ Len(u) = n + m
        /\ \A i \in 1..n : u[i] = s[i]
        /\ \A j \in 1..m : u[n + j] = t[j]
    <2>1. /\ s \o t \in Seq(Cellular) /\ Len(s \o t) = Len(s) + Len(t)
          /\ \A i \in 1..Len(s) : (s \o t)[i] = s[i]
          /\ \A i \in 1..Len(t) : (s \o t)[Len(s) + i] = t[i]
      <3>1. s \in Seq(Cellular) /\ t \in Seq(Cellular)
        BY <1>2, <1>3
      <3>. QED  BY ONLY <3>1, Concatenation
    <2>. QED  BY <1>2, <1>3, <2>1
  <1>. HIDE DEF u
  <1>5. \A i \in 1..Rows(E) : TextOf(E, i) = u[i]
    <2>. TAKE i \in 1..Rows(E)
    <2>1. CASE i \in 1..n
      BY <1>1, <1>2, <1>4, <2>1
    <2>2. CASE i \notin 1..n
      <3>1. PICK j \in 1..m : i = n + j
        <4>1. i - n \in 1..m /\ i = n + (i - n)
          BY <1>1, <1>2, <1>3, <2>2
        <4>. QED  BY <4>1
      <3>. QED  BY <1>1, <1>3, <1>4, <3>1
    <2>. QED  BY <2>1, <2>2
  <1>6. Contents(E) = u
    BY <1>1, <1>4, <1>5, SameContents
  <1>. QED  BY <1>6 DEF E, u, s, t

\* A column of which row i has another text.
LEMMA ChangedContents ==
  ASSUME NEW D, Sound(D), NEW i \in 1..Rows(D), NEW value \in Cellular,
         NEW E, Sound(E), Rows(E) = Rows(D),
         \A j \in 1..Rows(D) : TextOf(E, j) = IF j = i THEN value ELSE TextOf(D, j)
  PROVE  Contents(E) = [Contents(D) EXCEPT ![i] = value]
  <1>. DEFINE s == Contents(D)
              t == [s EXCEPT ![i] = value]
  <1>1. /\ Rows(D) \in Nat /\ s \in Seq(Cellular) /\ Len(s) = Rows(D)
        /\ \A j \in 1..Rows(D) : s[j] = TextOf(D, j)
    BY ContentsType
  <1>. HIDE DEF s
  <1>2. /\ t \in Seq(Cellular) /\ Len(t) = Rows(D)
        /\ \A j \in 1..Rows(D) : t[j] = IF j = i THEN value ELSE s[j]
    BY <1>1
  <1>. HIDE DEF t
  <1>3. Contents(E) = t
    BY <1>1, <1>2, SameContents
  <1>. QED  BY <1>3 DEF t, s

\* The order of the rows that stay.
LEMMA OrderType ==
  ASSUME NEW kept, NEW n \in Nat
  PROVE  /\ KeptOf(kept, n) \in Seq(1..n) /\ Len(KeptOf(kept, n)) \in 0..n
         /\ DOMAIN KeptOf(kept, n) = 1..Len(KeptOf(kept, n))
         /\ \A j \in DOMAIN KeptOf(kept, n) : KeptOf(kept, n)[j] \in 1..n
  <1>. DEFINE s == KeptUpto(kept, n)[n]
  <1>1. n \in 0..n
    OBVIOUS
  <1>2. s \in Seq(1..n) /\ Len(s) \in 0..n
    BY <1>1, KeptUptoType
  <1>. HIDE DEF s
  <1>3. DOMAIN s = 1..Len(s) /\ \A j \in DOMAIN s : s[j] \in 1..n
    BY <1>2
  <1>. QED  BY <1>2, <1>3 DEF s, KeptOf

\* Before any row is moved, the rows that stay are where they were.
LEMMA StayingFirst ==
  ASSUME NEW D, Sound(D), NEW kept
  PROVE  Staying(D, kept, 0)
           = [j \in DOMAIN KeptOf(kept, Len(Contents(D))) |->
                Contents(D)[KeptOf(kept, Len(Contents(D)))[j]]]
  <1>. DEFINE n == Rows(D)
              order == KeptOf(kept, n)
  <1>1. /\ n \in Nat /\ Len(Contents(D)) = n
        /\ \A i \in 1..n : Contents(D)[i] = TextOf(D, i)
    BY ContentsType
  <1>2. /\ DOMAIN order = 1..Len(order) /\ Len(order) \in Nat
        /\ \A j \in DOMAIN order : order[j] \in 1..n
    BY <1>1, OrderType
  <1>3. Staying(D, kept, 0) = [j \in DOMAIN order |-> TextOf(D, IF j <= 0 THEN j ELSE order[j])]
    BY DEF Staying
  <1>4. \A j \in DOMAIN order : TextOf(D, IF j <= 0 THEN j ELSE order[j]) = Contents(D)[order[j]]
    <2>. TAKE j \in DOMAIN order
    <2>1. ~(j <= 0) /\ order[j] \in 1..n
      BY <1>2
    <2>. QED  BY <1>1, <2>1
  <1>. HIDE DEF order, n
  <1>5. Staying(D, kept, 0) = [j \in DOMAIN order |-> Contents(D)[order[j]]]
    BY <1>3, <1>4
  <1>. QED  BY <1>1, <1>5 DEF order

\* A row that moves stays what it was, and so do the others that stay.
LEMMA StayingMoved ==
  ASSUME NEW D, Sound(D), NEW kept, NEW row \in Nat, row < Rows(D), row + 1 \in kept,
         NEW to, to = Len(KeptUpto(kept, Rows(D))[row])
  PROVE  /\ to \in 0..row /\ to + 1 = Len(KeptUpto(kept, Rows(D))[row + 1])
         /\ Staying(Moved(D, row + 1, to), kept, to + 1) = Staying(D, kept, to)
  <1>. DEFINE n == Rows(D)
              i == row + 1
              E == Moved(D, i, to)
              s == KeptUpto(kept, n)[row]
              t == KeptUpto(kept, n)[i]
              order == KeptOf(kept, n)
  <1>1. n \in Nat /\ row \in 0..n /\ i \in 0..n /\ i \in 1..n
    BY ContentsType
  <1>2. s \in Seq(1..n) /\ Len(s) \in 0..row
    BY <1>1, KeptUptoType
  <1>3. t = Append(s, i)
    BY <1>1, KeptUptoAt
  <1>. HIDE DEF s, t
  <1>4. to \in 0..row /\ Len(t) = to + 1 /\ t[to + 1] = i
    <2>1. to = Len(s)
      BY DEF s, n
    <2>. QED  BY <1>1, <1>2, <1>3, <2>1
  <1>5. /\ Rows(E) = n
        /\ \A j \in 1..n : TextOf(E, j) = IF j = to + 1 THEN TextOf(D, i) ELSE TextOf(D, j)
    <2>1. to \in Nat /\ to < i
      BY <1>1, <1>4
    <2>. QED  BY <1>1, <2>1, MovedSound
  <1>6. /\ DOMAIN order = 1..Len(order) /\ Len(order) \in 0..n
        /\ \A j \in DOMAIN order : order[j] \in 1..n
    BY <1>1, OrderType
  <1>7. /\ Len(t) <= Len(order)
        /\ \A j \in 1..Len(order) : /\ j <= Len(t) => order[j] = t[j]
                                    /\ j > Len(t) => order[j] > i
    BY <1>1, KeptUptoGrows DEF t
  <1>. HIDE DEF E, order, n, i
  <1>8. ASSUME NEW j \in DOMAIN order
        PROVE  TextOf(E, IF j <= to + 1 THEN j ELSE order[j])
                 = TextOf(D, IF j <= to THEN j ELSE order[j])
    <2>1. j \in 1..n /\ to \in Nat /\ i \in Nat /\ to < i /\ order[j] \in 1..n
      <3>1. i = row + 1
        BY DEF i
      <3>. QED  BY <1>1, <1>4, <1>6, <3>1
    <2>2. CASE j <= to
      <3>1. j <= to + 1 /\ j # to + 1
        BY <2>1, <2>2
      <3>. QED  BY <1>5, <2>1, <2>2, <3>1
    <2>3. CASE j = to + 1
      <3>1. order[j] = i /\ j <= to + 1 /\ ~(j <= to)
        BY <1>4, <1>6, <1>7, <2>1, <2>3
      <3>. QED  BY <1>5, <2>1, <2>3, <3>1
    <2>4. CASE j > to + 1
      <3>1. order[j] > i
        BY <1>4, <1>6, <1>7, <2>4
      <3>2. order[j] # to + 1 /\ ~(j <= to + 1) /\ ~(j <= to)
        BY <2>1, <2>4, <3>1
      <3>. QED  BY <1>5, <2>1, <3>2
    <2>. QED  BY <2>1, <2>2, <2>3, <2>4
  <1>9. Staying(E, kept, to + 1) = Staying(D, kept, to)
    BY <1>5, <1>8 DEF Staying, order, n
  <1>. QED  BY <1>4, <1>9 DEF E, i, t, n

\* When all have been moved, what is left is what stays.
LEMMA StayingLast ==
  ASSUME NEW D, Sound(D), NEW kept, NEW to, to = Len(KeptOf(kept, Rows(D)))
  PROVE  Contents(Truncated(D, to)) = Staying(D, kept, to)
  <1>. DEFINE n == Rows(D)
              E == Truncated(D, to)
              order == KeptOf(kept, n)
              s == Staying(D, kept, to)
  <1>1. n \in Nat /\ \A i \in 1..n : TextOf(D, i) \in Cellular
    <2>1. /\ n \in Nat /\ Contents(D) \in Seq(Cellular) /\ Len(Contents(D)) = n
          /\ \A i \in 1..n : Contents(D)[i] = TextOf(D, i)
      BY ContentsType
    <2>. QED  BY <2>1
  <1>2. DOMAIN order = 1..to /\ to \in 0..n
    BY <1>1, OrderType
  <1>3. Sound(E) /\ Rows(E) = to /\ \A j \in 1..to : TextOf(E, j) = TextOf(D, j)
    BY <1>2, TruncatedSound
  <1>. HIDE DEF order, n, E
  <1>4. s = [j \in 1..to |-> TextOf(D, IF j <= to THEN j ELSE order[j])]
    BY <1>2 DEF Staying, order, n
  <1>. HIDE DEF s
  <1>5. \A j \in 1..to : s[j] = TextOf(D, j) /\ s[j] \in Cellular
    <2>. TAKE j \in 1..to
    <2>1. j <= to /\ j \in 1..n
      BY <1>1, <1>2
    <2>2. s[j] = TextOf(D, IF j <= to THEN j ELSE order[j])
      BY <1>4
    <2>. QED  BY <1>1, <2>1, <2>2
  <1>6. s \in Seq(Cellular) /\ Len(s) = to
    <2>1. s \in [1..to -> Cellular] /\ to \in Nat
      BY <1>1, <1>2, <1>4, <1>5
    <2>. QED  BY <2>1
  <1>7. Contents(E) = s
    BY <1>3, <1>5, <1>6, SameContents
  <1>. QED  BY <1>7 DEF E, s

-----------------------------------------------------------------------------
(* The refinement of TextColumns.                                          *)

Shown == [c \in Columns |-> Visible(c)]

\* The copy in progress has the texts of the rows that it copied.
CopyFollows ==
  Copying =>
    /\ loop.rows \in Selections /\ loop.from # loop.to
    /\ Rows(loop.result) <= Len(loop.rows)
    /\ \A j \in 1..Rows(loop.result) :
         TextOf(loop.result, j) = TextOf(data[loop.from], loop.rows[j])

\* The compaction in progress has moved the rows it keeps of those it has seen.
RetainFollows ==
  Retaining => loop.destination = Len(KeptUpto(Live, Rows(data[loop.column]))[loop.row])

RInv == IInv /\ CopyFollows /\ RetainFollows

\* A column that is not being compacted shows its rows.
LEMMA PlainlyVisible ==
  \A c \in Columns : ~(Retaining /\ loop.column = c) => Visible(c) = Contents(data[c])
  BY DEF Visible

LEMMA PlainlyVisibleNext ==
  (\A c \in Columns : ~(Retaining /\ loop.column = c) => Visible(c) = Contents(data[c]))'
  BY PlainlyVisible, PTL

\* A loop that goes on, while what it is about stays.
LEMMA LoopGoesOn ==
  ASSUME RInv, loop' = loop, \A c \in Columns : views[c] = {} => data'[c] = data[c]
  PROVE  CopyFollows' /\ RetainFollows'
  <1>1. ASSUME Copying PROVE data'[loop.from] = data[loop.from]
    <2>1. CopyInOrder
      BY <1>1, LoopKinds DEF RInv
    <2>. QED  BY <2>1 DEF CopyInOrder
  <1>2. ASSUME Retaining PROVE data'[loop.column] = data[loop.column]
    <2>1. RetainInOrder
      BY <1>2, LoopKinds DEF RInv
    <2>. QED  BY <2>1 DEF RetainInOrder
  <1>3. CopyFollows'
    BY <1>1 DEF CopyFollows, Copying, RInv
  <1>4. RetainFollows'
    BY <1>2 DEF RetainFollows, Retaining, RInv, Live
  <1>. QED  BY <1>3, <1>4

\* Nothing is in progress afterwards.
LEMMA LoopIsOver ==
  ASSUME loop' = Idle
  PROVE  CopyFollows' /\ RetainFollows'
  BY DEF CopyFollows, RetainFollows, Copying, Retaining, Idle

\* One column is another afterwards, and none is being compacted.
LEMMA ReplacedShown ==
  ASSUME IInv, NEW c \in Columns, NEW E, ~Retaining, ~Retaining', data' = [data EXCEPT ![c] = E]
  PROVE  /\ Shown' = [Shown EXCEPT ![c] = Contents(E)]
         /\ \A d \in Columns : Shown[d] = Contents(data[d])
  <1>1. data'[c] = E /\ \A d \in Columns : d # c => data'[d] = data[d]
    BY DEF IInv
  <1>2. \A d \in Columns : Visible(d)' = Contents(data[d])'
    BY PlainlyVisibleNext
  <1>3. \A d \in Columns : Shown[d] = Contents(data[d])
    BY PlainlyVisible DEF Shown
  <1>4. ASSUME NEW d \in Columns
        PROVE  Visible(d)' = IF d = c THEN Contents(E) ELSE Contents(data[d])
    <2>1. Visible(d)' = Contents(data[d])'
      BY <1>2
    <2>. QED  BY <1>1, <2>1 DEF Contents
  <1>5. Shown' = [d \in Columns |-> IF d = c THEN Contents(E) ELSE Shown[d]]
    BY <1>3, <1>4 DEF Shown
  <1>6. Shown = [d \in Columns |-> Shown[d]]
    BY DEF Shown
  <1>. QED  BY <1>3, <1>5, <1>6

\* One borrowed column is another afterwards.
LEMMA WrittenShown ==
  ASSUME IInv, NEW c \in Columns, NEW E, views[c] # {}, data' = [data EXCEPT ![c] = E],
         loop' = loop
  PROVE  /\ Shown' = [Shown EXCEPT ![c] = Contents(E)]
         /\ Shown[c] = Contents(data[c])
  <1>1. data'[c] = E /\ \A d \in Columns : d # c => data'[d] = data[d]
    BY DEF IInv
  <1>2. ~(Retaining /\ loop.column = c)
    <2>. SUFFICES ASSUME Retaining, loop.column = c PROVE FALSE
      OBVIOUS
    <2>1. RetainInOrder
      BY LoopKinds
    <2>. QED  BY <2>1 DEF RetainInOrder
  <1>3. Shown[c] = Contents(data[c])
    BY <1>2, PlainlyVisible DEF Shown
  <1>4. Visible(c)' = Contents(E)
    <2>1. ~(Retaining' /\ loop'.column = c)
      BY <1>2 DEF Retaining
    <2>2. Visible(c)' = Contents(data[c])'
      BY <2>1, PlainlyVisibleNext
    <2>. QED  BY <1>1, <2>2 DEF Contents
  <1>5. ASSUME NEW d \in Columns, d # c PROVE Visible(d)' = Visible(d)
    <2>1. data'[d] = data[d]
      BY <1>1, <1>5
    <2>. QED  BY <2>1 DEF Visible, Retaining, Live
  <1>6. Shown' = [d \in Columns |-> IF d = c THEN Contents(E) ELSE Shown[d]]
    BY <1>4, <1>5 DEF Shown
  <1>7. Shown = [d \in Columns |-> Shown[d]]
    BY DEF Shown
  <1>. QED  BY <1>3, <1>6, <1>7

\* No column and no compaction moves.
LEMMA NothingShown ==
  ASSUME data' = data, (loop' = loop) \/ (~Retaining /\ ~Retaining')
  PROVE  Shown' = Shown
  <1>1. ASSUME NEW d \in Columns PROVE Visible(d)' = Visible(d)
    <2>1. CASE loop' = loop
      BY <2>1 DEF Visible, Retaining, Live
    <2>2. CASE ~Retaining /\ ~Retaining'
      <3>1. Visible(d)' = Contents(data[d])' /\ Visible(d) = Contents(data[d])
        BY <2>2, PlainlyVisible, PlainlyVisibleNext
      <3>. QED  BY <3>1 DEF Contents
    <2>. QED  BY <2>1, <2>2
  <1>. QED  BY <1>1 DEF Shown

-----------------------------------------------------------------------------
(* Each step is one of TextColumns, or changes no text.                    *)

LEMMA PushShown ==
  ASSUME IInv, NEW c \in Columns, NEW value \in Texts \cup {NULL}, Push(c, value)
  PROVE  Cells!Push(c, value)
  <1>. DEFINE E == Pushed(data[c], value)
  <1>1. /\ ~Retaining /\ ~Retaining' /\ Fits(data[c], value)
        /\ data' = [data EXCEPT ![c] = E]
    BY DEF Push, Owned, Retaining, Idle
  <1>2. Contents(E) = Append(Contents(data[c]), value)
    BY <1>1, PushedContents DEF IInv, Cellular
  <1>. HIDE DEF E
  <1>3. Shown' = [Shown EXCEPT ![c] = Contents(E)] /\ Shown[c] = Contents(data[c])
    BY <1>1, ReplacedShown
  <1>4. Shown' = [Shown EXCEPT ![c] = Append(@, value)]
    BY <1>2, <1>3
  <1>. QED  BY <1>4 DEF Shown, Cells!Push

LEMMA PopShown ==
  ASSUME IInv, NEW c \in Columns, Pop(c)
  PROVE  Cells!Pop(c)
  <1>. DEFINE E == Popped(data[c])
              s == Contents(data[c])
  <1>1. ~Retaining /\ ~Retaining' /\ Rows(data[c]) > 0 /\ data' = [data EXCEPT ![c] = E]
    BY DEF Pop, Owned, Retaining, Idle
  <1>2. Contents(E) = SubSeq(s, 1, Len(s) - 1)
    BY <1>1, PoppedContents DEF IInv
  <1>3. s # <<>>
    <2>1. s \in Seq(Cellular) /\ Len(s) = Rows(data[c])
      BY ContentsType DEF IInv
    <2>. QED  BY <1>1, <2>1
  <1>. HIDE DEF E
  <1>4. Shown' = [Shown EXCEPT ![c] = Contents(E)] /\ Shown[c] = s
    BY <1>1, ReplacedShown
  <1>. HIDE DEF s
  <1>5. Shown' = [Shown EXCEPT ![c] = SubSeq(@, 1, Len(@) - 1)] /\ Shown[c] # <<>>
    BY <1>2, <1>3, <1>4
  <1>. QED  BY <1>5 DEF Shown, Cells!Pop

LEMMA AppendFromShown ==
  ASSUME IInv, NEW c \in Columns, NEW d \in Columns, AppendFrom(c, d)
  PROVE  Cells!AppendColumn(c, d)
  <1>. DEFINE E == Appended(data[c], data[d])
  <1>1. /\ ~Retaining /\ ~Retaining' /\ CanAppend(data[c], data[d])
        /\ data' = [data EXCEPT ![c] = E]
    BY DEF AppendFrom, Owned, Retaining, Idle
  <1>2. Contents(E) = Contents(data[c]) \o Contents(data[d])
    BY <1>1, AppendedContents DEF IInv
  <1>. HIDE DEF E
  <1>3. /\ Shown' = [Shown EXCEPT ![c] = Contents(E)]
        /\ Shown[c] = Contents(data[c]) /\ Shown[d] = Contents(data[d])
    BY <1>1, ReplacedShown
  <1>4. Shown' = [Shown EXCEPT ![c] = @ \o Shown[d]]
    BY <1>2, <1>3
  <1>. QED  BY <1>4 DEF Shown, Cells!AppendColumn

\* A column without rows shows none.
LEMMA NewContents ==
  ASSUME NEW layout \in [capacity : Nat \ {0}, nullable : BOOLEAN]
  PROVE  Contents(New(layout)) = <<>>
  <1>1. Sound(New(layout)) /\ Rows(New(layout)) = 0
    BY NewSound
  <1>2. Contents(New(layout)) \in Seq(Cellular) /\ Len(Contents(New(layout))) = 0
    BY <1>1, ContentsType
  <1>. QED  BY <1>2

LEMMA AppendOwnedShown ==
  ASSUME IInv, NEW c \in Columns, NEW d \in Columns \ {c}, AppendOwned(c, d)
  PROVE  Cells!TakeColumn(c, d)
  <1>. DEFINE E == Appended(data[c], data[d])
              N == New(Layout[d])
  <1>1. /\ ~Retaining /\ ~Retaining' /\ CanAppend(data[c], data[d])
        /\ data' = [data EXCEPT ![c] = E, ![d] = N]
        /\ data = [e \in Columns |-> data[e]]
    BY DEF AppendOwned, Owned, Retaining, IInv, Idle
  <1>2. Contents(E) = Contents(data[c]) \o Contents(data[d])
    BY <1>1, AppendedContents DEF IInv
  <1>3. Contents(N) = <<>>
    BY NewContents, LayoutAssumption
  <1>. HIDE DEF E, N
  <1>4. /\ data'[c] = E /\ data'[d] = N
        /\ \A e \in Columns : e # c /\ e # d => data'[e] = data[e]
    BY <1>1
  <1>5. \A e \in Columns : Visible(e)' = Contents(data[e])'
    BY <1>1, PlainlyVisibleNext
  <1>6. \A e \in Columns : Visible(e) = Contents(data[e])
    BY <1>1, PlainlyVisible
  <1>7. ASSUME NEW e \in Columns
        PROVE  Visible(e)' = IF e = d THEN <<>>
                             ELSE IF e = c THEN Contents(E) ELSE Visible(e)
    <2>1. Visible(e)' = Contents(data[e])'
      BY <1>5
    <2>2. Contents(data[e])' = IF e = d THEN Contents(N)
                               ELSE IF e = c THEN Contents(E) ELSE Contents(data[e])
      BY <1>4 DEF Contents
    <2>. QED  BY <1>3, <1>6, <2>1, <2>2
  <1>8. Shown[c] = Contents(data[c]) /\ Shown[d] = Contents(data[d])
    BY <1>6 DEF Shown
  <1>9. Shown' = [e \in Columns |-> IF e = d THEN <<>>
                                    ELSE IF e = c THEN Contents(E) ELSE Shown[e]]
    BY <1>7 DEF Shown
  <1>10. Shown = [e \in Columns |-> Shown[e]]
    BY DEF Shown
  <1>11. Shown' = [Shown EXCEPT ![c] = @ \o Shown[d], ![d] = <<>>]
    BY <1>2, <1>8, <1>9, <1>10
  <1>. QED  BY <1>11 DEF Shown, Cells!TakeColumn

LEMMA EndCopyShown ==
  ASSUME RInv, EndCopy
  PROVE  \E c \in Columns : \E d \in Columns \ {c} : \E rows \in Selections :
           Cells!CopyRows(c, d, rows)
  <1>. DEFINE c == loop.from
              d == loop.to
              rows == loop.rows
              E == loop.result
              t == [j \in DOMAIN rows |-> Shown[c][rows[j]]]
  <1>1. /\ Copying /\ Rows(E) = Len(rows) /\ data' = [data EXCEPT ![d] = E] /\ loop' = Idle
    BY DEF EndCopy
  <1>2. CopyInOrder
    BY <1>1, LoopKinds DEF RInv
  <1>3. /\ c \in Columns /\ d \in Columns /\ Sound(E) /\ Sound(data[c])
        /\ rows \in Seq(Nat \ {0})
        /\ \A j \in 1..Len(rows) : rows[j] <= Rows(data[c])
    BY <1>2 DEF CopyInOrder, RInv, IInv
  <1>4. /\ rows \in Selections /\ c # d
        /\ \A j \in 1..Rows(E) : TextOf(E, j) = TextOf(data[c], rows[j])
    BY <1>1 DEF RInv, CopyFollows
  <1>5. ~Retaining /\ ~Retaining'
    <2>1. loop.kind = "copy"
      BY <1>1 DEF Copying
    <2>. QED  BY <1>1, <2>1 DEF Retaining, Idle
  <1>6. Shown' = [Shown EXCEPT ![d] = Contents(E)] /\ Shown[c] = Contents(data[c])
    BY <1>1, <1>3, <1>5, ReplacedShown DEF RInv
  <1>7. /\ Rows(data[c]) \in Nat /\ DOMAIN Contents(data[c]) = 1..Rows(data[c])
        /\ Contents(data[c]) \in Seq(Cellular)
        /\ \A i \in 1..Rows(data[c]) : Contents(data[c])[i] = TextOf(data[c], i)
    BY <1>3, ContentsType
  <1>8. Len(rows) \in Nat /\ DOMAIN rows = 1..Len(rows) /\ \A j \in DOMAIN rows : rows[j] \in Nat \ {0}
    BY <1>3
  <1>9. \A j \in DOMAIN rows : rows[j] \in DOMAIN Shown[c]
    BY <1>3, <1>6, <1>7, <1>8
  <1>10. \A j \in 1..Rows(E) : TextOf(E, j) = t[j]
    <2>. TAKE j \in 1..Rows(E)
    <2>1. j \in DOMAIN rows
      BY <1>1, <1>8
    <2>2. t[j] = Contents(data[c])[rows[j]] /\ rows[j] \in 1..Rows(data[c])
      BY <1>6, <1>7, <1>9, <2>1
    <2>. QED  BY <1>4, <1>7, <2>2
  <1>11. t \in Seq(Cellular) /\ Len(t) = Rows(E)
    <2>1. \A j \in 1..Len(rows) : Shown[c][rows[j]] \in Cellular
      BY <1>6, <1>7, <1>8, <1>9
    <2>. DEFINE n == Len(rows)
    <2>2. t \in [1..n -> Cellular] /\ n \in Nat
      BY <1>8, <2>1
    <2>. HIDE DEF n, t
    <2>3. t \in Seq(Cellular) /\ Len(t) = n
      BY <2>2
    <2>. QED  BY <1>1, <2>3 DEF n
  <1>. HIDE DEF t
  <1>12. Contents(E) = t
    BY <1>3, <1>10, <1>11, SameContents
  <1>. HIDE DEF c, d, rows, E
  <1>13. Shown' = [Shown EXCEPT ![d] = [j \in DOMAIN rows |-> Shown[c][rows[j]]]]
    BY <1>6, <1>12 DEF t
  <1>14. Cells!CopyRows(c, d, rows)
    BY <1>9, <1>13 DEF Shown, Cells!CopyRows
  <1>. QED  BY <1>3, <1>4, <1>14

LEMMA StartCopyShown ==
  ASSUME IInv, NEW c \in Columns, NEW d \in Columns \ {c}, NEW rows \in Selections,
         StartCopy(c, d, rows)
  PROVE  CopyFollows' /\ RetainFollows' /\ Shown' = Shown
  <1>. DEFINE layout == [capacity |-> data[c].capacity, nullable |-> data[c].nullable]
              N == New(layout)
  <1>1. /\ data' = data /\ loop = Idle
        /\ loop' = [kind |-> "copy", from |-> c, to |-> d, rows |-> rows, result |-> N]
    BY DEF StartCopy, Owned
  <1>2. Rows(N) = 0
    <2>1. layout \in [capacity : Nat \ {0}, nullable : BOOLEAN]
      BY DEF IInv, Sound, ColumnData
    <2>. HIDE DEF layout
    <2>. QED  BY <2>1, NewSound
  <1>3. Len(rows) \in Nat
    BY SelectionsAssumption
  <1>. HIDE DEF N
  <1>4. /\ loop'.kind = "copy" /\ loop'.from = c /\ loop'.to = d
        /\ loop'.rows = rows /\ loop'.result = N
    BY <1>1
  <1>5. ~Retaining /\ ~Retaining'
    BY <1>1, <1>4 DEF Retaining, Idle
  <1>6. CopyFollows'
    <2>1. Rows(loop'.result) = 0 /\ Rows(loop'.result) <= Len(loop'.rows)
      BY <1>2, <1>3, <1>4
    <2>2. loop'.rows \in Selections /\ loop'.from # loop'.to
      BY <1>4
    <2>3. \A j \in 1..Rows(loop'.result) :
            TextOf(loop'.result, j) = TextOf(data'[loop'.from], loop'.rows[j])
      BY <2>1
    <2>. QED  BY <2>1, <2>2, <2>3 DEF CopyFollows
  <1>7. RetainFollows'
    BY <1>5 DEF RetainFollows
  <1>8. Shown' = Shown
    BY <1>1, <1>5, NothingShown
  <1>. QED  BY <1>6, <1>7, <1>8

\* A row of the copy has the text of the row it was asked for.
LEMMA CopyRowShown ==
  ASSUME RInv, CopyRow
  PROVE  CopyFollows' /\ RetainFollows' /\ Shown' = Shown
  <1>. DEFINE D == data[loop.from]
              R == loop.result
              n == Rows(R)
              i == loop.rows[n + 1]
              E == CopiedRow(D, R, i)
  <1>1. Copying /\ data' = data /\ n < Len(loop.rows) /\ loop' = [loop EXCEPT !.result = E]
    BY DEF CopyRow
  <1>2. CopyInOrder
    BY <1>1, LoopKinds DEF RInv
  <1>3. /\ loop = [kind |-> "copy", from |-> loop.from, to |-> loop.to, rows |-> loop.rows,
                   result |-> R]
        /\ loop.rows \in Seq(Nat \ {0}) /\ Sound(R) /\ Sound(D)
        /\ R.capacity = D.capacity /\ R.nullable = D.nullable
        /\ n \in Nat /\ Rows(D) \in Nat
        /\ \A j \in 1..Len(loop.rows) : loop.rows[j] <= Rows(D)
    BY <1>2 DEF CopyInOrder, RInv, IInv, Sound, ColumnData, Rows
  <1>4. /\ loop.rows \in Selections /\ loop.from # loop.to
        /\ \A j \in 1..n : TextOf(R, j) = TextOf(D, loop.rows[j])
    BY <1>1 DEF RInv, CopyFollows
  <1>5. n + 1 \in 1..Len(loop.rows)
    BY <1>1, <1>3
  <1>6. i \in 1..Rows(D)
    <2>. DEFINE next == n + 1
    <2>. HIDE DEF next
    <2>1. next \in 1..Len(loop.rows)
      BY <1>5 DEF next
    <2>2. loop.rows[next] \in Nat \ {0} /\ loop.rows[next] <= Rows(D)
      BY <1>3, <2>1
    <2>3. loop.rows[next] \in 1..Rows(D)
      BY <1>3, <2>2
    <2>. QED  BY <2>3 DEF next
  <1>7. /\ Rows(E) = n + 1
        /\ \A j \in 1..n : TextOf(E, j) = TextOf(R, j)
        /\ TextOf(E, n + 1) = TextOf(D, i)
    BY <1>3, <1>6, CopiedRowSound
  <1>. HIDE DEF E
  <1>8. /\ loop'.kind = "copy" /\ loop'.from = loop.from /\ loop'.to = loop.to
        /\ loop'.rows = loop.rows /\ loop'.result = E
    BY <1>1, <1>3
  <1>9. ~Retaining /\ ~Retaining'
    BY <1>3, <1>8 DEF Retaining
  <1>10. ASSUME NEW j \in 1..(n + 1) PROVE TextOf(E, j) = TextOf(D, loop.rows[j])
    <2>1. CASE j = n + 1
      BY <1>7, <2>1
    <2>2. CASE j # n + 1
      <3>1. j \in 1..n
        BY <1>3, <2>2
      <3>. QED  BY <1>4, <1>7, <3>1
    <2>. QED  BY <2>1, <2>2
  <1>11. CopyFollows'
    <2>1. Rows(loop'.result) = n + 1 /\ Rows(loop'.result) <= Len(loop'.rows)
      BY <1>5, <1>7, <1>8
    <2>2. data'[loop'.from] = D
      BY <1>1, <1>8
    <2>3. \A j \in 1..Rows(loop'.result) :
            TextOf(loop'.result, j) = TextOf(data'[loop'.from], loop'.rows[j])
      <3>. HIDE DEF D, n
      <3>. QED  BY <1>8, <1>10, <2>1, <2>2
    <2>. QED  BY <1>4, <1>8, <2>1, <2>3 DEF CopyFollows
  <1>12. RetainFollows'
    BY <1>9 DEF RetainFollows
  <1>13. Shown' = Shown
    BY <1>1, <1>9, NothingShown
  <1>. QED  BY <1>11, <1>12, <1>13

\* When a compaction starts, the column shows what will stay.
LEMMA StartRetainShown ==
  ASSUME IInv, NEW c \in Columns, NEW tombstoned \in [1..Rows(data[c]) -> BOOLEAN],
         StartRetain(c, tombstoned)
  PROVE  /\ CopyFollows' /\ RetainFollows'
         /\ \E kept \in SUBSET DOMAIN Shown[c] : Cells!Retain(c, kept)
  <1>. DEFINE D == data[c]
              n == Rows(D)
              kept == {i \in DOMAIN tombstoned : ~tombstoned[i]}
              order == KeptOf(kept, Len(Shown[c]))
  <1>1. /\ loop = Idle /\ data' = data
        /\ loop' = [kind |-> "retain", column |-> c, tombstoned |-> tombstoned,
                    row |-> 0, destination |-> 0]
    BY DEF StartRetain, Owned
  <1>2. Sound(D)
    BY DEF IInv
  <1>3. n \in Nat /\ DOMAIN Contents(D) = 1..n
    BY <1>2, ContentsType
  <1>4. /\ loop'.kind = "retain" /\ loop'.column = c /\ loop'.tombstoned = tombstoned
        /\ loop'.row = 0 /\ loop'.destination = 0
    BY <1>1
  <1>5. ~Retaining /\ Retaining' /\ ~Copying'
    BY <1>1, <1>4 DEF Retaining, Copying, Idle
  <1>6. Live' = kept
    BY <1>4 DEF Live
  <1>7. \A d \in Columns : Visible(d) = Contents(data[d])
    BY <1>5, PlainlyVisible
  <1>8. kept \in SUBSET DOMAIN Shown[c] /\ Shown[c] = Contents(D)
    BY <1>3, <1>7 DEF Shown
  <1>. HIDE DEF kept
  <1>9. RetainFollows'
    <2>1. KeptUpto(kept, n)[0] = <<>>
      BY <1>3, KeptUptoAt
    <2>2. 0 = Len(KeptUpto(kept, n)[0])
      BY <2>1
    <2>3. data'[loop'.column] = D
      BY <1>1, <1>4
    <2>. QED  BY <1>4, <1>6, <2>2, <2>3 DEF RetainFollows
  <1>10. CopyFollows'
    BY <1>5 DEF CopyFollows
  <1>11. Visible(c)' = [j \in DOMAIN order |-> Shown[c][order[j]]]
    <2>1. Visible(c)' = Staying(data'[c], Live', loop'.destination)
      BY <1>4, <1>5 DEF Visible
    <2>2. Visible(c)' = Staying(D, kept, 0)
      BY <1>1, <1>4, <1>6, <2>1
    <2>. HIDE DEF D
    <2>. QED  BY <1>2, <1>8, <2>2, StayingFirst
  <1>12. \A d \in Columns : d # c => Visible(d)' = Visible(d)
    <2>. SUFFICES ASSUME NEW d \in Columns, d # c PROVE Visible(d)' = Visible(d)
      OBVIOUS
    <2>1. Visible(d)' = Contents(data'[d])
      BY <1>4, <1>5 DEF Visible
    <2>. QED  BY <1>1, <1>7, <2>1
  <1>. HIDE DEF order
  <1>13. Shown' = [d \in Columns |-> IF d = c THEN [j \in DOMAIN order |-> Shown[c][order[j]]]
                                     ELSE Shown[d]]
    BY <1>11, <1>12 DEF Shown
  <1>14. Shown = [d \in Columns |-> Shown[d]]
    BY DEF Shown
  <1>15. Shown' = [Shown EXCEPT ![c] = [j \in DOMAIN order |-> Shown[c][order[j]]]]
    BY <1>13, <1>14
  <1>16. order = Cells!KeptOf(kept, Len(Shown[c]))
    BY DEF order, KeptOf, KeptUpto, Cells!KeptOf, Cells!KeptUpto
  <1>17. Cells!Retain(c, kept)
    BY <1>15, <1>16 DEF Shown, Cells!Retain
  <1>. QED  BY <1>8, <1>9, <1>10, <1>17

\* While the rows move, none of those that stay changes.
LEMMA RetainRowShown ==
  ASSUME RInv, RetainRow
  PROVE  CopyFollows' /\ RetainFollows' /\ Shown' = Shown
  <1>. DEFINE c == loop.column
              D == data[c]
              n == Rows(D)
              i == loop.row + 1
              to == loop.destination
              E == Moved(D, i, to)
              u == KeptUpto(Live, n)
  <1>1. Retaining /\ loop.row < Len(loop.tombstoned)
    BY DEF RetainRow
  <1>2. RetainInOrder
    BY <1>1, LoopKinds DEF RInv
  <1>3. /\ loop = [kind |-> "retain", column |-> c, tombstoned |-> loop.tombstoned,
                   row |-> loop.row, destination |-> to]
        /\ c \in Columns /\ Sound(D) /\ n \in Nat
        /\ loop.tombstoned \in [1..n -> BOOLEAN]
        /\ loop.row \in 0..n /\ to \in 0..loop.row
        /\ data = [d \in Columns |-> data[d]]
    BY <1>2 DEF RetainInOrder, RInv, IInv, Sound, ColumnData, Rows
  <1>4. loop.row < n /\ loop.row \in Nat /\ i \in 1..n /\ i \in 0..n
    <2>1. Len(loop.tombstoned) = n
      BY <1>3
    <2>. QED  BY <1>1, <1>3, <2>1
  <1>5. to = Len(u[loop.row])
    BY <1>1 DEF RInv, RetainFollows
  <1>6. u[i] = IF i \in Live THEN Append(u[loop.row], i) ELSE u[loop.row]
    BY <1>3, <1>4, KeptUptoAt
  <1>7. i \in Live <=> ~loop.tombstoned[i]
    BY <1>3, <1>4 DEF Live
  <1>8. \A d \in Columns : d # c => Visible(d) = Contents(data[d])
    BY PlainlyVisible
  <1>9. Visible(c) = Staying(D, Live, to)
    BY <1>1 DEF Visible
  <1>10. CASE loop.tombstoned[i]
    <2>1. /\ loop' = [loop EXCEPT !.row = @ + 1] /\ data' = data
      BY <1>10 DEF RetainRow
    <2>2. loop' = [kind |-> "retain", column |-> c, tombstoned |-> loop.tombstoned,
                   row |-> i, destination |-> to]
      BY <1>3, <2>1, NextRow
    <2>3. /\ loop'.kind = "retain" /\ loop'.column = c /\ loop'.tombstoned = loop.tombstoned
          /\ loop'.row = i /\ loop'.destination = to
      BY <2>2
    <2>4. Retaining' /\ ~Copying' /\ Live' = Live
      BY <2>3 DEF Retaining, Copying, Live
    <2>5. CopyFollows'
      BY <2>4 DEF CopyFollows
    <2>6. RetainFollows'
      <3>1. to = Len(u[i])
        BY <1>5, <1>6, <1>7, <1>10
      <3>. QED  BY <2>1, <2>3, <2>4, <3>1 DEF RetainFollows
    <2>7. ASSUME NEW d \in Columns PROVE Visible(d)' = Visible(d)
      BY <1>1, <2>1, <2>3, <2>4 DEF Visible
    <2>. QED  BY <2>5, <2>6, <2>7 DEF Shown
  <1>11. CASE ~loop.tombstoned[i]
    <2>. DEFINE r == [loop EXCEPT !.row = @ + 1]
    <2>1. loop' = [r EXCEPT !.destination = @ + 1] /\ data' = [data EXCEPT ![c] = E]
      BY <1>11 DEF RetainRow
    <2>2. r = [kind |-> "retain", column |-> c, tombstoned |-> loop.tombstoned,
               row |-> i, destination |-> to]
      BY <1>3, NextRow
    <2>. HIDE DEF r
    <2>3. loop' = [kind |-> "retain", column |-> c, tombstoned |-> loop.tombstoned,
                   row |-> i, destination |-> to + 1]
      BY <2>1, <2>2, NextDestination
    <2>4. /\ loop'.kind = "retain" /\ loop'.column = c /\ loop'.tombstoned = loop.tombstoned
          /\ loop'.row = i /\ loop'.destination = to + 1
      BY <2>3
    <2>5. Retaining' /\ ~Copying' /\ Live' = Live
      BY <2>4 DEF Retaining, Copying, Live
    <2>6. data'[c] = E /\ \A d \in Columns : d # c => data'[d] = data[d]
      BY <1>3, <2>1
    <2>7. i \in Live /\ to + 1 = Len(u[i]) /\ Staying(E, Live, to + 1) = Staying(D, Live, to)
      <3>1. i \in Live
        BY <1>7, <1>11
      <3>. QED  BY <1>3, <1>4, <1>5, <3>1, StayingMoved
    <2>8. Rows(E) = n
      <3>1. to \in Nat /\ to < i
        BY <1>3, <1>4
      <3>. QED  BY <1>3, <1>4, <3>1, MovedSound
    <2>. HIDE DEF E
    <2>9. CopyFollows'
      BY <2>5 DEF CopyFollows
    <2>10. RetainFollows'
      <3>1. Rows(data'[loop'.column]) = n
        BY <2>4, <2>6, <2>8
      <3>. HIDE DEF n
      <3>. QED  BY <2>4, <2>5, <2>7, <3>1 DEF RetainFollows
    <2>11. Visible(c)' = Visible(c)
      <3>1. Visible(c)' = Staying(data'[c], Live', loop'.destination)
        BY <2>4, <2>5 DEF Visible
      <3>. QED  BY <1>9, <2>4, <2>5, <2>6, <2>7, <3>1
    <2>12. ASSUME NEW d \in Columns, d # c PROVE Visible(d)' = Visible(d)
      <3>1. Visible(d)' = Contents(data'[d])
        BY <2>4, <2>5, <2>12 DEF Visible
      <3>. QED  BY <1>8, <2>6, <2>12, <3>1
    <2>13. ASSUME NEW d \in Columns PROVE Visible(d)' = Visible(d)
      <3>1. CASE d = c
        BY <2>4, <2>11, <3>1 DEF Visible
      <3>2. CASE d # c
        BY <2>12, <3>2
      <3>. QED  BY <3>1, <3>2
    <2>. QED  BY <2>9, <2>10, <2>13 DEF Shown
  <1>. QED  BY <1>3, <1>4, <1>10, <1>11

\* What is left after the last row is what the column showed all along.
LEMMA EndRetainShown ==
  ASSUME RInv, EndRetain
  PROVE  Shown' = Shown
  <1>0. Retaining /\ RetainInOrder
    BY LoopKinds DEF RInv, EndRetain
  <1>2. PICK c \in Columns : c = loop.column
    BY <1>0 DEF RetainInOrder
  <1>. DEFINE D == data[c]
              n == Rows(D)
              to == loop.destination
              E == Truncated(D, to)
  <1>1. /\ Retaining /\ loop.row = Len(loop.tombstoned) /\ loop' = Idle
        /\ data' = [data EXCEPT ![c] = E]
    BY <1>2 DEF EndRetain
  <1>3. /\ Sound(D) /\ n \in Nat /\ loop.tombstoned \in [1..n -> BOOLEAN]
        /\ data = [d \in Columns |-> data[d]]
    BY <1>0, <1>2 DEF RetainInOrder, RInv, IInv, Sound, ColumnData, Rows
  <1>4. loop.row = n
    BY <1>1, <1>3
  <1>5. to = Len(KeptOf(Live, n))
    BY <1>1, <1>2, <1>4 DEF RInv, RetainFollows, KeptOf
  <1>6. Contents(E) = Staying(D, Live, to)
    BY <1>3, <1>5, StayingLast
  <1>. HIDE DEF E
  <1>7. ~Retaining'
    BY <1>1 DEF Retaining, Idle
  <1>8. data'[c] = E /\ \A d \in Columns : d # c => data'[d] = data[d]
    BY <1>1, <1>3
  <1>9. Visible(c)' = Visible(c)
    <2>1. Visible(c)' = Contents(data'[c])
      BY <1>7 DEF Visible
    <2>2. Visible(c) = Staying(D, Live, to)
      BY <1>1, <1>2 DEF Visible
    <2>. QED  BY <1>6, <1>8, <2>1, <2>2
  <1>10. ASSUME NEW d \in Columns, d # c PROVE Visible(d)' = Visible(d)
    <2>1. Visible(d)' = Contents(data'[d])
      BY <1>7 DEF Visible
    <2>2. Visible(d) = Contents(data[d])
      BY <1>2, <1>10, PlainlyVisible
    <2>. QED  BY <1>8, <1>10, <2>1, <2>2
  <1>. QED  BY <1>9, <1>10 DEF Shown

\* set changes the cell it is about, or nothing.
LEMMA SetCellShown ==
  ASSUME IInv, NEW c \in Columns, NEW v \in views[c], NEW i \in 1..v.rows,
         NEW value \in Texts \cup {NULL}, NEW offset,
         offset = SlotOf(data[c], v, i) \/ offset = ChunkOf(data[c], v, i),
         SetCell(c, v, i, offset, value)
  PROVE  (\E k \in DOMAIN Shown[c] : Cells!Set(c, k, value)) \/ Shown' = Shown
  <1>. DEFINE D == data[c]
              k == v.first + i
              E == Written(D, k, offset, value)
  <1>1. Sound(D) /\ Placed(D, v) /\ views[c] # {}
    BY DEF IInv
  <1>2. k \in 1..Rows(D) /\ offset = At(D, k)
    BY <1>1, OwnSlot
  <1>3. loop' = loop
    BY DEF SetCell
  <1>. HIDE DEF k
  <1>4. CASE Fits(D, value)
    <2>1. data' = [data EXCEPT ![c] = E]
      BY <1>4 DEF SetCell, k
    <2>2. Contents(E) = [Contents(D) EXCEPT ![k] = value]
      <3>1. /\ Sound(E) /\ Rows(E) = Rows(D)
            /\ \A j \in 1..Rows(D) : TextOf(E, j) = IF j = k THEN value ELSE TextOf(D, j)
        BY <1>1, <1>2, <1>4, WrittenSound
      <3>2. value \in Cellular
        BY DEF Cellular
      <3>. HIDE DEF E, D
      <3>. QED  BY <1>1, <1>2, <3>1, <3>2, ChangedContents
    <2>. HIDE DEF E
    <2>3. Shown' = [Shown EXCEPT ![c] = Contents(E)] /\ Shown[c] = Contents(D)
      BY <1>1, <1>3, <2>1, WrittenShown
    <2>4. k \in DOMAIN Shown[c]
      BY <1>1, <1>2, <2>3, ContentsType
    <2>5. Shown' = [Shown EXCEPT ![c] = [@ EXCEPT ![k] = value]]
      BY <2>2, <2>3
    <2>6. Cells!Set(c, k, value)
      BY <2>4, <2>5 DEF Shown, Cells!Set
    <2>. QED  BY <2>4, <2>6
  <1>5. CASE ~Fits(D, value)
    <2>1. data' = data
      BY <1>5 DEF SetCell
    <2>. QED  BY <1>3, <2>1, NothingShown
  <1>. QED  BY <1>4, <1>5

\* A text that is edited in place becomes another text of that cell.
LEMMA EditCellShown ==
  ASSUME IInv, NEW c \in Columns, NEW v \in views[c], NEW i \in 1..v.rows, NEW text \in Texts,
         EditCell(c, v, i, text)
  PROVE  \E k \in DOMAIN Shown[c] : Cells!Set(c, k, text)
  <1>. DEFINE D == data[c]
              k == v.first + i
              E == WithRows(D, D.indices, Overwrite(D.buffer, SlotOf(D, v, i), text))
  <1>1. Sound(D) /\ Placed(D, v) /\ views[c] # {}
    BY DEF IInv
  <1>2. k \in 1..Rows(D) /\ SlotOf(D, v, i) = At(D, k)
    BY <1>1, OwnSlot
  <1>3. loop' = loop /\ D.indices[k].length = Len(text) /\ data' = [data EXCEPT ![c] = E]
    BY DEF EditCell
  <1>. HIDE DEF k
  <1>4. Contents(E) = [Contents(D) EXCEPT ![k] = text]
    <2>1. /\ Sound(E) /\ Rows(E) = Rows(D)
          /\ \A j \in 1..Rows(D) : TextOf(E, j) = IF j = k THEN text ELSE TextOf(D, j)
      BY <1>1, <1>2, <1>3, EditedSound
    <2>2. text \in Cellular
      BY DEF Cellular
    <2>. HIDE DEF E, D
    <2>. QED  BY <1>1, <1>2, <2>1, <2>2, ChangedContents
  <1>. HIDE DEF E
  <1>5. Shown' = [Shown EXCEPT ![c] = Contents(E)] /\ Shown[c] = Contents(D)
    BY <1>1, <1>3, WrittenShown
  <1>6. k \in DOMAIN Shown[c]
    BY <1>1, <1>2, <1>5, ContentsType
  <1>7. Shown' = [Shown EXCEPT ![c] = [@ EXCEPT ![k] = text]]
    BY <1>4, <1>5
  <1>8. Cells!Set(c, k, text)
    BY <1>6, <1>7 DEF Shown, Cells!Set
  <1>. QED  BY <1>6, <1>8

\* A step of the slots is a step of the texts, or none.
StepShown == CopyFollows' /\ RetainFollows' /\ (Cells!Next \/ Shown' = Shown)

LEMMA InitShown == Init => CopyFollows /\ RetainFollows /\ Cells!Init
  <1>. SUFFICES ASSUME Init PROVE CopyFollows /\ RetainFollows /\ Cells!Init
    OBVIOUS
  <1>1. /\ loop = Idle /\ ~Copying /\ ~Retaining
        /\ \A c \in Columns : data[c] = New(Layout[c])
    BY DEF Init, Copying, Retaining, Idle
  <1>2. \A c \in Columns : Visible(c) = <<>>
    BY <1>1, LayoutAssumption, NewContents, PlainlyVisible
  <1>3. Cells!Init
    BY <1>2 DEF Cells!Init
  <1>. QED  BY <1>1, <1>3 DEF CopyFollows, RetainFollows

LEMMA WholeColumnShown ==
  ASSUME RInv, NEW c \in Columns,
         \/ \E value \in Texts \cup {NULL} : Push(c, value)
         \/ Pop(c)
         \/ \E d \in Columns \ {c} : AppendFrom(c, d) \/ AppendOwned(c, d)
  PROVE  StepShown
  <1>1. CopyFollows' /\ RetainFollows'
    <2>1. loop' = Idle
      BY DEF Push, Pop, AppendFrom, AppendOwned, Owned
    <2>. QED  BY <2>1, LoopIsOver
  <1>. DEFINE Effect ==
         \/ \E value \in Texts \cup {NULL} : Cells!Push(c, value)
         \/ Cells!Pop(c)
         \/ \E d \in Columns \ {c} : Cells!AppendColumn(c, d) \/ Cells!TakeColumn(c, d)
  <1>2. Effect
    <2>1. ASSUME NEW value \in Texts \cup {NULL}, Push(c, value) PROVE Effect
      BY <2>1, PushShown DEF RInv
    <2>2. CASE Pop(c)
      BY <2>2, PopShown DEF RInv
    <2>3. ASSUME NEW d \in Columns \ {c}, AppendFrom(c, d) PROVE Effect
      BY <2>3, AppendFromShown DEF RInv
    <2>4. ASSUME NEW d \in Columns \ {c}, AppendOwned(c, d) PROVE Effect
      BY <2>4, AppendOwnedShown DEF RInv
    <2>. HIDE DEF Effect
    <2>. QED  BY <2>1, <2>2, <2>3, <2>4
  <1>3. Cells!Next
    BY <1>2 DEF Cells!Next
  <1>. QED  BY <1>1, <1>3 DEF StepShown

LEMMA LoopShown ==
  ASSUME RInv,
         \/ \E c \in Columns : \E tombstoned \in [1..Rows(data[c]) -> BOOLEAN] :
              StartRetain(c, tombstoned)
         \/ \E c \in Columns : \E d \in Columns \ {c} : \E rows \in Selections :
              StartCopy(c, d, rows)
         \/ CopyRow \/ EndCopy \/ RetainRow \/ EndRetain
  PROVE  StepShown
  <1>1. ASSUME NEW c \in Columns, NEW tombstoned \in [1..Rows(data[c]) -> BOOLEAN],
               StartRetain(c, tombstoned)
        PROVE  StepShown
    <2>1. /\ CopyFollows' /\ RetainFollows'
          /\ \E kept \in SUBSET DOMAIN Shown[c] : Cells!Retain(c, kept)
      BY <1>1, StartRetainShown DEF RInv
    <2>2. Cells!Next
      BY <2>1 DEF Cells!Next, Shown
    <2>. QED  BY <2>1, <2>2 DEF StepShown
  <1>2. ASSUME NEW c \in Columns, NEW d \in Columns \ {c}, NEW rows \in Selections,
               StartCopy(c, d, rows)
        PROVE  StepShown
    BY <1>2, StartCopyShown DEF RInv, StepShown
  <1>3. CASE CopyRow
    BY <1>3, CopyRowShown DEF StepShown
  <1>4. CASE EndCopy
    <2>1. loop' = Idle
      BY <1>4 DEF EndCopy
    <2>2. \E c \in Columns : \E d \in Columns \ {c} : \E rows \in Selections :
            Cells!CopyRows(c, d, rows)
      BY <1>4, EndCopyShown
    <2>3. Cells!Next
      BY <2>2 DEF Cells!Next
    <2>. QED  BY <2>1, <2>3, LoopIsOver DEF StepShown
  <1>5. CASE RetainRow
    BY <1>5, RetainRowShown DEF StepShown
  <1>6. CASE EndRetain
    <2>1. loop' = Idle
      BY <1>6 DEF EndRetain
    <2>. QED  BY <1>6, <2>1, LoopIsOver, EndRetainShown DEF StepShown
  <1>. QED  BY <1>1, <1>2, <1>3, <1>4, <1>5, <1>6

LEMMA BorrowShown ==
  ASSUME RInv, NEW c \in Columns,
         ViewMut(c) \/ Release(c) \/ \E v \in views[c], mid \in Nat : SplitAt(c, v, mid)
  PROVE  StepShown
  <1>1. data' = data /\ loop' = loop
    BY DEF ViewMut, Release, SplitAt
  <1>2. Shown' = Shown
    BY <1>1, NothingShown
  <1>3. CopyFollows' /\ RetainFollows'
    BY <1>1, LoopGoesOn
  <1>. QED  BY <1>2, <1>3 DEF StepShown

LEMMA SetShown ==
  ASSUME RInv, NEW c \in Columns, NEW v \in views[c], NEW i \in 1..v.rows,
         NEW value \in Texts \cup {NULL},
         \/ SetCell(c, v, i, SlotOf(data[c], v, i), value)
         \/ SetCell(c, v, i, ChunkOf(data[c], v, i), value)
  PROVE  StepShown
  <1>1. loop' = loop /\ \A d \in Columns : views[d] = {} => data'[d] = data[d]
    BY DEF SetCell, RInv, IInv
  <1>2. CopyFollows' /\ RetainFollows'
    BY <1>1, LoopGoesOn
  <1>3. (\E k \in DOMAIN Shown[c] : Cells!Set(c, k, value)) \/ Shown' = Shown
    BY SetCellShown DEF RInv
  <1>4. ASSUME NEW k \in DOMAIN Shown[c], Cells!Set(c, k, value) PROVE Cells!Next
    BY <1>4 DEF Cells!Next, Shown
  <1>. QED  BY <1>2, <1>3, <1>4 DEF StepShown

LEMMA EditShown ==
  ASSUME RInv, NEW c \in Columns, NEW v \in views[c], NEW i \in 1..v.rows, NEW text \in Texts,
         EditCell(c, v, i, text)
  PROVE  StepShown
  <1>1. loop' = loop /\ \A d \in Columns : views[d] = {} => data'[d] = data[d]
    BY DEF EditCell, RInv, IInv
  <1>2. CopyFollows' /\ RetainFollows'
    BY <1>1, LoopGoesOn
  <1>3. PICK k \in DOMAIN Shown[c] : Cells!Set(c, k, text)
    BY EditCellShown DEF RInv
  <1>4. Cells!Next
    BY <1>3 DEF Cells!Next, Shown
  <1>. QED  BY <1>2, <1>4 DEF StepShown

LEMMA NextShown == RInv /\ [Next]_vars => StepShown
  <1>. SUFFICES ASSUME RInv, [Next]_vars PROVE StepShown
    OBVIOUS
  <1>1. CASE UNCHANGED vars
    <2>1. data' = data /\ loop' = loop
      BY <1>1 DEF vars
    <2>. QED  BY <2>1, NothingShown, LoopGoesOn DEF StepShown
  <1>2. ASSUME NEW c \in Columns,
               \/ \E value \in Texts \cup {NULL} : Push(c, value)
               \/ Pop(c)
               \/ \E d \in Columns \ {c} : AppendFrom(c, d) \/ AppendOwned(c, d)
        PROVE  StepShown
    BY <1>2, WholeColumnShown
  <1>3. ASSUME NEW c \in Columns, NEW d \in Columns \ {c}, NEW rows \in Selections,
               StartCopy(c, d, rows)
        PROVE  StepShown
    BY <1>3, LoopShown
  <1>4. ASSUME NEW c \in Columns, NEW tombstoned \in [1..Rows(data[c]) -> BOOLEAN],
               StartRetain(c, tombstoned)
        PROVE  StepShown
    BY <1>4, LoopShown
  <1>5. ASSUME NEW c \in Columns,
               ViewMut(c) \/ Release(c) \/ \E v \in views[c] : \E mid \in 0..v.rows : SplitAt(c, v, mid)
        PROVE  StepShown
    BY <1>5, BorrowShown
  <1>6. ASSUME NEW c \in Columns, NEW v \in views[c], NEW i \in 1..v.rows,
               NEW value \in Texts \cup {NULL},
               \/ SetCell(c, v, i, SlotOf(data[c], v, i), value)
               \/ SetCell(c, v, i, ChunkOf(data[c], v, i), value)
        PROVE  StepShown
    BY <1>6, SetShown
  <1>7. ASSUME NEW c \in Columns, NEW v \in views[c], NEW i \in 1..v.rows, NEW text \in Texts,
               EditCell(c, v, i, text)
        PROVE  StepShown
    BY <1>7, EditShown
  <1>8. CASE CopyRow \/ EndCopy \/ RetainRow \/ EndRetain
    BY <1>8, LoopShown
  <1>. QED  BY <1>1, <1>2, <1>3, <1>4, <1>5, <1>6, <1>7, <1>8 DEF Next

LEMMA RInvHolds == Spec => []RInv
  <1>1. Init => RInv
    BY InitInv, InitShown DEF RInv
  <1>2. RInv /\ [Next]_vars => RInv'
    BY NextInv, NextShown DEF RInv, StepShown
  <1>. QED  BY <1>1, <1>2, PTL DEF Spec

-----------------------------------------------------------------------------
(* Theorems.                                                               *)

\* Whatever is pushed, popped, copied, appended, written and compacted, in
\* columns of any capacity and length, row i's slot is the i-th: iter_mut's
\* chunks_exact_mut and cell_mut's descriptors agree (fixed_string.rs:338, 291).
THEOREM RowsHaveTheirSlots == Spec => []SlotsInOrder
  <1>1. IInv => SlotsInOrder
    <2>1. ASSUME IInv, Copying PROVE Slotted(loop.result)
      BY <2>1, LoopKinds DEF CopyInOrder, Sound
    <2>. QED  BY <2>1 DEF IInv, SlotsInOrder, Sound
  <1>. QED  BY <1>1, InvHolds, PTL

\* retain_live may compact in place: it never writes a slot that it has not read
\* (fixed_string.rs:172).
THEOREM CompactionIsInPlace == Spec => []CompactionStaysBehind
  <1>1. IInv => CompactionStaysBehind
    <2>1. ASSUME IInv, Retaining
          PROVE  loop.destination <= loop.row /\ Slotted(data[loop.column])
      <3>1. RetainInOrder
        BY <2>1, LoopKinds
      <3>2. loop.row \in Nat /\ loop.destination \in 0..loop.row
        <4>1. Rows(data[loop.column]) \in Nat
          BY <2>1, <3>1 DEF IInv, RetainInOrder, Sound, ColumnData, Rows
        <4>. QED  BY <3>1, <4>1 DEF RetainInOrder
      <3>. QED  BY <2>1, <3>1, <3>2 DEF IInv, RetainInOrder, Sound
    <2>. QED  BY <2>1 DEF CompactionStaysBehind
  <1>. QED  BY <1>1, InvHolds, PTL

\* Every row has the slot of its position, between calls and during the loops.
THEOREM SlotsStayInOrder == Spec => []SlotsFollow
  BY RowsHaveTheirSlots, CompactionIsInPlace, PTL DEF SlotsFollow

\* However a column is split, a view's rows are in its own part of the buffer,
\* which is what split_at_mut hands it (fixed_string.rs:316).
THEOREM ViewsReachTheirSlots == Spec => []ViewsReachOwnSlots
  <1>1. IInv => ViewsReachOwnSlots
    <2>1. ASSUME IInv, NEW c \in Columns, NEW v \in views[c]
          PROVE  v.start = v.first * data[c].capacity /\ v.size = v.rows * data[c].capacity
      BY <2>1 DEF IInv, Placed
    <2>2. ASSUME IInv, NEW c \in Columns, NEW v \in views[c], NEW i \in 1..v.rows
          PROVE  /\ SlotOf(data[c], v, i) = ChunkOf(data[c], v, i)
                 /\ SlotOf(data[c], v, i) \in v.start..(v.start + v.size - data[c].capacity)
      <3>. DEFINE D == data[c]
                  slot == SlotOf(D, v, i)
      <3>1. Sound(D) /\ Placed(D, v)
        BY <2>2 DEF IInv
      <3>2. /\ slot = ChunkOf(D, v, i)
            /\ v.start \in Nat /\ v.size \in Nat /\ D.capacity \in Nat
            /\ v.start <= slot /\ slot + D.capacity <= v.start + v.size
        BY <3>1, OwnSlot
      <3>3. slot \in Nat
        BY <3>1, OwnSlot
      <3>. HIDE DEF slot
      <3>4. slot \in v.start..(v.start + v.size - D.capacity)
        BY <3>2, <3>3
      <3>. QED  BY <3>2, <3>4 DEF slot
    <2>. QED  BY <2>1, <2>2 DEF ViewsReachOwnSlots
  <1>. QED  BY <1>1, InvHolds, PTL

\* The rows that mutable views reach are never shared (fixed_string.rs:316).
THEOREM ViewsDoNotOverlap == Spec => []ViewsDisjoint
  <1>1. IInv => ViewsDisjoint
    BY DEF IInv
  <1>. QED  BY <1>1, InvHolds, PTL

\* Both halves of a split may be written without a lock (fixed_string.rs:316).
THEOREM ViewsAreExclusive == Spec => []ViewsOwnSlots
  BY ViewsReachTheirSlots, ViewsDoNotOverlap, PTL DEF ViewsOwnSlots

\* from_utf8_unchecked is right at every read: the bytes of a row are a text
\* that was accepted, also while the column is copied or compacted
\* (fixed_string.rs:223).
THEOREM EveryReadIsText == Spec => []ReadsAreTexts
  <1>1. IInv => ReadsAreTexts
    <2>1. ASSUME IInv, NEW c \in Columns, NEW i \in 1..Rows(data[c])
          PROVE  TextOf(data[c], i) \in Texts \cup {NULL}
      BY <2>1, ReadText DEF IInv
    <2>2. ASSUME IInv, Copying, NEW i \in 1..Rows(loop.result)
          PROVE  TextOf(loop.result, i) \in Texts \cup {NULL}
      BY <2>2, LoopKinds, ReadText DEF CopyInOrder
    <2>. QED  BY <2>1, <2>2 DEF ReadsAreTexts
  <1>. QED  BY <1>1, InvHolds, PTL

\* Columns and views have their types.
THEOREM TypesHold == Spec => []TypeOK
  <1>1. IInv => TypeOK
    <2>1. ASSUME IInv, NEW c \in Columns
          PROVE  /\ data[c].capacity \in Nat \ {0} /\ data[c].nullable \in BOOLEAN
                 /\ data[c].indices \in Seq([offset : Nat, length : Nat \cup {NULL}])
                 /\ data[c].buffer \in Seq(Bytes)
      BY <2>1 DEF IInv, Sound, ColumnData, Descriptors
    <2>2. ASSUME IInv, NEW c \in Columns, NEW v \in views[c]
          PROVE  /\ v.first + v.rows <= Rows(data[c])
                 /\ v.start + v.size <= Len(data[c].buffer) /\ v.base \in Nat
      <3>1. Placed(data[c], v) /\ Sound(data[c])
        BY <2>2 DEF IInv
      <3>2. /\ v.first \in Nat /\ v.rows \in Nat /\ Rows(data[c]) \in Nat
            /\ data[c].capacity \in Nat /\ v.first + v.rows <= Rows(data[c])
            /\ v.start = v.first * data[c].capacity /\ v.size = v.rows * data[c].capacity
            /\ Len(data[c].buffer) = Rows(data[c]) * data[c].capacity /\ v.base \in Nat
        BY <3>1 DEF Placed, View, Sound, Slotted, ColumnData, Rows
      <3>3. v.first + v.rows \in Nat
        BY <3>2
      <3>4. (v.first + v.rows) * data[c].capacity
              = v.first * data[c].capacity + v.rows * data[c].capacity
        BY <3>2, SlotsOfBoth
      <3>5. (v.first + v.rows) * data[c].capacity <= Rows(data[c]) * data[c].capacity
        BY <3>2, <3>3, FewerSlots
      <3>. QED  BY <3>2, <3>4, <3>5
    <2>3. ASSUME IInv, Retaining
          PROVE  views[loop.column] = {} /\ Len(loop.tombstoned) = Rows(data[loop.column])
      <3>1. RetainInOrder
        BY <2>3, LoopKinds
      <3>2. Rows(data[loop.column]) \in Nat
        BY <2>3, <3>1 DEF IInv, RetainInOrder, Sound, ColumnData, Rows
      <3>. QED  BY <3>1, <3>2 DEF RetainInOrder
    <2>4. ASSUME IInv, Copying PROVE views[loop.from] = {} /\ views[loop.to] = {}
      BY <2>4, LoopKinds DEF CopyInOrder
    <2>. QED  BY <2>1, <2>2, <2>3, <2>4 DEF TypeOK
  <1>. QED  BY <1>1, InvHolds, PTL

\* Slots, offsets, views and the loops that move rows cannot be told from
\* sequences of texts: a column that is compacted row by row changes at once, as a
\* copy of chosen rows does, and a write through a view changes its own cell.
THEOREM SlotsAreInvisible == Spec => ImplementsTexts
  <1>1. Init => Cells!Init
    BY InitShown
  <1>2. RInv /\ [Next]_vars => [Cells!Next]_([c \in Columns |-> Visible(c)])
    BY NextShown DEF StepShown, Shown
  <1>. QED  BY <1>1, <1>2, RInvHolds, PTL DEF Spec, ImplementsTexts, Cells!Spec
=============================================================================
